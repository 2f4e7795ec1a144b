SPECIFICATION FairSpec
CONSTANTS
  NAddr = 1
  NReg = 2
  LinkReg = 1
  MemWord <- Words
  Dev <- Registers
  Pos <- LowOnly
  LowPos = 3
  Byte <- TwoBits
  DataBits = 2
  DontCare = 1
  Written <- TwoBytes
  Typed <- NoByteSet
  MaxCpu = 3
  MaxUart = 1

PROPERTIES SentOnce StrobeFalls EveryByteLeaves
