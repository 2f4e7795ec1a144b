SPECIFICATION Spec
CONSTANTS
  NAddr = 1
  NReg = 2
  LinkReg = 1
  MemWord <- Words
  Dev <- Registers
  Pos <- LowOnly
  LowPos = 3
  Byte <- TwoBits
  DataBits = 2
  DontCare = 1
  Written <- OneByte
  Typed <- TwoBytes
  MaxCpu = 3
  MaxUart = 1
PROPERTY FetchedOnce
