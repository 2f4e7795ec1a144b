SPECIFICATION Spec
CONSTANTS
  NAddr = 1
  NReg = 2
  LinkReg = 1
  MemWord <- Words
  Dev <- OneRam
  Pos = {2, 3}
  LowPos = 3
  Byte = {0, 1}
  DataMiss = {FALSE}
  ALUWord <- TwoWords
PROPERTIES MemoryIsAtomic
