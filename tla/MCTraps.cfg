SPECIFICATION Spec
CONSTANTS
  NAddr = 14
  NReg = 4
  LinkReg = 2
  MemWord <- OneWord
  Dev <- AllRam
  Pos = {3}
  LowPos = 3
  Byte = {0}
  BeginPC = 3
  Unmapped = {11}
  Code <- CodeTraps
  SRValue <- SRNone
  TimerMatch = {FALSE}
  UartLine = {FALSE}
  DataMiss = {FALSE, TRUE}
  ALUWord <- OneValue
PROPERTIES ImplementsISA DataMissEPC
