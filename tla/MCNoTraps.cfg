SPECIFICATION FairSpec
CONSTANTS
  NAddr = 6
  NReg = 3
  LinkReg = 2
  MemWord <- OneWord
  Dev <- AllRam
  Pos = {3}
  LowPos = 3
  Byte = {0}
  BeginPC = 0
  Unmapped = {}
  Code <- CodeNoTraps
  SRValue <- SRNone
  TimerMatch = {FALSE}
  UartLine = {FALSE}
  DataMiss = {FALSE}
  ALUWord <- OneValue
INVARIANTS TypeOK
PROPERTIES ImplementsISA StallsEnd
