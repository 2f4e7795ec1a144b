SPECIFICATION Spec
CONSTANTS
  NAddr = 7
  NReg = 3
  LinkReg = 2
  MemWord <- OneWord
  Dev <- AllRam
  Pos = {3}
  LowPos = 3
  Byte = {0}
  BeginPC = 3
  Unmapped = {}
  Code <- CodeInterrupts
  SRValue <- SREnable
  TimerMatch = {FALSE, TRUE}
  UartLine = {FALSE, TRUE}
  DataMiss = {FALSE}
  ALUWord <- OneValue
PROPERTIES ImplementsISA
