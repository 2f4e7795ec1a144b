SPECIFICATION Spec
CONSTANTS
  NAddr = 8
  NReg = 3
  LinkReg = 2
  MemWord <- OneWord
  Dev <- AllRam
  Pos = {3}
  LowPos = 3
  Byte = {0}
  BeginPC = 3
  Unmapped = {}
  Code <- CodeInterruptedMtc0
  SRValue <- SREnable
  TimerMatch = {FALSE}
  UartLine = {FALSE, TRUE}
  DataMiss = {FALSE}
  ALUWord <- OneValue
INVARIANTS DisplacedIsInert
