SPECIFICATION Spec
CONSTANTS
  NAddr = 3
  NReg = 3
  LinkReg = 2
  MemWord <- OneWord
  Dev <- AllRam
  Pos = {3}
  LowPos = 3
  Byte = {0}
  BeginPC = 0
  Unmapped = {2}
  Code <- CodeAnything
  SRValue <- SRAny
  TimerMatch = {FALSE}
  UartLine = {FALSE, TRUE}
  DataMiss = {FALSE, TRUE}
  ALUWord <- OneValue
INVARIANTS HazardInv NoStaleOperand NoIssueLost SbHasTheStage DecodesThePC
PROPERTIES TrapsReachTheHandler DataMissInStep
