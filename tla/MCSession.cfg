SPECIFICATION Spec
CONSTANTS
  NEntry = 2
  Contents <- MCMemory
  Instructions <- MCInstructions
  Lines <- MCLines
  Integers32 <- MCIntegers
  DataStart <- MCDataStart
  DataEnd <- MCDataEnd
  MaxData <- MCMaxData
  ProgramCalls <- MCCalls
  ProgramPrints <- MCPrints
  ProgramFaults <- MCFaults
  Kits <- MCKits
  FaultAddress <- MCFaultAddress
  Leftovers <- MCLeftovers
  MaxUnread = 6
  MaxEvents = 3
  MaxTyped = 2
CHECK_DEADLOCK FALSE
INVARIANTS TypeOK InStep NoOverrun ShadowIsTheTLB WrittenIsStored BlocksAreDisjoint
PROPERTIES ShownIsTrue AnswersArrive PagesAsAsked CommandsEnd
