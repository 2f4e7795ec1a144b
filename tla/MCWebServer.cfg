SPECIFICATION Spec
CONSTANTS
  Hosts = {1, 2}
  Kits <- MCKits
  MYDATA <- MCPage
  CHUNK_LEN = 2
  TIMEOUT = 8
  SeqSpace = 2048
  FifoSize = 1
  Pings <- MCPings
CHECK_DEADLOCK FALSE
INVARIANTS EchoIsTrue AcksOnlyWhatWasSent StandstillHasACause
PROPERTIES PageAsPromised TransferEnds EveryoneIsAccepted ProbesAnswered
