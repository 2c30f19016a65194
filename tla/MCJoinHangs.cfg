CONSTANTS
  d1 = d1
  Drives = {d1}
  Calls = {"connect", "run", "close"}
  MaxCalls = 3
  MaxDrops = 1
  LossCycles = 1
  WaitCycles = 2
  AutoReconnect = TRUE
  AutoReconnectHome = FALSE
  AutoReconnectLimit = FALSE
  AutoHome = FALSE
  LoopMayThrow = FALSE
SPECIFICATION FairSpec
CHECK_DEADLOCK FALSE
PROPERTIES
  CallsReturn
