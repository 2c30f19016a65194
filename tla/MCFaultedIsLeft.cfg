CONSTANTS
  d1 = d1
  Drives = {d1}
  Calls = {"connect", "run"}
  MaxCalls = 2
  MaxDrops = 1
  LossCycles = 1
  WaitCycles = 2
  AutoReconnect = FALSE
  AutoReconnectHome = FALSE
  AutoReconnectLimit = FALSE
  AutoHome = FALSE
  LoopMayThrow = FALSE
SPECIFICATION Spec
CHECK_DEADLOCK FALSE
PROPERTIES
  FaultedUntilReconnect
