CONSTANTS
  d1 = d1
  Drives = {d1}
  Calls = {"connect", "run", "stop", "start_homing", "disconnect", "close", "reconnect"}
  MaxCalls = 3
  MaxDrops = 1
  LossCycles = 1
  WaitCycles = 0
  AutoReconnect = FALSE
  AutoReconnectHome = FALSE
  AutoReconnectLimit = FALSE
  AutoHome = TRUE
  LoopMayThrow = FALSE
SPECIFICATION FairSpec
CHECK_DEADLOCK FALSE
PROPERTIES CallsReturn
INVARIANTS FaultHasCause FaultQuickStops
