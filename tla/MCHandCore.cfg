CONSTANTS
  d1 = d1
  Drives = {d1}
  Calls = {"connect", "run", "home", "stop", "set_command", "reconnect"}
  MaxCalls = 5
  MaxDrops = 0
  LossCycles = 1
  WaitCycles = 0
  AutoReconnect = FALSE
  AutoReconnectHome = FALSE
  AutoReconnectLimit = FALSE
  AutoHome = FALSE
  LoopMayThrow = TRUE
SPECIFICATION Spec
CHECK_DEADLOCK FALSE
INVARIANTS VoidedCommandStaysOff TargetsNeedOrigin StopReachesTheWire OneControlLoop
PROPERTIES ImplementsWireContract
