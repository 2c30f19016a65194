CONSTANTS
  d1 = d1
  Drives = {d1}
  Calls = {"connect", "start_homing", "set_command", "disconnect"}
  MaxCalls = 4
  MaxDrops = 1
  LossCycles = 1
  WaitCycles = 0
  AutoReconnect = TRUE
  AutoReconnectHome = TRUE
  AutoReconnectLimit = TRUE
  AutoHome = FALSE
  LoopMayThrow = FALSE
SPECIFICATION Spec
CHECK_DEADLOCK FALSE
INVARIANTS HomedOnThisLink HomingWasAsked
PROPERTIES ImplementsWireContract
