SPECIFICATION Spec
CONSTANTS
  Programs = {"a", "b"}
  Side <- MCSameHand
  Config <- MCConfig
  Channels = {"can0", "can1"}
  Wiring <- MCWiring
  MaxFailures = 1
  MaxEvents = 1
INVARIANTS SocketsAreOwned BroughtUpConfigured
PROPERTIES MasterIsNoticed ScanFindsItsHand
CHECK_DEADLOCK FALSE
