SPECIFICATION FairSpec
CONSTANTS
  Actuators = {"m1", "m2"}
  Disabled = {"m2"}
  LossCycles = 1
  Anomalies = {"Error"}
  MaxQueue = 1
  MaxTrips = 1
INVARIANTS NothingInherited SilenceIsNoticed TransmitFaultIsReal DisabledNeverPowered
PROPERTIES FaultIsReset
CHECK_DEADLOCK FALSE
