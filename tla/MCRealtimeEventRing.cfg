SPECIFICATION FairSpec
CONSTANTS
  Capacity = 2
  MaxEvents = 6
  MaxThrows = 2
INVARIANTS
  NothingUnaccounted
PROPERTIES
  EveryEventIsLogged
  ImplementsEventQueue
CHECK_DEADLOCK FALSE
