SPECIFICATION FairSpec
CONSTANTS
  MaxCuts = 2
  MaxTroubles = 1
  MaxLines = 1
  Programs <- AllPrograms
  Verbs <- SomeVerbs
  
PROPERTIES ShutdownEndsIt FaultIsSeen QuitEndsTheServer
CHECK_DEADLOCK FALSE
