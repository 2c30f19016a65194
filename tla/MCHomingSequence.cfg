CONSTANTS
  a1 = a1
  a2 = a2
  Actuators = {a1, a2}
  EnableCycles = 3
  ClearCycles = 2
  PreloadCycles = 1
  SettleCycles = 2
  EdgeCycles = 2
  TriggerCycles = 3
  MaxStarts = 2
SPECIFICATION FairSpec
CHECK_DEADLOCK FALSE
INVARIANTS SuccessIsEarned EndsWithinBudget CulpritsTookPart
PROPERTIES NoSlipAfterPush HomingEnds
