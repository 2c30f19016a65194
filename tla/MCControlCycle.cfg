SPECIFICATION Spec
CONSTANTS
  Fk <- MCFk
  Ik <- MCIk
  Reach <- MCReach
  Inputs <- MCInputs
  Efforts = {9}
  MaxEffort = 4
  Word = 4
  HomeOffset = 1
  Deadband = 2
  Stiffness = 2
  Damping = 1
  MaxSettings = 2
  Start = {0}
  MaxMoves = 1
  MaxFaults = 1
INVARIANTS SettingsInForce NoJump FrameIsBounded SourceIsTrue
CHECK_DEADLOCK FALSE
