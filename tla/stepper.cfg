CONSTANTS
  Segments <- SmallProfile
  LowArr = 12
  TotalSteps = 8
  Positions <- Places
  MaxMoves = 3
  MaxPosition = 40
  Preemptible = FALSE
SPECIFICATION FairSpec
INVARIANTS TowardTarget SpeedInProfile
PROPERTIES TargetReached
CHECK_DEADLOCK FALSE
