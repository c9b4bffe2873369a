CONSTANTS
  Segments <- SmallProfile
  LowArr = 12
  TotalSteps = 8
  Positions <- Places
  MaxMoves = 2
  MaxPosition = 40
  Preemptible = TRUE
SPECIFICATION Spec
INVARIANTS TowardTarget
CHECK_DEADLOCK FALSE
