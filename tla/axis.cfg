CONSTANTS
  Segments <- SmallProfile
  LowArr = 12
  TotalSteps = 4
  Positions <- Stations
  MaxMoves = 3
  MaxPosition = 40
  Preemptible = FALSE
  TravelOpposite = 2
  SettlePause = 1
  DeadTime = 4
  Timeout = 4
  SgSettling = 2
  Length = 5
  HomingSpeed <- Towards0
  TuneRounds = 1
  Setups <- Arguments
  Stale = {0, 1}
  WriteFaults = {"failed", "dropped", "late"}
  MaxFaults = 1
  MaxCalls = 2
  MaxRestarts = 1
  MaxElapsed = 6
  MaxLag = 1
SPECIFICATION AxisFairSpec
INVARIANTS AxisTypeOK MotorObeys QuietAfterHoming PositionIsTrue
PROPERTIES HomingEnds
CHECK_DEADLOCK FALSE
