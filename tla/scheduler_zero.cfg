CONSTANTS
  t1 = t1
  t2 = t2
  Tasks = {t1, t2}
  Delays = {0, 2, 5}
  TimeMod = 16
  ExpiryLimit = 9
  MaxReload = 3
  Capacity = 2
  MaxCalls = 2
  MaxDepth = 2
  MaxLag = 1
  MaxLate = 3
SPECIFICATION FairSpec
PROPERTIES TasksAreExecuted
CHECK_DEADLOCK FALSE
