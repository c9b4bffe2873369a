CONSTANTS
  Offers <- TwoSources
  Wishes <- SomeWishes
  Preferences = {}
  MaxSourceCapsRetriesBeforeHardReset = 2
  BusPowered = FALSE
  Answers = TRUE
  Preemptible = TRUE
  MaxRequests = 1
  MaxLosses = 1
  MaxResets = 0
  MaxOffers = 1
  MaxRejects = 1
  MaxPlugs = 1
SPECIFICATION Spec
INVARIANTS PollingGoesOn ApplicationKnows
CHECK_DEADLOCK FALSE
