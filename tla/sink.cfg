CONSTANTS
  Offers <- TwoSources
  Wishes <- SomeWishes
  Preferences <- TwoPreferences
  MaxSourceCapsRetriesBeforeHardReset = 2
  BusPowered = FALSE
  Answers = FALSE
  Preemptible = FALSE
  MaxRequests = 1
  MaxLosses = 0
  MaxResets = 1
  MaxOffers = 0
  MaxRejects = 0
  MaxPlugs = 3
SPECIFICATION FairSpec
INVARIANTS TypeOK PollsOnce ActiveIsContract RequestsAreOffered PpsKeptAlive
PROPERTIES SourceIsFound
CHECK_DEADLOCK FALSE
