CONSTANTS
  NRetryCount = 1
  IdMod = 2
  MaxMessages = 1
  MaxSends = 0
  MaxLosses = 1
  MaxCable = 1
  MaxResets = 1
  MaxPlugs = 1
  LateIsr = TRUE
  ThreadSends = TRUE
SPECIFICATION FairSpec
INVARIANTS TransmissionHasWakeup
PROPERTIES TransmissionEnds
CHECK_DEADLOCK FALSE
