CONSTANTS
  NRetryCount = 1
  IdMod = 2
  MaxMessages = 3
  MaxSends = 3
  MaxLosses = 2
  MaxCable = 1
  MaxResets = 1
  MaxPlugs = 3
  LateIsr = FALSE
  ThreadSends = FALSE
SPECIFICATION Spec
INVARIANTS TypeOK DeliveredInOrder AckedIsDelivered TimerMeansWaiting NewMessageIsNew
CHECK_DEADLOCK FALSE
