SPECIFICATION Spec
CONSTANTS
  checkout = checkout
  a1 = a1
  a2 = a2
  Checkout <- checkout
  Admins <- TwoAdmins
  MaxRequests = 3
  MaxLost = 1
  Persistent = FALSE
  Faults <- NoFaults
  Origins <- FlaggedOnly
PROPERTIES
  SyncedNotSentTwice
CHECK_DEADLOCK FALSE
