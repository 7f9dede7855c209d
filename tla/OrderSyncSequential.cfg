SPECIFICATION FairSpec
CONSTANTS
  checkout = checkout
  a1 = a1
  a2 = a2
  Checkout <- checkout
  Admins <- OneAdmin
  MaxRequests = 3
  MaxLost = 1
  Persistent = TRUE
  Faults <- SomeFaults
  Origins <- AnyOrigin
INVARIANTS
  HandoffOnceAlways
PROPERTIES
  ImplementsLifecycle
  RequestsAnswered
  ClaimsEnd
CHECK_DEADLOCK FALSE
