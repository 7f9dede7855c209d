SPECIFICATION Spec
CONSTANTS
  checkout = checkout
  a1 = a1
  a2 = a2
  Checkout <- checkout
  Admins <- TwoAdmins
  MaxRequests = 3
  MaxLost = 2
  Persistent = FALSE
  Faults <- AllFaults
  Origins <- AnyOrigin
SYMMETRY AdminSymmetry
INVARIANTS
  TypeOK
  UnreviewedNeverSent
  AttemptsCountSends
  HandoffOnce
  ClaimIsExclusive
  DeliveryDataAgrees
CHECK_DEADLOCK FALSE
