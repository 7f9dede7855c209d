SPECIFICATION Spec
CONSTANTS
  Slots = {2, 31}
  Contents <- TheContents
  Older <- TheOlder
  OfferCount = 2
  Assignments <- TheAssignments
  MaxComponents = 1
  MaxOperations = 4
INVARIANTS
  ContentSurvives
CHECK_DEADLOCK FALSE
