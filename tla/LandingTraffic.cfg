SPECIFICATION FairSpec
CONSTANTS
  w1 = w1
  w2 = w2
  Workers <- TwoWorkers
  LastDay = 2
  MaxEvents = 3
  MaxFailures = 2
  Faults <- AllFaults
INVARIANTS
  TypeOK
  NothingForgotten
  NoDoubleCount
PROPERTIES
  ImplementsLedger
  DaysArePersisted
CHECK_DEADLOCK FALSE
