SPECIFICATION Spec
CONSTANTS
  a1 = a1
  a2 = a2
  a3 = a3
  k1 = k1
  k2 = k2
  k3 = k3
  k4 = k4
  n1 = n1
  c1 = c1
  c2 = c2
  Handlers <- TwoAdmins
  Blocks <- FourBlocks
  Names <- OneName
  Configs <- TwoConfigs
  MaxBlocks = 2
  MaxSlot = 2
  MaxOrder = 1
  MaxBanners = 1
  MaxOperations = 3
SYMMETRY Symmetry
INVARIANTS
  TypeOK
  SlotsWereChosen
PROPERTIES
  CapHoldsAlone
  ReorderTakesEffect
  LoadReplacesAll
  SnapshotIsFaithful
CHECK_DEADLOCK FALSE
