SPECIFICATION Spec
CONSTANTS
  a1 = a1
  a2 = a2
  a3 = a3
  b1 = b1
  b2 = b2
  b3 = b3
  b4 = b4
  Handlers <- ThreeAdmins
  Banners <- FourBanners
  MaxBanners = 3
  MaxOperations = 3
  Faults <- AllFaults
SYMMETRY Symmetry
INVARIANTS
  TypeOK
  PositionsInRange
  CapHolds
  RowsHaveImages
  ImagesAccountedFor
PROPERTIES
  PositionsCloseUp
CHECK_DEADLOCK FALSE
