SPECIFICATION Spec
CONSTANTS
  a1 = a1
  a2 = a2
  o1 = o1
  v1 = v1
  m1 = m1
  m2 = m2
  m3 = m3
  m4 = m4
  Handlers <- TwoAdmins
  OfferBlocks <- OneOfferBlock
  VideoBlocks <- OneVideoBlock
  Assets <- FourAssets
  MaxVideos = 2
  PageAssets = 1
  MaxOperations = 3
  Faults <- AllFaults
SYMMETRY Symmetry
INVARIANTS
  TypeOK
  RowsHaveObjects
  ObjectsAccountedFor
  CarouselCap
CHECK_DEADLOCK FALSE
