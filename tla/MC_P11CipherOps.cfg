CONSTANTS
  NULL = NULL
  BLK <- MCBLK
  ArrLens <- MCArrLens
  Offs <- MCOffs
  Lens <- MCLens
  MaxIn <- MCMaxIn
  W <- MCW
  AllocMayFail = TRUE
SPECIFICATION Spec
INVARIANTS
  TypeOK
  CapacityWithinOutputArray
  OutputInOrder
