CONSTANTS
  NULL = NULL
  BLK <- MCBLK
  ArrLens <- MCArrLens
  Offs <- MCOffs
  Lens <- MCLens
  MaxIn <- MCMaxIn
  AllocMayFail = TRUE
SPECIFICATION Spec
INVARIANTS
  TypeOK
  SignatureCoversSent
PROPERTY
  VerifyOnlyGenuine
