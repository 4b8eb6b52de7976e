CONSTANTS
  o1 = o1
  o2 = o2
  o3 = o3
  o4 = o4
  a1 = a1
  a2 = a2
  Junk = Junk
  NullAttr = NullAttr
  BLK = 1
  Objects <- MCObjects
  Attrs <- MCAttrs
  Has <- MCHas
  ENUM_HANDLES_BLOCK_SZ <- MCBLOCK
  AllocMayFail = TRUE
  Short = {}
  Filters <- MCFilters
SPECIFICATION Spec
INVARIANTS
  TypeOK
  
PROPERTY
  EnumImplementsAbstract
