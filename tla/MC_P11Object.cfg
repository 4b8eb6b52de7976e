CONSTANTS
  xb = xb
  xm = xm
  xf = xf
  Attr1 = Attr1
  NullAttr = NullAttr
  BLK = 1
  AllocMayFail = TRUE
  Types <- MCTypes
  CKA_ALLOWED_MECHANISMS = xm
  ValsOf <- MCValsOf
  ULONG_LEN = 2
  BBOOL_LEN = 1
  MECH_LEN = 2
  JINT_BITS = 4
  BrokenToken = TRUE
  Templates <- MCTemplates
  Attr = Attr1
  MaxMade = 3
SPECIFICATION Spec
INVARIANTS
  TypeOK
PROPERTIES
  ValueHeld
