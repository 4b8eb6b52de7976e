CONSTANTS
  a1 = a1
  a2 = a2
  Addrs <- MCAddrs
  t1 = t1
  t2 = t2
  none = none
  Tokens <- MCTokens
  NoToken = none
  MechsOf <- MCMechsOf
  LabelOf <- MCLabelOf
  PinOf <- MCPinOf
  JINT_MAX = 2147483647
  MaxEvents = 2
  MaxAllocs = 3
  StaleCalls = FALSE
  SessIds = {1, 2}
SPECIFICATION Spec
INVARIANTS MechanismsHeld LabelTrimmed
