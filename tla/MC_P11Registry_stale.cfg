CONSTANTS
  a1 = a1
  a2 = a2
  Addrs <- MCAddrs
  t1 = t1
  t2 = t2
  none = none
  Tokens <- MCTokens
  NoToken = none
  MechsOf <- MCMechsOf
  LabelOf <- MCLabelOf
  PinOf <- MCPinOf
  JINT_MAX = 2147483647
  MaxEvents = 1
  MaxAllocs = 4
  StaleCalls = TRUE
  SessIds = {1, 2}
SPECIFICATION Spec
INVARIANT JavaCallsFaithful
