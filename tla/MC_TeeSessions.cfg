CONSTANTS
  t1 = t1
  t2 = t2
  s1 = s1
  s2 = s2
  h1 = h1
  m1 = m1
  NoShm = NoShm
  NoSession = NoSession
  NoFrame = NoFrame
  Threads <- MCThreads
  Sids <- MCSids1
  Hashes <- MCHashes
  SmIds <- MCSmIds
  MaxCalls = 2
SPECIFICATION Spec
INVARIANTS TypeOK OperationsMapLive

