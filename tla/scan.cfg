SPECIFICATION Spec
CHECK_DEADLOCK FALSE
CONSTANTS
  a = a
  b = b
  c = c
  k1 = k1
  k2 = k2
  Returner = c
  Peer = {a, b}
  Key = {k1}
  Order <- TripleOrder
  N = 3
  LatestTime = 0
  Timestamp <- Clock
  MaxRestarts = 1
  MaxEvents = 1
  LinkFails = TRUE
  PeersFail = TRUE
  Writes = TRUE
INVARIANT TypeOK
INVARIANT ScanRestores
