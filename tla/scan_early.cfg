SPECIFICATION FairSpec
CHECK_DEADLOCK FALSE
CONSTANTS
  a = a
  b = b
  c = c
  k1 = k1
  k2 = k2
  Returner = c
  Peer = {a, b}
  Key = {k1}
  Order <- SharedOrder
  N = 2
  LatestTime = 0
  Timestamp <- Clock
  MaxRestarts = 1
  MaxEvents = 1
  LinkFails = FALSE
  PeersFail = FALSE
  Writes = FALSE
PROPERTY FullRangePushed
