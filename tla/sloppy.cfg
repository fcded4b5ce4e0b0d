SPECIFICATION FairSpec
CHECK_DEADLOCK FALSE
CONSTANTS
  a = a
  b = b
  c = c
  d = d
  p1 = p1
  g1 = g1
  None = None
  Node = {a, b, c, d}
  Put = {p1}
  Get = {g1}
  Ring <- RingOfFour
  N = 2
  W = 2
  R = 2
  Coordinator = {a, c}
  LatestTime = 0
  Timestamp <- Times
  Workers = 2
INVARIANT AcksAreCovered
INVARIANT SloppyFreshness
PROPERTY NeverSetBack
PROPERTY RequestsAnswered
PROPERTY ImplementsCluster
