SPECIFICATION Spec
CHECK_DEADLOCK FALSE
CONSTANTS
  a = a
  b = b
  c = c
  d = d
  p1 = p1
  p2 = p2
  g1 = g1
  None = None
  Node = {a, b}
  Put = {p1, p2}
  Get = {g1}
  Ring <- RingOfTwo
  N = 2
  W = 1
  R = 1
  Coordinator = {a}
  LatestTime = 1
  Timestamp <- Times
  Workers = 2
SYMMETRY RequestSymmetry
INVARIANT TypeOK
INVARIANT ExecutedIsKept
INVARIANT QuorumFreshness
INVARIANT ReadRepairAgrees
INVARIANT AckedSurvives
PROPERTY ReplicasAreStores
