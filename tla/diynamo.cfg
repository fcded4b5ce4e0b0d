SPECIFICATION Spec
CONSTANTS
  a = a
  b = b
  c = c
  p1 = p1
  p2 = p2
  None = None
  Node = {a, b, c}
  Replica = {a, b}
  Put = {p1, p2}
  W = 2
  LatestTime = 1
  Timestamp <- Times
  MaxWiped = 2
SYMMETRY ClusterSymmetry
INVARIANT TypeOK
INVARIANT Durable
INVARIANT Survives
