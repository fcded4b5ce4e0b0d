SPECIFICATION Spec
CHECK_DEADLOCK FALSE
CONSTANTS
  a = a
  b = b
  c = c
  d = d
  p1 = p1
  p2 = p2
  None = None
  Node = {a, b}
  Put = {p1, p2}
  Get = {}
  Ring <- RingOfTwo
  N = 2
  W = 2
  R = 1
  Coordinator = {a, b}
  LatestTime = 1
  Timestamp <- Times
  Workers = 2
INVARIANT AcknowledgedIsRecoverable
