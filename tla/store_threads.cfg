SPECIFICATION Spec
CONSTANTS
  k1 = k1
  k2 = k2
  d1 = d1
  t1 = t1
  t2 = t2
  Key = {k1, k2}
  Data = {d1}
  Thread = {t1, t2}
  LatestTime = 2
  Timestamp <- MCTimestamp
  Absent = Absent
SYMMETRY MCSymmetry
INVARIANT TypeOK
INVARIANT AckedFloor
PROPERTY SharedRegisterSpec
