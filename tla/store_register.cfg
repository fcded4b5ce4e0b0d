SPECIFICATION Spec
CONSTANTS
  k1 = k1
  k2 = k2
  d1 = d1
  d2 = d2
  t1 = t1
  Key = {k1, k2}
  Data = {d1, d2}
  Thread = {t1}
  LatestTime = 2
  Timestamp <- MCTimestamp
  Absent = Absent
PROPERTY LWWRegisterSpec
