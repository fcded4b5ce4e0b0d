SPECIFICATION FairSpec
CONSTANTS
  k1 = k1
  d1 = d1
  d2 = d2
  Key = {k1}
  Task = {d1, d2}
  LatestTime = 0
  Timestamp <- MCTimestamp
  MaxEvents = 1
  MaxCrashes = 0
PROPERTY HintDelivered
