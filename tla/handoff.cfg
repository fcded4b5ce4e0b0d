SPECIFICATION FairSpec
CONSTANTS
  k1 = k1
  d1 = d1
  d2 = d2
  Key = {k1}
  Task = {d1, d2}
  LatestTime = 2
  Timestamp <- MCTimestamp
  MaxEvents = 1
  MaxCrashes = 1
INVARIANT TypeOK
INVARIANT HintKept
PROPERTY NotForgotten
PROPERTY EventDrainsHints
