SPECIFICATION Spec
CONSTANTS
  a = a
  b = b
  d = d
  Old = {a, b}
  Joiner = d
  N = 2
  Vnodes = {1, 2}
  Ranks <- RanksOfThree
  NoRing = NoRing
  Put = {1}
  MaxStops = 3
INVARIANT TypeOK
INVARIANT MixedQuorumFreshness
INVARIANT GrowthFills
