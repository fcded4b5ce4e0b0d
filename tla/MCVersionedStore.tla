------------------------- MODULE MCVersionedStore -------------------------
(* Small instances of VersionedStore for TLC. *)
EXTENDS VersionedStore, TLC

CONSTANT LatestTime     \* the clocks return 0 .. LatestTime

MCTimestamp == 0 .. LatestTime

MCSymmetry == Permutations(Key) \cup Permutations(Thread)
=============================================================================
