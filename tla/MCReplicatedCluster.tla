------------------------ MODULE MCReplicatedCluster ------------------------
(* Small instances of ReplicatedCluster for TLC. *)
EXTENDS ReplicatedCluster, TLC

CONSTANT LatestTime     \* the clocks return 0 .. LatestTime

CONSTANTS a, b, c, d    \* the nodes, in ring order

Times == 0 .. LatestTime

RingOfTwo == <<a, b>>
RingOfThree == <<a, b, c>>
RingOfFour == <<a, b, c, d>>

\* Puts are interchangeable; nodes are not (Ring orders them).
RequestSymmetry == Permutations(Put)
=============================================================================
