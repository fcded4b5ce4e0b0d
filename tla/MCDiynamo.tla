----------------------------- MODULE MCDiynamo -----------------------------
(* Small instances of Diynamo for TLC. *)
EXTENDS Diynamo, TLC

CONSTANT LatestTime     \* the clocks return 0 .. LatestTime

Times == 0 .. LatestTime

\* Nothing orders puts, replicas or the other nodes.
ClusterSymmetry == Permutations(Put) \cup Permutations(Replica) \cup Permutations(Node \ Replica)
=============================================================================
