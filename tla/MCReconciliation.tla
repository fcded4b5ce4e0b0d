-------------------------- MODULE MCReconciliation --------------------------
(* Small instances of Reconciliation for TLC. *)
EXTENDS Reconciliation, TLC

CONSTANT LatestTime     \* timestamps are 0 .. LatestTime

CONSTANTS a, b, c, k1, k2

Clock == 0 .. LatestTime

\* Rings of three nodes with preference lists of two; c comes back and each peer
\* is the designated sender of one key.
SharedOrder == k1 :> <<c, a, b>> @@ k2 :> <<b, c, a>>

\* Preference lists of three: both peers hold the key, a sends it.
TripleOrder == k1 :> <<a, c, b>>
=============================================================================
