------------------------------ MODULE MCGrowth ------------------------------
(* Small instances of Growth for TLC. *)
EXTENDS Growth, TLC

CONSTANTS a, b, d   \* d is the new node

\* With one position per node the new node comes second, with two it comes first;
\* with more positions no node is farther away.
RanksOfThree == {1 :> (a :> 5 @@ b :> 7 @@ d :> 6) @@ 2 :> (a :> 5 @@ b :> 3 @@ d :> 2)}
=============================================================================
