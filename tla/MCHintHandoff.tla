--------------------------- MODULE MCHintHandoff ---------------------------
(* Small instances of HintHandoff for TLC. *)
EXTENDS HintHandoff

CONSTANT LatestTime     \* coordinators' timestamps are 0 .. LatestTime

MCTimestamp == 0 .. LatestTime
=============================================================================
