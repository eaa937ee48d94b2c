------------------------------ MODULE MCTriage ------------------------------
(* Instances of Triage for TLC. *)
EXTENDS Triage

CONSTANTS a1, a2, a3, g1

\* Three alerts of one dedup group.
OneGroup == [a \in Alerts |-> g1]

\* a3 has a NULL in its group key.
OneOutsider == [a \in Alerts |-> IF a = a3 THEN NoGroup ELSE g1]
=============================================================================
