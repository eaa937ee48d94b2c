------------------------------ MODULE MCReview ------------------------------
(* Instances of Review for TLC. *)
EXTENDS Review, TLC

CONSTANTS a1, a2, a3, g1

\* Three alerts of one dedup group.
OneGroup == [a \in Alerts |-> g1]

Symmetry == Permutations(Verdicts) \cup Permutations(Alerts) \cup Permutations(Sessions)
=============================================================================
