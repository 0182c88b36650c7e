---------------------------- MODULE MCSettlement ----------------------------
(* Settlement and replay for TLC. *)
EXTENDS Settlement, TLC

\* Requests and rounds are interchangeable.
Symmetry == Permutations(Requests) \cup Permutations(Replayers)

====
