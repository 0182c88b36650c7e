--------------------------- MODULE MCIdempotency ---------------------------
(* The Idempotency middleware for TLC. *)
EXTENDS Idempotency, TLC

\* Callers and fingerprints are interchangeable.
Symmetry == Permutations(Callers) \cup Permutations(Prints)

====
