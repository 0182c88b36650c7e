----------------------------- MODULE MCBreaker ------------------------------
(* TLC instance of Breaker: one provider with one credential. *)
EXTENDS Breaker

CONSTANTS p1, k1

MCPool == [p \in {p1} |-> {k1}]
MCLadder == [i \in 1 .. 2 |-> i]
=============================================================================
