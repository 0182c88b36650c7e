----------------------------- MODULE MCRotation -----------------------------
(* TLC instance of Rotation: a model that one provider serves on three
   routes, one more than a request may try. *)
EXTENDS Rotation, TLC

CONSTANTS p1, a, b, c

MCProviderOf == [r \in {a, b, c} |-> p1]
MCPriority == [r \in {a, b, c} |-> CASE r = a -> 1 [] r = b -> 2 [] r = c -> 3]

\* Requests in flight are interchangeable.
Symmetry == Permutations(Workers)
=============================================================================
