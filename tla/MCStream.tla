------------------------------ MODULE MCStream ------------------------------
(* TLC instance of Stream. *)
EXTENDS Stream
=============================================================================
