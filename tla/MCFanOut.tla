------------------------------ MODULE MCFanOut ------------------------------
(* An instance of FanOut for TLC. *)
EXTENDS FanOut, TLC

Symmetry == Permutations(Subscribers)
=============================================================================
