----------------------------- MODULE MCPlayRing -----------------------------
(***************************************************************************)
(* TLC instances of PlayRing.                                              *)
(***************************************************************************)
EXTENDS PlayRing
=============================================================================
