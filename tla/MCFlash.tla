------------------------------- MODULE MCFlash -------------------------------
(* Two boards, two names, two commits. *)
EXTENDS Flash
==============================================================================
