---------------------------- MODULE MCCtlChannel ----------------------------
(* An instance of CtlChannel for TLC. *)
EXTENDS CtlChannel

SomeKinds == {"ping", "set_on", "toolong"}
=============================================================================
