---------------------------- MODULE MCCommandLink ----------------------------
(* An instance of CommandLink for TLC. *)
EXTENDS CommandLink
==============================================================================
