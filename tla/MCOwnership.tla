---------------------------- MODULE MCOwnership ----------------------------
(* Instances of Ownership for TLC: which tracks, and which commands. *)
EXTENDS Ownership, TLC

Everything ==
  ("bare_metal" :> Starts \cup Benches \cup {"stop"}) @@
  ("rtos" :> Starts \cup FifoBenches \cup {"stop"})
PlayOnly == ("rtos" :> {"play", "stop"})
============================================================================
