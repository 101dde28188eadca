------------------------------ MODULE MCClockRef ------------------------------
(* A number of two bits and a stall just short of its wrap. *)
EXTENDS ClockRef
===============================================================================
