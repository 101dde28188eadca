------------------------------ MODULE MCDisplay ------------------------------
(* A ring of seven samples at one rate and of two at the other. *)
EXTENDS Display
RingSize(r) == IF r = "fast" THEN 7 ELSE 2
==============================================================================
