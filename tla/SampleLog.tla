------------------------------ MODULE SampleLog ------------------------------
(***************************************************************************)
(* What a display window promises: the newest samples of one channel,      *)
(* oldest first, as many as fit; what arrives goes behind what was there,  *)
(* and a break is marked on the first sample that follows it, or on the    *)
(* oldest one shown if that sample is itself gone.                         *)
(***************************************************************************)
EXTENDS Integers, Sequences

VARIABLES
  shown,    \* the window: samples with their break marks
  cap,      \* how many samples fit
  arrived   \* the samples of the last arrival, and whether it was broken off

Least(m, n) == IF m < n THEN m ELSE n

\* The last n members of a sequence.
Newest(s, n) == [i \in 1 .. n |-> s[Len(s) - n + i]]

\* `shown` after an arrival behind `kept`.
Extends(kept) ==
  LET k == Least(Len(arrived'.codes), cap')
      n == Least(Len(kept) + k, cap')
  IN shown' = Newest(kept, n - k) \o
              [i \in 1 .. k |->
                [code  |-> arrived'.codes[Len(arrived'.codes) - k + i],
                 break |-> arrived'.broken /\ i = 1]]

Init == shown = << >> /\ cap = 0

Arrive == cap' = cap /\ Extends(shown)

\* The first arrival after the window was sized for another rate.
Restart == cap' \in Nat \ {0} /\ Extends(<< >>)

Clear == shown' = << >> /\ cap' = 0 /\ UNCHANGED arrived

Next == Arrive \/ Restart \/ Clear

Spec == Init /\ [][Next]_<< shown, cap >>
==============================================================================
