------------------------------ MODULE ClockRef ------------------------------
(***************************************************************************)
(* The host's frame clock as a frequency reference (drivers/clockref.c).   *)
(*                                                                         *)
(* The controller keeps the number of the last frame it received, which    *)
(* wraps.  The main loop polls it and keeps a pair: frames counted, and    *)
(* microseconds of its own over the same span, which starts anew at each   *)
(* configuration.  The host divides the one by the other.                  *)
(*                                                                         *)
(* Time is in ticks, FRAME of them to a USB frame; polls come at any tick  *)
(* or at none.  Taken for granted of the bus, which is not in src/: the    *)
(* host numbers frames through a suspend; a bus reset clears the number as *)
(* it ends, with EORST; the loop sees the last frame before a silence; no  *)
(* two numbers are read a whole turn of micros() (71 minutes) apart.       *)
(***************************************************************************)
EXTENDS Integers

CONSTANTS
  FRAME,     \* ticks in a frame (1 ms)
  WRAP,      \* CLOCKREF_FRAME_WRAP (2048), in frames
  STALL,     \* CLOCKREF_STALL_US (1.5 s), in ticks
  CLOCK,     \* turn of micros() (2^32 us), in ticks
  MaxTime,   \* bound: ticks
  MaxResets  \* bound: bus resets

ASSUME ClockRefAssumption ==
  /\ {FRAME, WRAP, STALL, CLOCK} \subseteq Nat \ {0}
  /\ {MaxTime, MaxResets} \subseteq Nat
  /\ FRAME < STALL /\ STALL < FRAME * WRAP /\ STALL < CLOCK

VARIABLES
  time, phase,               \* ticks since boot, ticks since a frame began
  host,                      \* the number the host gives the current frame
  link,                      \* "off", "up" or, once configured, "silent"
  fnum, eorst,               \* UOTGHS_DEVFNUM, EORST pending
  configured,                \* usb_configured
  started, last_fnum, last_us, frames, elapsed_us, edge_frames, edge_elapsed,
  resets,
  epochs                     \* epochs in the span, for PairIsTrue

busVars == << time, phase, host, link, fnum, resets >>
pair    == << edge_frames, edge_elapsed >>
totals  == << frames, elapsed_us, pair, epochs >>
seen    == << last_fnum, last_us >>
clockVars    == << busVars, eorst, configured, started, totals, seen >>

Numbers == 0 .. WRAP - 1
Now     == time % CLOCK

----------------------------------------------------------------------------
(* The bus *)

Tick ==
  /\ time < MaxTime
  /\ started => (time + 1) % CLOCK # last_us
  /\ time' = time + 1
  /\ phase' = (phase + 1) % FRAME
  /\ IF phase' = 0
     THEN /\ host' = (host + 1) % WRAP
          /\ fnum' = IF link = "up" THEN host' ELSE fnum
     ELSE UNCHANGED << host, fnum >>
  /\ UNCHANGED << link, resets, eorst, configured, started, totals, seen >>

Attending == configured /\ ~eorst

\* A suspend, an unplugged cable, or a bus reset that begins; only a
\* configured device is let sleep and woken.
FallsSilent ==
  /\ link = "up" /\ (Attending => last_fnum = fnum)
  /\ link' = IF Attending THEN "silent" ELSE "off"
  /\ UNCHANGED << time, phase, host, fnum, resets, eorst, configured, started,
                  totals, seen >>

Resumes ==
  /\ link = "silent"
  /\ link' = "up"
  /\ UNCHANGED << time, phase, host, fnum, resets, eorst, configured, started,
                  totals, seen >>

\* Another port or host may number its frames otherwise.
ResetEnds ==
  /\ link # "up" /\ resets < MaxResets
  /\ resets' = resets + 1
  /\ link' = "up" /\ fnum' = 0 /\ eorst' = TRUE
  /\ host' \in Numbers
  /\ UNCHANGED << time, phase, configured, started, totals, seen >>

----------------------------------------------------------------------------
(* The main loop: usb_cdc_poll, then clockref_poll at once *)

\* SET_CONFIGURATION, which usb_cdc_poll serves many frames after the reset.
Configure ==
  /\ link = "up" /\ fnum = host /\ ~eorst /\ ~configured
  /\ configured' = TRUE
  /\ UNCHANGED << busVars, eorst, started, totals, seen >>

\* usb_cdc_detach_cycle, from the console: the driver leaves the bus by itself.
Detach ==
  /\ configured
  /\ configured' = FALSE /\ link' = "off"
  /\ UNCHANGED << time, phase, host, fnum, resets, eorst, started, totals,
                  seen >>

PollUnconfigured ==
  /\ ~Attending
  /\ configured' = FALSE /\ eorst' = FALSE /\ started' = FALSE
  /\ UNCHANGED << busVars, totals, seen >>

\* A poll that finds the number it knows does nothing at all.
SeesEdge ==
  /\ Attending /\ fnum # last_fnum
  /\ last_fnum' = fnum /\ last_us' = Now
  /\ UNCHANGED << busVars, eorst, configured >>

Gap     == (Now - last_us) % CLOCK
\* Seeded fault: any gap is believed.
Fault_Stalled == FALSE
Stalled == Gap > STALL

PollStarts ==
  /\ SeesEdge /\ ~started
  /\ started' = TRUE /\ epochs' = epochs + 1
  /\ UNCHANGED << frames, elapsed_us, pair >>

PollRestarts ==
  /\ SeesEdge /\ started /\ Stalled
  /\ frames' = 0 /\ elapsed_us' = 0 /\ edge_frames' = 0 /\ edge_elapsed' = 0
  /\ epochs' = 1
  /\ UNCHANGED started

\* Frames between two numbers.
Steps == (fnum - last_fnum) % WRAP

PollCounts ==
  /\ SeesEdge /\ started /\ ~Stalled
  /\ frames' = frames + Steps
  /\ elapsed_us' = elapsed_us + Gap
  /\ IF Steps = 1
     THEN edge_frames' = frames' /\ edge_elapsed' = elapsed_us'
     ELSE UNCHANGED pair
  /\ UNCHANGED << started, epochs >>

Poll == PollUnconfigured \/ PollStarts \/ PollRestarts \/ PollCounts

ClockInit ==
  /\ time = 0 /\ phase = 0 /\ host = 0
  /\ link = "off" /\ fnum = 0 /\ eorst = FALSE /\ configured = FALSE
  /\ started = FALSE /\ last_fnum = 0 /\ last_us = 0
  /\ frames = 0 /\ elapsed_us = 0 /\ edge_frames = 0 /\ edge_elapsed = 0
  /\ resets = 0 /\ epochs = 0

ClockNext == Tick \/ FallsSilent \/ Resumes \/ ResetEnds \/ Configure \/ Detach
        \/ Poll

ClockSpec == ClockInit /\ [][ClockNext]_clockVars

----------------------------------------------------------------------------
(* What the reference promises *)

ClockTypeOK ==
  /\ time \in 0 .. MaxTime /\ resets \in 0 .. MaxResets /\ phase \in 0 .. FRAME - 1
  /\ {host, fnum, last_fnum} \subseteq Numbers
  /\ link \in {"off", "up", "silent"}
  /\ {eorst, configured, started} \subseteq BOOLEAN
  /\ last_us \in 0 .. CLOCK - 1
  /\ {frames, elapsed_us, edge_frames, edge_elapsed, epochs} \subseteq Nat

\* The microseconds of the pair that clockref_read hands out are those of its
\* frames, but for less than a frame for each epoch: no wrap of the number
\* is missed or added, in a stall, a suspend, a reset or a replug, and the
\* two are never counted from different origins.
PairIsTrue ==
  LET error == edge_elapsed - FRAME * edge_frames
      slack == (FRAME - 1) * epochs
  IN  -slack <= error /\ error <= slack

=============================================================================
