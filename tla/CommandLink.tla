------------------------------ MODULE CommandLink ------------------------------
(***************************************************************************)
(* The one link to the board's command port, and who holds it: Board.ctl   *)
(* and Board.close_native of host/measure.py open and replace it,          *)
(* BoardDevice of host/daemon/device.py borrows it for the counters of any *)
(* client and for the heartbeat pump.                                      *)
(*                                                                         *)
(* Requests and the pump's reads are serialised by `_ctl_lock`.  Finding   *)
(* the link, dropping it and opening it are not.  The link can be replaced *)
(* while others hold the old object: a query that fails drops it, and the  *)
(* wedge ladder of close_native detaches the board, which makes every link *)
(* dead although it is still open.                                         *)
(***************************************************************************)
EXTENDS Integers, FiniteSets

CONSTANTS
  Sessions,   \* client threads that query the device
  MaxFailures,  \* bound: failed opens, lost answers and wedged closes together
  MaxSwitches \* bound: heartbeat requests

Pump    == "pump"
Nobody  == "nobody"

ASSUME LinkAssumption ==
  /\ MaxFailures \in Nat /\ MaxSwitches \in Nat
  /\ Sessions \cap {Pump, Nobody} = {}

Users == Sessions \cup {Pump}
\* A link object is a name that nobody holds yet when it is opened.
Links   == 1 .. 2 * Cardinality(Users) + 2
None    == 0

VARIABLES
  place, want, conn, \* per thread: its step, what the link is for, the link
  board_ctl, board_tried,     \* Board._ctl, Board._ctl_tried
  ctl, ctl_tried,    \* BoardDevice._ctl, BoardDevice._ctl_tried
  opened, live,      \* the links not closed; those the board still answers on
  hooked,            \* the links whose on_unsolicited is the device's
  lock,              \* who holds _ctl_lock
  period,            \* is _hb_period_ms set?
  failures, switches,
  refused,           \* the last open, or the identity, was refused
  cut                \* the ladder closed a link under a read

linkVars == << board_ctl, board_tried, ctl, ctl_tried, opened, live, hooked >>
commandVars == << place, want, conn, linkVars, lock, period, failures, switches,
                  refused, cut >>

Goto(t, there) == place' = [place EXCEPT ![t] = there]
Moves(t, here, there) == place[t] = here /\ Goto(t, there)
Fault == failures < MaxFailures /\ failures' = failures + 1

\* What a thread does with no link: a session refuses, the pump waits.
Holds(t, link, there) ==
  /\ conn' = [conn EXCEPT ![t] = link]
  /\ Goto(t, IF link = None THEN "idle" ELSE there)

----------------------------------------------------------------------------
(* BoardDevice.control and Board.ctl *)

IsCurrent == board_tried /\ board_ctl = ctl

\* The cached link, if it is still the board's.
ControlCached(t) ==
  /\ place[t] = "control"
  /\ ctl # None /\ IsCurrent
  /\ Holds(t, ctl, want[t])
  /\ UNCHANGED << want, linkVars, lock, period, failures, switches, refused, cut >>

\* A link the board no longer has is let go of, hook and all.
ControlStale(t) ==
  /\ place[t] = "control"
  /\ ctl # None /\ ~IsCurrent /\ board_tried
  /\ ctl' = None /\ ctl_tried' = FALSE
  /\ hooked' = hooked \ {ctl}
  /\ UNCHANGED << place, want, conn, board_ctl, board_tried, opened, live, lock,
                  period, failures, switches, refused, cut >>

\* Nothing cached: another thread is asking, or a refusal was kept.
ControlRefused(t) ==
  /\ place[t] = "control"
  /\ ctl = None /\ ctl_tried
  /\ Holds(t, None, want[t])
  /\ UNCHANGED << want, linkVars, lock, period, failures, switches, refused, cut >>

\* No command node, or no answer to `v`: kept as the answer from then on.
ControlUnidentified(t) ==
  /\ place[t] = "control"
  /\ ctl = None /\ ~ctl_tried /\ Fault
  /\ ctl_tried' = TRUE /\ refused' = TRUE
  /\ Holds(t, None, want[t])
  /\ UNCHANGED << want, board_ctl, board_tried, ctl, opened, live, hooked, lock,
                  period, switches, cut >>

\* The board's link taken over; the hook moves with it while beats are on.
Hook(link) == hooked' = IF period THEN hooked \cup {link} ELSE hooked

ControlTakes(t) ==
  /\ place[t] = "control"
  /\ ctl = None /\ ~ctl_tried /\ board_tried
  /\ IF board_ctl = None
     THEN UNCHANGED << ctl, ctl_tried, hooked >>
     ELSE ctl' = board_ctl /\ ctl_tried' = TRUE /\ Hook(board_ctl)
  /\ Holds(t, board_ctl, want[t])
  /\ UNCHANGED << want, board_ctl, board_tried, opened, live, lock, period,
                  failures, switches, refused, cut >>

\* Board.ctl has to open: others see "tried, and none" until it is done.
BoardOpens(t) ==
  /\ Moves(t, "control", "opening")
  /\ ~board_tried
  /\ board_tried' = TRUE
  /\ ctl_tried' = (ctl_tried \/ ctl = None)
  /\ ctl # None \/ ~ctl_tried
  /\ UNCHANGED << want, conn, board_ctl, ctl, opened, live, hooked, lock, period,
                  failures, switches, refused, cut >>

Unused == Links \ ({board_ctl, ctl} \cup {conn[t] : t \in Users} \cup opened)
Fresh  == CHOOSE l \in Unused : TRUE

BoardOpened(t) ==
  /\ place[t] = "opening"
  /\ \/ /\ board_ctl' = Fresh
        /\ opened' = opened \cup {Fresh} /\ live' = (live \cap opened) \cup {Fresh}
        /\ ctl' = Fresh /\ ctl_tried' = TRUE
        /\ hooked' = (hooked \ {ctl, Fresh}) \cup (IF period THEN {Fresh} ELSE {})
        /\ Holds(t, Fresh, want[t]) /\ refused' = FALSE
        /\ UNCHANGED failures
     \/ /\ Fault /\ refused' = TRUE
        /\ board_ctl' = None
        /\ ctl' = None /\ ctl_tried' = FALSE /\ hooked' = hooked \ {ctl}
        /\ Holds(t, None, want[t])
        /\ UNCHANGED << opened, live >>
  /\ UNCHANGED << want, board_tried, lock, period, switches, cut >>

Control(t) == \/ ControlCached(t) \/ ControlStale(t) \/ ControlRefused(t)
              \/ ControlUnidentified(t) \/ ControlTakes(t)
              \/ BoardOpens(t) \/ BoardOpened(t)

----------------------------------------------------------------------------
(* Queries: counters, load and trace of any client *)

Begin(t, what) ==
  /\ Moves(t, "idle", "control")
  /\ want' = [want EXCEPT ![t] = what]
  /\ conn' = [conn EXCEPT ![t] = None]
  /\ UNCHANGED << linkVars, lock, period, failures, refused, cut >>

Query(t) == t \in Sessions /\ Begin(t, "query") /\ UNCHANGED switches

TakeLock(t, here, there) == Moves(t, here, there) /\ lock = Nobody /\ lock' = t
Answers(l) == l \in opened \cap live

QueryAsks(t) ==
  /\ TakeLock(t, "query", "reading")
  /\ UNCHANGED << want, conn, linkVars, period, failures, switches, refused, cut >>

\* Answered, or refused by the device: the link is fine either way.
QueryAnswered(t) ==
  /\ t \in Sessions /\ want[t] = "query"
  /\ Moves(t, "reading", "idle") /\ lock' = Nobody
  /\ Answers(conn[t])
  /\ UNCHANGED << want, conn, linkVars, period, failures, switches, refused, cut >>

\* The wire failed: the link is dropped, the lock no longer held.
QueryFails(t) ==
  /\ t \in Sessions /\ want[t] = "query"
  /\ Moves(t, "reading", "drop") /\ lock' = Nobody
  /\ IF Answers(conn[t]) THEN Fault ELSE UNCHANGED failures
  /\ UNCHANGED << want, conn, linkVars, period, switches, refused, cut >>

\* _drop_control: whatever link the device holds by now goes, and the board is
\* told to close the one it holds.
Drop(t) ==
  /\ place[t] = "drop"
  /\ Goto(t, IF ctl = None THEN "idle" ELSE "invalidate")
  /\ ctl' = None /\ ctl_tried' = FALSE /\ hooked' = hooked \ {ctl}
  /\ UNCHANGED << want, conn, board_ctl, board_tried, opened, live, lock, period,
                  failures, switches, refused, cut >>

\* Board.ctl_invalidate, both fields together.
Fault_Invalidate ==
  board_ctl' = None /\ opened' = opened \ {board_ctl} /\ UNCHANGED board_tried
Invalidate ==
  board_ctl' = None /\ opened' = opened \ {board_ctl} /\ board_tried' = FALSE

DropInvalidates(t) ==
  /\ Moves(t, "invalidate", "idle")
  /\ Invalidate
  /\ UNCHANGED << want, conn, ctl, ctl_tried, live, hooked, lock, period, failures,
                  switches, refused, cut >>

----------------------------------------------------------------------------
(* The heartbeat *)

Switch(t) ==
  /\ t \in Sessions /\ Begin(t, "switch")
  /\ switches < MaxSwitches /\ switches' = switches + 1

\* heartbeat(): hook and request under the lock, the period after it.  The
\* request fails on a dead link and drops nothing.
SwitchAsks(t) ==
  /\ TakeLock(t, "switch", "reading")
  /\ hooked' = hooked \cup {conn[t]}
  /\ UNCHANGED << want, conn, board_ctl, board_tried, ctl, ctl_tried, opened, live,
                  period, failures, switches, refused, cut >>

SwitchDone(t) ==
  /\ t \in Sessions /\ want[t] = "switch" /\ place[t] = "reading"
  /\ lock' = Nobody
  /\ Goto(t, IF Answers(conn[t]) THEN "period" ELSE "idle")
  /\ UNCHANGED << want, conn, linkVars, period, failures, switches, refused, cut >>

\* The pump is started when first needed, and goes round from then on.
SetPeriod(t, on) ==
  /\ Moves(t, "period", "idle")
  /\ period' = on
  /\ UNCHANGED << want, conn, linkVars, lock, failures, switches, refused, cut >>

PumpRound ==
  /\ period \/ conn[Pump] # None
  /\ Begin(Pump, "recv") /\ UNCHANGED switches

PumpLocks ==
  /\ TakeLock(Pump, "recv", "reading")
  /\ UNCHANGED << want, conn, linkVars, period, failures, switches, refused, cut >>

\* A beat, nothing in the short wait, or an error that the pump swallows.
PumpReads ==
  /\ place[Pump] = "reading" /\ lock' = Nobody
  /\ \/ period /\ Answers(conn[Pump]) /\ Goto(Pump, "handle")
     \/ ~(period /\ Answers(conn[Pump])) /\ Goto(Pump, "idle")
  /\ UNCHANGED << want, conn, linkVars, period, failures, switches, refused, cut >>

\* _hb_on_frame, under the lock again.
PumpHandles ==
  /\ Moves(Pump, "handle", "idle") /\ lock = Nobody
  /\ UNCHANGED << want, conn, linkVars, lock, period, failures, switches,
                  refused, cut >>

----------------------------------------------------------------------------
(* Board.close_native at the end of a run, under the lock (_teardown) *)

Fault_MayClose(t) == TRUE
MayClose(t) == lock = Nobody

CloseNative(t) ==
  /\ t \in Sessions /\ Moves(t, "idle", "closing")
  /\ MayClose(t) /\ lock' = t
  /\ UNCHANGED << want, conn, linkVars, period, failures, switches, refused, cut >>

Closed(t) ==
  /\ Moves(t, "closing", "idle") /\ lock' = Nobody
  /\ UNCHANGED << want, conn, linkVars, period, failures, switches, refused, cut >>

\* The close wedged, and the last rung of the ladder detached the board.
Wedged(t) ==
  /\ Moves(t, "closing", "idle") /\ lock' = Nobody
  /\ Fault
  /\ live' = {}
  /\ cut' = (cut \/ \E u \in Users \ {t} : place[u] = "reading" /\ conn[u] = board_ctl)
  /\ Invalidate
  /\ UNCHANGED << want, conn, ctl, ctl_tried, hooked, period, switches, refused >>

----------------------------------------------------------------------------
LinkInit ==
  /\ place = [t \in Users |-> "idle"]
  /\ want = [t \in Users |-> "query"] /\ conn = [t \in Users |-> None]
  /\ board_ctl = None /\ board_tried = FALSE
  /\ ctl = None /\ ctl_tried = FALSE
  /\ opened = {} /\ live = {} /\ hooked = {}
  /\ lock = Nobody /\ period = FALSE
  /\ failures = 0 /\ switches = 0 /\ refused = FALSE /\ cut = FALSE

Ask(t)  == Query(t) \/ Switch(t) \/ CloseNative(t)
Work(t) == \/ Control(t) \/ QueryAsks(t) \/ QueryAnswered(t) \/ QueryFails(t)
           \/ Drop(t) \/ DropInvalidates(t)
           \/ SwitchAsks(t) \/ SwitchDone(t) \/ SetPeriod(t, TRUE)
           \/ Closed(t) \/ Wedged(t)
PumpWork == PumpRound \/ PumpLocks \/ PumpReads \/ PumpHandles

LinkNext == \/ \E t \in Sessions : Ask(t)
            \/ \E t \in Users : Work(t)
            \/ \E t \in Sessions : SetPeriod(t, FALSE)
            \/ PumpWork

\* Threads go on; the lock is handed to whoever keeps asking for it (the pump
\* waits outside it between two reads).  Clients need not ask.
LinkSpec == /\ LinkInit /\ [][LinkNext]_commandVars
            /\ \A t \in Users : WF_commandVars(Work(t))
            /\ WF_commandVars(PumpRound \/ PumpReads)
            /\ SF_commandVars(PumpLocks) /\ SF_commandVars(PumpHandles)

----------------------------------------------------------------------------
(* Properties *)

LinkTypeOK ==
  /\ {board_ctl, ctl} \subseteq Links \cup {None}
  /\ {opened, live, hooked} \subseteq SUBSET Links
  /\ lock \in Users \cup {Nobody}
  /\ conn \in [Users -> Links \cup {None}]

\* "The link is never closed under a read in progress" (BoardDevice._teardown):
\* when the wedge ladder closes the link, nobody is reading it.
LadderSparesReaders == ~cut

\* After the last fault the pump gets at the beats again, whatever was dropped
\* or replaced meanwhile, unless a refusal was kept (the board keeps a failed
\* open, the device an unanswered `v`, and nothing asks again), and provided
\* that in the end one client at most keeps querying: two of them can go on
\* dropping the link that the other has just opened.
OneClientLeft ==
  \E s \in Sessions : <>[](\A u \in Sessions \ {s} : place[u] = "idle")
BeatsResume ==
  OneClientLeft /\ <>[]period => []<>(place[Pump] = "handle") \/ <>[]refused
==============================================================================
