------------------------------ MODULE DeviceRun ------------------------------
(***************************************************************************)
(* A run of the board as the daemon drives it: BoardDevice.start, read and *)
(* stop of host/daemon/device.py, the reader thread and the start and stop *)
(* operations of host/daemon/server.py.                                    *)
(*                                                                         *)
(* Three threads share one device object and no lock.  The controller's    *)
(* session thread starts and stops the board; the reader thread takes what *)
(* the native port has for as long as the daemon lives; the thread that    *)
(* closes the daemon stops the device while the session may be anywhere in *)
(* a start or a stop, and the session goes on after that: the handler of   *)
(* an operation never asks whether the server is stopping, and a session   *)
(* accepted during the stop is not closed by it.  What keeps the threads   *)
(* apart is the order of a few assignments: the gate `_readable`, the      *)
(* descriptor, `running`, and a run generation.                            *)
(*                                                                         *)
(* A frame is two pieces, a head that carries the magic and a tail, which  *)
(* is the least that can be cut.  A run of the board has a number of its   *)
(* own so that a property can say whose piece it is.                       *)
(***************************************************************************)
EXTENDS Integers, Sequences

CONSTANTS
  MaxStarts,      \* bound: start operations
  MaxFrames,      \* bound: frames the board sends in one run
  MaxFaults,      \* bound: console writes that fail
  ReaderMayStall  \* can the reader hold data from before a stop to a start?

ASSUME DeviceRunAssumption ==
  /\ {MaxStarts, MaxFrames, MaxFaults} \subseteq Nat
  /\ ReaderMayStall \in BOOLEAN

VARIABLES
  \* the thread in an operation, per thread, and the operation's arguments
  pc, mode, waveform, refusal,
  starts, faults,
  answered,         \* the last reply the controller got
  \* BoardDevice
  fd, readable, running, feeder,
  \* the board, and the bytes the kernel holds for the native port
  board, run, sent, kernel,
  \* Server._read_loop: where it is, what it read, its generation, its buffer
  rpc, held, gen, reader_gen, buf,
  stop,             \* Server._stop
  \* what happened, for the properties
  out,              \* the last frame handed to the clients
  mixed,            \* a frame of two runs was handed on
  skipped,          \* a frame of the run was not
  leftover,         \* an operation failed half way, at some time
  left,             \* what failed operations have left behind by now
  disturbed,        \* a start was refused because a run was under way
  overlapped        \* a start was under way when close() looked, or began later

opVars    == << pc, mode, waveform, refusal, starts, faults, answered >>
devVars   == << fd, readable, running, feeder >>
boardVars == << board, run, sent >>
readVars  == << rpc, held, reader_gen, buf >>
pastVars  == << out, mixed, skipped, leftover, left, disturbed, overlapped >>
vars == << opVars, devVars, boardVars, kernel, readVars, gen, stop, pastVars >>

Threads  == {"session", "closer"}
Starting == {"open", "drain", "command", "feed", "confirm", "refused",
             "refused_close"}
Modes   == {"capture", "play", "loop"}
Piece   == [run : 1 .. MaxStarts, n : 0 .. MaxFrames - 1, head : BOOLEAN]

NoFrame == [run |-> 0, n |-> -1]

\* Playback alone sends no sample frames.
Producing == board \in {"capture", "loop"}

----------------------------------------------------------------------------
(* The board and the kernel *)

\* A started mode sends its frames piece by piece; the pieces are lost while
\* nobody holds the port open, and the board begins again with a whole frame.
Produce ==
  /\ Producing
  /\ sent < 2 * MaxFrames
  /\ IF fd
     THEN /\ sent' = sent + 1
          /\ kernel' = Append(kernel, [run  |-> run, n |-> sent \div 2,
                                       head |-> sent % 2 = 0])
     ELSE /\ sent' = 2 * (sent \div 2) + 2
          /\ UNCHANGED kernel
  /\ UNCHANGED << opVars, devVars, board, run, readVars, gen, stop, pastVars >>

----------------------------------------------------------------------------
(* Operations.  A step ends where another thread's step could show *)

At(t, here, there) == pc[t] = here /\ pc' = [pc EXCEPT ![t] = there]

\* A console write may fail: the port went away under it.
ConsoleFails == faults < MaxFaults /\ faults' = faults + 1

\* close() has tested `running` and gone on by what it found.
HasLooked == pc["closer"] \notin {"idle", "close"}

\* _op_start begins a generation before the device is asked, and the device
\* refuses when it is running.  From a stop to the next start is a round trip to
\* the client: unless the reader may stall, it has handed on what it had by then.
\* Nothing here asks whether the server is stopping.
StartBegins(m, w) ==
  /\ starts < MaxStarts
  /\ ReaderMayStall \/ running \/ rpc \notin {"feed", "split"}
  /\ starts' = starts + 1
  /\ m = "capture" => ~w
  /\ mode' = m /\ waveform' = w
  /\ gen' = gen + 1
  /\ refusal' = FALSE
  /\ IF running
     THEN /\ pc["session"] = "idle" /\ answered' = "refused"
          /\ disturbed' = TRUE
          /\ UNCHANGED << pc, overlapped >>
     ELSE /\ At("session", "idle", "open")
          /\ overlapped' = (overlapped \/ HasLooked)
          /\ UNCHANGED << answered, disturbed >>
  /\ UNCHANGED << faults, devVars, boardVars, kernel, readVars, stop, out,
                  mixed, skipped, leftover, left >>

\* open_native: the port opens, or does not in the time allowed.
OpenNative ==
  /\ \/ At("session", "open", "drain") /\ fd' = TRUE /\ UNCHANGED answered
     \/ At("session", "open", "idle") /\ answered' = "failed" /\ UNCHANGED fd
  /\ UNCHANGED << mode, waveform, refusal, starts, faults, readable, running, feeder,
                  boardVars, kernel, readVars, gen, stop, pastVars >>

\* drain_until_quiet discards what is there, until a silence or its cap.
Drain ==
  /\ pc["session"] = "drain"
  /\ kernel # << >> /\ kernel' = << >>
  /\ UNCHANGED << opVars, devVars, boardVars, readVars, gen, stop, pastVars >>

\* The reader is let in here.
DrainEnds ==
  /\ At("session", "drain", "command")
  /\ ~Producing => kernel = << >>
  /\ readable' = TRUE
  /\ UNCHANGED << mode, waveform, refusal, starts, faults, answered, fd, running, feeder,
                  boardVars, kernel, readVars, gen, stop, pastVars >>

\* The mode command: obeyed, refused by the board, or not written at all, in
\* which case start() ends with an exception and undoes nothing.
BoardObeys ==
  /\ pc["session"] = "command"
  /\ pc' = [pc EXCEPT !["session"] = IF mode = "capture" THEN "confirm" ELSE "feed"]
  /\ board' = mode /\ run' = run + 1 /\ sent' = 0
  /\ left' = left \ {"board"}
  /\ UNCHANGED << mode, waveform, refusal, starts, faults, answered, devVars, kernel,
                  readVars, gen, stop, out, mixed, skipped, leftover, disturbed,
                  overlapped >>

BoardRefuses ==
  /\ pc["session"] = "command"
  /\ pc' = [pc EXCEPT !["session"] = IF mode = "capture" THEN "confirm" ELSE "feed"]
  /\ refusal' = TRUE
  /\ UNCHANGED << mode, waveform, starts, faults, answered, devVars, boardVars,
                  kernel, readVars, gen, stop, pastVars >>

CommandLost ==
  /\ At("session", "command", "idle")
  /\ ConsoleFails
  /\ answered' = "failed" /\ leftover' = TRUE
  /\ left' = left \cup {"port"}
  /\ UNCHANGED << mode, waveform, refusal, starts, devVars, boardVars, kernel, readVars,
                  gen, stop, out, mixed, skipped, disturbed, overlapped >>

\* Playback needs a waveform, and this is where its absence is noticed, with
\* the board playing already: the teardown that follows tells it nothing.
StartFeeder ==
  /\ pc["session"] = "feed"
  /\ pc' = [pc EXCEPT !["session"] = IF waveform THEN "confirm" ELSE "refused"]
  /\ feeder' = waveform
  /\ LET plays == ~waveform /\ board # "none"
     IN  /\ leftover' = (leftover \/ plays)
         /\ left' = left \cup (IF plays THEN {"board"} ELSE {})
  /\ UNCHANGED << mode, waveform, refusal, starts, faults, answered, fd, readable,
                  running, boardVars, kernel, readVars, gen, stop, out, mixed,
                  skipped, disturbed, overlapped >>

\* The console says whether the board took the rates.
Confirm ==
  /\ \/ /\ refusal /\ At("session", "confirm", "refused")
        /\ UNCHANGED << running, answered >>
     \/ /\ ~refusal /\ At("session", "confirm", "idle")
        /\ running' = TRUE /\ answered' = "started"
  /\ UNCHANGED << mode, waveform, refusal, starts, faults, fd, readable, feeder,
                  boardVars, kernel, readVars, gen, stop, pastVars >>

\* stop() does nothing unless a start has finished; close() is a stop().
StopNothing(t) ==
  /\ ~running
  /\ IF t = "session"
     THEN /\ pc[t] = "idle" /\ answered' = "stopped"
          /\ UNCHANGED << pc, overlapped >>
     ELSE /\ At(t, "close", "done")
          /\ overlapped' = (overlapped \/ pc["session"] \in Starting)
          /\ UNCHANGED answered
  /\ UNCHANGED << mode, waveform, refusal, starts, faults, devVars, boardVars, kernel,
                  readVars, gen, stop, out, mixed, skipped, leftover, left,
                  disturbed >>

\* Where a thread is before its stop.
Before(t) == IF t = "session" THEN "idle" ELSE "close"

Fault_StopBoard(t) ==
  /\ At(t, Before(t), "stopping")
  /\ running /\ running' = FALSE
  /\ board' = "none"
  /\ UNCHANGED << mode, waveform, refusal, starts, faults, answered, fd,
                  readable, feeder, run, sent, kernel, readVars, gen, stop,
                  pastVars >>
StopBoard(t) ==
  /\ At(t, Before(t), "stopping")
  /\ running
  /\ board' = "none" /\ left' = left \ {"board"}
  /\ UNCHANGED << mode, waveform, refusal, starts, faults, answered, devVars, run, sent,
                  kernel, readVars, gen, stop, out, mixed, skipped, leftover,
                  disturbed, overlapped >>

\* The write of the stop may fail: the port is torn down all the same, and the
\* exception leaves the device marked as running, so that the next stop, or the
\* close, writes it again.  After a close there is no next one.
StopLost(t) ==
  /\ At(t, Before(t), "lost")
  /\ running /\ ConsoleFails
  /\ leftover' = TRUE
  /\ left' = left \cup (IF t = "closer" THEN {"board"} ELSE {})
  /\ UNCHANGED << mode, waveform, refusal, starts, answered, devVars, boardVars,
                  kernel, readVars, gen, stop, out, mixed, skipped, disturbed,
                  overlapped >>

\* The gate is shut before the descriptor is closed.  `stopping` and `lost` tear
\* down for a stop, `refused` for a start.
TeardownGate(t) ==
  /\ \/ At(t, "stopping", "stop_close") \/ At(t, "lost", "lost_close")
     \/ At(t, "refused", "refused_close")
  /\ readable' = FALSE /\ feeder' = FALSE
  /\ UNCHANGED << mode, waveform, refusal, starts, faults, answered, fd, running,
                  boardVars, kernel, readVars, gen, stop, pastVars >>

\* close_native flushes, then closes.
Reply(t) == IF t = "closer" THEN answered
            ELSE CASE pc[t] = "stop_close" -> "stopped"
                   [] pc[t] = "lost_close" -> "failed"
                   [] OTHER -> "refused"
TeardownClose(t) ==
  /\ pc[t] \in {"stop_close", "lost_close", "refused_close"}
  /\ pc' = [pc EXCEPT ![t] = IF t = "session" THEN "idle" ELSE "done"]
  /\ answered' = Reply(t)
  /\ running' = (running /\ pc[t] # "stop_close")
  /\ fd' = FALSE /\ kernel' = << >>
  /\ left' = left \ {"port"}
  /\ UNCHANGED << mode, waveform, refusal, starts, faults, readable, feeder,
                  boardVars, readVars, gen, stop, out, mixed, skipped, leftover,
                  disturbed, overlapped >>

\* Server.stop: the reader ends after its pass, and the device is closed
\* whatever the session is doing, now or afterwards.
CloseDaemon ==
  /\ ~stop /\ stop' = TRUE
  /\ UNCHANGED << opVars, devVars, boardVars, kernel, readVars, gen, pastVars >>

CloseDevice ==
  /\ stop /\ rpc = "ended"
  /\ At("closer", "idle", "close")
  /\ UNCHANGED << mode, waveform, refusal, starts, faults, answered, devVars, boardVars,
                  kernel, readVars, gen, stop, pastVars >>

----------------------------------------------------------------------------
(* The reader *)

Fault_GateOpen == fd
GateOpen == fd /\ readable

\* read() up to its wait: the gate is looked at once.
ReaderLooks ==
  /\ rpc = "gate"
  /\ \/ stop /\ rpc' = "ended"
     \/ ~stop /\ GateOpen /\ rpc' = "wait"
  /\ UNCHANGED << opVars, devVars, boardVars, kernel, held, reader_gen, buf,
                  gen, stop, pastVars >>

\* The wait returns: with data, with none, or with an error when the
\* descriptor was closed under it.
ReaderReads ==
  /\ rpc = "wait"
  /\ IF fd /\ kernel # << >>
     THEN rpc' = "feed" /\ held' = kernel /\ kernel' = << >>
     ELSE rpc' = "gate" /\ UNCHANGED << held, kernel >>
  /\ UNCHANGED << opVars, devVars, boardVars, reader_gen, buf, gen, stop,
                  pastVars >>

Fault_Kept(b) == b
Fault_KeptNever(b) == << >>
Kept(b) == IF reader_gen = gen THEN b ELSE << >>

\* The generation is compared, once for what was read, and the splitter reset
\* if it moved.
ReaderChecks ==
  /\ rpc = "feed" /\ rpc' = "split"
  /\ reader_gen' = gen
  /\ buf' = Kept(buf)
  /\ UNCHANGED << opVars, devVars, boardVars, kernel, held, gen, stop, pastVars >>

\* A frame goes to the clients.
Whole(f) == f[1].run = f[2].run /\ f[1].n = f[2].n /\ f[1].head /\ ~f[2].head
InOrder(f, last) ==
  /\ f[1].run >= last.run
  /\ f[1].run = run /\ board # "none" =>
       f[1].n = (IF last.run = run THEN last.n + 1 ELSE 0)
HandsOn(f) ==
  /\ out' = [run |-> f[1].run, n |-> f[1].n]
  /\ mixed' = (mixed \/ ~Whole(f))
  /\ skipped' = (skipped \/ ~InOrder(f, out))

\* FrameSplitter.feed, one piece at a time: pieces before a magic are dropped,
\* and a frame is counted out from its magic.  The code splits all it has read
\* before it hands the first frame on; nobody else sees the splitter.
Split(piece) ==
  \/ /\ buf # << >> /\ buf' = << >>
     /\ HandsOn(<< buf[1], piece >>)
  \/ /\ buf = << >> /\ buf' = (IF piece.head THEN << piece >> ELSE << >>)
     /\ UNCHANGED << out, mixed, skipped >>

ReaderFeeds ==
  /\ rpc = "split" /\ rpc' = (IF Len(held) = 1 THEN "gate" ELSE "split")
  /\ Split(Head(held)) /\ held' = Tail(held)
  /\ UNCHANGED << opVars, devVars, boardVars, kernel, reader_gen, gen, stop,
                  leftover, left, disturbed, overlapped >>

----------------------------------------------------------------------------
Init ==
  /\ pc = [t \in Threads |-> "idle"]
  /\ mode = "capture" /\ waveform = FALSE /\ refusal = FALSE
  /\ starts = 0 /\ faults = 0 /\ answered = "none"
  /\ fd = FALSE /\ readable = FALSE /\ running = FALSE /\ feeder = FALSE
  /\ board = "none" /\ run = 0 /\ sent = 0 /\ kernel = << >>
  /\ rpc = "gate" /\ held = << >> /\ gen = 0 /\ reader_gen = 0 /\ buf = << >>
  /\ stop = FALSE
  /\ out = NoFrame
  /\ mixed = FALSE /\ skipped = FALSE /\ leftover = FALSE
  /\ left = {} /\ disturbed = FALSE /\ overlapped = FALSE

Start == \/ \E m \in Modes, w \in BOOLEAN : StartBegins(m, w)
         \/ OpenNative \/ Drain \/ DrainEnds \/ BoardObeys \/ BoardRefuses
         \/ CommandLost \/ StartFeeder \/ Confirm
Stop == \E t \in Threads : \/ StopNothing(t) \/ StopBoard(t) \/ StopLost(t)
                           \/ TeardownGate(t) \/ TeardownClose(t)
Reader == ReaderLooks \/ ReaderReads \/ ReaderChecks \/ ReaderFeeds

Next == Produce \/ Start \/ Stop \/ CloseDaemon \/ CloseDevice \/ Reader

Spec == Init /\ [][Next]_vars

----------------------------------------------------------------------------
(* Properties *)

TypeOK ==
  /\ pc \in [Threads -> {"idle", "open", "drain", "command", "feed", "confirm",
                         "refused", "refused_close", "stopping", "stop_close",
                         "lost", "lost_close", "close", "done"}]
  /\ {fd, readable, running, feeder, stop, waveform, refusal} \subseteq BOOLEAN
  /\ left \subseteq {"board", "port"}
  /\ board \in Modes \cup {"none"}
  /\ run \in 0 .. MaxStarts /\ sent \in 0 .. 2 * MaxFrames
  /\ kernel \in Seq(Piece) /\ held \in Seq(Piece) /\ buf \in Seq(Piece)
  /\ Len(buf) <= 1
  /\ rpc \in {"gate", "wait", "feed", "split", "ended"}
  /\ gen \in 0 .. MaxStarts /\ reader_gen \in 0 .. gen
  /\ mode \in Modes

\* No client is ever given a frame put together from two ("a partial frame of
\* the last run must not be completed by the first bytes of this one",
\* server.py), whatever was left in the kernel, in the reader's hands or in the
\* splitter.  A start that failed and left the board streaming is the exception.
OnlyWholeFrames == ~leftover => ~mixed

\* While a run lasts, each of its frames reaches the clients, the first one
\* included, and none of an earlier run comes after it: what the gate between
\* the drain and the mode command is for.  A start refused during a run costs
\* that run a frame, since it begins a generation and the splitter is reset.
EveryFrameDelivered == ~leftover /\ ~disturbed => ~skipped

\* The gate is right on both sides: while the drain owns the descriptor the
\* reader keeps off it, and while the board sends the gate is open (issues #44
\* and #57, quoted in BoardDevice.start).  It says nothing of a start that the
\* closing of the daemon overlaps: by then the reader has ended.
OneReader ==
  ~leftover /\ ~overlapped =>
    /\ pc["session"] = "drain" => ~GateOpen
    /\ Producing /\ pc["session"] \in {"command", "feed", "confirm"} => GateOpen
    /\ running /\ pc["session"] = "idle" /\ pc["closer"] = "idle" =>
         GateOpen /\ board # "none"

\* A daemon that has closed its device leaves the board stopped and the port
\* closed, with the session at any step of a start that close() sees the end
\* of, of a stop, or of a stop whose write failed.  Left over are only: the
\* board, when a playback was refused after the board had begun it and nothing
\* has stopped it since, or when close()'s own write failed; the port, when a
\* start's command was lost and nothing was torn down since; and either, when
\* a start was under way as close() looked at `running`, or began after that.
ClosedMeansStopped ==
  pc["closer"] = "done" /\ ~overlapped =>
    /\ board # "none" => "board" \in left
    /\ fd \/ readable \/ feeder => "port" \in left

\* What docs/daemon-api.md:83 says of the stop operation: "Stop the device".  When it
\* has been answered, and no other operation is under way, the board does not send.
StopStopsTheDevice ==
  answered = "stopped" /\ pc["session"] = "idle" => board = "none"
==============================================================================
