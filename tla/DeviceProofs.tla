---------------------------- MODULE DeviceProofs ----------------------------
(***************************************************************************)
(* What a process on the host does with the board.                         *)
(*                                                                         *)
(* DeviceRun, for any number of starts, frames and faults.  Everything is  *)
(* said of a daemon that left no start or stop half done (~leftover).  The *)
(* first part of the invariant is the order of the assignments in start()  *)
(* and stop(): at each place in an operation, what is open, what is set    *)
(* and whether the board sends.  The second part says where the pieces of  *)
(* a run are: the board numbers them, and what the reader holds and what   *)
(* the kernel holds are, in that order and without a gap, the next ones to *)
(* be split.                                                               *)
(*                                                                         *)
(* CommandLink, for any clients: the ladder closes no link under a read.   *)
(*                                                                         *)
(* Flash, for any commits, node names and bounds: success means a written  *)
(* board, the wrong board is spared, and the log tells what ours runs.     *)
(***************************************************************************)
EXTENDS DeviceRun, CommandLink, Flash, FiniteSetTheorems, TLAPS

Places == {"idle", "open", "drain", "command", "feed", "confirm", "refused",
           "refused_close", "stopping", "stop_close", "lost", "lost_close",
           "close", "done"}
Stopping == {"stopping", "stop_close"}
Losing   == {"lost", "lost_close"}
S == pc["session"]
C == pc["closer"]

----------------------------------------------------------------------------
(* Which thread is where *)

Flags_Inv ==
  /\ fd \in BOOLEAN /\ readable \in BOOLEAN /\ running \in BOOLEAN
  /\ feeder \in BOOLEAN /\ stop \in BOOLEAN /\ waveform \in BOOLEAN
  /\ refusal \in BOOLEAN /\ leftover \in BOOLEAN /\ disturbed \in BOOLEAN
  /\ overlapped \in BOOLEAN /\ mode \in Modes
  /\ left \in SUBSET {"board", "port"}

Places_Inv ==
  /\ pc \in [Threads -> Places]
  /\ S \in Starting \cup Stopping \cup Losing \cup {"idle"}
  /\ C \in Stopping \cup Losing \cup {"idle", "close", "done"}
  /\ C # "idle" => stop
  /\ S \in Starting => ~running
  /\ S \in Starting /\ C \notin {"idle", "close"} => overlapped
  /\ S \in Losing \/ C \in Losing => leftover
  /\ C # "idle" => rpc = "ended"
  /\ overlapped => C # "idle"

\* What is open and set at each place of a start and of a stop.
AtRest == ~fd /\ ~readable /\ ~feeder
Gate_Inv ==
  ~leftover /\ ~overlapped =>
    /\ board # "none" => fd /\ readable /\ (S \in {"feed", "confirm"} \/ running)
    /\ S \in {"open", "drain", "command", "refused", "refused_close"} => board = "none"
    /\ S \in {"open", "drain", "command"} => ~refusal /\ ~feeder
    /\ S \in {"open", "drain"} => ~readable
    /\ S = "open" => ~fd
    /\ S \in {"command", "feed", "confirm"} => fd /\ readable
    /\ S = "drain" => fd
    /\ S \in {"feed", "confirm"} => (refusal <=> board = "none")
    /\ S \in Stopping \/ C \in Stopping => board = "none"
    /\ "refused_close" = S \/ "stop_close" \in {S, C} => ~readable /\ ~feeder
    /\ S = "idle" /\ ~running => board = "none" /\ AtRest
    /\ S = "idle" /\ running /\ C \in {"idle", "close"} => board # "none"
    /\ S \in Stopping /\ ~running => C = "done"
    /\ C = "done" => board = "none" /\ AtRest

\* What is left open or sending when an operation failed half way, as long as
\* the daemon is not closed over a start.
Left_Inv ==
  /\ S \in {"stop_close", "lost_close", "refused_close"} => ~readable /\ ~feeder
  /\ S \in {"open", "drain", "command"} => ~refusal
  /\ ~overlapped =>
       /\ board # "none" =>
            S \in {"feed", "confirm"} \/ running \/ "board" \in left
       /\ S \in {"feed", "confirm"} /\ refusal /\ board # "none" => "board" \in left
       /\ S \in Stopping \/ C \in Stopping => board = "none"
       /\ C \in Losing \cup {"done"} /\ board # "none" => "board" \in left
       /\ C \in {"stop_close", "lost_close"} => ~readable /\ ~feeder
       /\ S \in {"idle", "open"} /\ ~running => AtRest \/ "port" \in left
       /\ S \in Stopping \cup Losing /\ ~running => AtRest
       /\ C = "done" => AtRest \/ "port" \in left

----------------------------------------------------------------------------
(* Where the pieces are *)

\* Piece number k of the run under way, or of the last.
P(k) == [run |-> run, n |-> k \div 2, head |-> k % 2 = 0]
Pieces == [run : Nat, n : Int, head : BOOLEAN]

Reader_Inv ==
  /\ kernel \in Seq(Pieces) /\ held \in Seq(Pieces) /\ buf \in Seq(Pieces)
  /\ run \in Nat /\ sent \in Nat /\ gen \in Nat /\ reader_gen \in Nat
  /\ reader_gen <= gen
  /\ rpc \in {"gate", "wait", "feed", "split", "ended"}
  /\ held # << >> <=> rpc \in {"feed", "split"}
  /\ ~fd => kernel = << >>
  /\ out \in [run : Nat, n : Int]
  /\ mixed \in BOOLEAN /\ skipped \in BOOLEAN

\* `next` pieces have been split: the reader holds those that follow, then the
\* kernel.  The splitter's buffer is one of them, unless it is of an earlier
\* generation.
Current == reader_gen = gen \/ rpc = "split"
Queued(next) ==
  /\ \A i \in 1 .. Len(held) : held[i] = P(next + i - 1)
  /\ \A i \in 1 .. Len(kernel) : kernel[i] = P(next + Len(held) + i - 1)
  /\ next + Len(held) + Len(kernel) <= sent
  /\ board # "none" => next + Len(held) + Len(kernel) = sent
Buffered(next) ==
  Current => buf = << >> \/ (next % 2 = 1 /\ buf = << P(next - 1) >>)
Delivered(next) ==
  ~disturbed =>
    /\ Current /\ next % 2 = 1 => buf # << >>
    /\ rpc = "split" => reader_gen = gen
    /\ \/ reader_gen = gen
       \/ next = 0
       \/ board = "none" /\ held = << >> /\ kernel = << >>
    /\ out.run <= run
    /\ out.run = run => out.n = (next \div 2) - 1
    /\ out.run < run => next < 2
    /\ ~skipped
Stream_Inv ==
  ~leftover /\ ~overlapped =>
    /\ S \in {"open", "drain", "command"} =>
         kernel = << >> /\ held = << >> /\ reader_gen < gen
    /\ \E next \in Nat : Queued(next) /\ Buffered(next) /\ Delivered(next)
    /\ ~mixed

\* What was handed on stays true when the daemon is closed over a start: the
\* reader hands on nothing then.
Clean_Inv ==
  ~leftover => ~mixed /\ (~disturbed => ~skipped)

----------------------------------------------------------------------------
(* A step keeps the order of the assignments *)

LEMMA Flags_Step ==
  ASSUME Flags_Inv, [Next]_vars
  PROVE  Flags_Inv'
<1> USE DEF Flags_Inv, opVars, devVars, boardVars, readVars, pastVars
<1>1. CASE Produce
  BY <1>1 DEF Produce
<1>2. ASSUME NEW m \in Modes, NEW w \in BOOLEAN, StartBegins(m, w) PROVE Flags_Inv'
  BY <1>2 DEF StartBegins, At, HasLooked
<1>3. CASE OpenNative
  BY <1>3 DEF OpenNative
<1>4. CASE Drain
  BY <1>4 DEF Drain
<1>5. CASE DrainEnds
  BY <1>5 DEF DrainEnds
<1>6. CASE BoardObeys
  BY <1>6 DEF BoardObeys
<1>7. CASE BoardRefuses
  BY <1>7 DEF BoardRefuses
<1>8. CASE CommandLost
  BY <1>8 DEF CommandLost, At, ConsoleFails
<1>9. CASE StartFeeder
  BY <1>9 DEF StartFeeder
<1>10. CASE Confirm
  BY <1>10 DEF Confirm
<1>11. ASSUME NEW t \in Threads, StopNothing(t) PROVE Flags_Inv'
  BY <1>11 DEF StopNothing
<1>12. ASSUME NEW t \in Threads, StopBoard(t) PROVE Flags_Inv'
  BY <1>12 DEF StopBoard
<1>13. ASSUME NEW t \in Threads, StopLost(t) PROVE Flags_Inv'
  BY <1>13 DEF StopLost, Before, At, ConsoleFails
<1>14. ASSUME NEW t \in Threads, TeardownGate(t) PROVE Flags_Inv'
  BY <1>14 DEF TeardownGate
<1>15. ASSUME NEW t \in Threads, TeardownClose(t) PROVE Flags_Inv'
  BY <1>15 DEF TeardownClose, Reply
<1>16. CASE CloseDaemon
  BY <1>16 DEF CloseDaemon
<1>17. CASE CloseDevice
  BY <1>17 DEF CloseDevice
<1>18. CASE ReaderLooks
  BY <1>18 DEF ReaderLooks
<1>19. CASE ReaderReads
  BY <1>19 DEF ReaderReads
<1>20. CASE ReaderChecks
  BY <1>20 DEF ReaderChecks
<1>21. CASE ReaderFeeds
  BY <1>21 DEF ReaderFeeds
<1>22. CASE UNCHANGED vars
  BY <1>22 DEF vars
<1> QED
  BY <1>1, <1>2, <1>3, <1>4, <1>5, <1>6, <1>7, <1>8, <1>9, <1>10, <1>11,
     <1>12, <1>13, <1>14, <1>15, <1>16, <1>17, <1>18, <1>19, <1>20, <1>21,
     <1>22
     DEF Next, Start, Stop, Reader

LEMMA Places_Step ==
  ASSUME Flags_Inv, Places_Inv, Gate_Inv, [Next]_vars
  PROVE  Places_Inv'
<1> USE DEF Flags_Inv, Places_Inv, Gate_Inv, AtRest, Places, Starting,
       Stopping, Losing, S, C, Threads, Modes, opVars, devVars, boardVars,
       readVars, pastVars
<1>1. CASE Produce
  BY <1>1 DEF Produce
<1>2. ASSUME NEW m \in Modes, NEW w \in BOOLEAN, StartBegins(m, w) PROVE Places_Inv'
  BY <1>2 DEF StartBegins, At, HasLooked
<1>3. CASE OpenNative
  BY <1>3 DEF OpenNative, At
<1>4. CASE Drain
  BY <1>4 DEF Drain
<1>5. CASE DrainEnds
  BY <1>5 DEF DrainEnds, At
<1>6. CASE BoardObeys
  BY <1>6 DEF BoardObeys
<1>7. CASE BoardRefuses
  BY <1>7 DEF BoardRefuses
<1>8. CASE CommandLost
  BY <1>8 DEF CommandLost, At, ConsoleFails
<1>9. CASE StartFeeder
  BY <1>9 DEF StartFeeder
<1>10. CASE Confirm
  BY <1>10 DEF Confirm, At
<1>11. ASSUME NEW t \in Threads, StopNothing(t) PROVE Places_Inv'
  BY <1>11 DEF StopNothing, At
<1>12. ASSUME NEW t \in Threads, StopBoard(t) PROVE Places_Inv'
  BY <1>12 DEF StopBoard, Before, At
<1>13. ASSUME NEW t \in Threads, StopLost(t) PROVE Places_Inv'
  BY <1>13 DEF StopLost, Before, At, ConsoleFails
<1>14. ASSUME NEW t \in Threads, TeardownGate(t) PROVE Places_Inv'
  BY <1>14 DEF TeardownGate, At
<1>15. ASSUME NEW t \in Threads, TeardownClose(t) PROVE Places_Inv'
  BY <1>15 DEF TeardownClose, Reply
<1>16. CASE CloseDaemon
  BY <1>16 DEF CloseDaemon
<1>17. CASE CloseDevice
  BY <1>17 DEF CloseDevice, At
<1>18. CASE ReaderLooks
  BY <1>18 DEF ReaderLooks
<1>19. CASE ReaderReads
  BY <1>19 DEF ReaderReads
<1>20. CASE ReaderChecks
  BY <1>20 DEF ReaderChecks
<1>21. CASE ReaderFeeds
  BY <1>21 DEF ReaderFeeds
<1>22. CASE UNCHANGED vars
  BY <1>22 DEF vars
<1> QED
  BY <1>1, <1>2, <1>3, <1>4, <1>5, <1>6, <1>7, <1>8, <1>9, <1>10, <1>11,
     <1>12, <1>13, <1>14, <1>15, <1>16, <1>17, <1>18, <1>19, <1>20, <1>21,
     <1>22
     DEF Next, Start, Stop, Reader

LEMMA Gate_Step ==
  ASSUME Flags_Inv, Places_Inv, Gate_Inv, [Next]_vars
  PROVE  Gate_Inv'
<1> USE DEF Flags_Inv, Places_Inv, Gate_Inv, AtRest, Places, Starting,
       Stopping, Losing, S, C, Threads, Modes, opVars, devVars, boardVars,
       readVars, pastVars
<1>1. CASE Produce
  BY <1>1 DEF Produce
<1>2. ASSUME NEW m \in Modes, NEW w \in BOOLEAN, StartBegins(m, w) PROVE Gate_Inv'
  BY <1>2 DEF StartBegins, At, HasLooked
<1>3. CASE OpenNative
  BY <1>3 DEF OpenNative, At
<1>4. CASE Drain
  BY <1>4 DEF Drain
<1>5. CASE DrainEnds
  BY <1>5 DEF DrainEnds, At
<1>6. CASE BoardObeys
  BY <1>6 DEF BoardObeys
<1>7. CASE BoardRefuses
  BY <1>7 DEF BoardRefuses
<1>8. CASE CommandLost
  BY <1>8 DEF CommandLost, At, ConsoleFails
<1>9. CASE StartFeeder
  BY <1>9 DEF StartFeeder
<1>10. CASE Confirm
  BY <1>10 DEF Confirm, At
<1>11. ASSUME NEW t \in Threads, StopNothing(t) PROVE Gate_Inv'
  BY <1>11 DEF StopNothing, At
<1>12. ASSUME NEW t \in Threads, StopBoard(t) PROVE Gate_Inv'
  BY <1>12 DEF StopBoard, Before, At
<1>13. ASSUME NEW t \in Threads, StopLost(t) PROVE Gate_Inv'
  BY <1>13 DEF StopLost, Before, At, ConsoleFails
<1>14. ASSUME NEW t \in Threads, TeardownGate(t) PROVE Gate_Inv'
  BY <1>14 DEF TeardownGate, At
<1>15. ASSUME NEW t \in Threads, TeardownClose(t) PROVE Gate_Inv'
  BY <1>15 DEF TeardownClose, Reply
<1>16. CASE CloseDaemon
  BY <1>16 DEF CloseDaemon
<1>17. CASE CloseDevice
  BY <1>17 DEF CloseDevice, At
<1>18. CASE ReaderLooks
  BY <1>18 DEF ReaderLooks
<1>19. CASE ReaderReads
  BY <1>19 DEF ReaderReads
<1>20. CASE ReaderChecks
  BY <1>20 DEF ReaderChecks
<1>21. CASE ReaderFeeds
  BY <1>21 DEF ReaderFeeds
<1>22. CASE UNCHANGED vars
  BY <1>22 DEF vars
<1> QED
  BY <1>1, <1>2, <1>3, <1>4, <1>5, <1>6, <1>7, <1>8, <1>9, <1>10, <1>11,
     <1>12, <1>13, <1>14, <1>15, <1>16, <1>17, <1>18, <1>19, <1>20, <1>21,
     <1>22
     DEF Next, Start, Stop, Reader

LEMMA Left_Step ==
  ASSUME Flags_Inv, Places_Inv, Left_Inv, [Next]_vars
  PROVE  Left_Inv'
<1> USE DEF Flags_Inv, Places_Inv, Left_Inv, AtRest, Places, Starting,
       Stopping, Losing, S, C, Threads, Modes, opVars, devVars, boardVars,
       readVars, pastVars
<1>1. CASE Produce
  BY <1>1 DEF Produce
<1>2. ASSUME NEW m \in Modes, NEW w \in BOOLEAN, StartBegins(m, w) PROVE Left_Inv'
  BY <1>2 DEF StartBegins, At, HasLooked
<1>3. CASE OpenNative
  BY <1>3 DEF OpenNative, At
<1>4. CASE Drain
  BY <1>4 DEF Drain
<1>5. CASE DrainEnds
  BY <1>5 DEF DrainEnds, At
<1>6. CASE BoardObeys
  BY <1>6 DEF BoardObeys
<1>7. CASE BoardRefuses
  BY <1>7 DEF BoardRefuses
<1>8. CASE CommandLost
  BY <1>8 DEF CommandLost, At, ConsoleFails
<1>9. CASE StartFeeder
  BY <1>9 DEF StartFeeder
<1>10. CASE Confirm
  BY <1>10 DEF Confirm, At
<1>11. ASSUME NEW t \in Threads, StopNothing(t) PROVE Left_Inv'
  BY <1>11 DEF StopNothing, At
<1>12. ASSUME NEW t \in Threads, StopBoard(t) PROVE Left_Inv'
  BY <1>12 DEF StopBoard, Before, At
<1>13. ASSUME NEW t \in Threads, StopLost(t) PROVE Left_Inv'
  BY <1>13 DEF StopLost, Before, At, ConsoleFails
<1>14. ASSUME NEW t \in Threads, TeardownGate(t) PROVE Left_Inv'
  BY <1>14 DEF TeardownGate, At
<1>15. ASSUME NEW t \in Threads, TeardownClose(t) PROVE Left_Inv'
  BY <1>15 DEF TeardownClose, Reply
<1>16. CASE CloseDaemon
  BY <1>16 DEF CloseDaemon
<1>17. CASE CloseDevice
  BY <1>17 DEF CloseDevice, At
<1>18. CASE ReaderLooks
  BY <1>18 DEF ReaderLooks
<1>19. CASE ReaderReads
  BY <1>19 DEF ReaderReads
<1>20. CASE ReaderChecks
  BY <1>20 DEF ReaderChecks
<1>21. CASE ReaderFeeds
  BY <1>21 DEF ReaderFeeds
<1>22. CASE UNCHANGED vars
  BY <1>22 DEF vars
<1> QED
  BY <1>1, <1>2, <1>3, <1>4, <1>5, <1>6, <1>7, <1>8, <1>9, <1>10, <1>11,
     <1>12, <1>13, <1>14, <1>15, <1>16, <1>17, <1>18, <1>19, <1>20, <1>21,
     <1>22
     DEF Next, Start, Stop, Reader

----------------------------------------------------------------------------
(* The reader's side of the types *)

LEMMA Produce_Reader ==
  ASSUME Reader_Inv, Produce
  PROVE  Reader_Inv'
<1> DEFINE piece == [run |-> run, n |-> sent \div 2, head |-> sent % 2 = 0]
<1>1. piece \in Pieces
  BY DEF Reader_Inv, Pieces
<1>2. kernel' \in Seq(Pieces)
  <2>1. kernel' = kernel \/ kernel' = Append(kernel, piece)
    BY DEF Produce
  <2>2. kernel \in Seq(Pieces)
    BY DEF Reader_Inv
  <2>3. \A q : q \in Pieces => Append(kernel, q) \in Seq(Pieces)
    BY <2>2
  <2> QED
    BY <1>1, <2>1, <2>2, <2>3
<1>3. sent' \in Nat
  <2>1. sent \in Nat /\ sent \div 2 \in Nat
    BY DEF Reader_Inv
  <2>2. sent' = sent + 1 \/ sent' = 2 * (sent \div 2) + 2
    BY DEF Produce
  <2> QED
    BY <2>1, <2>2
<1>4. ~fd' => kernel' = << >>
  BY DEF Produce, Reader_Inv, devVars
<1> QED
  BY <1>2, <1>3, <1>4
     DEF Produce, Reader_Inv, opVars, devVars, boardVars, readVars, pastVars

LEMMA ReaderFeeds_Reader ==
  ASSUME Reader_Inv, ReaderFeeds
  PROVE  Reader_Inv'
<1>1. held # << >> /\ Len(held) \in Nat \ {0} /\ Head(held) \in Pieces
  BY DEF ReaderFeeds, Reader_Inv
<1>2. held' \in Seq(Pieces) /\ (held' # << >> <=> Len(held) # 1)
  <2>1. held' = Tail(held) /\ Len(Tail(held)) = Len(held) - 1
    BY <1>1 DEF ReaderFeeds, Reader_Inv
  <2>2. Tail(held) \in Seq(Pieces)
    BY <1>1 DEF Reader_Inv
  <2>3. held' # << >> <=> Len(held) # 1
    <3>1. \A q \in Seq(Pieces) : q = << >> <=> Len(q) = 0
      OBVIOUS
    <3>2. held' = << >> <=> Len(held') = 0
      BY <2>1, <2>2, <3>1
    <3> QED
      BY <1>1, <2>1, <3>2
  <2> QED
    BY <2>1, <2>2, <2>3
<1>3. /\ buf' \in Seq(Pieces)
      /\ out' \in [run : Nat, n : Int]
      /\ mixed' \in BOOLEAN /\ skipped' \in BOOLEAN
  <2>1. CASE buf # << >>
    <3>1. buf[1] \in Pieces
      BY <2>1 DEF Reader_Inv
    <3>2. buf' = << >> /\ HandsOn(<< buf[1], Head(held) >>)
      BY <2>1 DEF ReaderFeeds, Split
    <3>3. out' = [run |-> buf[1].run, n |-> buf[1].n]
      BY <3>2 DEF HandsOn
    <3>4. mixed' \in BOOLEAN /\ skipped' \in BOOLEAN
      BY <3>2 DEF HandsOn, Reader_Inv
    <3> QED
      BY <3>1, <3>2, <3>3, <3>4 DEF Pieces
  <2>2. CASE buf = << >>
    <3>1. buf' = << >> \/ buf' = << Head(held) >>
      BY <2>2 DEF ReaderFeeds, Split
    <3>2. << >> \in Seq(Pieces) /\ << Head(held) >> \in Seq(Pieces)
      BY <1>1
    <3>3. UNCHANGED << out, mixed, skipped >>
      BY <2>2 DEF ReaderFeeds, Split
    <3> QED
      BY <3>1, <3>2, <3>3 DEF Reader_Inv
  <2> QED
    BY <2>1, <2>2
<1> QED
  BY <1>2, <1>3 DEF ReaderFeeds, Reader_Inv, opVars, devVars, boardVars

LEMMA Reader_Step ==
  ASSUME Reader_Inv, [Next]_vars
  PROVE  Reader_Inv'
<1> USE DEF Reader_Inv, Pieces, opVars, devVars, boardVars, readVars, pastVars
<1>1. CASE Produce
  BY <1>1, Produce_Reader
<1>2. ASSUME NEW m \in Modes, NEW w \in BOOLEAN, StartBegins(m, w) PROVE Reader_Inv'
  BY <1>2 DEF StartBegins, At
<1>3. CASE OpenNative
  BY <1>3 DEF OpenNative, At
<1>4. CASE Drain
  BY <1>4 DEF Drain
<1>5. CASE DrainEnds
  BY <1>5 DEF DrainEnds, At
<1>6. CASE BoardObeys
  BY <1>6 DEF BoardObeys
<1>7. CASE BoardRefuses
  BY <1>7 DEF BoardRefuses
<1>8. CASE CommandLost
  BY <1>8 DEF CommandLost, At, ConsoleFails
<1>9. CASE StartFeeder
  BY <1>9 DEF StartFeeder
<1>10. CASE Confirm
  BY <1>10 DEF Confirm, At
<1>11. ASSUME NEW t \in Threads, StopNothing(t) PROVE Reader_Inv'
  BY <1>11 DEF StopNothing, At
<1>12. ASSUME NEW t \in Threads, StopBoard(t) PROVE Reader_Inv'
  BY <1>12 DEF StopBoard, Before, At
<1>13. ASSUME NEW t \in Threads, StopLost(t) PROVE Reader_Inv'
  BY <1>13 DEF StopLost, Before, At, ConsoleFails
<1>14. ASSUME NEW t \in Threads, TeardownGate(t) PROVE Reader_Inv'
  BY <1>14 DEF TeardownGate, At
<1>15. ASSUME NEW t \in Threads, TeardownClose(t) PROVE Reader_Inv'
  BY <1>15 DEF TeardownClose, Reply
<1>16. CASE CloseDaemon
  BY <1>16 DEF CloseDaemon
<1>17. CASE CloseDevice
  BY <1>17 DEF CloseDevice, At
<1>18. CASE ReaderLooks
  BY <1>18 DEF ReaderLooks
<1>19. CASE ReaderReads
  BY <1>19 DEF ReaderReads
<1>20. CASE ReaderChecks
  BY <1>20 DEF ReaderChecks, Kept
<1>21. CASE ReaderFeeds
  BY <1>21, ReaderFeeds_Reader
<1>22. CASE UNCHANGED vars
  BY <1>22 DEF vars
<1> QED
  BY <1>1, <1>2, <1>3, <1>4, <1>5, <1>6, <1>7, <1>8, <1>9, <1>10, <1>11,
     <1>12, <1>13, <1>14, <1>15, <1>16, <1>17, <1>18, <1>19, <1>20, <1>21,
     <1>22
     DEF Next, Start, Stop, Reader

----------------------------------------------------------------------------
(* Where the pieces are *)

streamVars == << kernel, held, buf, run, sent, gen, reader_gen, out, mixed, skipped >>

\* What moves no piece and sends none leaves the stream alone, and so does a
\* stop of the board.
LEMMA Stream_Still ==
  ASSUME Reader_Inv, Stream_Inv,
         UNCHANGED streamVars,
         rpc' = rpc \/ "split" \notin {rpc, rpc'},
         board' = board \/ board' = "none",
         ~leftover' => ~leftover,
         ~overlapped' => ~overlapped,
         ~disturbed' => ~disturbed,
         S' \in {"open", "drain", "command"} => S \in {"open", "drain", "command"}
  PROVE  Stream_Inv'
<1> SUFFICES ASSUME ~leftover', ~overlapped' PROVE Stream_Inv'
  BY DEF Stream_Inv
<1>1. PICK next \in Nat : Queued(next) /\ Buffered(next) /\ Delivered(next)
  BY DEF Stream_Inv
<1>2. Queued(next)'
  BY <1>1 DEF Queued, P, streamVars
<1>3. Buffered(next)'
  BY <1>1 DEF Buffered, Current, P, streamVars
<1>4. Delivered(next)'
  BY <1>1 DEF Delivered, Current, streamVars
<1>5. S' \in {"open", "drain", "command"} =>
        kernel' = << >> /\ held' = << >> /\ reader_gen' < gen'
  BY DEF Stream_Inv, streamVars
<1> QED
  BY <1>2, <1>3, <1>4, <1>5 DEF Stream_Inv, streamVars

\* A drain that left nothing half done finds nothing.
LEMMA Drain_Stream ==
  ASSUME Flags_Inv, Stream_Inv, Drain
  PROVE  Stream_Inv'
BY DEF Drain, Flags_Inv, Stream_Inv, S, pastVars

LEMMA TeardownClose_Stream ==
  ASSUME NEW t \in Threads, Flags_Inv, Places_Inv, Gate_Inv, Reader_Inv, Stream_Inv,
         TeardownClose(t)
  PROVE  Stream_Inv'
<1> SUFFICES ASSUME ~leftover, ~overlapped PROVE Stream_Inv'
  BY DEF TeardownClose, Stream_Inv, pastVars
<1>1. board = "none"
  BY DEF TeardownClose, Gate_Inv, Places_Inv, Losing, Stopping, S, C, Threads
<1>2. PICK next \in Nat : Queued(next) /\ Buffered(next) /\ Delivered(next)
  BY DEF Stream_Inv
<1>3. kernel' = << >>
  BY DEF TeardownClose
<1> USE DEF TeardownClose, boardVars, readVars, pastVars
<1>4. Queued(next)'
  <2>1. Len(kernel) \in Nat /\ Len(held) \in Nat /\ sent \in Nat
    BY DEF Reader_Inv
  <2>2. Len(<< >>) = 0
    OBVIOUS
  <2> QED
    BY <1>1, <1>2, <1>3, <2>1, <2>2 DEF Queued, P
<1>5. Buffered(next)'
  BY <1>2 DEF Buffered, Current, P
<1>6. Delivered(next)'
  BY <1>1, <1>2, <1>3 DEF Delivered, Current
<1>7. S' \notin {"open", "drain", "command"} \/ S' = S
  BY DEF S, Places_Inv, Threads
<1> QED
  BY <1>3, <1>4, <1>5, <1>6, <1>7 DEF Stream_Inv

LEMMA Produce_Stream ==
  ASSUME Flags_Inv, Gate_Inv, Reader_Inv, Stream_Inv, Produce
  PROVE  Stream_Inv'
<1> SUFFICES ASSUME ~leftover, ~overlapped PROVE Stream_Inv'
  BY DEF Produce, Stream_Inv, pastVars
<1>1. PICK next \in Nat : Queued(next) /\ Buffered(next) /\ Delivered(next)
  BY DEF Stream_Inv
<1>2. board # "none" /\ fd /\ S \notin {"open", "drain", "command"}
  BY DEF Produce, Producing, Gate_Inv
<1>3. sent' = sent + 1 /\ kernel' = Append(kernel, P(sent))
  BY <1>2 DEF Produce, P
<1>4. UNCHANGED << pc, board, run, rpc, held, reader_gen, gen, buf, out, mixed,
                   skipped, leftover, disturbed >>
  BY DEF Produce, opVars, readVars, pastVars
<1>5. sent = next + Len(held) + Len(kernel)
  BY <1>1, <1>2 DEF Queued
<1>6. Len(kernel) \in Nat /\ Len(held) \in Nat
  BY DEF Reader_Inv
<1>7. Queued(next)'
  <2>1. Len(kernel') = Len(kernel) + 1
    BY <1>3 DEF Reader_Inv
  <2>2. ASSUME NEW i \in 1 .. Len(kernel') PROVE kernel'[i] = P(next + Len(held) + i - 1)
    <3>1. CASE i <= Len(kernel)
      BY <1>1, <1>3, <1>6, <2>1, <3>1 DEF Queued, Reader_Inv
    <3>2. CASE i = Len(kernel) + 1
      <4>1. kernel'[i] = P(sent)
        BY <1>3, <1>6, <3>2 DEF Reader_Inv
      <4>2. sent = next + Len(held) + i - 1
        BY <1>5, <1>6, <3>2
      <4> QED
        BY <4>1, <4>2
    <3> QED
      BY <1>6, <2>1, <3>1, <3>2
  <2>3. \A k : P(k)' = P(k)
    BY <1>4 DEF P
  <2>4. next + Len(held) + Len(kernel') = sent'
    BY <1>3, <1>5, <1>6, <2>1
  <2>5. \A i \in 1 .. Len(held') : held'[i] = P(next + i - 1)
    BY <1>1, <1>4 DEF Queued
  <2> QED
    <3>1. \A i \in 1 .. Len(held') : held'[i] = P(next + i - 1)'
      BY <2>3, <2>5
    <3>2. Len(held') = Len(held)
      BY <1>4
    <3>3. \A i \in 1 .. Len(kernel') : kernel'[i] = P(next + Len(held) + i - 1)'
      BY <1>4, <2>2 DEF P
    <3>4. next + Len(held') + Len(kernel') = sent'
      BY <2>4, <3>2
    <3>5. Len(kernel') \in Nat /\ Len(held') \in Nat
      BY <1>6, <2>1, <3>2
    <3> QED
      BY <3>1, <3>3, <3>4, <3>5 DEF Queued
<1>8. Buffered(next)'
  BY <1>1, <1>4 DEF Buffered, Current, P
<1>9. Delivered(next)'
  BY <1>1, <1>2, <1>4, <1>5 DEF Delivered, Current
<1>10. ~mixed
  BY DEF Stream_Inv
<1> QED
  BY <1>2, <1>4, <1>7, <1>8, <1>9, <1>10 DEF Stream_Inv, S

LEMMA StartBegins_Stream ==
  ASSUME NEW m \in Modes, NEW w \in BOOLEAN, ~ReaderMayStall,
         Flags_Inv, Places_Inv, Gate_Inv, Reader_Inv, Stream_Inv, StartBegins(m, w)
  PROVE  Stream_Inv'
<1> SUFFICES ASSUME ~leftover, ~overlapped PROVE Stream_Inv'
  BY DEF StartBegins, Stream_Inv
<1> USE DEF StartBegins, devVars, boardVars, readVars
<1>1. PICK next \in Nat : Queued(next) /\ Buffered(next) /\ Delivered(next)
  BY DEF Stream_Inv
<1>2. gen' = gen + 1 /\ reader_gen < gen'
  BY DEF Reader_Inv
<1>3. Queued(next)'
  BY <1>1 DEF Queued, P
<1>4. Buffered(next)'
  BY <1>1, <1>2 DEF Buffered, Current, P
<1>5. CASE running
  <2>1. disturbed' /\ S' = "idle"
    BY <1>5 DEF S
  <2>2. Delivered(next)'
    BY <2>1 DEF Delivered
  <2> QED
    BY <1>3, <1>4, <2>1, <2>2 DEF Stream_Inv
<1>6. CASE ~running
  <2>1. S = "idle" /\ disturbed' = disturbed
    BY <1>6 DEF At, S
  <2>2. board = "none" /\ kernel = << >> /\ held = << >>
    BY <1>6, <2>1 DEF Gate_Inv, AtRest, Reader_Inv
  <2>3. rpc # "split"
    BY <1>6
  <2>4. Delivered(next)'
    BY <1>1, <1>2, <2>1, <2>2, <2>3 DEF Delivered, Current, Reader_Inv
  <2> QED
    BY <1>2, <1>3, <1>4, <2>2, <2>4 DEF Stream_Inv
<1> QED
  BY <1>5, <1>6 DEF Flags_Inv

\* The board begins a run with nothing of an earlier one on its way.
LEMMA BoardObeys_Stream ==
  ASSUME Flags_Inv, Places_Inv, Gate_Inv, Reader_Inv, Stream_Inv, BoardObeys
  PROVE  Stream_Inv'
<1> SUFFICES ASSUME ~leftover, ~overlapped PROVE Stream_Inv'
  BY DEF BoardObeys, Stream_Inv, pastVars
<1> USE DEF BoardObeys, devVars, readVars, pastVars
<1>1. PICK next \in Nat : Queued(next) /\ Buffered(next) /\ Delivered(next)
  BY DEF Stream_Inv
<1>2. kernel = << >> /\ held = << >> /\ reader_gen < gen
  BY DEF Stream_Inv, S
<1>3. ~Current /\ ~Current' /\ rpc # "split"
  BY <1>2 DEF Current, Reader_Inv
<1>4. Queued(0)'
  BY <1>2 DEF Queued
<1>5. Buffered(0)'
  BY <1>3 DEF Buffered
<1>6. Delivered(0)'
  BY <1>1, <1>3 DEF Delivered, Reader_Inv
<1>7. S' \in {"confirm", "feed"}
  BY DEF S, Places_Inv, Threads
<1> QED
  BY <1>4, <1>5, <1>6, <1>7 DEF Stream_Inv

LEMMA ReaderReads_Stream ==
  ASSUME Flags_Inv, Reader_Inv, Stream_Inv, ReaderReads
  PROVE  Stream_Inv'
<1> SUFFICES ASSUME ~leftover, ~overlapped PROVE Stream_Inv'
  BY DEF ReaderReads, Stream_Inv, pastVars
<1> USE DEF ReaderReads, opVars, devVars, boardVars, pastVars
<1>1. PICK next \in Nat : Queued(next) /\ Buffered(next) /\ Delivered(next)
  BY DEF Stream_Inv
<1>2. held = << >>
  BY DEF Reader_Inv
<1>3. \/ held' = kernel /\ kernel' = << >> /\ kernel # << >>
      \/ held' = held /\ kernel' = kernel
  OBVIOUS
<1>4. Queued(next)'
  <2>1. Len(kernel) \in Nat /\ Len(held) = 0 /\ sent \in Nat
    BY <1>2 DEF Reader_Inv
  <2>2. CASE held' = held /\ kernel' = kernel
    BY <1>1, <2>2 DEF Queued, P
  <2>3. CASE held' = kernel /\ kernel' = << >>
    <3>1. Len(kernel') = 0 /\ Len(held') = Len(kernel)
      BY <2>3
    <3>2. \A i \in 1 .. Len(kernel) : kernel[i] = P(next + i - 1)
      BY <1>1, <2>1 DEF Queued
    <3>3. \A k : P(k)' = P(k)
      BY DEF P
    <3>4. \A i \in 1 .. Len(held') : held'[i] = P(next + i - 1)'
      BY <2>3, <3>2, <3>3
    <3> QED
      BY <1>1, <2>1, <3>1, <3>4 DEF Queued
  <2> QED
    BY <1>3, <2>2, <2>3
<1>5. Buffered(next)'
  BY <1>1 DEF Buffered, Current, P
<1>6. Delivered(next)'
  BY <1>1, <1>2, <1>3 DEF Delivered, Current
<1>7. S' = S /\ (S \in {"open", "drain", "command"} =>
                   kernel' = << >> /\ held' = << >> /\ reader_gen' < gen')
  BY <1>3 DEF Stream_Inv, S
<1> QED
  BY <1>4, <1>5, <1>6, <1>7 DEF Stream_Inv

LEMMA ReaderChecks_Stream ==
  ASSUME Flags_Inv, Reader_Inv, Stream_Inv, ReaderChecks
  PROVE  Stream_Inv'
<1> SUFFICES ASSUME ~leftover, ~overlapped PROVE Stream_Inv'
  BY DEF ReaderChecks, Stream_Inv, pastVars
<1> USE DEF ReaderChecks, opVars, devVars, boardVars, pastVars
<1>1. PICK next \in Nat : Queued(next) /\ Buffered(next) /\ Delivered(next)
  BY DEF Stream_Inv
<1>2. held # << >>
  BY DEF Reader_Inv
<1>3. Queued(next)'
  BY <1>1 DEF Queued, P
<1>4. CASE reader_gen = gen
  <2>1. Current /\ Current' /\ buf' = buf
    BY <1>4 DEF Current, Kept
  <2>2. Buffered(next)'
    BY <1>1, <2>1 DEF Buffered, P
  <2>3. Delivered(next)'
    BY <1>1, <2>1 DEF Delivered
  <2> QED
    BY <1>2, <1>3, <2>2, <2>3 DEF Stream_Inv, S
<1>5. CASE reader_gen # gen
  <2>1. buf' = << >>
    BY <1>5 DEF Kept
  <2>2. Buffered(next)'
    BY <2>1 DEF Buffered
  <2>3. ~disturbed => next = 0
    BY <1>1, <1>2, <1>5 DEF Delivered
  <2>4. Delivered(next)'
    BY <1>1, <2>3 DEF Delivered
  <2> QED
    BY <1>2, <1>3, <2>2, <2>4 DEF Stream_Inv, S
<1> QED
  BY <1>4, <1>5

\* The piece that is split is number `next`, and the next one follows it.
LEMMA ReaderFeeds_Stream ==
  ASSUME Flags_Inv, Reader_Inv, Stream_Inv, ReaderFeeds
  PROVE  Stream_Inv'
<1> SUFFICES ASSUME ~leftover, ~overlapped PROVE Stream_Inv'
  BY DEF ReaderFeeds, Stream_Inv
<1>1. PICK next \in Nat : Queued(next) /\ Buffered(next) /\ Delivered(next)
  BY DEF Stream_Inv
<1>2. /\ UNCHANGED << pc, board, run, sent, kernel, gen, reader_gen, leftover, disturbed >>
      /\ rpc = "split" /\ held' = Tail(held) /\ Split(Head(held))
  BY DEF ReaderFeeds, opVars, boardVars
<1>3. held # << >> /\ Len(held) \in Nat \ {0} /\ Len(kernel) \in Nat
  BY <1>2 DEF Reader_Inv
<1>4. Len(held') = Len(held) - 1 /\ \A i \in 1 .. Len(held') : held'[i] = held[i + 1]
  BY <1>2, <1>3 DEF Reader_Inv
<1>5. Head(held) = P(next)
  BY <1>1, <1>3 DEF Queued, Reader_Inv
<1>6. \A k : P(k)' = P(k)
  BY <1>2 DEF P
<1>7. Queued(next + 1)'
  <2>1. ASSUME NEW i \in 1 .. Len(held') PROVE held'[i] = P(next + 1 + i - 1)
    <3>1. i + 1 \in 1 .. Len(held)
      BY <1>3, <1>4
    <3>2. held[i + 1] = P(next + (i + 1) - 1)
      BY <1>1, <3>1 DEF Queued
    <3>3. next + (i + 1) - 1 = next + 1 + i - 1
      OBVIOUS
    <3> QED
      BY <1>4, <3>2, <3>3
  <2>2. ASSUME NEW i \in 1 .. Len(kernel) PROVE kernel[i] = P(next + 1 + Len(held') + i - 1)
    <3>1. kernel[i] = P(next + Len(held) + i - 1)
      BY <1>1 DEF Queued
    <3>2. next + Len(held) + i - 1 = next + 1 + Len(held') + i - 1
      BY <1>3, <1>4
    <3> QED
      BY <3>1, <3>2
  <2>3. next + 1 + Len(held') + Len(kernel) = next + Len(held) + Len(kernel)
    BY <1>3, <1>4
  <2> QED
    BY <1>1, <1>2, <1>6, <2>1, <2>2, <2>3 DEF Queued
<1>8. Current
  BY <1>2 DEF Current
<1>9. Buffered(next + 1)' /\ Delivered(next + 1)' /\ ~mixed'
  <2>1. CASE buf # << >>
    <3>1. next % 2 = 1 /\ buf[1] = P(next - 1) /\ buf' = << >>
      BY <1>1, <1>2, <1>8, <2>1 DEF Buffered, Split
    <3>2. HandsOn(<< P(next - 1), P(next) >>)
      BY <1>1, <1>2, <1>5, <1>8, <2>1 DEF Buffered, Split
    <3>3. /\ next - 1 \in Nat /\ (next - 1) % 2 = 0 /\ (next + 1) % 2 = 0
          /\ (next - 1) \div 2 = next \div 2
          /\ (next + 1) \div 2 = next \div 2 + 1
          /\ next < 2 => next \div 2 = 0
      BY <3>1
    <3>4. Whole(<< P(next - 1), P(next) >>)
      <4>1. P(next - 1).run = P(next).run /\ P(next - 1).n = P(next).n
        BY <3>3 DEF P
      <4>2. P(next - 1).head /\ ~P(next).head
        <5>1. \A k : P(k).head <=> k % 2 = 0
          BY DEF P
        <5>2. next % 2 # 0
          BY <3>1
        <5> QED
          BY <3>3, <5>1, <5>2
      <4> QED
        BY <4>1, <4>2 DEF Whole
    <3>5. ~mixed'
      BY <3>2, <3>4 DEF HandsOn, Stream_Inv
    <3>6. out' = [run |-> run, n |-> next \div 2]
      BY <3>2, <3>3 DEF HandsOn, P
    <3>7. ~disturbed => ~skipped'
      <4>1. ~disturbed => InOrder(<< P(next - 1), P(next) >>, out)
        BY <1>1, <3>3 DEF Delivered, InOrder, P, Reader_Inv
      <4> QED
        BY <1>1, <3>2, <4>1 DEF HandsOn, Delivered
    <3>8. Delivered(next + 1)'
      <4>1. next + 1 \in Nat /\ out'.run = run /\ out'.n = ((next + 1) \div 2) - 1
        BY <3>3, <3>6
      <4>2. ~disturbed => reader_gen = gen
        BY <1>1, <1>2 DEF Delivered
      <4> QED
        BY <1>2, <3>3, <3>7, <4>1, <4>2 DEF Delivered, Current, Reader_Inv
    <3>9. Buffered(next + 1)'
      BY <3>1 DEF Buffered
    <3> QED
      BY <3>5, <3>8, <3>9
  <2>2. CASE buf = << >>
    <3>1. UNCHANGED << out, mixed, skipped >>
      BY <1>2, <2>2 DEF Split
    <3>2. buf' = IF next % 2 = 0 THEN << P(next) >> ELSE << >>
      <4>1. P(next).head <=> next % 2 = 0
        BY DEF P
      <4>2. buf' = IF P(next).head THEN << P(next) >> ELSE << >>
        BY <1>2, <1>5, <2>2 DEF Split
      <4> QED
        BY <4>1, <4>2
    <3>3. next % 2 = 0 => /\ (next + 1) % 2 = 1
                          /\ (next + 1) \div 2 = next \div 2
                          /\ next < 2 => next + 1 < 2
      OBVIOUS
    <3>4. next % 2 = 0 \/ next % 2 = 1
      OBVIOUS
    <3>5. Buffered(next + 1)'
      <4>1. (next + 1) - 1 = next
        OBVIOUS
      <4> QED
        BY <1>6, <3>2, <3>3, <4>1 DEF Buffered
    <3>6. ~disturbed => next % 2 = 0 /\ reader_gen = gen
      BY <1>1, <1>2, <1>8, <2>2, <3>4 DEF Delivered
    <3>7. Delivered(next + 1)'
      BY <1>1, <1>2, <3>1, <3>2, <3>3, <3>6 DEF Delivered, Current
    <3> QED
      BY <3>1, <3>5, <3>7 DEF Stream_Inv
  <2> QED
    BY <2>1, <2>2
<1>10. S' = S /\ S \notin {"open", "drain", "command"}
  BY <1>2, <1>3 DEF Stream_Inv, S
<1>11. next + 1 \in Nat
  OBVIOUS
<1> QED
  BY <1>7, <1>9, <1>10, <1>11 DEF Stream_Inv

LEMMA Stream_Step ==
  ASSUME ~ReaderMayStall, Flags_Inv, Places_Inv, Gate_Inv,
         Reader_Inv, Stream_Inv, [Next]_vars
  PROVE  Stream_Inv'
<1>1. CASE Produce
  BY <1>1, Produce_Stream
<1>2. ASSUME NEW m \in Modes, NEW w \in BOOLEAN, StartBegins(m, w) PROVE Stream_Inv'
  BY <1>2, StartBegins_Stream
<1>3. CASE OpenNative
  BY <1>3, Stream_Still DEF OpenNative, At, Flags_Inv, Places_Inv, Places, S,
     Threads, streamVars, opVars, devVars, boardVars, readVars, pastVars
<1>4. CASE Drain
  BY <1>4, Drain_Stream
<1>5. CASE DrainEnds
  BY <1>5, Stream_Still DEF DrainEnds, At, Flags_Inv, Places_Inv, Places, S,
     Threads, streamVars, opVars, devVars, boardVars, readVars, pastVars
<1>6. CASE BoardObeys
  BY <1>6, BoardObeys_Stream
<1>7. CASE BoardRefuses
  BY <1>7, Stream_Still DEF BoardRefuses, Flags_Inv, Places_Inv, Places, S,
     Threads, streamVars, opVars, devVars, boardVars, readVars, pastVars
<1>8. CASE CommandLost
  BY <1>8, Stream_Still DEF CommandLost, At, ConsoleFails, Flags_Inv,
     Places_Inv, Places, S, Threads, streamVars, opVars, devVars, boardVars,
     readVars, pastVars
<1>9. CASE StartFeeder
  BY <1>9, Stream_Still DEF StartFeeder, Flags_Inv, Places_Inv, Places, S,
     Threads, streamVars, opVars, devVars, boardVars, readVars, pastVars
<1>10. CASE Confirm
  BY <1>10, Stream_Still DEF Confirm, At, Flags_Inv, Places_Inv, Places, S,
     Threads, streamVars, opVars, devVars, boardVars, readVars, pastVars
<1>11. ASSUME NEW t \in Threads, StopNothing(t) PROVE Stream_Inv'
  BY <1>11, Stream_Still DEF StopNothing, At, Flags_Inv, Places_Inv, Places, S,
     Threads, streamVars, opVars, devVars, boardVars, readVars, pastVars
<1>12. ASSUME NEW t \in Threads, StopBoard(t) PROVE Stream_Inv'
  BY <1>12, Stream_Still DEF StopBoard, Before, At, Flags_Inv, Places_Inv, Places, S,
     Threads, streamVars, opVars, devVars, boardVars, readVars, pastVars
<1>13. ASSUME NEW t \in Threads, StopLost(t) PROVE Stream_Inv'
  BY <1>13, Stream_Still DEF StopLost, Before, At, ConsoleFails, Flags_Inv, Places_Inv,
     Places, S, Threads, streamVars, opVars, devVars, boardVars, readVars,
     pastVars
<1>14. ASSUME NEW t \in Threads, TeardownGate(t) PROVE Stream_Inv'
  BY <1>14, Stream_Still DEF TeardownGate, At, Flags_Inv, Places_Inv, Places,
     S, Threads, streamVars, opVars, devVars, boardVars, readVars, pastVars
<1>15. ASSUME NEW t \in Threads, TeardownClose(t) PROVE Stream_Inv'
  BY <1>15, TeardownClose_Stream
<1>16. CASE CloseDaemon
  BY <1>16, Stream_Still DEF CloseDaemon, Flags_Inv, Places_Inv, Places, S,
     Threads, streamVars, opVars, devVars, boardVars, readVars, pastVars
<1>17. CASE CloseDevice
  BY <1>17, Stream_Still DEF CloseDevice, At, Flags_Inv, Places_Inv, Places, S,
     Threads, streamVars, opVars, devVars, boardVars, readVars, pastVars
<1>18. CASE ReaderLooks
  BY <1>18, Stream_Still DEF ReaderLooks, Flags_Inv, Places_Inv, Places, S,
     Threads, streamVars, opVars, devVars, boardVars, readVars, pastVars
<1>19. CASE ReaderReads
  BY <1>19, ReaderReads_Stream
<1>20. CASE ReaderChecks
  BY <1>20, ReaderChecks_Stream
<1>21. CASE ReaderFeeds
  BY <1>21, ReaderFeeds_Stream
<1>22. CASE UNCHANGED vars
  BY <1>22, Stream_Still DEF vars, S, streamVars, opVars, devVars, boardVars,
     readVars, pastVars
<1> QED
  BY <1>1, <1>2, <1>3, <1>4, <1>5, <1>6, <1>7, <1>8, <1>9, <1>10, <1>11,
     <1>12, <1>13, <1>14, <1>15, <1>16, <1>17, <1>18, <1>19, <1>20, <1>21,
     <1>22
     DEF Next, Start, Stop, Reader

----------------------------------------------------------------------------
(* Theorems *)

Order_Inv == Flags_Inv /\ Places_Inv /\ Gate_Inv /\ Left_Inv

LEMMA Order_Init ==
  ASSUME Init
  PROVE  Order_Inv
BY DEF Init, Order_Inv, Flags_Inv, Places_Inv, Gate_Inv, Left_Inv, AtRest, Places, Starting,
       Stopping, Losing, S, C, Threads, Modes

LEMMA Stream_Init ==
  ASSUME Init
  PROVE  Reader_Inv /\ Stream_Inv
<1>1. Reader_Inv
  <2>1. << >> \in Seq(Pieces) /\ NoFrame \in [run : Nat, n : Int]
    BY DEF NoFrame
  <2> QED
    <3>1. kernel \in Seq(Pieces) /\ held \in Seq(Pieces) /\ buf \in Seq(Pieces)
      BY <2>1 DEF Init
    <3>2. out \in [run : Nat, n : Int]
      BY <2>1 DEF Init
    <3>3. /\ run \in Nat /\ sent \in Nat /\ gen \in Nat /\ reader_gen \in Nat
          /\ reader_gen <= gen
      BY DEF Init
    <3>5. mixed \in BOOLEAN /\ skipped \in BOOLEAN
      BY DEF Init
    <3>4. held = << >> /\ kernel = << >> /\ rpc = "gate"
      BY DEF Init
    <3> QED
      BY <3>1, <3>2, <3>3, <3>4, <3>5 DEF Reader_Inv
<1>2. Queued(0)
  BY DEF Init, Queued
<1>3. Buffered(0)
  BY DEF Init, Buffered
<1>4. Delivered(0)
  BY DEF Init, Delivered, Current, NoFrame
<1> QED
  BY <1>1, <1>2, <1>3, <1>4 DEF Init, Stream_Inv, S, Threads

\* The order of the assignments in start and stop, at every step of a run.
THEOREM DeviceRun_Ordered == Spec => []Order_Inv
<1>1. Init => Order_Inv
  BY Order_Init
<1>2. Order_Inv /\ [Next]_vars => Order_Inv'
  BY Flags_Step, Places_Step, Gate_Step, Left_Step DEF Order_Inv
<1> QED
  BY <1>1, <1>2, PTL DEF Spec

\* While the drain owns the descriptor the reader keeps off it, and while the
\* board sends there is a reader: BoardDevice.start opens the gate after the
\* drain and before the mode command, BoardDevice.stop shuts it last.
THEOREM DeviceRun_OneReader == Spec => []OneReader
<1>1. Order_Inv => OneReader
  BY DEF Order_Inv, Flags_Inv, Places_Inv, Gate_Inv, OneReader, GateOpen, Producing,
         S, C, Starting, Stopping, Losing
<1> QED
  BY <1>1, DeviceRun_Ordered, PTL

\* A daemon that has closed its device leaves the board stopped and the port
\* closed, whatever the session was doing or does later, except for a start
\* that close() did not see the end of and for what failed operations left.
THEOREM DeviceRun_ClosedMeansStopped == Spec => []ClosedMeansStopped
<1>1. Order_Inv => ClosedMeansStopped
  BY DEF Order_Inv, Flags_Inv, Left_Inv, AtRest, ClosedMeansStopped, S, C
<1> QED
  BY <1>1, DeviceRun_Ordered, PTL

\* Frames handed on by a reader that lives were in order; a reader that has
\* ended hands on no more.
LEMMA Clean_Step ==
  ASSUME Flags_Inv, Places_Inv, Stream_Inv, Stream_Inv', Clean_Inv, [Next]_vars
  PROVE  Clean_Inv'
<1>1. CASE ReaderFeeds
  <2>1. ~overlapped'
    BY <1>1 DEF ReaderFeeds, Flags_Inv, Places_Inv
  <2> QED
    BY <2>1 DEF Stream_Inv, Delivered, Clean_Inv
<1>2. CASE ~ReaderFeeds
  <2>1. UNCHANGED << mixed, skipped >>
    BY <1>2 DEF Next, Start, Stop, Reader, vars, pastVars, Produce, StartBegins,
       OpenNative, Drain, DrainEnds, BoardObeys, BoardRefuses, CommandLost,
       StartFeeder, Confirm, StopNothing, StopBoard, StopLost, TeardownGate,
       TeardownClose, CloseDaemon, CloseDevice, ReaderLooks, ReaderReads,
       ReaderChecks
  <2>2. (leftover => leftover') /\ (disturbed => disturbed')
    BY <1>2, Zenon DEF Flags_Inv, Next, Start, Stop, Reader, vars, pastVars, Produce, StartBegins,
       OpenNative, Drain, DrainEnds, BoardObeys, BoardRefuses, CommandLost,
       StartFeeder, Confirm, StopNothing, StopBoard, StopLost, TeardownGate,
       TeardownClose, CloseDaemon, CloseDevice, ReaderLooks, ReaderReads,
       ReaderChecks
  <2> QED
    BY <2>1, <2>2 DEF Clean_Inv
<1> QED
  BY <1>1, <1>2

\* What the reader and the kernel hold is the board's stream without a gap, and
\* nothing of an earlier run is on its way when a run begins.
THEOREM DeviceRun_InOrder ==
  ASSUME ~ReaderMayStall
  PROVE  Spec => [](Order_Inv /\ Reader_Inv /\ Stream_Inv /\ Clean_Inv)
<1> DEFINE IInv == Order_Inv /\ Reader_Inv /\ Stream_Inv /\ Clean_Inv
<1>1. Init => IInv
  BY Order_Init, Stream_Init DEF Init, Clean_Inv
<1>2. IInv /\ [Next]_vars => IInv'
  BY Flags_Step, Places_Step, Gate_Step, Left_Step, Reader_Step, Stream_Step,
     Clean_Step DEF Order_Inv
<1> HIDE DEF IInv
<1>3. Spec => []IInv
  BY <1>1, <1>2, PTL DEF Spec
<1> QED
  BY <1>3, PTL DEF IInv

\* No frame handed to the clients is put together from pieces of two, for a
\* reader that has handed on what it had by the time of the next start.
THEOREM DeviceRun_OnlyWholeFrames ==
  ASSUME ~ReaderMayStall
  PROVE  Spec => []OnlyWholeFrames
<1>1. Clean_Inv => OnlyWholeFrames
  BY DEF Clean_Inv, OnlyWholeFrames
<1> QED
  BY <1>1, DeviceRun_InOrder, PTL

\* Every frame of a run reaches the clients, the first one included and in
\* order, unless a start was refused while the run lasted.
THEOREM DeviceRun_EveryFrameDelivered ==
  ASSUME ~ReaderMayStall
  PROVE  Spec => []EveryFrameDelivered
<1>1. Clean_Inv => EveryFrameDelivered
  BY DEF Clean_Inv, EveryFrameDelivered
<1> QED
  BY <1>1, DeviceRun_InOrder, PTL

----------------------------------------------------------------------------
(* CommandLink: who is on the link *)

\* Whoever reads the link or closes the native port has the lock, and what a
\* thread finds the link for is never the one or the other by itself.
Wants == {"query", "switch", "recv"}
LinkPlaces == {"idle", "control", "opening", "reading", "drop", "invalidate", "period",
           "handle", "closing"}
Exclusive ==
  /\ place \in [Users -> Wants \cup LinkPlaces]
  /\ want \in [Users -> Wants]
  /\ \A u \in Users : place[u] \in {"reading", "closing"} => lock = u
  /\ ~cut

\* Each step of each thread keeps the lock's owner the only one inside.
LEMMA ExclusiveStep ==
  ASSUME Exclusive, [LinkNext]_commandVars
  PROVE  Exclusive'
<1> USE DEF Exclusive, Wants, LinkPlaces, linkVars
<1>0. Nobody \notin Users /\ Pump \in Users /\ Sessions \subseteq Users
  BY LinkAssumption DEF Users, Nobody, Pump
<1>1. ASSUME NEW t \in Sessions, Query(t) PROVE Exclusive'
  BY <1>0, <1>1 DEF Query, Begin, Moves, Goto
<1>2. ASSUME NEW t \in Sessions, Switch(t) PROVE Exclusive'
  BY <1>0, <1>2 DEF Switch, Begin, Moves, Goto
<1>3. ASSUME NEW t \in Sessions, CloseNative(t) PROVE Exclusive'
  BY <1>0, <1>3 DEF CloseNative, MayClose, Moves, Goto
<1>4. ASSUME NEW t \in Users, ControlCached(t) PROVE Exclusive'
  BY <1>0, <1>4 DEF ControlCached, Holds, Goto
<1>5. ASSUME NEW t \in Users, ControlStale(t) PROVE Exclusive'
  BY <1>0, <1>5 DEF ControlStale
<1>6. ASSUME NEW t \in Users, ControlRefused(t) PROVE Exclusive'
  BY <1>0, <1>6 DEF ControlRefused, Holds, Goto
<1>7. ASSUME NEW t \in Users, ControlUnidentified(t) PROVE Exclusive'
  BY <1>0, <1>7 DEF ControlUnidentified, Holds, Goto
<1>8. ASSUME NEW t \in Users, ControlTakes(t) PROVE Exclusive'
  BY <1>0, <1>8 DEF ControlTakes, Holds, Goto
<1>9. ASSUME NEW t \in Users, BoardOpens(t) PROVE Exclusive'
  BY <1>0, <1>9 DEF BoardOpens, Moves, Goto
<1>10. ASSUME NEW t \in Users, BoardOpened(t) PROVE Exclusive'
  BY <1>0, <1>10 DEF BoardOpened, Holds, Goto
<1>11. ASSUME NEW t \in Users, QueryAsks(t) PROVE Exclusive'
  BY <1>0, <1>11 DEF QueryAsks, TakeLock, Moves, Goto
<1>12. ASSUME NEW t \in Users, QueryAnswered(t) PROVE Exclusive'
  BY <1>0, <1>12 DEF QueryAnswered, Moves, Goto
<1>13. ASSUME NEW t \in Users, QueryFails(t) PROVE Exclusive'
  BY <1>0, <1>13 DEF QueryFails, Moves, Goto
<1>14. ASSUME NEW t \in Users, Drop(t) PROVE Exclusive'
  BY <1>0, <1>14 DEF Drop, Goto
<1>15. ASSUME NEW t \in Users, DropInvalidates(t) PROVE Exclusive'
  BY <1>0, <1>15 DEF DropInvalidates, Moves, Goto
<1>16. ASSUME NEW t \in Users, SwitchAsks(t) PROVE Exclusive'
  BY <1>0, <1>16 DEF SwitchAsks, TakeLock, Moves, Goto
<1>17. ASSUME NEW t \in Users, SwitchDone(t) PROVE Exclusive'
  BY <1>0, <1>17 DEF SwitchDone, Goto
<1>18. ASSUME NEW t \in Users, Closed(t) PROVE Exclusive'
  BY <1>0, <1>18 DEF Closed, Moves, Goto
<1>19. ASSUME NEW t \in Users, Wedged(t) PROVE Exclusive'
  BY <1>0, <1>19 DEF Wedged, Moves, Goto
<1>20. ASSUME NEW t \in Users, NEW on \in BOOLEAN, SetPeriod(t, on) PROVE Exclusive'
  BY <1>0, <1>20 DEF SetPeriod, Moves, Goto
<1>21. CASE PumpRound
  BY <1>0, <1>21 DEF PumpRound, Begin, Moves, Goto
<1>22. CASE PumpLocks
  BY <1>0, <1>22 DEF PumpLocks, TakeLock, Moves, Goto
<1>23. CASE PumpReads
  BY <1>0, <1>23 DEF PumpReads, Goto
<1>24. CASE PumpHandles
  BY <1>0, <1>24 DEF PumpHandles, Moves, Goto
<1>25. CASE UNCHANGED commandVars
  BY <1>25 DEF commandVars
<1> QED
  BY <1>0, <1>1, <1>2, <1>3, <1>4, <1>5, <1>6, <1>7, <1>8, <1>9, <1>10, <1>11, <1>12,
     <1>13, <1>14, <1>15, <1>16, <1>17, <1>18, <1>19, <1>20, <1>21, <1>22, <1>23, <1>24,
          <1>25
     DEF LinkNext, Ask, Work, Control, PumpWork

\* The ladder of Board.close_native runs under the lock, and so does every read:
\* it never closes the link that somebody is reading.
THEOREM LadderIsExclusive == LinkSpec => []LadderSparesReaders
<1>1. LinkInit => Exclusive
  BY DEF LinkInit, Exclusive, Wants, LinkPlaces
<1>2. Exclusive /\ [LinkNext]_commandVars => Exclusive'
  BY ExclusiveStep
<1>3. Exclusive => LadderSparesReaders
  BY DEF Exclusive, LadderSparesReaders
<1> QED  BY <1>1, <1>2, <1>3, PTL DEF LinkSpec

----------------------------------------------------------------------------
(* Flash: the boards and the log *)

Cpus  == {"absent", "running", "rom", "resetting"}
Flows == {"idle", "start", "touch", "closing", "await", "second", "clearing", "write",
          "writeconsole", "boot", "restore", "over"}
Rows  == [image : Stamps, tree : [rev : Revs \cup {"unknown"}, delta : {"clean", "dirty"}],
          sound : BOOLEAN]

BoardsTyped ==
  /\ cpu \in [Boards -> Cpus]
  /\ flash \in [Boards -> Stamps \cup {Erased, Other}]
  /\ node \in [Boards -> Names \cup {NoName}]

FlashTypes ==
  /\ BoardsTyped
  /\ asks \in {"nothing", "port"} /\ requireTree \in BOOLEAN
  /\ tree \in Stamps
  /\ image \in [stamp : Stamps, container : BOOLEAN, stale : BOOLEAN]
  /\ step \in Flows
  /\ log \in Seq(Rows)
  /\ speed \in {"1200", "115200"}
  /\ missed \in BOOLEAN

\* After its touches an attempt uses a port that it has set back or knows it has
\* not; a port is found in an attempt; a run that reported something is over.
Orderly ==
  /\ console /\ ~unrestored /\ step \notin {"touch", "closing", "clearing"}
       => speed = "115200"
  /\ step \in {"idle", "start"} => ~console
  /\ step = "idle" \/ status = "running"

----------------------------------------------------------------------------
(* The types and the order of a run *)

\* The two boards have different nodes to begin with.
LEMMA NodeInit ==
  FlashInit => node \in [Boards -> Names \cup {NoName}] /\ node[Ours] # node[Theirs]
<1> SUFFICES ASSUME FlashInit
             PROVE  node \in [Boards -> Names \cup {NoName}] /\ node[Ours] # node[Theirs]
  OBVIOUS
<1> DEFINE Named(f) == /\ f[Ours] # NoName /\ f[Ours] # f[Theirs]
                       /\ (f[Theirs] = NoName) <=> (cpu[Theirs] = "absent")
<1>1. PICK m \in Names, n \in Names : m # n
  BY FlashAssumption
<1>2. \E f \in [Boards -> Names \cup {NoName}] : Named(f)
  <2> DEFINE g == [b \in Boards |-> IF b = Ours THEN m
                                    ELSE IF cpu[Theirs] = "absent" THEN NoName ELSE n]
  <2>1. g \in [Boards -> Names \cup {NoName}]
    OBVIOUS
  <2>2. Named(g)
    BY <1>1, FlashAssumption DEF Boards, Ours, Theirs
  <2> HIDE DEF g
  <2> QED  BY <2>1, <2>2
<1>3. node = CHOOSE f \in [Boards -> Names \cup {NoName}] : Named(f)
  BY DEF FlashInit
<1> HIDE DEF Named
<1>4. node \in [Boards -> Names \cup {NoName}] /\ Named(node)
  BY <1>2, <1>3
<1> QED  BY <1>4 DEF Named

LEMMA FlashTypeInit == FlashInit => FlashTypes
<1> SUFFICES ASSUME FlashInit PROVE FlashTypes
  OBVIOUS
<1>1. cpu \in [Boards -> Cpus]
  <2>1. PICK o \in {"running", "rom"}, t \in {"absent", "running", "rom"} :
          cpu = [b \in Boards |-> IF b = Ours THEN o ELSE t]
    BY DEF FlashInit
  <2> QED  BY <2>1 DEF Cpus
<1>2. node \in [Boards -> Names \cup {NoName}]
  BY NodeInit
<1>3. tree \in Stamps
  BY FlashAssumption DEF FlashInit, Stamps
<1>4. image \in [stamp : Stamps, container : BOOLEAN, stale : BOOLEAN]
  BY <1>3 DEF FlashInit
<1>5. log \in Seq(Rows)
  <2>1. \A R : << >> \in Seq(R)
    OBVIOUS
  <2> QED  BY <2>1 DEF FlashInit
<1>6. flash \in [Boards -> Stamps \cup {Erased, Other}]
  BY DEF FlashInit
<1>7. /\ asks \in {"nothing", "port"} /\ requireTree \in BOOLEAN
      /\ step \in Flows /\ missed \in BOOLEAN /\ speed \in {"1200", "115200"}
  BY DEF FlashInit, Flows
<1> QED  BY <1>1, <1>2, <1>3, <1>4, <1>5, <1>6, <1>7 DEF FlashTypes, BoardsTyped

LEMMA BossacTypes == FlashTypes /\ Bossac => FlashTypes'
<1> SUFFICES ASSUME FlashTypes, Bossac PROVE FlashTypes'
  OBVIOUS
<1>1. UNCHANGED << asks, requireTree, tree, image, log, missed >>
      /\ speed' \in {"1200", "115200"}
  BY DEF Bossac, asked, treeVars, FlashTypes
<1>2. image.stamp \in Stamps
  BY DEF FlashTypes, BoardsTyped
<1>3. step' \in Flows
  BY DEF Bossac, GoneFromTheBus, Written, NotWritten, Fails, Flows
<1>4. BoardsTyped'
  <2>1. CASE GoneFromTheBus
    BY <2>1 DEF GoneFromTheBus, FlashTypes, BoardsTyped
  <2>2. ASSUME NEW b \in WritesTo, Written(b) PROVE BoardsTyped'
    BY <2>2, <1>2 DEF Written, Reset, FlashTypes, BoardsTyped, Cpus
  <2>3. ASSUME NEW b \in WritesTo, NotWritten(b) PROVE BoardsTyped'
    BY <2>3 DEF NotWritten, Erases, Reset, FlashTypes, BoardsTyped, Cpus
  <2> QED  BY <2>1, <2>2, <2>3 DEF Bossac
<1> QED  BY <1>1, <1>3, <1>4 DEF FlashTypes, BoardsTyped

LEMMA RestoreTypes ==
  FlashTypes /\ restore_115200 => BoardsTyped' /\ speed' \in {"1200", "115200"}
BY DEF restore_115200, Opens, Erases, Reset, FlashTypes, BoardsTyped, Cpus

LEMMA LogRowTypes ==
  ASSUME FlashTypes, Logs PROVE log' \in Seq(Rows)
<1>1. \A t \in {tree} \cup Misread : LogRow(t) \in Rows
  BY DEF LogRow, Misread, Rows, FlashTypes, Stamps
<1>2. \A R, x : x \in R /\ log \in Seq(R) => Append(log, x) \in Seq(R)
  OBVIOUS
<1>3. log' = log \/ \E t \in {tree} \cup Misread : log' = Append(log, LogRow(t))
  BY DEF Logs
<1> QED  BY <1>1, <1>2, <1>3 DEF FlashTypes

LEMMA FlashTypeStep == FlashTypes /\ [FlashNext]_flashVars => FlashTypes'
<1> SUFFICES ASSUME FlashTypes, [FlashNext]_flashVars PROVE FlashTypes'
  OBVIOUS
<1> USE DEF asked, treeVars, awaitVars, dueVars, toolVars, history
<1>1. CASE Run
  BY <1>1 DEF Run, FlashTypes, BoardsTyped, Flows
<1>2. CASE FindPort
  BY <1>2 DEF FindPort, Adopts, FindsConsole, Exit, FlashTypes, BoardsTyped, Flows
<1>3. CASE Touch
  BY <1>3 DEF Touch, Erases, Reset, FlashTypes, BoardsTyped, Flows, Cpus
<1>4. CASE AwaitPolls
  BY <1>4 DEF AwaitPolls, FlashTypes, BoardsTyped, Flows
<1>5. CASE AwaitRefuses
  BY <1>5 DEF AwaitRefuses, Exit, FlashTypes, BoardsTyped, Flows
<1>6. CASE AwaitGivesUp
  BY <1>6 DEF AwaitGivesUp, FlashTypes, BoardsTyped, Flows
<1>7. CASE TouchAgain
  BY <1>7 DEF TouchAgain, Erases, Reset, FlashTypes, BoardsTyped, Flows, Cpus
<1>8. CASE Bossac
  BY <1>8, BossacTypes
<1>9. CASE WaitForBoot
  BY <1>9 DEF WaitForBoot, FlashTypes, BoardsTyped, Flows
<1>10. CASE AttemptEnds
  <2>1. log' \in Seq(Rows)
    BY <1>10, LogRowTypes DEF AttemptEnds, FlashTypes
  <2>2. UNCHANGED << dueVars, asked, tree, image, missed >> /\ step' \in Flows
    BY <1>10 DEF AttemptEnds, Exit, Flows
  <2> QED  BY <2>1, <2>2 DEF FlashTypes, BoardsTyped
<1>11. CASE Killed
  BY <1>11 DEF Killed, FlashTypes, BoardsTyped, Flows
<1>12. CASE Drops
  BY <1>12 DEF Drops, Reset, FlashTypes, BoardsTyped, Cpus
<1>13. ASSUME NEW b \in Boards, Enumerate(b) PROVE FlashTypes'
  BY <1>13 DEF Enumerate, FlashTypes, BoardsTyped, Cpus
<1>14. CASE Edit
  BY <1>14 DEF Edit, Works, FlashTypes, BoardsTyped, Stamps
<1>15. CASE Commit
  BY <1>15 DEF Commit, Works, FlashTypes, BoardsTyped, Stamps
<1>16. CASE Build
  BY <1>16 DEF Build, Works, FlashTypes, BoardsTyped
<1>17. CASE UNCHANGED flashVars
  BY <1>17 DEF flashVars, FlashTypes, BoardsTyped
<1>18. CASE Closes
  BY <1>18 DEF Closes, SpeedAfter, FlashTypes, BoardsTyped, Flows
<1>19. CASE ClearSpeed
  BY <1>19, RestoreTypes DEF ClearSpeed, FlashTypes, Flows
<1>20. CASE RestoreSpeed
  BY <1>20, RestoreTypes DEF RestoreSpeed, FlashTypes, BoardsTyped, Flows
<1> QED  BY <1>1, <1>2, <1>3, <1>4, <1>5, <1>6, <1>7, <1>8, <1>9, <1>10, <1>11,
            <1>12, <1>13, <1>14, <1>15, <1>16, <1>17, <1>18, <1>19, <1>20
         DEF FlashNext, Tool

\* Flash keeps its types.
THEOREM FlashTypeCorrect == FlashSpec => []FlashTypes
<1>1. FlashInit => FlashTypes
  BY FlashTypeInit
<1>2. FlashTypes /\ [FlashNext]_flashVars => FlashTypes'
  BY FlashTypeStep
<1> QED  BY <1>1, <1>2, PTL DEF FlashSpec

LEMMA OrderlyStep == FlashTypes /\ Orderly /\ [FlashNext]_flashVars => Orderly'
<1> SUFFICES ASSUME FlashTypes, Orderly, [FlashNext]_flashVars PROVE Orderly'
  OBVIOUS
<1> USE DEF asked, treeVars, awaitVars, dueVars, toolVars, history, Orderly
<1>1. CASE Run
  BY <1>1 DEF Run
<1>2. CASE FindPort
  BY <1>2 DEF FindPort, Adopts, FindsConsole, Exit, RunOver, AttemptOver
<1>3. CASE Touch
  BY <1>3 DEF Touch
<1>4. CASE AwaitPolls
  BY <1>4 DEF AwaitPolls
<1>5. CASE AwaitRefuses
  BY <1>5 DEF AwaitRefuses, Exit, RunOver, AttemptOver
<1>6. CASE AwaitGivesUp
  BY <1>6 DEF AwaitGivesUp
<1>7. CASE TouchAgain
  BY <1>7 DEF TouchAgain
<1>8. CASE Bossac
  <2>1. UNCHANGED << console, unrestored, status >>
        /\ step \in {"write", "writeconsole"}
        /\ (speed' = speed \/ speed' = "115200")
    BY <1>8 DEF Bossac
  <2>2. step' \in {"writeconsole", "restore", "boot"}
    BY <1>8 DEF Bossac, GoneFromTheBus, Written, NotWritten, Fails
  <2> QED  BY <2>1, <2>2
<1>9. CASE WaitForBoot
  BY <1>9 DEF WaitForBoot
<1>10. CASE AttemptEnds
  BY <1>10 DEF AttemptEnds, Exit, RunOver, AttemptOver
<1>11. CASE Killed
  BY <1>11 DEF Killed, RunOver, AttemptOver
<1>12. CASE Drops
  BY <1>12 DEF Drops
<1>13. ASSUME NEW b \in Boards, Enumerate(b) PROVE Orderly'
  BY <1>13 DEF Enumerate
<1>14. CASE Edit \/ Commit \/ Build
  BY <1>14 DEF Edit, Commit, Build, Works
<1>15. CASE UNCHANGED flashVars
  BY <1>15 DEF flashVars
<1>16. CASE Closes
  BY <1>16 DEF Closes, SpeedAfter
<1>17. CASE ClearSpeed
  <2>1. speed' \in {"1200", "115200"} /\ unrestored' = (speed' = "1200")
    BY <1>17, RestoreTypes DEF ClearSpeed
  <2> QED  BY <1>17, <2>1 DEF ClearSpeed
<1>18. CASE RestoreSpeed
  BY <1>18 DEF RestoreSpeed, restore_115200
<1> QED  BY <1>1, <1>2, <1>3, <1>4, <1>5, <1>6, <1>7, <1>8, <1>9, <1>10, <1>11,
            <1>12, <1>13, <1>14, <1>15, <1>16, <1>17, <1>18 DEF FlashNext, Tool

----------------------------------------------------------------------------
(* Success means a written board *)

OnABoard == \E b \in Boards : flash[b] = written /\ written # Nothing

\* From bossac's success to the end of the run a board holds what was written,
\* and after it for as long as the run is the last one, if the port was set back.
Settled == step = "boot" \/ (step \in {"restore", "over"} /\ rc = 0) \/ status = "ok"
Landed  == Settled /\ ~unrestored => OnABoard

LEMMA StampIsSomething == \A s \in Stamps : s # Nothing
  BY FlashAssumption DEF Stamps, Nothing, NoStamp

\* Nothing erases between a success and the next run: the one opening of the
\* port that could, at the end of an attempt, finds it at 115200 unless the
\* attempt knows that it has not set it back.
LEMMA LandedStep == FlashTypes /\ Orderly /\ Landed /\ [FlashNext]_flashVars => Landed'
<1> SUFFICES ASSUME FlashTypes, Orderly, Landed, [FlashNext]_flashVars PROVE Landed'
  OBVIOUS
<1> USE DEF asked, treeVars, awaitVars, dueVars, toolVars, history, Orderly, Settled
<1>0. UNCHANGED << flash, written >> => OnABoard' = OnABoard
  BY DEF OnABoard
<1>1. CASE Run
  BY <1>1 DEF Run, Landed
<1>2. CASE FindPort
  BY <1>2 DEF FindPort, Adopts, FindsConsole, Exit, Landed
<1>3. CASE Touch
  BY <1>3 DEF Touch, Landed
<1>4. CASE AwaitPolls
  BY <1>4 DEF AwaitPolls, Landed
<1>5. CASE AwaitRefuses
  BY <1>5 DEF AwaitRefuses, Exit, Landed
<1>6. CASE AwaitGivesUp
  BY <1>6 DEF AwaitGivesUp, Landed
<1>7. CASE TouchAgain
  BY <1>7 DEF TouchAgain, Landed
<1>8. CASE Bossac
  <2>1. ~Settled /\ status' # "ok"
    BY <1>8 DEF Bossac
  <2>2. CASE GoneFromTheBus
    BY <2>1, <2>2 DEF GoneFromTheBus, Fails, Landed
  <2>3. ASSUME NEW b \in WritesTo, NotWritten(b) PROVE Landed'
    BY <2>1, <2>3 DEF NotWritten, Fails, Landed
  <2>4. ASSUME NEW b \in WritesTo, Written(b) PROVE Landed'
    <3>1. b \in Boards
      BY DEF WritesTo, Boards
    <3>2. flash'[b] = written' /\ written' \in Stamps
      BY <2>4, <3>1 DEF Written, FlashTypes, BoardsTyped
    <3> QED  BY <3>1, <3>2, StampIsSomething DEF Landed, OnABoard
  <2> QED  BY <1>8, <2>2, <2>3, <2>4 DEF Bossac
<1>9. CASE WaitForBoot
  BY <1>9, <1>0 DEF WaitForBoot, Landed
<1>10. CASE AttemptEnds
  BY <1>10, <1>0 DEF AttemptEnds, Exit, Landed
<1>11. CASE Killed
  BY <1>11 DEF Killed, Landed
<1>12. CASE Drops
  BY <1>12, <1>0 DEF Drops, Landed
<1>13. ASSUME NEW b \in Boards, Enumerate(b) PROVE Landed'
  BY <1>13, <1>0 DEF Enumerate, Landed
<1>14. CASE Edit \/ Commit \/ Build
  BY <1>14, <1>0 DEF Edit, Commit, Build, Works, Landed
<1>15. CASE UNCHANGED flashVars
  BY <1>15, <1>0 DEF flashVars, Landed
<1>16. CASE Closes
  BY <1>16 DEF Closes, Landed
<1>17. CASE ClearSpeed
  BY <1>17 DEF ClearSpeed, Landed
<1>18. CASE RestoreSpeed
  <2>1. UNCHANGED << written, rc, status, unrestored, console >> /\ step = "restore"
        /\ status = "running"
    BY <1>18 DEF RestoreSpeed
  <2>2. console /\ ~unrestored => UNCHANGED flash
    BY <1>18, <2>1 DEF RestoreSpeed, restore_115200, Opens, Refiring
  <2>3. ~console => UNCHANGED flash
    BY <1>18 DEF RestoreSpeed
  <2>4. Settled' => Settled
    BY <1>18, <2>1 DEF RestoreSpeed
  <2> QED  BY <1>0, <2>1, <2>2, <2>3, <2>4 DEF Landed
<1> QED  BY <1>1, <1>2, <1>3, <1>4, <1>5, <1>6, <1>7, <1>8, <1>9, <1>10, <1>11,
            <1>12, <1>13, <1>14, <1>15, <1>16, <1>17, <1>18 DEF FlashNext, Tool

\* A run that reports success has put the image on a board, and no later step of
\* the tool, of the boards or of the developer takes it off before the next run,
\* its own last opening of the port included, if the attempt set the port back.
THEOREM SuccessHolds == FlashSpec => []SuccessIsWritten
<1>1. FlashInit => Orderly /\ Landed
  BY DEF FlashInit, Orderly, Landed, Settled
<1>2. FlashTypes /\ Orderly /\ Landed /\ [FlashNext]_flashVars => (Orderly /\ Landed)'
  BY OrderlyStep, LandedStep
<1>3. Landed => SuccessIsWritten
  BY DEF Landed, Settled, OnABoard, SuccessIsWritten
<1> QED  BY <1>1, <1>2, <1>3, FlashTypeCorrect, PTL DEF FlashSpec

----------------------------------------------------------------------------
(* The other board is spared *)

\* Two boards on the bus have two names.
Apart == node[Ours] # node[Theirs] \/ node[Ours] = NoName

Apply == asks = "port" /\ ~missed

\* As long as a port is named and every touch has worked, the other board keeps
\* its flash and its node; the tool saw its bootloader, if it is in one, before
\* the touch; our board is erased and on its way to its own; and the bootloader
\* that was chosen is not the other board's.
Steady ==
  Apply =>
    /\ cpu[Theirs] # "resetting"
    /\ step \in {"touch", "closing", "await", "second", "clearing"} /\ cpu[Theirs] = "rom"
         => node[Theirs] \in before
    /\ step \in {"closing", "await", "second", "clearing"}
         => flash[Ours] = Erased /\ cpu[Ours] \in {"resetting", "rom"}
    /\ step = "write" /\ target # NoName => target # node[Theirs]

LEMMA ApartStep == FlashTypes /\ Apart /\ [FlashNext]_flashVars => Apart'
<1> SUFFICES ASSUME FlashTypes, Apart, [FlashNext]_flashVars PROVE Apart'
  OBVIOUS
<1> USE DEF asked, treeVars, awaitVars, dueVars, toolVars, history
<1>0. ASSUME UNCHANGED node PROVE Apart'
  BY <1>0 DEF Apart
<1>r. ASSUME NEW b \in Boards, Reset(b) PROVE Apart'
  BY <1>r DEF Reset, Apart, FlashTypes, BoardsTyped, Boards
<1>1. CASE Run \/ FindPort \/ AwaitPolls \/ AwaitRefuses \/ AwaitGivesUp \/ WaitForBoot
           \/ Closes \/ AttemptEnds \/ Killed \/ Edit \/ Commit \/ Build
           \/ UNCHANGED flashVars
  BY <1>1, <1>0 DEF Run, FindPort, AwaitPolls, AwaitRefuses, AwaitGivesUp, WaitForBoot,
                    Closes, AttemptEnds, Killed, Edit, Commit, Build, Works, flashVars
<1>2. CASE Touch \/ TouchAgain \/ ClearSpeed \/ RestoreSpeed \/ Drops
  BY <1>2, <1>0, <1>r DEF Touch, TouchAgain, ClearSpeed, RestoreSpeed, restore_115200,
                          Opens, Drops, Erases, Boards
<1>3. CASE Bossac
  <2>1. WritesTo \subseteq Boards
    BY DEF WritesTo, Boards
  <2> QED  BY <1>3, <1>0, <1>r, <2>1 DEF Bossac, GoneFromTheBus, Written, NotWritten,
                                         Erases, Boards
<1>4. ASSUME NEW b \in Boards, Enumerate(b) PROVE Apart'
  <2>1. PICK n \in Names \ Nodes : node' = [node EXCEPT ![b] = n]
    BY <1>4 DEF Enumerate
  <2>2. \A x \in Boards : node[x] # n
    BY <2>1, FlashAssumption DEF Nodes
  <2> QED  BY <2>1, <2>2 DEF Apart, FlashTypes, BoardsTyped, Boards, Ours, Theirs
<1> QED  BY <1>1, <1>2, <1>3, <1>4 DEF FlashNext, Tool

\* What bossac writes to is our board.
LEMMA WritesOurs ==
  ASSUME Steady, Apply, step \in {"write", "writeconsole"}
  PROVE  WritesTo \subseteq {Ours}
<1>1. CASE step = "write" /\ target # NoName
  <2>1. node[Theirs] # target
    BY <1>1 DEF Steady
  <2> QED  BY <1>1, <2>1 DEF WritesTo, ThroughPort, Boards
<1>2. CASE ~(step = "write" /\ target # NoName)
  BY <1>2 DEF WritesTo, ThroughPort
<1> QED  BY <1>1, <1>2

\* A bootloader that was not there before the touch is ours.
LEMMA FreshIsOurs ==
  ASSUME Steady, Apply, Apart, step = "await", NEW x \in NewNodes, x # NoName
  PROVE  x # node[Theirs]
<1>1. PICK b \in Boards : cpu[b] = "rom" /\ x = node[b] /\ x \notin before
  BY DEF NewNodes, SambaNodes
<1>2. b = Ours
  BY <1>1 DEF Steady, Boards
<1> QED  BY <1>1, <1>2 DEF Apart

\* A lone bootloader, when no new one came and nothing is on its way, is ours as
\* well: ours is erased and has come back under a name that was there before.
LEMMA AdoptedIsOurs ==
  ASSUME Steady, Apply, Apart, step = "await", cpu[Ours] # "resetting",
         Cardinality(SambaNodes) = 1, NEW x \in SambaNodes, x # NoName
  PROVE  x # node[Theirs]
<1>1. cpu[Ours] = "rom" /\ node[Ours] \in SambaNodes
  BY DEF Steady, SambaNodes, Boards
<1>2. IsFiniteSet(SambaNodes)
  <2>1. IsFiniteSet({node[Ours]} \cup {node[Theirs]})
    BY FS_Singleton, FS_AddElement
  <2>2. SambaNodes \subseteq {node[Ours]} \cup {node[Theirs]}
    BY DEF SambaNodes, Boards
  <2> QED  BY <2>1, <2>2, FS_Subset
<1>3. PICK y : SambaNodes = {y}
  BY <1>2, FS_Singleton
<1>4. x = node[Ours]
  BY <1>1, <1>3
<1> QED  BY <1>4 DEF Apart

LEMMA SteadyStep == FlashTypes /\ Apart /\ Steady /\ [FlashNext]_flashVars => Steady'
<1> SUFFICES ASSUME FlashTypes, Apart, Steady, [FlashNext]_flashVars, Apply' PROVE Steady'
  BY DEF Steady
<1> USE DEF asked, treeVars, awaitVars, dueVars, toolVars, history
<1>1. CASE Run
  BY <1>1 DEF Run, Steady, Apply
<1>2. CASE FindPort
  <2>1. Apply /\ UNCHANGED << cpu, flash, node >> /\ FindsConsole
    BY <1>2 DEF FindPort, Adopts, Apply
  <2>2. CASE step' = "idle"
    BY <2>1, <2>2 DEF Steady
  <2>3. CASE step' = "touch" /\ before' = SambaNodes
    <3>1. cpu[Theirs] = "rom" => node[Theirs] \in SambaNodes
      BY DEF SambaNodes, Boards
    <3> QED  BY <2>1, <2>3, <3>1 DEF Steady
  <2> QED  BY <2>1, <2>2, <2>3 DEF FindsConsole, Exit
<1>3. CASE Touch
  <2>1. Apply /\ Erases /\ step = "touch" /\ step' = "closing" /\ before' = before
    BY <1>3 DEF Touch, Apply, FlashTypes
  <2>2. /\ flash'[Ours] = Erased /\ cpu'[Ours] = "resetting"
        /\ cpu'[Theirs] = cpu[Theirs] /\ node'[Theirs] = node[Theirs]
    BY <2>1 DEF Erases, Reset, FlashTypes, BoardsTyped, Boards, Ours, Theirs
  <2> QED  BY <2>1, <2>2 DEF Steady
<1>4. CASE AwaitPolls
  <2>1. Apply /\ UNCHANGED << cpu, flash, node >> /\ step = "await"
    BY <1>4 DEF AwaitPolls, Apply
  <2>2. CASE seen \in NewNodes /\ target' = seen /\ step' = "write"
    <3>1. seen # NoName => seen # node[Theirs]
      BY <2>1, <2>2, FreshIsOurs
    <3> QED  BY <2>1, <2>2, <3>1 DEF Steady
  <2>3. CASE UNCHANGED << target, step, before >>
    BY <2>1, <2>3 DEF Steady
  <2> QED  BY <1>4, <2>2, <2>3 DEF AwaitPolls
<1>5. CASE AwaitRefuses
  BY <1>5 DEF AwaitRefuses, Exit, Steady, Apply
<1>6. CASE AwaitGivesUp
  <2>1. /\ Apply /\ UNCHANGED << cpu, flash, node >> /\ step = "await"
        /\ cpu[Ours] # "resetting"
    BY <1>6 DEF AwaitGivesUp, Apply
  <2>2. CASE step' = "second" /\ UNCHANGED << target, before >>
    BY <2>1, <2>2 DEF Steady
  <2>3. CASE step' = "write" /\ Adopted
    <3>1. target' # NoName => target' # node[Theirs]
      BY <2>1, <2>3, AdoptedIsOurs DEF Adopted
    <3> QED  BY <2>1, <2>3, <3>1 DEF Steady
  <2> QED  BY <1>6, <2>2, <2>3 DEF AwaitGivesUp
<1>7. CASE TouchAgain
  <2>1. Apply /\ step = "second" /\ step' = "clearing" /\ before' = before
        /\ (Erases \/ UNCHANGED << cpu, flash, node >>)
    BY <1>7 DEF TouchAgain, Apply
  <2>2. CASE Erases
    <3>1. /\ flash'[Ours] = Erased /\ cpu'[Ours] = "resetting"
          /\ cpu'[Theirs] = cpu[Theirs] /\ node'[Theirs] = node[Theirs]
      BY <2>2 DEF Erases, Reset, FlashTypes, BoardsTyped, Boards, Ours, Theirs
    <3> QED  BY <2>1, <3>1 DEF Steady
  <2>3. CASE UNCHANGED << cpu, flash, node >>
    BY <2>1, <2>3 DEF Steady
  <2> QED  BY <2>1, <2>2, <2>3
<1>8. CASE Bossac
  <2>1. Apply /\ step \in {"write", "writeconsole"}
    BY <1>8 DEF Bossac, Apply
  <2>2. WritesTo \subseteq {Ours}
    BY <2>1, WritesOurs
  <2>3. cpu'[Theirs] = cpu[Theirs]
    BY <1>8, <2>2 DEF Bossac, GoneFromTheBus, Written, NotWritten, Erases, Reset,
                      FlashTypes, BoardsTyped, Boards, Ours, Theirs
  <2>4. step' \in {"writeconsole", "restore", "boot"}
    BY <1>8 DEF Bossac, GoneFromTheBus, Written, NotWritten, Fails
  <2> QED  BY <2>1, <2>3, <2>4 DEF Steady
<1>9. CASE WaitForBoot
  BY <1>9 DEF WaitForBoot, Steady, Apply
<1>10. CASE AttemptEnds
  BY <1>10 DEF AttemptEnds, Exit, Steady, Apply
<1>11. CASE Killed
  BY <1>11 DEF Killed, Steady, Apply
<1>12. CASE Drops
  <2>1. /\ Apply /\ UNCHANGED << flash, step, before, target >>
        /\ cpu'[Ours] = "resetting"
        /\ cpu'[Theirs] = cpu[Theirs] /\ node'[Theirs] = node[Theirs]
    BY <1>12 DEF Drops, Reset, Apply, FlashTypes, BoardsTyped, Boards, Ours, Theirs
  <2> QED  BY <2>1 DEF Steady
<1>13. ASSUME NEW b \in Boards, Enumerate(b) PROVE Steady'
  <2>1. Apply /\ UNCHANGED << flash, step, before, target >> /\ cpu[b] = "resetting"
    BY <1>13 DEF Enumerate, Apply
  <2>2. b = Ours
    BY <2>1 DEF Steady, Boards
  <2>3. cpu'[Theirs] = cpu[Theirs] /\ node'[Theirs] = node[Theirs]
    BY <1>13, <2>2 DEF Enumerate, FlashTypes, BoardsTyped, Boards, Ours, Theirs
  <2>4. flash[Ours] = Erased => cpu'[Ours] = "rom"
    BY <1>13, <2>2 DEF Enumerate, FlashTypes, BoardsTyped, Boards
  <2> QED  BY <2>1, <2>3, <2>4 DEF Steady
<1>14. CASE Edit \/ Commit \/ Build
  BY <1>14 DEF Edit, Commit, Build, Works, Steady, Apply
<1>15. CASE UNCHANGED flashVars
  BY <1>15 DEF flashVars, Steady, Apply
<1>16. CASE Closes
  BY <1>16 DEF Closes, Steady, Apply
<1>17. CASE ClearSpeed
  <2>1. Apply /\ step = "clearing" /\ step' = "await" /\ before' = before
        /\ (Erases \/ UNCHANGED << cpu, flash, node >>)
    BY <1>17 DEF ClearSpeed, restore_115200, Opens, Apply
  <2>2. CASE Erases
    <3>1. /\ flash'[Ours] = Erased /\ cpu'[Ours] = "resetting"
          /\ cpu'[Theirs] = cpu[Theirs] /\ node'[Theirs] = node[Theirs]
      BY <2>2 DEF Erases, Reset, FlashTypes, BoardsTyped, Boards, Ours, Theirs
    <3> QED  BY <2>1, <3>1 DEF Steady
  <2>3. CASE UNCHANGED << cpu, flash, node >>
    BY <2>1, <2>3 DEF Steady
  <2> QED  BY <2>1, <2>2, <2>3
<1>18. CASE RestoreSpeed
  <2>1. Apply /\ step' = "over"
    BY <1>18 DEF RestoreSpeed, Apply
  <2>2. cpu'[Theirs] = cpu[Theirs]
    BY <1>18 DEF RestoreSpeed, restore_115200, Opens, Erases, Reset, FlashTypes,
                 BoardsTyped, Boards, Ours, Theirs
  <2> QED  BY <2>1, <2>2 DEF Steady
<1> QED  BY <1>1, <1>2, <1>3, <1>4, <1>5, <1>6, <1>7, <1>8, <1>9, <1>10, <1>11,
            <1>12, <1>13, <1>14, <1>15, <1>16, <1>17, <1>18 DEF FlashNext, Tool

\* No step takes the other board's flash, unless no port was named or a touch of
\* ours failed.
LEMMA SparingStep ==
  FlashTypes /\ Steady /\ [FlashNext]_flashVars
    => (flash'[Theirs] # flash[Theirs] => asks = "nothing" \/ missed)
<1> SUFFICES ASSUME FlashTypes, Steady, [FlashNext]_flashVars, Apply
             PROVE  flash'[Theirs] = flash[Theirs]
  BY DEF FlashTypes, Apply
<1> USE DEF asked, treeVars, awaitVars, dueVars, toolVars, history
<1>1. CASE Touch \/ TouchAgain \/ ClearSpeed \/ RestoreSpeed
  BY <1>1 DEF Touch, TouchAgain, ClearSpeed, RestoreSpeed, restore_115200, Opens, Erases,
              FlashTypes, BoardsTyped, Boards, Ours, Theirs
<1>2. CASE Bossac
  <2>1. WritesTo \subseteq {Ours}
    BY <1>2, WritesOurs DEF Bossac
  <2> QED  BY <1>2, <2>1 DEF Bossac, GoneFromTheBus, Written, NotWritten, Erases,
                             FlashTypes, BoardsTyped, Boards, Ours, Theirs
<1>3. CASE Run \/ FindPort \/ AwaitPolls \/ AwaitRefuses \/ AwaitGivesUp \/ WaitForBoot
           \/ Closes \/ AttemptEnds \/ Killed \/ Drops
           \/ (\E b \in Boards : Enumerate(b)) \/ Edit \/ Commit \/ Build
           \/ UNCHANGED flashVars
  BY <1>3 DEF Run, FindPort, AwaitPolls, AwaitRefuses, AwaitGivesUp, WaitForBoot,
              Closes, AttemptEnds, Killed, Drops, Enumerate, Edit, Commit, Build, Works, flashVars
<1> QED  BY <1>1, <1>2, <1>3 DEF FlashNext, Tool

\* The tool never writes the other board when a port was named and its touches
\* worked: of two bootloaders it takes the one that it brought up.
THEOREM OtherBoardIsSpared == FlashSpec => OthersSpared
<1>1. FlashInit => Apart /\ Steady
  <2>1. FlashInit => Apart
    BY NodeInit DEF Apart
  <2>2. FlashInit => cpu[Theirs] # "resetting" /\ step = "idle"
    BY DEF FlashInit, Boards, Ours, Theirs
  <2> QED  BY <2>1, <2>2 DEF Steady
<1>2. FlashTypes /\ Apart /\ Steady /\ [FlashNext]_flashVars => (Apart /\ Steady)'
  BY ApartStep, SteadyStep
<1>3. FlashTypes /\ Steady /\ [FlashNext]_flashVars
        => [flash'[Theirs] # flash[Theirs] => asks = "nothing" \/ missed]_flashVars
  BY SparingStep
<1> QED  BY <1>1, <1>2, <1>3, FlashTypeCorrect, PTL DEF FlashSpec, OthersSpared

----------------------------------------------------------------------------
(* The flash log tells the truth *)

OneCommit(a, b) == a.rev = b.rev => a = b
Agreed(i, t)    == OneCommit(i, t) /\ (requireTree => i = t)

\* A run goes on only with an image and a tree that agree, so the sound rows, which
\* are about that image and that tree, agree with themselves; and the row of the
\* last success, if it is sound, is of the image that was written.
RowsAgree  == \A i \in 1 .. Len(log) : log[i].sound => Agreed(log[i].image, log[i].tree)
LastIsTrue == Len(log) > 0 /\ (log[Len(log)].sound => log[Len(log)].image = written)

Told ==
  /\ step # "idle" => Agreed(checked.image, checked.tree)
  /\ RowsAgree
  /\ status = "running" => ~logged
  /\ status = "ok" /\ logged => LastIsTrue

\* A row that is made is the newest, and if sound it repeats what was checked.
LEMMA NewRow ==
  ASSUME FlashTypes, Told, step # "idle", NEW t, log' = Append(log, LogRow(t)),
         UNCHANGED << requireTree, written >>
  PROVE  RowsAgree' /\ LastIsTrue'
<1>1. Len(log) \in Nat
  BY DEF FlashTypes
<1>2. /\ Len(log') = Len(log) + 1 /\ log'[Len(log')] = LogRow(t)
      /\ \A i \in 1 .. Len(log) : log'[i] = log[i]
  BY DEF FlashTypes
<1>3. LogRow(t).sound => /\ Agreed(LogRow(t).image, LogRow(t).tree)
                         /\ LogRow(t).image = written
  <2>1. LogRow(t).sound => /\ checked.image = image.stamp /\ checked.tree = tree
                           /\ written = image.stamp /\ t = tree
    BY DEF LogRow
  <2>2. LogRow(t).image = image.stamp /\ LogRow(t).tree = t
    BY DEF LogRow
  <2> QED  BY <2>1, <2>2 DEF Told
<1>4. \A i \in 1 .. Len(log') : i \in 1 .. Len(log) \/ i = Len(log')
  BY <1>1, <1>2
<1>5. Len(log') > 0
  BY <1>1, <1>2
<1>6. LastIsTrue'
  BY <1>2, <1>3, <1>5 DEF LastIsTrue
<1>7. RowsAgree'
  <2> SUFFICES ASSUME NEW i \in 1 .. Len(log'), log'[i].sound
               PROVE  Agreed(log'[i].image, log'[i].tree)
    BY DEF RowsAgree, Agreed
  <2>1. CASE i \in 1 .. Len(log)
    BY <1>2, <2>1 DEF Told, RowsAgree
  <2>2. CASE i = Len(log')
    BY <1>2, <1>3, <2>2
  <2> QED  BY <1>4, <2>1, <2>2
<1> QED  BY <1>6, <1>7

LEMMA ToldStep == FlashTypes /\ Orderly /\ Told /\ [FlashNext]_flashVars => Told'
<1> SUFFICES ASSUME FlashTypes, Orderly, Told, [FlashNext]_flashVars PROVE Told'
  OBVIOUS
<1> USE DEF asked, treeVars, awaitVars, dueVars, toolVars, history, Agreed
<1>0. /\ UNCHANGED << requireTree, log >> => RowsAgree' = RowsAgree
      /\ UNCHANGED << log, written >> => LastIsTrue' = LastIsTrue
  BY DEF RowsAgree, LastIsTrue
<1>1. CASE Run
  <2>1. UNCHANGED << requireTree, log >> /\ status' # "ok" /\ ~logged'
    BY <1>1 DEF Run
  <2>2. step' # "idle" => Agreed(checked.image, checked.tree)'
    BY <1>1 DEF Run, RefusedAt, StampDisagrees, OneCommit
  <2> QED  BY <1>0, <2>1, <2>2 DEF Told
<1>2. CASE FindPort
  BY <1>0, <1>2 DEF FindPort, Adopts, FindsConsole, Exit, Told, Orderly
<1>3. CASE Touch
  BY <1>0, <1>3 DEF Touch, Told, Orderly
<1>4. CASE AwaitPolls
  BY <1>0, <1>4 DEF AwaitPolls, Told, Orderly
<1>5. CASE AwaitRefuses
  BY <1>0, <1>5 DEF AwaitRefuses, Exit, Told, Orderly
<1>6. CASE AwaitGivesUp
  BY <1>0, <1>6 DEF AwaitGivesUp, Told, Orderly
<1>7. CASE TouchAgain
  BY <1>0, <1>7 DEF TouchAgain, Told, Orderly
<1>8. CASE Bossac
  <2>1. /\ UNCHANGED << requireTree, checked, log, status, logged >>
        /\ step # "idle" /\ status = "running"
    BY <1>8 DEF Bossac, Orderly
  <2> QED  BY <1>0, <2>1 DEF Told
<1>9. CASE WaitForBoot
  BY <1>0, <1>9 DEF WaitForBoot, Told, Orderly
<1>10. CASE AttemptEnds
  <2>1. /\ UNCHANGED << requireTree, written >>
        /\ step = "over" /\ status = "running"
    BY <1>10 DEF AttemptEnds, Orderly
  <2>2. CASE rc = 0 /\ booted
    <3>1. Logs /\ step' = "idle"
      BY <1>10, <2>2 DEF AttemptEnds
    <3>2. CASE UNCHANGED << log, logged >>
      <4>1. ~logged'
        BY <2>1, <3>2 DEF Told
      <4>2. status' = "ok"
        BY <1>10, <2>2 DEF AttemptEnds
      <4> QED  BY <1>0, <2>1, <3>1, <3>2, <4>1, <4>2 DEF Told
    <3>3. ASSUME NEW t, log' = Append(log, LogRow(t)) PROVE Told'
      <4>1. status' = "ok"
        BY <1>10, <2>2 DEF AttemptEnds
      <4> QED  BY <2>1, <3>1, <3>3, <4>1, NewRow DEF Told
    <3> QED  BY <3>1, <3>2, <3>3 DEF Logs
  <2>3. CASE ~(rc = 0 /\ booted)
    <3>1. UNCHANGED << log, logged >> /\ status' # "ok" /\ (step' # "idle" => UNCHANGED checked)
      BY <1>10, <2>1, <2>3 DEF AttemptEnds, Exit
    <3> QED  BY <1>0, <2>1, <3>1 DEF Told
  <2> QED  BY <2>2, <2>3
<1>11. CASE Killed
  BY <1>0, <1>11 DEF Killed, Told
<1>12. CASE Drops
  BY <1>0, <1>12 DEF Drops, Told
<1>13. ASSUME NEW b \in Boards, Enumerate(b) PROVE Told'
  BY <1>0, <1>13 DEF Enumerate, Told
<1>14. CASE Edit
  BY <1>0, <1>14 DEF Edit, Works, Told
<1>15. CASE UNCHANGED flashVars
  BY <1>0, <1>15 DEF flashVars, Told
<1>16. CASE Closes
  BY <1>0, <1>16 DEF Closes, Told, Orderly
<1>17. CASE ClearSpeed
  BY <1>0, <1>17 DEF ClearSpeed, Told, Orderly
<1>18. CASE RestoreSpeed
  BY <1>0, <1>18 DEF RestoreSpeed, Told, Orderly
<1>19. CASE Commit
  BY <1>0, <1>19 DEF Commit, Works, Told
<1>20. CASE Build
  BY <1>0, <1>20 DEF Build, Works, Told
<1> QED  BY <1>1, <1>2, <1>3, <1>4, <1>5, <1>6, <1>7, <1>8, <1>9, <1>10, <1>11, <1>12,
            <1>13, <1>14, <1>15, <1>16, <1>17, <1>18, <1>19, <1>20 DEF FlashNext, Tool

\* The newest row under a commit, if it is sound, is the image of that commit.
LEMMA ToldIsTrue == FlashTypes /\ Told => AttributionIsTrue
<1> SUFFICES ASSUME FlashTypes, Told PROVE AttributionIsTrue
  OBVIOUS
<1> DEFINE last == log[Len(log)]
<1>1. ASSUME requireTree, NEW i \in Firmware(flash[Ours]), log[i].sound
      PROVE  log[i].image = flash[Ours]
  BY <1>1 DEF Firmware, SameImage, Told, RowsAgree, Agreed
<1>2. ASSUME status = "ok", logged, last.sound, requireTree \/ last.tree.rev = written.rev
      PROVE  \E i \in Firmware(written) : log[i].image = written
  <2>1. Len(log) \in Nat
    BY DEF FlashTypes
  <2>2. Len(log) \in 1 .. Len(log) /\ Len(log) + 1 .. Len(log) = {}
    BY <1>2, <2>1 DEF Told, LastIsTrue
  <2>3. last.image = written /\ last.tree = written
    BY <1>2, <2>2 DEF Told, RowsAgree, LastIsTrue, Agreed, OneCommit
  <2>4. Len(log) \in Firmware(written)
    BY <2>2, <2>3 DEF Firmware, SameImage
  <2> QED  BY <2>3, <2>4
<1> QED  BY <1>1, <1>2 DEF AttributionIsTrue

\* The row found for what our board states names the bytes it runs, and a flash
\* that was reported and logged is found: after any interleaving of runs, kills,
\* edits, commits and builds, for every row that still describes its run.
THEOREM LogTellsTheTruth == FlashSpec => []AttributionIsTrue
<1>1. FlashInit => Orderly /\ Told
  BY DEF FlashInit, Orderly, Told, RowsAgree
<1>2. FlashTypes /\ Orderly /\ Told /\ [FlashNext]_flashVars => (Orderly /\ Told)'
  BY OrderlyStep, ToldStep
<1> QED  BY <1>1, <1>2, ToldIsTrue, FlashTypeCorrect, PTL DEF FlashSpec
=============================================================================
