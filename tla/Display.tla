------------------------------- MODULE Display -------------------------------
(***************************************************************************)
(* From the stream's frames to the screen (gui/stream.py, gui/app.py,      *)
(* gui/scope.py, host/daemon/client.py): the client's bounded deque, which *)
(* the receive thread fills and the window's timer drains; AcquisitionState*)
(* and its gap rule; the ring of one channel; the sweep that select() cuts *)
(* from it, with a trigger or without.                                     *)
(*                                                                         *)
(* A sample is named by its run and its place in the stream, as the numbers*)
(* and the flags of the frames tell it.  Where the signal itself breaks is *)
(* kept apart, in `holes`: the board flags the first header it builds after*)
(* a loss, which is up to NBUF - 2 frames ahead of the hole (CaptureRing). *)
(*                                                                         *)
(* A sweep is a view into the ring's memory whenever the ring need not be  *)
(* put together from two ends, and normal mode holds it while no edge      *)
(* comes.  One channel: the rings of the others are fed by the same frames.*)
(***************************************************************************)
EXTENDS Integers, Sequences, FiniteSets

CONSTANTS
  Rates,        \* sampling rates
  CapOf(_),     \* _want(): the ring's size at a rate
  Sizes,        \* samples of the channel in one frame
  Early,        \* NBUF - 2: how many frames ahead of a hole its flag may be
  FrameCapacity,\* of the client's deque
  MaxDrain,     \* MAX_DRAIN: frames one tick takes
  Screen,       \* samples of one screenful
  Pre,          \* of which before the trigger
  SearchSpan,   \* SEARCH_SPAN
  MaxRuns, MaxFrames,   \* bounds: runs, frames,
  MaxLost, MaxFlags,    \* frames lost on the way, frames with the flag,
  MaxHoles              \* places where the board loses samples

ASSUME DisplayAssumption ==
  /\ \A r \in Rates : CapOf(r) \in Nat \ {0}
  /\ Sizes \subseteq Nat \ {0}
  /\ {FrameCapacity, MaxDrain, Screen, SearchSpan} \subseteq Nat \ {0}
  /\ Pre \in 0 .. Screen - 1      \* round(0.5 * n)
  /\ {Early, MaxRuns, MaxFrames, MaxLost, MaxFlags, MaxHoles} \subseteq Nat

VARIABLES
  \* the device: its run, the next frame, the next sample, its rate
  run, running, seq, place, deviceRate, made, lost, flags,
  quiet,                \* frames since the last one with FRAME_FLAG_OVERRUN
  holes,                \* the samples that do not join on to the one before
  frames,               \* Client.frames
  \* AcquisitionState
  lastSeq, rate,
  \* ChannelRing; cap is 0 while there is none
  buf, breaks, pos, filled, cap,
  gui, got,             \* the window's thread: in a tick or not
  sweep,                \* ScopeView.last_sweep
  arrived               \* the last frame put into the ring

deviceVars == << run, running, seq, place, deviceRate, made, lost, flags, quiet, holes >>
ringVars   == << buf, breaks, pos, filled, cap >>
acqVars    == << lastSeq, rate, ringVars, arrived >>
vars == << deviceVars, frames, acqVars, gui, got, sweep >>

NoSeq == -1
Least(m, n) == IF m < n THEN m ELSE n

----------------------------------------------------------------------------
(* The device and the way to the client *)

\* The deque drops its oldest frame.
Put(f) == frames' = IF Len(frames) = FrameCapacity THEN Append(Tail(frames), f)
                    ELSE Append(frames, f)

\* A flag skips one place of the stream.
Skip(flag) == IF flag THEN 1 ELSE 0

\* stream_core_service: the flag goes on the first header built after a loss was
\* counted, so a hole in a frame, or ahead of it, is flagged there or on one of
\* the `Early` frames before (CaptureRing!FlagNotMissing).  A frame overwritten
\* while it is sent (CaptureRing!TornIsCounted) is flagged behind and is not here.
\* The daemon may drop the frame (_Session.put_frame).
Produce ==
  /\ running /\ made < MaxFrames
  /\ \E k \in Sizes, flag \in BOOLEAN :
       LET at == place + Skip(flag)
       IN /\ place' = at + k
          /\ seq' = seq + 1 /\ made' = made + 1
          /\ flag => flags < MaxFlags
          /\ flags' = flags + Skip(flag)
          /\ quiet' = IF flag THEN 0 ELSE Least(quiet + 1, Early + 1)
          /\ \/ UNCHANGED holes
             \/ /\ quiet' <= Early /\ Cardinality(holes) < MaxHoles
                /\ \E i \in 0 .. k - 1 :
                     holes' = holes \cup {[run |-> run, at |-> at + i]}
          /\ \/ Put([run |-> run, seq |-> seq, flag |-> flag,
                     rate |-> deviceRate, at |-> at, size |-> k])
                /\ UNCHANGED lost
             \/ lost < MaxLost /\ lost' = lost + 1 /\ UNCHANGED frames
  /\ UNCHANGED << run, running, deviceRate, acqVars, gui, got, sweep >>

DeviceStops ==
  /\ running /\ running' = FALSE
  /\ UNCHANGED << run, seq, place, deviceRate, made, lost, flags, quiet, holes, frames,
                  acqVars, gui, got, sweep >>

----------------------------------------------------------------------------
(* ChannelRing *)

\* What a sweep shows when it is looked at.
Content(s) == IF s.live THEN [i \in DOMAIN s.cells |-> buf[s.cells[i]]] ELSE s.kept

\* New arrays: a view keeps the old ones as they were.
Frozen(s) == [s EXCEPT !.live = FALSE, !.kept = Content(s)]

\* k samples went into the ring since the sweep was cut: counted as far as it matters.
Aged(s, k) == [s EXCEPT !.since = IF s.since > s.room THEN @ ELSE @ + k]

\* window(n): the cells, oldest first, and whether they are one slice.
Cells(n)  == [i \in 1 .. n |-> (pos - n + i - 1) % cap]
IsView(n) == (pos - n) % cap < pos

Window == [i \in 1 .. filled |-> [code  |-> buf[Cells(filled)[i]],
                                  break |-> breaks[Cells(filled)[i]]]]

\* The write position, from the position and not from a total.
Fault_PosAfter(p, c, k) == (p + k) % c
PosAfter(p, c, k) == IF k >= c THEN 0 ELSE (p + k) % c

\* A cell of a ring of size c after k samples were appended at p.
Offset(i, p, c) == (i - p) % c
Appended(b, s, p, c) ==
  LET k == Len(s)
  IN [i \in 0 .. c - 1 |->
       IF k >= c THEN s[k - c + i + 1]
       ELSE IF Offset(i, p, c) < k THEN s[Offset(i, p, c) + 1] ELSE b[i]]
AppendedBreaks(b, broken, k, p, c) ==
  [i \in 0 .. c - 1 |->
       IF k >= c THEN broken /\ i = 0
       ELSE IF Offset(i, p, c) < k THEN broken /\ i = p ELSE b[i]]

----------------------------------------------------------------------------
(* The window: start, ingest, draw *)

\* start_capture: reset(), then the command, which a running device refuses.
\* What the client's deque holds stays there.
StartCapture ==
  /\ gui = "idle" /\ run < MaxRuns
  /\ lastSeq' = NoSeq /\ cap' = 0 /\ filled' = 0 /\ pos' = 0
  /\ buf' = << >> /\ breaks' = << >>
  /\ sweep' = Frozen(sweep)
  /\ IF running THEN UNCHANGED << run, running, seq, place, deviceRate, quiet >>
     ELSE /\ run' = run + 1 /\ running' = TRUE /\ seq' = 0 /\ place' = 0
          /\ deviceRate' \in Rates /\ quiet' = Early + 1
  /\ UNCHANGED << made, lost, flags, holes, frames, rate, gui, got, arrived >>

Tick ==
  /\ gui = "idle" /\ gui' = "draining" /\ got' = 0
  /\ UNCHANGED << deviceVars, frames, acqVars, sweep >>

Fault_Gap(f) == lastSeq # NoSeq /\ f.seq < lastSeq
Gap(f) == lastSeq # NoSeq /\ f.seq # lastSeq + 1

Fault_Broken(f) == Gap(f)
Broken(f) == f.flag \/ Gap(f)

\* AcquisitionState.ingest, ChannelRing.set_rate and append.
Ingest ==
  /\ gui = "draining" /\ got < MaxDrain /\ frames # << >>
  /\ LET f     == Head(frames)
         fresh == cap = 0 \/ f.rate # rate
         c     == IF fresh THEN CapOf(f.rate) ELSE cap
         p     == IF fresh THEN 0 ELSE pos
         had   == IF fresh THEN 0 ELSE filled
         codes == [i \in 1 .. f.size |-> [run |-> f.run, at |-> f.at + i - 1]]
         empty(x) == [i \in 0 .. c - 1 |-> x]
     IN /\ rate' = f.rate /\ lastSeq' = f.seq
        /\ cap' = c
        /\ buf' = Appended(IF fresh THEN empty([run |-> 0, at |-> 0]) ELSE buf,
                           codes, p, c)
        /\ breaks' = AppendedBreaks(IF fresh THEN empty(FALSE) ELSE breaks,
                                    Broken(f), f.size, p, c)
        /\ pos' = PosAfter(p, c, f.size)
        /\ filled' = Least(had + f.size, c)
        /\ arrived' = [codes |-> codes, broken |-> Broken(f)]
        /\ sweep' = IF fresh THEN Frozen(sweep) ELSE Aged(sweep, f.size)
  /\ frames' = Tail(frames) /\ got' = got + 1
  /\ UNCHANGED << deviceVars, gui >>

\* A square wave: two samples low, two high.
High(s) == (s.at \div 2) % 2 = 1

Edges(cells) == {i \in 2 .. Len(cells) :
                   /\ ~High(buf[cells[i - 1]]) /\ High(buf[cells[i]])
                   /\ ~breaks[cells[i]]}

\* A sweep of `len` samples ending `back` from the newest, cut from a window of n.
Cut(n, len, back, trig) ==
  LET cells == [i \in 1 .. len |-> Cells(n)[n - back - len + i]]
      now   == [i \in 1 .. len |-> buf[cells[i]]]
  IN [cells |-> cells, live |-> IsView(n), kept |-> IF IsView(n) THEN << >> ELSE now,
      drawn |-> now,
      at |-> trig, since |-> 0, room |-> cap - len - back]

Free == LET n == Least(Screen, filled) IN Cut(n, n, 0, 0)

\* Edges with a whole screen around them, in the newest SearchSpan screens.
Usable(span) == {i \in Edges(Cells(span)) :
                   i - 1 >= Pre /\ i - 1 + Screen - Pre <= span}

\* draw(): select() and last_sweep; without an edge normal mode holds the sweep.
Draw(mode) ==
  /\ gui = "draining" /\ (frames = << >> \/ got = MaxDrain)
  /\ gui' = "idle"
  /\ LET span == Least(filled, Screen * SearchSpan)
         newest == CHOOSE i \in Usable(span) : \A j \in Usable(span) : j <= i
     IN IF cap = 0 THEN UNCHANGED sweep
        ELSE IF mode = "off" \/ span < Screen THEN sweep' = Free
        ELSE IF Usable(span) # {}
             THEN sweep' = Cut(span, Screen, span - (newest - 1 + Screen - Pre), Pre + 1)
        ELSE IF mode = "auto" THEN sweep' = Free
        ELSE UNCHANGED sweep
  /\ UNCHANGED << deviceVars, frames, acqVars, got >>

----------------------------------------------------------------------------
Init ==
  /\ run = 0 /\ running = FALSE /\ seq = 0 /\ place = 0
  /\ deviceRate \in Rates /\ made = 0 /\ lost = 0
  /\ flags = 0 /\ quiet = Early + 1 /\ holes = {}
  /\ frames = << >>
  /\ lastSeq = NoSeq /\ rate = deviceRate
  /\ buf = << >> /\ breaks = << >> /\ pos = 0 /\ filled = 0 /\ cap = 0
  /\ gui = "idle" /\ got = 0
  /\ sweep = [cells |-> << >>, live |-> FALSE, kept |-> << >>,
              drawn |-> << >>, at |-> 0, since |-> 0, room |-> 0]
  /\ arrived = [codes |-> << >>, broken |-> FALSE]

Next == \/ Produce \/ DeviceStops \/ StartCapture \/ Tick \/ Ingest
        \/ \E m \in {"off", "auto", "normal"} : Draw(m)

Spec == Init /\ [][Next]_vars

----------------------------------------------------------------------------
(* Types *)

Sample == [run: Nat, at: Nat]
Frame  == [run: Nat, seq: Nat, flag: BOOLEAN, rate: Rates, at: Nat, size: Sizes]

DeviceOK ==
  /\ {run, seq, place, made, lost, flags, got} \subseteq Nat
  /\ running \in BOOLEAN /\ deviceRate \in Rates
  /\ quiet \in 0 .. Early + 1 /\ holes \subseteq Sample
  /\ frames \in Seq(Frame) /\ gui \in {"idle", "draining"}

RingOK ==
  /\ {cap, pos, filled} \subseteq Nat
  /\ buf \in [0 .. cap - 1 -> Sample] /\ breaks \in [0 .. cap - 1 -> BOOLEAN]
  /\ IF cap = 0 THEN pos = 0 /\ filled = 0 ELSE pos < cap /\ filled \in 1 .. cap
  /\ lastSeq \in Nat \cup {NoSeq} /\ rate \in Rates
  /\ arrived \in [codes: Seq(Sample), broken: BOOLEAN]

SweepOK ==
  /\ sweep \in [cells: Seq(Nat), live: BOOLEAN, kept: Seq(Sample),
                drawn: Seq(Sample), at: Nat, since: Nat, room: Int]
  /\ sweep.live => sweep.cells \in Seq(0 .. cap - 1)

TypeOK == DeviceOK /\ RingOK /\ SweepOK

----------------------------------------------------------------------------
(* Properties *)

\* Whatever the sizes of the frames, the wraps and the changes of rate, the ring
\* is the window of the newest samples with their break marks.
Log == INSTANCE SampleLog WITH shown <- Window
ShowsTheNewest == Log!Spec

Follows(x, y) == x.run = y.run => y.at = x.at + 1

\* Within a run, a hole the frames tell of, by a flag or by a number that is
\* missing because the daemon or the deque dropped the frame, is never without a
\* break mark on the first sample behind it, through wraps and changes of rate;
\* and a trigger is never on such a mark's splice.  Samples of two runs may be
\* joined: the deque outlives a reset.
NothingJoined ==
  /\ \A i \in 2 .. filled :
       Window[i].break \/ Follows(Window[i - 1].code, Window[i].code)
  /\ sweep.at > 1 => Follows(sweep.drawn[sweep.at - 1], sweep.drawn[sweep.at])

\* Less than Early + 1 frames of samples apart, in one run.
Reach == (Early + 1) * (CHOOSE k \in Sizes : \A j \in Sizes : j <= k)
Near(x, y) == x.run = y.run /\ y.at - x.at < Reach

\* A hole the board made is not always marked where it is: the flag is early.  But
\* it is never far from a mark, whatever the daemon and the deque drop between
\* the flagged frame and the hole: if the ring goes back far enough in that run,
\* it shows one at most that many frames ahead.
MarkIsNear ==
  \A i \in 1 .. filled :
    LET y == Window[i].code
    IN y \in holes /\ Window[1].code.run = y.run /\ ~Near(Window[1].code, y) =>
         \E j \in 2 .. i : Window[j].break /\ Near(Window[j].code, y)

\* docs/frontend.md has the trace broken at every discontinuity and a crossing at
\* one rejected: samples the signal did not have side by side are never so.
NeverJoined ==
  \A i \in 2 .. filled : Window[i].code \in holes => Window[i].break

\* What was drawn is what is measured and exported while normal mode holds it:
\* the view stays as it was until the ring comes round to it.
HeldUntilOverwritten ==
  sweep.since <= sweep.room => Content(sweep) = sweep.drawn
==============================================================================
