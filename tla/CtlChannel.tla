----------------------------- MODULE CtlChannel -----------------------------
(***************************************************************************)
(* The control channel: ctl.c on the board, Control.request on the host,   *)
(* and the two 512-byte endpoint banks between them.                       *)
(*                                                                         *)
(* Four actors: a host tool that sends one request at a time and waits for *)
(* its answer, the USB bus, the main loop's ctl_service, and the timer     *)
(* interrupt that sends heartbeats into the endpoint the answers use.      *)
(*                                                                         *)
(* The byte stream is a sequence of tokens: the four bytes of the magic,   *)
(* a header's remaining twelve bytes as one token, and payload bytes.  A   *)
(* header token carries the request's serial number n, which is not on the *)
(* wire: it tells the properties which request an answer belongs to.       *)
(* Definitions named Fault_... are seeded faults, as in CaptureRing.       *)
(***************************************************************************)
EXTENDS Integers, Sequences, SequencesExt

CONSTANTS
  IDS,         \* request identifiers before they repeat (65535)
  IDLE,        \* CTL_IDLE_US, in ticks
  TIMEOUT,     \* the host's patience for one answer, in ticks
  Kinds,       \* the requests the tools send
  JunkSkip,    \* bound: tokens skipped after a header read out of step
  MaxTools,    \* bound: tools that open the port, one after another
  MaxRequests, \* bound: requests
  MaxBeats,    \* bound: heartbeat interrupts
  MaxCuts,     \* bound: writes that the bus splits
  MaxFaults    \* bound: endpoint reallocations, stalls, and tools that die

ASSUME CtlAssumption ==
  /\ IDS \in Nat \ {0} /\ JunkSkip \in Nat
  /\ IDLE \in Nat /\ TIMEOUT \in Nat /\ IDLE < TIMEOUT
  /\ Kinds \subseteq {"ping", "set_on", "set_off", "toolong", "badver"}
  /\ MaxTools \in Nat /\ MaxRequests \in Nat
  /\ MaxBeats \in Nat /\ MaxCuts \in Nat /\ MaxFaults \in Nat

VARIABLES
  \* ctl.c, receive
  rx_state, rx_magic_at, rx_hdr, rx_payload, rx_skip, rx_buf,
  quiet,           \* inside a frame: ticks since rx_last_us, to past IDLE
  \* ctl.c, transmit
  pc,              \* where ctl_service is, "loop" between calls
  out,             \* the answer ctl_respond sends
  ctl_tx_dropped, hb_on, hb_seq, hb_dropped,
  \* usb_cdc.c and the endpoints
  ctl_line_state,  \* DTR as the device knows it
  cout, cin,       \* the OUT and the IN bank
  fifo,            \* what has been stored in the IN bank and not committed
  stalled,         \* the main loop is busy elsewhere for a long time
  \* host
  toolOpen, tool, nextId, requests,
  hostOut, hostIn, \* the kernel's queues
  pending,         \* the request being waited for
  lastBeat,        \* the last heartbeat read
  \* what happened, for the properties
  beats,           \* heartbeat interrupts with the heartbeat on
  ghost,           \* something that was never sent as a frame was obeyed
  disturbed,       \* a fault has happened
  calm,            \* ticks since the last one, to past IDLE; a request sent
                   \* too soon starts the count again
  faults, cuts

rxVars   == << rx_state, rx_magic_at, rx_hdr, rx_payload, rx_skip >>
txVars   == << ctl_tx_dropped, fifo, cin >>
hbVars   == << hb_seq, hb_dropped, beats >>
toolVars == << toolOpen, tool, nextId, requests >>
sendVars == << hostOut, cuts >>
pastVars == << disturbed, calm, faults >>
vars == << rxVars, rx_buf, quiet, pc, out, txVars, hbVars, hb_on,
           ctl_line_state, cout, stalled, toolVars, sendVars, hostIn, pending,
           lastBeat, ghost, pastVars >>

----------------------------------------------------------------------------
(* The wire *)

Byte(c)     == [b |-> c]
Data(n)     == [b |-> "x", n |-> n]
Header(n, t, id, kind, len) ==
  [b |-> "H", n |-> n, tool |-> t, id |-> id, kind |-> kind, len |-> len]

ctl_magic   == << Byte("D"), Byte("U"), Byte("E"), Byte("C") >>

\* A payload that spells a frame.
GhostFrame  == ctl_magic \o << Header(0, 0, IDS + 1, "ping", 0) >>

\* Twelve bytes that are not a header: the version is wrong, and the length
\* is whatever they hold.
JunkHeader(len) == Header(0, 0, IDS + 1, "badver", len)
NoHeader        == Header(0, 0, 0, "none", 0)

PayloadOf(kind, n) ==
  CASE kind = "ping"    -> << >>
    [] kind = "toolong" -> GhostFrame
    [] OTHER            -> << Data(n), Data(n) >>

\* encode
Frame(n, t, id, kind) ==
  LET payload == PayloadOf(kind, n)
  IN  ctl_magic \o << Header(n, t, id, kind, Len(payload)) >> \o payload

Answer(h) == [beat |-> FALSE, id |-> h.id, n |-> h.n, tool |-> h.tool]
NoAnswer  == Answer(NoHeader)
Beat(n, seq, dropped) ==
  [beat |-> TRUE, id |-> 0, n |-> n, seq |-> seq, dropped |-> dropped]
NoBeat    == Beat(0, 0, 0)
NoRequest == [n |-> 0, id |-> 0, age |-> 0, clean |-> FALSE, txd |-> 0]

----------------------------------------------------------------------------
(* The board: receive.  What a frame leaves in rx_hdr and rx_payload when it *)
(* is done with is never read again, and is cleared at once.               *)

\* A frame that stopped arriving.
Fault_Abandoned == FALSE
Abandoned == rx_state # "MAGIC" /\ quiet > IDLE

\* ctl_service up to its loop.
ServiceEnter ==
  /\ pc = "loop" /\ ~stalled
  /\ Abandoned \/ rx_buf # << >> \/ cout # << >>
  /\ rx_state' = IF Abandoned THEN "MAGIC" ELSE rx_state
  /\ IF Abandoned
     THEN rx_magic_at' = 0 /\ rx_hdr' = NoHeader /\ rx_payload' = << >>
     ELSE UNCHANGED << rx_magic_at, rx_hdr, rx_payload >>
  /\ IF rx_buf = << >>
     THEN rx_buf' = cout /\ cout' = << >>
     ELSE UNCHANGED << rx_buf, cout >>
  /\ pc' = IF rx_buf' = << >> THEN "loop" ELSE "feed"
  /\ UNCHANGED << rx_skip, quiet, out, txVars, hbVars, hb_on,
                  ctl_line_state, stalled, toolVars, sendVars, hostIn, pending,
                  lastBeat, ghost, pastVars >>

\* ctl_feed takes the next byte, in the given state.
Feed(state) ==
  /\ pc = "feed" /\ rx_state = state
  /\ rx_buf' = Tail(rx_buf) /\ quiet' = 0
  /\ UNCHANGED << txVars, hbVars, ctl_line_state, cout, stalled, toolVars,
                  sendVars, hostIn, pending, lastBeat, pastVars >>

Silently == /\ pc' = IF Len(rx_buf) = 1 THEN "loop" ELSE "feed"
            /\ UNCHANGED << out, hb_on, ghost >>
Answering(h) == pc' = "respond" /\ out' = Answer(h)

\* The byte that breaks a match may begin the next one.
MatchAfter(b) ==
  IF b = ctl_magic[rx_magic_at + 1] THEN rx_magic_at + 1
  ELSE IF b = ctl_magic[1] THEN 1 ELSE 0

FeedMagic ==
  /\ Feed("MAGIC")
  /\ LET at == MatchAfter(Head(rx_buf))
     IN  IF at = Len(ctl_magic)
         THEN rx_magic_at' = 0 /\ rx_state' = "HEADER"
         ELSE rx_magic_at' = at /\ UNCHANGED rx_state
  /\ Silently
  /\ UNCHANGED << rx_hdr, rx_payload, rx_skip >>

\* ctl_dispatch: of the commands, only HEARTBEAT changes the channel's own state.
Dispatch(h) ==
  /\ hb_on' = CASE h.kind = "set_on"  -> TRUE
                [] h.kind = "set_off" -> FALSE
                [] OTHER              -> hb_on
  /\ ghost' = (ghost \/ h.n = 0)

\* ctl_frame_complete, with the checksum over h and payload.
FrameComplete(h, payload) ==
  /\ rx_state' = "MAGIC" /\ rx_magic_at' = 0
  /\ rx_hdr' = NoHeader /\ rx_payload' = << >>
  /\ Answering(h)
  /\ IF payload = PayloadOf(h.kind, h.n)
     THEN Dispatch(h)
     ELSE UNCHANGED << hb_on, ghost >>

\* What follows a header that is refused: its payload, by count.
Fault_SkipPayload(len) == rx_skip' = 0 /\ rx_state' = "MAGIC"
SkipPayload(len) ==
  /\ rx_skip' = len
  /\ rx_state' = IF len = 0 THEN "MAGIC" ELSE "SKIP"

\* ctl_header_complete: a version or a length that is refused, a frame that is
\* complete already, and one whose payload is still to come.
HeaderRefused(h) ==
  /\ SkipPayload(h.len)
  /\ Answering(h)
  /\ rx_hdr' = NoHeader
  /\ UNCHANGED << rx_magic_at, rx_payload, hb_on, ghost >>

HeaderComplete(h) ==
  \/ /\ h.kind \in {"badver", "toolong"}
     /\ HeaderRefused(h)
  \/ /\ h.kind \notin {"badver", "toolong"} /\ h.len = 0
     /\ FrameComplete(h, << >>)
     /\ UNCHANGED rx_skip
  \/ /\ h.kind \notin {"badver", "toolong"} /\ h.len > 0
     /\ rx_state' = "PAYLOAD" /\ rx_hdr' = h
     /\ Silently
     /\ UNCHANGED << rx_magic_at, rx_payload, rx_skip >>

\* Twelve bytes after a magic: a header, or whatever came after a lost one.
FeedHeader ==
  /\ Feed("HEADER")
  /\ LET byte == Head(rx_buf)
     IN  \/ /\ byte.b = "H" /\ rx_hdr = NoHeader
            /\ HeaderComplete(byte)
         \/ /\ byte.b = "x" \/ (byte.b = "H" /\ rx_hdr # NoHeader)
            /\ \E len \in 0 .. JunkSkip : HeaderRefused(JunkHeader(len))
         \/ /\ byte.b \notin {"x", "H"}
            /\ rx_hdr' = JunkHeader(0)
            /\ Silently
            /\ UNCHANGED << rx_state, rx_magic_at, rx_payload, rx_skip >>

FeedPayload ==
  /\ Feed("PAYLOAD")
  /\ LET payload == Append(rx_payload, Head(rx_buf))
     IN  IF Len(payload) < rx_hdr.len
         THEN /\ rx_payload' = payload
              /\ Silently
              /\ UNCHANGED << rx_state, rx_magic_at, rx_hdr >>
         ELSE FrameComplete(rx_hdr, payload)
  /\ UNCHANGED rx_skip

FeedSkip ==
  /\ Feed("SKIP")
  /\ rx_skip' = rx_skip - 1
  /\ rx_state' = IF rx_skip' = 0 THEN "MAGIC" ELSE "SKIP"
  /\ Silently
  /\ UNCHANGED << rx_magic_at, rx_hdr, rx_payload >>

----------------------------------------------------------------------------
(* The board: transmit *)

\* Set around ctl_port_write.
Fault_ctl_tx_busy == FALSE
ctl_tx_busy == pc \in {"test", "commit"}

\* usb_ctl_ready and TXINI: what ctl_port_write needs to take a frame.
CanWrite == ctl_line_state /\ cin = << >>

RespondStep(from) ==
  /\ pc = from
  /\ UNCHANGED << rxVars, rx_buf, quiet, hbVars, hb_on, ctl_line_state,
                  cout, stalled, toolVars, sendVars, hostIn, pending, lastBeat,
                  ghost, pastVars >>

RespondBegin == /\ RespondStep("respond")
                /\ pc' = "test"
                /\ UNCHANGED << out, txVars >>

RespondTest ==
  /\ RespondStep("test")
  /\ IF CanWrite
     THEN /\ pc' = "commit" /\ fifo' = << out >>
          /\ UNCHANGED << out, ctl_tx_dropped >>
     ELSE /\ pc' = "loop" /\ ctl_tx_dropped' = ctl_tx_dropped + 1
          /\ out' = NoAnswer /\ UNCHANGED fifo
  /\ UNCHANGED cin

RespondCommit == /\ RespondStep("commit")
                 /\ pc' = "loop"
                 /\ cin' = << fifo[1], out >> /\ fifo' = << >> /\ out' = NoAnswer
                 /\ UNCHANGED ctl_tx_dropped

\* A beat that is not sent is counted.
Fault_BeatDropped == UNCHANGED hb_dropped
BeatDropped == hb_dropped' = hb_dropped + 1

\* ctl_heartbeat_emit_isr, in the timer's interrupt.
Heartbeat ==
  /\ hb_on
  /\ beats < MaxBeats /\ beats' = beats + 1
  /\ IF ctl_tx_busy
     THEN BeatDropped /\ UNCHANGED << hb_seq, cin, fifo >>
     ELSE /\ hb_seq' = hb_seq + 1
          /\ LET beat == Beat(beats', hb_seq', hb_dropped)
             IN  IF CanWrite
                 THEN /\ cin' = fifo \o << beat, beat >> /\ fifo' = << >>
                      /\ UNCHANGED hb_dropped
                 ELSE BeatDropped /\ UNCHANGED << cin, fifo >>
  /\ UNCHANGED << rxVars, rx_buf, quiet, pc, out, ctl_tx_dropped, hb_on,
                  ctl_line_state, cout, stalled, toolVars, sendVars, hostIn,
                  pending, lastBeat, ghost, pastVars >>

----------------------------------------------------------------------------
(* The host and the bus *)

\* The board's side of the channel stands still.
BoardStands == UNCHANGED << rxVars, rx_buf, quiet, pc, out, hbVars, hb_on,
                            ctl_tx_dropped, fifo, ghost >>

Fault_IdAfter(id) == id
IdAfter(id) == (id % IDS) + 1

\* Control.__init__.
ToolOpens ==
  /\ ~toolOpen /\ tool < MaxTools
  /\ toolOpen' = TRUE /\ tool' = tool + 1 /\ nextId' = 1
  /\ BoardStands
  /\ UNCHANGED << requests, ctl_line_state, cin, cout, stalled, sendVars,
                  hostIn, pending, lastBeat, pastVars >>

\* A fault: whatever is under way no longer counts as undisturbed.
Disturb ==
  /\ faults < MaxFaults /\ faults' = faults + 1
  /\ disturbed' = TRUE /\ calm' = 0

\* The tool closes the port, or is killed: both queues are flushed.
ToolCloses ==
  /\ toolOpen
  /\ toolOpen' = FALSE
  /\ hostOut' = << >> /\ hostIn' = << >> /\ pending' = NoRequest
  /\ IF pending = NoRequest /\ hostOut = << >> THEN UNCHANGED pastVars ELSE Disturb
  /\ BoardStands
  /\ UNCHANGED << tool, nextId, requests, ctl_line_state, cin, cout, stalled,
                  lastBeat, cuts >>

\* There has been no fault, or a silence since.
Calm == ~stalled /\ (~disturbed \/ calm > IDLE)

\* Control.request up to its loop.
Request(kind) ==
  /\ toolOpen /\ pending = NoRequest
  /\ requests < MaxRequests /\ requests' = requests + 1
  /\ nextId' = IdAfter(nextId)
  /\ hostOut' = hostOut \o Frame(requests', tool, nextId, kind)
  /\ pending' = [n |-> requests', id |-> nextId, age |-> 0,
                 clean |-> Calm, txd |-> ctl_tx_dropped]
  /\ calm' = IF Calm THEN calm ELSE 0
  /\ BoardStands
  /\ UNCHANGED << toolOpen, tool, ctl_line_state, cin, cout, stalled, hostIn,
                  lastBeat, cuts, disturbed, faults >>

\* The loop of Control.request meets a frame.
HostReads ==
  /\ pending # NoRequest /\ hostIn # << >>
  /\ hostIn' = Tail(hostIn)
  /\ LET frame == Head(hostIn)
     IN  /\ lastBeat' = IF frame.beat THEN frame ELSE lastBeat
         /\ pending' = IF frame.id = pending.id THEN NoRequest ELSE pending
  /\ BoardStands
  /\ UNCHANGED << toolVars, sendVars, ctl_line_state, cin, cout, stalled,
                  pastVars >>

\* ProtocolError, "no response".
HostGivesUp ==
  /\ pending.age = TIMEOUT /\ hostIn = << >>
  /\ pending' = NoRequest
  /\ BoardStands
  /\ UNCHANGED << toolVars, sendVars, hostIn, ctl_line_state, cin, cout,
                  stalled, lastBeat, pastVars >>

\* One packet to the board, cut anywhere.
BusDelivers ==
  /\ cout = << >>
  /\ \E n \in 1 .. Len(hostOut) :
       /\ cuts' = IF n < Len(hostOut) THEN cuts + 1 ELSE cuts
       /\ cuts' <= MaxCuts
       /\ cout' = SubSeq(hostOut, 1, n)
       /\ hostOut' = SubSeq(hostOut, n + 1, Len(hostOut))
  /\ BoardStands
  /\ UNCHANGED << toolVars, hostIn, pending, ctl_line_state, cin, stalled,
                  lastBeat, pastVars >>

\* One packet from the board; the kernel polls while the port is open.
BusTakes ==
  /\ toolOpen /\ cin # << >>
  /\ hostIn' = Append(hostIn, cin[1]) /\ cin' = << >>
  /\ BoardStands
  /\ UNCHANGED << toolVars, sendVars, pending, ctl_line_state, cout, stalled,
                  lastBeat, pastVars >>

----------------------------------------------------------------------------
(* The rest of the main loop, and time *)

\* SET_CONTROL_LINE_STATE, handled by usb_cdc_poll.  An open raises DTR; whether a
\* close lowers it depends on the host's platform.
PollLineState ==
  /\ pc = "loop" /\ ~stalled
  /\ ctl_line_state # toolOpen /\ ctl_line_state' = toolOpen
  /\ BoardStands
  /\ UNCHANGED << toolVars, sendVars, hostIn, pending, cin, cout, stalled,
                  lastBeat, pastVars >>

Unclean == pending' = [pending EXCEPT !.clean = FALSE]

\* ep_realloc_control, when a command switches a sample endpoint's mode, loses
\* what is in one bank or in both.
ReallocControl ==
  /\ pc = "loop" /\ ~stalled
  /\ cin' \in {cin, << >>} /\ cout' \in {cout, << >>}
  /\ cin' # cin \/ cout' # cout
  /\ Disturb /\ Unclean
  /\ BoardStands
  /\ UNCHANGED << toolVars, sendVars, hostIn, ctl_line_state, stalled, lastBeat >>

\* A console command keeps the main loop; interrupts go on.
Stall ==
  /\ pc = "loop" /\ ~stalled
  /\ stalled' = TRUE
  /\ Disturb /\ Unclean
  /\ BoardStands
  /\ UNCHANGED << toolVars, sendVars, hostIn, ctl_line_state, cin, cout, lastBeat >>

StallEnds ==
  /\ stalled /\ stalled' = FALSE
  /\ calm' = 0 /\ Unclean
  /\ BoardStands
  /\ UNCHANGED << toolVars, sendVars, hostIn, ctl_line_state, cin, cout,
                  lastBeat, disturbed, faults >>

\* Nothing is left that takes far less than a tick.
Settled ==
  /\ ~(cout = << >> /\ hostOut # << >>)
  /\ ~(toolOpen /\ cin # << >>)
  /\ ~(pending # NoRequest /\ hostIn # << >>)
  /\ pending.age < TIMEOUT
  /\ stalled \/ /\ pc = "loop" /\ cout = << >> /\ rx_buf = << >>
                /\ toolOpen => ctl_line_state

UpTo(n, limit) == IF n < limit THEN n + 1 ELSE n

Tick ==
  /\ Settled
  /\ quiet' = IF rx_state = "MAGIC" THEN 0 ELSE UpTo(quiet, IDLE + 1)
  /\ calm' = IF disturbed THEN UpTo(calm, IDLE + 1) ELSE 0
  /\ pending' = IF pending = NoRequest THEN NoRequest
                ELSE [pending EXCEPT !.age = @ + 1]
  /\ UNCHANGED << rxVars, rx_buf, pc, out, txVars, hbVars, hb_on, ctl_line_state,
                  cout, stalled, toolVars, sendVars, hostIn, lastBeat, ghost,
                  disturbed, faults >>

----------------------------------------------------------------------------
Init ==
  /\ rx_state = "MAGIC" /\ rx_magic_at = 0 /\ rx_hdr = NoHeader
  /\ rx_payload = << >> /\ rx_skip = 0 /\ rx_buf = << >> /\ quiet = 0
  /\ pc = "loop" /\ out = NoAnswer
  /\ ctl_tx_dropped = 0 /\ hb_on = FALSE /\ hb_seq = 0 /\ hb_dropped = 0
  /\ ctl_line_state = FALSE /\ cout = << >> /\ cin = << >> /\ fifo = << >>
  /\ stalled = FALSE
  /\ toolOpen = FALSE /\ tool = 0 /\ nextId = 1 /\ requests = 0
  /\ hostOut = << >> /\ hostIn = << >> /\ pending = NoRequest
  /\ lastBeat = NoBeat /\ beats = 0
  /\ ghost = FALSE /\ disturbed = FALSE /\ calm = 0 /\ faults = 0 /\ cuts = 0

Next ==
  \/ ServiceEnter \/ FeedMagic \/ FeedHeader \/ FeedPayload \/ FeedSkip
  \/ RespondBegin \/ RespondTest \/ RespondCommit
  \/ Heartbeat
  \/ ToolOpens \/ ToolCloses \/ \E kind \in Kinds : Request(kind)
  \/ HostReads \/ HostGivesUp \/ BusDelivers \/ BusTakes
  \/ PollLineState \/ ReallocControl \/ Stall \/ StallEnds
  \/ Tick

Spec == Init /\ [][Next]_vars

----------------------------------------------------------------------------
(* Properties *)

\* What goes over the wire: tokens to the board, answers and heartbeats from it.
Headers == [b : {"H"}, n : Nat, tool : Nat, id : Nat, len : Nat,
            kind : {"ping", "set_on", "set_off", "toolong", "badver", "none"}]
Tokens  == [b : {"D", "U", "E", "C"}] \cup [b : {"x"}, n : Nat] \cup Headers
Answers == [beat : {FALSE}, id : Nat, n : Nat, tool : Nat]
Beats   == [beat : {TRUE}, id : {0}, n : Nat, seq : Nat, dropped : Nat]

\* The parser's state agrees with what it holds: a count to skip exactly while
\* skipping, a payload that is not complete exactly while it collects one, a
\* header once it has one, a packet exactly while feeding.
Receives ==
  /\ {rx_buf, cout, rx_payload} \subseteq Seq(Tokens) /\ rx_hdr \in Headers
  /\ rx_state \in {"MAGIC", "HEADER", "PAYLOAD", "SKIP"}
  /\ rx_magic_at \in 0 .. 3
  /\ rx_skip \in Nat /\ (rx_state = "SKIP" => rx_skip > 0)
  /\ IF rx_state = "PAYLOAD" THEN Len(rx_payload) < rx_hdr.len ELSE rx_payload = << >>
  /\ rx_state \in {"MAGIC", "SKIP"} => rx_hdr = NoHeader
  /\ pc \in {"loop", "feed", "respond", "test", "commit"}
  /\ pc = "feed" => rx_buf # << >>
  /\ quiet \in 0 .. IDLE + 1

\* A half-filled bank exactly before the commit; no interrupt is lost to the counts.
Sends ==
  /\ out \in Answers /\ {fifo, cin} \subseteq Seq(Answers \cup Beats)
  /\ fifo # << >> => pc = "commit"
  /\ {beats, hb_seq, hb_dropped, ctl_tx_dropped} \subseteq Nat
  /\ {hb_on, ctl_line_state} \subseteq BOOLEAN
  /\ hb_seq + hb_dropped >= beats

\* A request is waited for by a tool that is there.
Waits ==
  /\ hostOut \in Seq(Tokens) /\ hostIn \in Seq(Answers \cup Beats)
  /\ lastBeat \in Beats
  /\ pending \in [n : Nat, id : Nat, age : Nat, clean : BOOLEAN, txd : Nat]
  /\ pending # NoRequest => toolOpen
  /\ {tool, requests, faults, cuts} \subseteq Nat /\ nextId \in 1 .. IDS
  /\ {stalled, toolOpen, ghost, disturbed} \subseteq BOOLEAN
  /\ stalled => disturbed
  /\ calm \in 0 .. IDLE + 1

TypeOK == Receives /\ Sends /\ Waits

\* A packet on the wire is one frame of one writer: the heartbeat interrupt
\* never gets between the bytes of an answer (ctl_tx_busy).
WireIsWhole == cin = << >> \/ cin = << cin[1], cin[1] >>

\* A payload that happens to spell a frame is not obeyed, unless something was
\* lost or cut short before: a refused payload is skipped by count.
NoGhost == ghost => disturbed

\* An answer that the waiting request would take for its own is its own, as
\* long as it was made for the same tool: abandoned requests, answered late
\* after a stall, are told apart by req_id.
NoReplyMistaken ==
  pending # NoRequest =>
    \A frame \in ToSet(hostIn) \cup ToSet(cin) :
      (frame.id = pending.id /\ frame.tool = tool) => frame.n = pending.n

\* The same for whichever tool sent the request, as docs/control-protocol.md has
\* it of req_id.  Each Control object numbers its requests from 1.
LateReplyNotMistaken ==
  pending # NoRequest =>
    \A frame \in ToSet(hostIn) \cup ToSet(cin) :
      frame.id = pending.id => frame.n = pending.n

\* A silence longer than CTL_IDLE_US restores the channel after any fault,
\* whatever state the parser was left in: a request begun after one, with no
\* new fault while it waits, is answered, and so is the next.  The one
\* exception is counted in ctl_tx_dropped.
SilenceRestores ==
  (pending # NoRequest /\ pending.clean /\ pending.age = TIMEOUT)
    => ctl_tx_dropped > pending.txd

\* A missing beat shows: between two beats that a host reads, either seq jumps
\* or the dropped count moves if any interrupt's beat is missing.
LostBeatShows ==
  [][lastBeat'.n > lastBeat.n + 1
       => \/ lastBeat'.seq > lastBeat.seq + 1
          \/ lastBeat'.dropped > lastBeat.dropped]_vars
=============================================================================
