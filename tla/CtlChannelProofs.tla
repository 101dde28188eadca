--------------------------- MODULE CtlChannelProofs ---------------------------
(***************************************************************************)
(* Theorems about CtlChannel, for every value of its constants.            *)
(***************************************************************************)
EXTENDS CtlChannel, RingArithmetic, SequenceTheorems

\* The half-written bank belongs to the main loop from the test of TXINI to the
\* commit, and is free for exactly as long as ctl_tx_busy keeps the interrupt out.
BankHeld ==
  /\ pc = "commit" => cin = << >> /\ fifo = << out >>
  /\ pc # "commit" => fifo = << >>

WireInv == WireIsWhole /\ BankHeld

\* What two stores of one frame leave in the bank.
LEMMA Pair == \A x, s : s = << x, x >> => s = << s[1], s[1] >>
OBVIOUS

\* The bank is written in four places only: everything else leaves it, what is
\* stored in it and the answer alone, or empties it.
LEMMA WireInit == Init => WireInv
BY DEF Init, WireInv, WireIsWhole, BankHeld

\* The bytes ctl_feed takes are answered later: the transmit side rests.
LEMMA WireKeptByReceive ==
  ASSUME WireInv, ServiceEnter \/ FeedMagic \/ FeedHeader \/ FeedPayload \/ FeedSkip
  PROVE  WireInv'
<1>1. CASE ServiceEnter
  BY <1>1 DEF ServiceEnter, WireInv, WireIsWhole, BankHeld, txVars
<1>2. CASE FeedMagic \/ FeedHeader \/ FeedPayload \/ FeedSkip
  <2>1. UNCHANGED << cin, fifo >> /\ pc = "feed"
    BY <1>2 DEF FeedMagic, FeedHeader, FeedPayload, FeedSkip, Feed, txVars
  <2>2. pc' \in {"loop", "feed", "respond"}
    <3>1. Silently => pc' \in {"loop", "feed"}
      BY DEF Silently
    <3>2. ASSUME NEW h, Answering(h) PROVE pc' = "respond"
      BY <3>2 DEF Answering
    <3>3. CASE FeedMagic BY <3>1, <3>3 DEF FeedMagic
    <3>4. CASE FeedSkip BY <3>1, <3>4 DEF FeedSkip
    <3>5. CASE FeedPayload BY <3>1, <3>2, <3>5 DEF FeedPayload, FrameComplete
    <3>6. CASE FeedHeader
      BY <3>1, <3>2, <3>6 DEF FeedHeader, HeaderComplete, HeaderRefused, FrameComplete
    <3>7. QED BY <1>2, <3>3, <3>4, <3>5, <3>6
  <2>3. QED BY <2>1, <2>2 DEF WireInv, WireIsWhole, BankHeld
<1>3. QED BY <1>1, <1>2

\* ctl_respond stores its frame in an empty bank and commits what it stored.
LEMMA WireKeptByRespond ==
  ASSUME WireInv, RespondBegin \/ RespondTest \/ RespondCommit
  PROVE  WireInv'
<1>1. CASE RespondBegin
  BY <1>1 DEF RespondBegin, RespondStep, WireInv, WireIsWhole, BankHeld, txVars
<1>2. CASE RespondTest
  BY <1>2 DEF RespondTest, RespondStep, CanWrite, WireInv, WireIsWhole, BankHeld
<1>3. CASE RespondCommit
  <2>1. fifo = << out >> /\ cin' = << fifo[1], out >> /\ fifo' = << >> /\ pc' = "loop"
    BY <1>3 DEF RespondCommit, RespondStep, WireInv, BankHeld
  <2>2. cin' = << out, out >>
    BY <2>1
  <2>3. WireIsWhole'
    BY <2>2, Pair DEF WireIsWhole
  <2>4. QED BY <2>1, <2>3 DEF WireInv, WireIsWhole, BankHeld
<1>4. QED BY <1>1, <1>2, <1>3

\* The interrupt writes only outside the window, into a bank with nothing stored.
LEMMA WireKeptByHeartbeat ==
  ASSUME WireInv, Heartbeat
  PROVE  WireInv'
<1>1. CASE ctl_tx_busy
  BY <1>1 DEF Heartbeat, WireInv, WireIsWhole, BankHeld
<1>2. CASE ~ctl_tx_busy
  <2>1. pc # "commit" /\ fifo = << >> /\ pc' = pc
    BY <1>2 DEF Heartbeat, ctl_tx_busy, WireInv, BankHeld
  <2>2. CASE CanWrite
    <3>1. PICK beat : cin' = fifo \o << beat, beat >> /\ fifo' = << >>
      BY <1>2, <2>2 DEF Heartbeat
    <3>2. cin' = << beat, beat >>
      BY <2>1, <3>1
    <3>3. QED BY <2>1, <3>1, <3>2 DEF WireInv, WireIsWhole, BankHeld
  <2>3. CASE ~CanWrite
    <3>1. UNCHANGED << cin, fifo >>
      BY <1>2, <2>3 DEF Heartbeat
    <3>2. QED BY <2>1, <3>1 DEF WireInv, WireIsWhole, BankHeld
  <2>4. QED BY <2>2, <2>3
<1>3. QED BY <1>1, <1>2

\* The host takes a whole packet or none; so does a reallocation.
LEMMA WireKeptByOthers ==
  ASSUME WireInv,
         \/ ToolOpens \/ ToolCloses \/ \E kind \in Kinds : Request(kind)
         \/ HostReads \/ HostGivesUp \/ BusDelivers \/ BusTakes
         \/ PollLineState \/ ReallocControl \/ Stall \/ StallEnds \/ Tick
  PROVE  WireInv'
<1>1. UNCHANGED << pc, fifo, out >>
  BY DEF ToolOpens, ToolCloses, Request, HostReads, HostGivesUp, BusDelivers, BusTakes,
         PollLineState, ReallocControl, Stall, StallEnds, Tick, BoardStands, txVars
<1>2. cin' = cin \/ cin' = << >>
  BY DEF ToolOpens, ToolCloses, Request, HostReads, HostGivesUp, BusDelivers, BusTakes,
         PollLineState, ReallocControl, Stall, StallEnds, Tick, BoardStands, txVars
<1>3. QED BY <1>1, <1>2 DEF WireInv, WireIsWhole, BankHeld

\* A packet of the control channel is one frame of one writer, with any bounds,
\* any identifiers and any delays: the check of ctl_tx_busy is enough to keep
\* the heartbeat interrupt out of an answer, and nothing else is needed.
THEOREM PacketsAreWhole == Spec => []WireIsWhole
<1>1. Init => WireInv
  BY WireInit
<1>2. WireInv /\ [Next]_vars => WireInv'
  <2> SUFFICES ASSUME WireInv, [Next]_vars PROVE WireInv'
    OBVIOUS
  <2>1. CASE Next
    BY <2>1, WireKeptByReceive, WireKeptByRespond, WireKeptByHeartbeat, WireKeptByOthers
    DEF Next
  <2>2. CASE UNCHANGED vars
    BY <2>2 DEF vars, txVars, WireInv, WireIsWhole, BankHeld
  <2>3. QED BY <2>1, <2>2
<1>3. WireInv => WireIsWhole
  BY DEF WireInv
<1>4. QED BY <1>1, <1>2, <1>3, PTL DEF Spec

----------------------------------------------------------------------------
(* Types *)

\* What the wire carries.
LEMMA WireTypes ==
  /\ NoHeader \in Headers /\ \A len \in Nat : JunkHeader(len) \in Headers
  /\ \A h \in Headers : Answer(h) \in Answers /\ h.id \in Nat /\ h.n \in Nat /\ h.len \in Nat
  /\ NoAnswer \in Answers
  /\ \A n, q, d \in Nat : Beat(n, q, d) \in Beats
  /\ Headers \subseteq Tokens
  /\ \A x \in Tokens : x.b = "H" => x \in Headers
<1>1. IDS + 1 \in Nat
  BY CtlAssumption
<1>2. NoHeader \in Headers /\ \A len \in Nat : JunkHeader(len) \in Headers
  BY <1>1 DEF NoHeader, JunkHeader, Header, Headers
<1>3. \A h \in Headers : Answer(h) \in Answers /\ h.id \in Nat /\ h.n \in Nat /\ h.len \in Nat
  BY DEF Answer, Answers, Headers
<1>4. NoAnswer \in Answers
  BY <1>2, <1>3 DEF NoAnswer
<1>5. \A n, q, d \in Nat : Beat(n, q, d) \in Beats
  BY DEF Beat, Beats
<1>6. Headers \subseteq Tokens /\ \A x \in Tokens : x.b = "H" => x \in Headers
  BY DEF Tokens, Headers
<1> QED  BY <1>2, <1>3, <1>4, <1>5, <1>6

\* The first token, and what is behind it.
LEMMA FirstToken ==
  ASSUME NEW S, NEW s \in Seq(S), s # << >>
  PROVE  /\ Head(s) \in S /\ Head(s) = s[1] /\ Tail(s) \in Seq(S)
         /\ Len(s) \in Nat \ {0} /\ Len(Tail(s)) = Len(s) - 1
         /\ \A i \in 1 .. Len(Tail(s)) : Tail(s)[i] = s[i + 1] /\ i + 1 \in 1 .. Len(s)
         /\ Len(s) = 1 <=> Tail(s) = << >>
<1>1. /\ Head(s) \in S /\ Head(s) = s[1] /\ Tail(s) \in Seq(S)
      /\ Len(s) \in Nat \ {0} /\ Len(Tail(s)) = Len(s) - 1
      /\ \A i \in 1 .. Len(Tail(s)) : Tail(s)[i] = s[i + 1] /\ i + 1 \in 1 .. Len(s)
  BY HeadTailProperties
<1>2. PICK t \in Seq(S) : t = Tail(s)
  BY <1>1
<1>3. Len(t) = 0 <=> t = << >>
  OBVIOUS
<1>4. Len(t) = 0 <=> Len(s) = 1
  BY <1>1, <1>2
<1> QED  BY <1>1, <1>2, <1>3, <1>4

\* The initial state is well typed.
LEMMA TypeInit == Init => TypeOK
<1> SUFFICES ASSUME Init PROVE TypeOK
  OBVIOUS
<1>1. << >> \in Seq(Tokens) /\ << >> \in Seq(Answers \cup Beats)
  OBVIOUS
<1>2. NoRequest \in [n : Nat, id : Nat, age : Nat, clean : BOOLEAN, txd : Nat]
  BY DEF NoRequest
<1>3. NoBeat \in Beats
  BY WireTypes DEF NoBeat
<1>4. IDLE \in Nat /\ IDS \in Nat \ {0}
  BY CtlAssumption
<1>5. Receives
  BY <1>1, <1>4, WireTypes DEF Init, Receives
<1>6. Sends
  <2>1. /\ out = NoAnswer /\ fifo = << >> /\ cin = << >> /\ hb_on = FALSE
        /\ ctl_line_state = FALSE /\ beats = 0 /\ hb_seq = 0 /\ hb_dropped = 0
        /\ ctl_tx_dropped = 0
    BY DEF Init
  <2>2. 0 + 0 >= 0
    OBVIOUS
  <2>3. hb_seq + hb_dropped >= beats
    BY <2>1, <2>2
  <2>4. {hb_on, ctl_line_state} \subseteq BOOLEAN
    BY <2>1
  <2>5. {beats, hb_seq, hb_dropped, ctl_tx_dropped} \subseteq Nat
    BY <2>1
  <2>6. out \in Answers /\ {fifo, cin} \subseteq Seq(Answers \cup Beats) /\ fifo = << >>
    BY <1>1, <2>1, WireTypes
  <2> QED  BY <2>3, <2>4, <2>5, <2>6 DEF Sends
<1>7. Waits
  <2>1. /\ hostOut = << >> /\ hostIn = << >> /\ lastBeat = NoBeat /\ pending = NoRequest
        /\ tool = 0 /\ requests = 0 /\ faults = 0 /\ cuts = 0 /\ calm = 0 /\ nextId = 1
        /\ stalled = FALSE /\ toolOpen = FALSE /\ ghost = FALSE /\ disturbed = FALSE
    BY DEF Init
  <2>2. 0 \in 0 .. IDLE + 1 /\ 1 \in 1 .. IDS
    BY <1>4
  <2>3. {stalled, toolOpen, ghost, disturbed} \subseteq BOOLEAN /\ ~stalled
    BY <2>1
  <2>4. {tool, requests, faults, cuts} \subseteq Nat /\ calm \in 0 .. IDLE + 1 /\ nextId \in 1 .. IDS
    BY <2>1, <2>2
  <2>5. /\ hostOut \in Seq(Tokens) /\ hostIn \in Seq(Answers \cup Beats) /\ lastBeat \in Beats
        /\ pending \in [n : Nat, id : Nat, age : Nat, clean : BOOLEAN, txd : Nat]
        /\ pending = NoRequest
    BY <1>1, <1>2, <1>3, <2>1
  <2> QED  BY <2>3, <2>4, <2>5 DEF Waits
<1> QED  BY <1>5, <1>6, <1>7 DEF TypeOK

\* Taking a byte leaves the host and the transmit side alone.
LEMMA FeedFrame ==
  ASSUME TypeOK, NEW state, Feed(state), ghost' \in BOOLEAN, hb_on' \in BOOLEAN,
         out' \in Answers
  PROVE  /\ Sends' /\ Waits' /\ rx_buf' \in Seq(Tokens) /\ cout' \in Seq(Tokens)
         /\ rx_buf' = Tail(rx_buf) /\ quiet' = 0 /\ quiet' \in 0 .. IDLE + 1
         /\ rx_buf \in Seq(Tokens) /\ rx_buf # << >> /\ Head(rx_buf) \in Tokens
         /\ Len(rx_buf) # 1 => rx_buf' # << >>
<1>1. /\ UNCHANGED << txVars, hbVars, ctl_line_state, cout, stalled, toolVars,
                      sendVars, hostIn, pending, lastBeat, pastVars >>
      /\ pc = "feed" /\ rx_buf' = Tail(rx_buf) /\ quiet' = 0
  BY DEF Feed
<1>2. rx_buf \in Seq(Tokens) /\ rx_buf # << >> /\ cout \in Seq(Tokens)
  BY <1>1 DEF TypeOK, Receives
<1>3. fifo = << >>
  BY <1>1 DEF TypeOK, Sends
<1>4. Sends'
  BY <1>1, <1>3 DEF TypeOK, Sends, txVars, hbVars
<1>5. Waits'
  BY <1>1 DEF TypeOK, Waits, toolVars, sendVars, pastVars
<1>6. 0 \in 0 .. IDLE + 1
  BY CtlAssumption
<1>7. /\ Head(rx_buf) \in Tokens /\ Tail(rx_buf) \in Seq(Tokens)
      /\ Len(rx_buf) # 1 => Tail(rx_buf) # << >>
  BY <1>2, FirstToken
<1> QED  BY <1>1, <1>2, <1>4, <1>5, <1>6, <1>7

\* What ctl_feed does with a byte keeps the types.
LEMMA TypeFeed ==
  ASSUME TypeOK, FeedMagic \/ FeedHeader \/ FeedPayload \/ FeedSkip
  PROVE  TypeOK'
<1> USE WireTypes
<1>1. /\ ghost \in BOOLEAN /\ hb_on \in BOOLEAN /\ out \in Answers
      /\ rx_hdr \in Headers /\ rx_payload \in Seq(Tokens) /\ rx_magic_at \in 0 .. 3
      /\ rx_skip \in Nat
  BY DEF TypeOK, Receives, Sends, Waits
<1>2. ASSUME NEW state, Feed(state), Silently,
             rx_state' \in {"MAGIC", "HEADER", "PAYLOAD", "SKIP"}, rx_magic_at' \in 0 .. 3,
             rx_skip' \in Nat, rx_state' = "SKIP" => rx_skip' > 0,
             rx_hdr' \in Headers, rx_payload' \in Seq(Tokens),
             IF rx_state' = "PAYLOAD" THEN Len(rx_payload') < rx_hdr'.len ELSE rx_payload' = << >>,
             rx_state' \in {"MAGIC", "SKIP"} => rx_hdr' = NoHeader
      PROVE  TypeOK'
  <2>1. ghost' = ghost /\ hb_on' = hb_on /\ out' = out /\ pc' \in {"loop", "feed"}
        /\ (pc' = "feed" => Len(rx_buf) # 1)
    BY <1>2 DEF Silently
  <2> QED  BY <1>1, <1>2, <2>1, FeedFrame DEF TypeOK, Receives
<1>3. ASSUME NEW state, Feed(state), NEW h \in Headers, Answering(h),
             hb_on' \in BOOLEAN, ghost' \in BOOLEAN,
             rx_state' \in {"MAGIC", "SKIP"}, rx_magic_at' \in 0 .. 3,
             rx_skip' \in Nat, rx_state' = "SKIP" => rx_skip' > 0,
             rx_hdr' = NoHeader, rx_payload' = << >>
      PROVE  TypeOK'
  <2>1. pc' = "respond" /\ out' \in Answers
    BY <1>3 DEF Answering
  <2>2. << >> \in Seq(Tokens)
    OBVIOUS
  <2> QED  BY <1>1, <1>3, <2>1, <2>2, FeedFrame DEF TypeOK, Receives
<1>4. CASE FeedMagic
  <2>1. /\ Feed("MAGIC") /\ Silently /\ UNCHANGED << rx_hdr, rx_payload, rx_skip >>
        /\ rx_state = "MAGIC"
    BY <1>4 DEF FeedMagic, Feed
  <2>2. rx_hdr = NoHeader /\ rx_payload = << >>
    BY <2>1 DEF TypeOK, Receives
  <2>3. PICK at \in 0 .. 4 :
          IF at = 4 THEN rx_magic_at' = 0 /\ rx_state' = "HEADER"
                    ELSE rx_magic_at' = at /\ UNCHANGED rx_state
    <3>1. Len(ctl_magic) = 4 /\ MatchAfter(Head(rx_buf)) \in 0 .. 4
      BY <1>1 DEF ctl_magic, MatchAfter
    <3> QED  BY <1>4, <3>1 DEF FeedMagic
  <2>4. rx_state' \in {"MAGIC", "HEADER"} /\ rx_magic_at' \in 0 .. 3
    BY <2>1, <2>3
  <2> QED  BY <1>1, <1>2, <2>1, <2>2, <2>4
<1>5. ASSUME NEW state, Feed(state), NEW h \in Headers, NEW payload, FrameComplete(h, payload),
             UNCHANGED rx_skip
      PROVE  TypeOK'
  <2>1. /\ rx_state' = "MAGIC" /\ rx_magic_at' = 0 /\ rx_hdr' = NoHeader
        /\ rx_payload' = << >> /\ Answering(h)
    BY <1>5 DEF FrameComplete
  <2>2. hb_on' \in BOOLEAN /\ ghost' \in BOOLEAN
    BY <1>1, <1>5 DEF FrameComplete, Dispatch
  <2> QED  BY <1>1, <1>3, <1>5, <2>1, <2>2
<1>6. ASSUME Feed("HEADER"), NEW h \in Headers, HeaderRefused(h)
      PROVE  TypeOK'
  <2>1. /\ SkipPayload(h.len) /\ Answering(h) /\ rx_hdr' = NoHeader
        /\ UNCHANGED << rx_magic_at, rx_payload, hb_on, ghost >> /\ rx_state = "HEADER"
    BY <1>6 DEF HeaderRefused, Feed
  <2>2. rx_payload = << >>
    BY <2>1 DEF TypeOK, Receives
  <2>3. rx_skip' = h.len /\ h.len \in Nat /\ rx_state' = IF h.len = 0 THEN "MAGIC" ELSE "SKIP"
    BY <2>1 DEF SkipPayload
  <2> QED  BY <1>1, <1>3, <1>6, <2>1, <2>2, <2>3
<1>7. CASE FeedHeader
  <2>1. Feed("HEADER") /\ rx_state = "HEADER"
    BY <1>7 DEF FeedHeader, Feed
  <2>2. PICK byte : byte = Head(rx_buf) /\ byte \in Tokens
    BY <1>1, <2>1, FirstToken DEF TypeOK, Receives, Feed
  <2>3. rx_payload = << >>
    BY <2>1 DEF TypeOK, Receives
  <2>4. CASE byte \in Headers /\ HeaderComplete(byte)
    <3>1. CASE HeaderRefused(byte)
      BY <1>6, <2>1, <2>4, <3>1
    <3>2. CASE FrameComplete(byte, << >>) /\ UNCHANGED rx_skip
      BY <1>5, <2>1, <2>4, <3>2
    <3>3. CASE /\ byte.len > 0 /\ rx_state' = "PAYLOAD" /\ rx_hdr' = byte /\ Silently
               /\ UNCHANGED << rx_magic_at, rx_payload, rx_skip >>
      <4>1. Len(rx_payload) = 0
        BY <2>3
      <4>2. Len(rx_payload') < rx_hdr'.len
        BY <2>4, <3>3, <4>1
      <4> QED  BY <1>1, <1>2, <2>1, <2>4, <3>3, <4>2
    <3> QED  BY <2>4, <3>1, <3>2, <3>3 DEF HeaderComplete
  <2>5. ASSUME NEW len \in 0 .. JunkSkip, HeaderRefused(JunkHeader(len))
        PROVE  TypeOK'
    BY <1>6, <2>1, <2>5, CtlAssumption
  <2>6. CASE /\ rx_hdr' = JunkHeader(0) /\ Silently
             /\ UNCHANGED << rx_state, rx_magic_at, rx_payload, rx_skip >>
    BY <1>1, <1>2, <2>1, <2>3, <2>6
  <2> QED  BY <1>7, <2>2, <2>4, <2>5, <2>6 DEF FeedHeader
<1>8. CASE FeedPayload
  <2>1. Feed("PAYLOAD") /\ UNCHANGED rx_skip /\ rx_state = "PAYLOAD"
    BY <1>8 DEF FeedPayload, Feed
  <2>2. PICK payload : payload = Append(rx_payload, Head(rx_buf))
    OBVIOUS
  <2>3. CASE /\ Len(payload) < rx_hdr.len /\ rx_payload' = payload /\ Silently
             /\ UNCHANGED << rx_state, rx_magic_at, rx_hdr >>
    <3>1. payload \in Seq(Tokens)
      BY <1>1, <2>1, <2>2, FirstToken DEF TypeOK, Receives, Feed
    <3> QED  BY <1>1, <1>2, <2>1, <2>3, <3>1
  <2>4. CASE FrameComplete(rx_hdr, payload)
    BY <1>1, <1>5, <2>1, <2>4
  <2> QED  BY <1>8, <2>2, <2>3, <2>4 DEF FeedPayload
<1>9. CASE FeedSkip
  <2>1. /\ Feed("SKIP") /\ Silently /\ UNCHANGED << rx_magic_at, rx_hdr, rx_payload >>
        /\ rx_skip' = rx_skip - 1 /\ rx_state' = IF rx_skip' = 0 THEN "MAGIC" ELSE "SKIP"
        /\ rx_state = "SKIP"
    BY <1>9 DEF FeedSkip, Feed
  <2>2. rx_skip > 0 /\ rx_payload = << >> /\ rx_hdr = NoHeader
    BY <2>1 DEF TypeOK, Receives
  <2>3. PICK k \in Nat : k = rx_skip - 1 /\ (k # 0 => k > 0)
    BY <1>1, <2>2
  <2>4. rx_skip' = k /\ rx_state' = IF k = 0 THEN "MAGIC" ELSE "SKIP"
    BY <2>1, <2>3
  <2>5. rx_skip' \in Nat /\ (rx_state' = "SKIP" => rx_skip' > 0)
    BY <2>3, <2>4
  <2> QED  BY <1>1, <1>2, <2>1, <2>2, <2>4, <2>5
<1> QED  BY <1>4, <1>7, <1>8, <1>9

\* ctl_service up to its loop, and the answer, keep the types.
LEMMA TypeService ==
  ASSUME TypeOK, WireInv, ServiceEnter \/ RespondBegin \/ RespondTest \/ RespondCommit
  PROVE  TypeOK'
<1> USE WireTypes
<1>1. << >> \in Seq(Tokens) /\ << >> \in Seq(Answers \cup Beats)
  OBVIOUS
<1>2. CASE ServiceEnter
  <2>1. /\ UNCHANGED << rx_skip, quiet, out, txVars, hbVars, hb_on, ctl_line_state, stalled,
                        toolVars, sendVars, hostIn, pending, lastBeat, ghost, pastVars >>
        /\ pc = "loop" /\ pc' = IF rx_buf' = << >> THEN "loop" ELSE "feed"
        /\ IF rx_buf = << >> THEN rx_buf' = cout /\ cout' = << >>
                             ELSE UNCHANGED << rx_buf, cout >>
    BY <1>2 DEF ServiceEnter
  <2>2. /\ Abandoned => /\ rx_state' = "MAGIC" /\ rx_magic_at' = 0 /\ rx_hdr' = NoHeader
                        /\ rx_payload' = << >>
        /\ ~Abandoned => UNCHANGED << rx_state, rx_magic_at, rx_hdr, rx_payload >>
    BY <1>2 DEF ServiceEnter
  <2>3. Sends' /\ Waits'
    <3>1. fifo = << >>
      BY <2>1 DEF TypeOK, Sends
    <3> QED  BY <2>1, <3>1 DEF TypeOK, Sends, Waits, txVars, hbVars, toolVars, sendVars, pastVars
  <2>4. {rx_buf', cout'} \subseteq Seq(Tokens) /\ (pc' = "feed" => rx_buf' # << >>)
        /\ pc' \in {"loop", "feed"}
    BY <1>1, <2>1 DEF TypeOK, Receives
  <2>5. CASE Abandoned
    <3>1. rx_skip' \in Nat /\ quiet' \in 0 .. IDLE + 1 /\ 0 \in 0 .. 3
      BY <2>1 DEF TypeOK, Receives
    <3>2. Receives'
      BY <1>1, <2>2, <2>4, <2>5, <3>1 DEF Receives
    <3> QED  BY <2>3, <3>2 DEF TypeOK
  <2>6. CASE ~Abandoned
    <3>1. Receives'
      BY <2>1, <2>2, <2>4, <2>6 DEF TypeOK, Receives
    <3> QED  BY <2>3, <3>1 DEF TypeOK
  <2> QED  BY <2>5, <2>6
<1>3. ASSUME NEW from, RespondStep(from), pc' \in {"loop", "test", "commit"}, Sends'
      PROVE  TypeOK'
  <2>1. UNCHANGED << rxVars, rx_buf, quiet, hbVars, hb_on, ctl_line_state, cout, stalled,
                     toolVars, sendVars, hostIn, pending, lastBeat, ghost, pastVars >>
    BY <1>3 DEF RespondStep
  <2>2. Waits'
    BY <2>1 DEF TypeOK, Waits, toolVars, sendVars, pastVars
  <2>3. Receives'
    BY <1>3, <2>1 DEF TypeOK, Receives, rxVars
  <2> QED  BY <1>3, <2>2, <2>3 DEF TypeOK
<1>4. CASE RespondBegin
  <2>1. RespondStep("respond") /\ pc' = "test" /\ UNCHANGED << out, txVars >>
        /\ pc = "respond" /\ UNCHANGED << hbVars, hb_on, ctl_line_state >>
    BY <1>4 DEF RespondBegin, RespondStep
  <2>2. Sends'
    BY <2>1 DEF TypeOK, Sends, txVars, hbVars
  <2> QED  BY <1>3, <2>1, <2>2
<1>5. CASE RespondTest
  <2>1. RespondStep("test") /\ pc = "test" /\ UNCHANGED << hbVars, hb_on, ctl_line_state, cin >>
    BY <1>5 DEF RespondTest, RespondStep
  <2>2. \/ pc' = "commit" /\ fifo' = << out >> /\ UNCHANGED << out, ctl_tx_dropped >>
        \/ pc' = "loop" /\ ctl_tx_dropped' = ctl_tx_dropped + 1 /\ out' = NoAnswer
           /\ UNCHANGED fifo
    BY <1>5 DEF RespondTest
  <2>3. << out >> \in Seq(Answers \cup Beats) /\ ctl_tx_dropped + 1 \in Nat /\ fifo = << >>
    BY <2>1 DEF TypeOK, Sends
  <2>4. Sends'
    BY <2>1, <2>2, <2>3 DEF TypeOK, Sends, hbVars
  <2> QED  BY <1>3, <2>1, <2>2, <2>4
<1>6. CASE RespondCommit
  <2>1. /\ RespondStep("commit") /\ pc = "commit" /\ pc' = "loop"
        /\ UNCHANGED << hbVars, hb_on, ctl_line_state, ctl_tx_dropped >>
        /\ cin' = << fifo[1], out >> /\ fifo' = << >> /\ out' = NoAnswer
    BY <1>6 DEF RespondCommit, RespondStep
  <2>2. fifo[1] = out
    BY <2>1 DEF WireInv, BankHeld
  <2>3. << out, out >> \in Seq(Answers \cup Beats)
    BY DEF TypeOK, Sends
  <2>4. Sends'
    BY <1>1, <2>1, <2>2, <2>3 DEF TypeOK, Sends, hbVars
  <2> QED  BY <1>3, <2>1, <2>4
<1> QED  BY <1>2, <1>4, <1>5, <1>6

\* What an interrupt with the heartbeat on leaves: a beat in the bank, or one more
\* that is counted.
LEMMA OneBeat ==
  ASSUME TypeOK, WireInv, Heartbeat
  PROVE  \/ /\ beats' = beats + 1 /\ hb_seq' = hb_seq + 1 /\ hb_dropped' = hb_dropped
            /\ cin = << >> /\ fifo' = << >>
            /\ LET beat == Beat(beats + 1, hb_seq + 1, hb_dropped)
               IN  cin' = << beat, beat >>
         \/ /\ beats' = beats + 1 /\ hb_seq' \in {hb_seq, hb_seq + 1}
            /\ hb_dropped' = hb_dropped + 1 /\ UNCHANGED << cin, fifo >>
<1>1. CASE ctl_tx_busy
  BY <1>1 DEF Heartbeat, BeatDropped
<1>2. CASE ~ctl_tx_busy /\ CanWrite
  <2>1. fifo = << >> /\ cin = << >>
    BY <1>2 DEF ctl_tx_busy, CanWrite, WireInv, BankHeld
  <2>2. PICK beat : beat = Beat(beats + 1, hb_seq + 1, hb_dropped)
    OBVIOUS
  <2>3. /\ beats' = beats + 1 /\ hb_seq' = hb_seq + 1 /\ hb_dropped' = hb_dropped
        /\ cin' = fifo \o << beat, beat >> /\ fifo' = << >>
    BY <1>2, <2>2 DEF Heartbeat
  <2>4. << >> \o << beat, beat >> = << beat, beat >>
    OBVIOUS
  <2> QED  BY <2>1, <2>2, <2>3, <2>4
<1>3. CASE ~ctl_tx_busy /\ ~CanWrite
  BY <1>3 DEF Heartbeat, BeatDropped
<1> QED  BY <1>1, <1>2, <1>3

\* The heartbeat interrupt keeps the types.
LEMMA TypeHeartbeat == TypeOK /\ WireInv /\ Heartbeat => TypeOK'
<1> SUFFICES ASSUME TypeOK, WireInv, Heartbeat PROVE TypeOK'
  OBVIOUS
<1>1. UNCHANGED << rxVars, rx_buf, quiet, pc, out, ctl_tx_dropped, hb_on,
                   ctl_line_state, cout, stalled, toolVars, sendVars, hostIn,
                   pending, lastBeat, ghost, pastVars >>
  BY DEF Heartbeat
<1>2. Receives' /\ Waits'
  BY <1>1 DEF TypeOK, Receives, Waits, rxVars, toolVars, sendVars, pastVars
<1>3. /\ beats \in Nat /\ hb_seq \in Nat /\ hb_dropped \in Nat /\ hb_seq + hb_dropped >= beats
      /\ {fifo, cin} \subseteq Seq(Answers \cup Beats)
  BY DEF TypeOK, Sends
<1>4. /\ beats' = beats + 1 /\ hb_seq' \in {hb_seq, hb_seq + 1}
      /\ hb_dropped' \in {hb_dropped, hb_dropped + 1}
      /\ hb_seq' = hb_seq => hb_dropped' = hb_dropped + 1
  BY <1>3, OneBeat
<1>5. \A b, q, d, x, y \in Nat :
         q + d >= b /\ x \in {q, q + 1} /\ y \in {d, d + 1} /\ (x = q => y = d + 1) => x + y >= b + 1
  OBVIOUS
<1>6. PICK n, q, d : n = beats' /\ q = hb_seq' /\ d = hb_dropped'
  OBVIOUS
<1>7. /\ n \in Nat /\ q \in Nat /\ d \in Nat /\ n = beats + 1 /\ q \in {hb_seq, hb_seq + 1}
      /\ d \in {hb_dropped, hb_dropped + 1} /\ (q = hb_seq => d = hb_dropped + 1)
  BY <1>3, <1>4, <1>6
<1>8. q + d >= n
  BY <1>3, <1>5, <1>7
<1>9. {fifo', cin'} \subseteq Seq(Answers \cup Beats) /\ (fifo' = fifo \/ fifo' = << >>)
  <2>1. PICK beat : beat = Beat(beats + 1, hb_seq + 1, hb_dropped)
    OBVIOUS
  <2>2. beat \in Beats
    BY <1>3, <2>1, WireTypes
  <2>3. << beat, beat >> \in Seq(Answers \cup Beats) /\ << >> \in Seq(Answers \cup Beats)
    BY <2>2
  <2> QED  BY <1>3, <2>1, <2>3, OneBeat
<1>10. Sends'
  BY <1>1, <1>6, <1>7, <1>8, <1>9 DEF TypeOK, Sends
<1> QED  BY <1>2, <1>10 DEF TypeOK

\* The requests whose payload is not read but skipped, and how long payloads are.
Refused == {"toolong", "badver"}
PayloadLen(kind) == IF kind = "ping" THEN 0 ELSE IF kind = "toolong" THEN 5 ELSE 2

\* One sequence behind another, cell by cell.
LEMMA Behind ==
  ASSUME NEW S, NEW s \in Seq(S), NEW t \in Seq(S), NEW e, e = s \o t
  PROVE  /\ e \in Seq(S) /\ Len(e) = Len(s) + Len(t)
         /\ \A i \in 1 .. Len(s) : e[i] = s[i]
         /\ \A i \in 1 .. Len(t) : e[Len(s) + i] = t[i]
<1>1. /\ e \in Seq(S) /\ Len(e) = Len(s) + Len(t) /\ Len(s) \in Nat /\ Len(t) \in Nat
      /\ \A i \in 1 .. Len(s) + Len(t) : e[i] = IF i <= Len(s) THEN s[i] ELSE t[i - Len(s)]
  BY ConcatProperties
<1>2. PICK m, k \in Nat : m = Len(s) /\ k = Len(t)
  BY <1>1
<1>3. \A i \in 1 .. k : m + i \in 1 .. m + k /\ ~(m + i <= m) /\ (m + i) - m = i
  BY <1>2
<1>4. \A i \in 1 .. m : i \in 1 .. m + k /\ i <= m
  BY <1>2
<1> QED  BY <1>1, <1>2, <1>3, <1>4

\* What encode sends: the magic, the header and the payload.
Encoded(f, n, t, id, kind) ==
  /\ f \in Seq(Tokens) /\ Len(f) = 5 + PayloadLen(kind)
  /\ \A i \in 1 .. 4 : f[i] = ctl_magic[i]
  /\ f[5] = Header(n, t, id, kind, PayloadLen(kind))
  /\ kind \notin Refused => \A i \in 6 .. 5 + PayloadLen(kind) : f[i] = Data(n)

LEMMA FrameCells ==
  ASSUME NEW n \in Nat, NEW t \in Nat, NEW id \in Nat, NEW kind \in Kinds
  PROVE  Encoded(Frame(n, t, id, kind), n, t, id, kind)
<1>0. PICK f : f = Frame(n, t, id, kind)
  OBVIOUS
<1>1. kind \in {"ping", "set_on", "set_off", "toolong", "badver"}
  BY CtlAssumption
<1>2. ctl_magic \in Seq(Tokens) /\ Len(ctl_magic) = 4
  BY DEF ctl_magic, Byte, Tokens
<1>3. \A h \in Headers : ctl_magic \o << h >> \in Seq(Tokens) /\ Len(ctl_magic \o << h >>) = 5
                         /\ (ctl_magic \o << h >>)[5] = h
                         /\ \A i \in 1 .. 4 : (ctl_magic \o << h >>)[i] = ctl_magic[i]
  <2> SUFFICES ASSUME NEW h \in Headers
               PROVE  ctl_magic \o << h >> \in Seq(Tokens) /\ Len(ctl_magic \o << h >>) = 5
                         /\ (ctl_magic \o << h >>)[5] = h
                         /\ \A i \in 1 .. 4 : (ctl_magic \o << h >>)[i] = ctl_magic[i]
    OBVIOUS
  <2>1. << h >> \in Seq(Tokens) /\ Len(<< h >>) = 1 /\ << h >>[1] = h
    BY WireTypes
  <2>2. PICK m, w : m = ctl_magic /\ w = << h >>
    OBVIOUS
  <2>3. m \in Seq(Tokens) /\ Len(m) = 4 /\ w \in Seq(Tokens) /\ Len(w) = 1 /\ w[1] = h
    BY <1>2, <2>1, <2>2
  <2>4. PICK e : e = m \o w
    OBVIOUS
  <2>5. /\ e \in Seq(Tokens) /\ Len(e) = Len(m) + Len(w)
        /\ \A i \in 1 .. Len(m) : e[i] = m[i]
        /\ \A i \in 1 .. Len(w) : e[Len(m) + i] = w[i]
    <3>1. m \in Seq(Tokens) /\ w \in Seq(Tokens)
      BY <2>3
    <3> QED  BY <2>4, <3>1, Behind
  <2>6. e[4 + 1] = h /\ Len(e) = 5 /\ \A i \in 1 .. 4 : e[i] = m[i]
    BY <2>3, <2>5
  <2> QED  BY <2>2, <2>4, <2>5, <2>6
<1>4. PICK p : p = PayloadOf(kind, n)
  OBVIOUS
<1>5. /\ p \in Seq(Tokens) /\ Len(p) = PayloadLen(kind)
      /\ kind \notin Refused => \A i \in 1 .. PayloadLen(kind) : p[i] = Data(n)
  <2>1. CASE kind = "ping"
    <3>1. p = << >>
      BY <1>4, <2>1 DEF PayloadOf
    <3> QED  BY <2>1, <3>1 DEF PayloadLen
  <2>2. CASE kind = "toolong"
    <3>1. PICK h : h = Header(0, 0, IDS + 1, "ping", 0)
      OBVIOUS
    <3>2. h \in Headers
      BY <3>1, CtlAssumption DEF Header, Headers
    <3>3. p = ctl_magic \o << h >>
      BY <1>4, <2>2, <3>1 DEF PayloadOf, GhostFrame
    <3> QED  BY <1>3, <2>2, <3>2, <3>3 DEF PayloadLen, Refused
  <2>3. CASE kind \notin {"ping", "toolong"}
    <3>1. p = << Data(n), Data(n) >> /\ PayloadLen(kind) = 2
      BY <1>1, <1>4, <2>3 DEF PayloadOf, PayloadLen
    <3>2. Data(n) \in Tokens
      BY DEF Data, Tokens
    <3>3. \A i \in 1 .. 2 : i = 1 \/ i = 2
      OBVIOUS
    <3> QED  BY <3>1, <3>2, <3>3
  <2> QED  BY <2>1, <2>2, <2>3
<1>6. PICK h : h = Header(n, t, id, kind, PayloadLen(kind))
  OBVIOUS
<1>7. h \in Headers
  BY <1>1, <1>6 DEF Header, Headers, PayloadLen
<1>8. PICK q : q = ctl_magic \o << h >>
  OBVIOUS
<1>9. f = q \o p
  BY <1>0, <1>4, <1>5, <1>6, <1>8 DEF Frame
<1>10. q \in Seq(Tokens) /\ Len(q) = 5 /\ q[5] = h /\ \A i \in 1 .. 4 : q[i] = ctl_magic[i]
  BY <1>3, <1>7, <1>8
<1>11. PICK k \in Nat : k = PayloadLen(kind)
  BY DEF PayloadLen
<1>12. /\ f \in Seq(Tokens) /\ Len(f) = 5 + k
       /\ \A i \in 1 .. 5 : f[i] = q[i]
       /\ \A i \in 1 .. k : f[5 + i] = p[i]
  <2>1. p \in Seq(Tokens) /\ Len(p) = k
    BY <1>5, <1>11
  <2>2. /\ f \in Seq(Tokens) /\ Len(f) = Len(q) + Len(p)
        /\ \A i \in 1 .. Len(q) : f[i] = q[i]
        /\ \A i \in 1 .. Len(p) : f[Len(q) + i] = p[i]
    <3>1. q \in Seq(Tokens) /\ p \in Seq(Tokens)
      BY <1>10, <2>1
    <3> QED  BY <1>9, <3>1, Behind
  <2> QED  BY <1>10, <2>1, <2>2
<1>13. \A i \in 6 .. 5 + k : i - 5 \in 1 .. k /\ i = 5 + (i - 5)
  BY <1>11
<1>14. \A i \in 1 .. 4 : i \in 1 .. 5
  OBVIOUS
<1> QED  BY <1>0, <1>5, <1>6, <1>10, <1>11, <1>12, <1>13, <1>14 DEF Encoded

\* The board's side keeps its types while it stands still.
LEMMA BoardTypes ==
  ASSUME TypeOK, BoardStands, cout' \in Seq(Tokens), cin' \in Seq(Answers \cup Beats),
         ctl_line_state' \in BOOLEAN
  PROVE  Receives' /\ Sends'
<1>1. Receives'
  BY DEF TypeOK, Receives, BoardStands, rxVars
<1>2. Sends'
  BY DEF TypeOK, Sends, BoardStands, hbVars
<1> QED  BY <1>1, <1>2

\* The host and the bus keep the types.
LEMMA TypeHost ==
  ASSUME TypeOK,
         \/ ToolOpens \/ ToolCloses \/ \E kind \in Kinds : Request(kind)
         \/ HostReads \/ HostGivesUp \/ BusDelivers \/ BusTakes
  PROVE  TypeOK'
<1>1. << >> \in Seq(Tokens) /\ << >> \in Seq(Answers \cup Beats) /\ 0 \in 0 .. IDLE + 1
      /\ IDS \in Nat \ {0}
  BY CtlAssumption
<1>2. /\ cout \in Seq(Tokens) /\ cin \in Seq(Answers \cup Beats) /\ ctl_line_state \in BOOLEAN
      /\ hostOut \in Seq(Tokens) /\ hostIn \in Seq(Answers \cup Beats) /\ ctl_tx_dropped \in Nat
      /\ nextId \in 1 .. IDS /\ pending \in [n : Nat, id : Nat, age : Nat, clean : BOOLEAN, txd : Nat]
      /\ ghost \in BOOLEAN
  BY DEF TypeOK, Receives, Sends, Waits
<1>3. NoRequest \in [n : Nat, id : Nat, age : Nat, clean : BOOLEAN, txd : Nat]
  BY DEF NoRequest
<1>4. BoardStands
  BY DEF ToolOpens, ToolCloses, Request, HostReads, HostGivesUp, BusDelivers, BusTakes
<1>5. ghost' = ghost
  BY <1>4 DEF BoardStands
<1>6. CASE ToolOpens
  <2>1. Receives' /\ Sends'
    BY <1>2, <1>4, <1>6, BoardTypes DEF ToolOpens
  <2>2. Waits'
    <3>1. 1 \in 1 .. IDS
      BY <1>1
    <3> QED  BY <1>5, <1>6, <3>1 DEF ToolOpens, TypeOK, Waits, sendVars, pastVars
  <2> QED  BY <2>1, <2>2 DEF TypeOK
<1>7. CASE ToolCloses
  <2>1. Receives' /\ Sends'
    BY <1>2, <1>4, <1>7, BoardTypes DEF ToolCloses
  <2>2. Waits'
    <3>1. disturbed' \in BOOLEAN /\ (stalled => disturbed') /\ calm' \in 0 .. IDLE + 1
          /\ faults' \in Nat
      <4>1. UNCHANGED pastVars \/ Disturb
        BY <1>7 DEF ToolCloses
      <4>2. CASE UNCHANGED pastVars
        BY <4>2 DEF pastVars, TypeOK, Waits
      <4>3. CASE Disturb
        BY <1>1, <4>3 DEF Disturb, TypeOK, Waits
      <4> QED  BY <4>1, <4>2, <4>3
    <3> QED  BY <1>1, <1>3, <1>5, <1>7, <3>1 DEF ToolCloses, TypeOK, Waits
  <2> QED  BY <2>1, <2>2 DEF TypeOK
<1>8. ASSUME NEW kind \in Kinds, Request(kind) PROVE TypeOK'
  <2>1. Receives' /\ Sends'
    BY <1>2, <1>4, <1>8, BoardTypes DEF Request
  <2>2. /\ requests' = requests + 1 /\ requests' \in Nat /\ tool \in Nat /\ nextId \in Nat
        /\ toolOpen /\ nextId' = IdAfter(nextId)
        /\ hostOut' = hostOut \o Frame(requests', tool, nextId, kind)
        /\ UNCHANGED << toolOpen, tool, stalled, hostIn, lastBeat, cuts, disturbed, faults >>
    BY <1>1, <1>8, SMTT(40) DEF Request, TypeOK, Waits
  <2>3. hostOut' \in Seq(Tokens)
    <3>1. Frame(requests', tool, nextId, kind) \in Seq(Tokens)
      BY <2>2, FrameCells DEF Encoded
    <3> QED  BY <1>2, <2>2, <3>1
  <2>4. IdAfter(nextId) \in 1 .. IDS
    BY <1>1, <2>2 DEF IdAfter
  <2>5. pending' \in [n : Nat, id : Nat, age : Nat, clean : BOOLEAN, txd : Nat]
    <3>1. Calm \in BOOLEAN
      BY DEF Calm
    <3>2. pending' = [n |-> requests', id |-> nextId, age |-> 0, clean |-> Calm, txd |-> ctl_tx_dropped]
      BY <1>8 DEF Request
    <3> QED  BY <1>2, <2>2, <3>1, <3>2
  <2>6. calm' \in 0 .. IDLE + 1
    BY <1>1, <1>8 DEF Request, TypeOK, Waits
  <2>7. Waits'
    BY <1>5, <2>2, <2>3, <2>4, <2>5, <2>6 DEF TypeOK, Waits
  <2> QED  BY <2>1, <2>7 DEF TypeOK
<1>9. CASE HostReads
  <2>1. Receives' /\ Sends'
    BY <1>2, <1>4, <1>9, BoardTypes DEF HostReads
  <2>2. PICK frame \in Answers \cup Beats :
          /\ frame = Head(hostIn) /\ hostIn' = Tail(hostIn) /\ hostIn' \in Seq(Answers \cup Beats)
          /\ lastBeat' = IF frame.beat THEN frame ELSE lastBeat
          /\ pending' \in {NoRequest, pending}
    BY <1>2, <1>9, FirstToken DEF HostReads
  <2>3. lastBeat' \in Beats
    BY <2>2 DEF TypeOK, Waits, Answers, Beats
  <2>4. Waits'
    BY <1>3, <1>5, <1>9, <2>2, <2>3 DEF HostReads, TypeOK, Waits, toolVars, sendVars, pastVars
  <2> QED  BY <2>1, <2>4 DEF TypeOK
<1>10. CASE HostGivesUp
  <2>1. Receives' /\ Sends'
    BY <1>2, <1>4, <1>10, BoardTypes DEF HostGivesUp
  <2>2. Waits'
    BY <1>3, <1>5, <1>10 DEF HostGivesUp, TypeOK, Waits, toolVars, sendVars, pastVars
  <2> QED  BY <2>1, <2>2 DEF TypeOK
<1>11. CASE BusDelivers
  <2>1. PICK k \in 1 .. Len(hostOut) :
          /\ cuts' \in {cuts, cuts + 1}
          /\ cout' = SubSeq(hostOut, 1, k) /\ hostOut' = SubSeq(hostOut, k + 1, Len(hostOut))
    BY <1>11 DEF BusDelivers
  <2>2. cout' \in Seq(Tokens) /\ hostOut' \in Seq(Tokens)
    BY <1>2, <2>1, SMTT(40)
  <2>3. Receives' /\ Sends'
    BY <1>2, <1>4, <1>11, <2>2, BoardTypes DEF BusDelivers
  <2>4. Waits'
    BY <1>5, <1>11, <2>1, <2>2 DEF BusDelivers, TypeOK, Waits, toolVars, pastVars
  <2> QED  BY <2>3, <2>4 DEF TypeOK
<1>12. CASE BusTakes
  <2>1. /\ hostIn' = Append(hostIn, cin[1]) /\ cin' = << >> /\ cin # << >>
        /\ UNCHANGED << toolVars, sendVars, pending, ctl_line_state, cout, stalled, lastBeat, pastVars >>
    BY <1>12 DEF BusTakes
  <2>2. cin[1] \in Answers \cup Beats
    BY <1>2, <2>1
  <2>3. hostIn' \in Seq(Answers \cup Beats)
    BY <1>2, <2>1, <2>2
  <2>4. Receives' /\ Sends'
    BY <1>1, <1>2, <1>4, <2>1, BoardTypes
  <2>5. Waits'
    BY <1>5, <2>1, <2>3 DEF TypeOK, Waits, toolVars, sendVars, pastVars
  <2> QED  BY <2>4, <2>5 DEF TypeOK
<1> QED  BY <1>6, <1>7, <1>8, <1>9, <1>10, <1>11, <1>12

\* The rest of the main loop, and time, keep the types.
LEMMA TypeRest ==
  ASSUME TypeOK, PollLineState \/ ReallocControl \/ Stall \/ StallEnds \/ Tick
  PROVE  TypeOK'
<1>1. << >> \in Seq(Tokens) /\ << >> \in Seq(Answers \cup Beats) /\ 0 \in 0 .. IDLE + 1
  BY CtlAssumption
<1>2. /\ cout \in Seq(Tokens) /\ cin \in Seq(Answers \cup Beats)
      /\ ctl_line_state \in BOOLEAN /\ toolOpen \in BOOLEAN
      /\ pending \in [n : Nat, id : Nat, age : Nat, clean : BOOLEAN, txd : Nat]
      /\ calm \in 0 .. IDLE + 1 /\ quiet \in 0 .. IDLE + 1
  BY DEF TypeOK, Receives, Sends, Waits
<1>3. Unclean => /\ pending' \in [n : Nat, id : Nat, age : Nat, clean : BOOLEAN, txd : Nat]
                 /\ pending' # NoRequest => pending # NoRequest
  <2> SUFFICES ASSUME Unclean
               PROVE  /\ pending' \in [n : Nat, id : Nat, age : Nat, clean : BOOLEAN, txd : Nat]
                      /\ pending' # NoRequest => pending # NoRequest
    OBVIOUS
  <2>1. pending' = [pending EXCEPT !.clean = FALSE]
    BY DEF Unclean
  <2>2. NoRequest = [NoRequest EXCEPT !.clean = FALSE]
    <3>1. PICK f : f = FALSE
      OBVIOUS
    <3>2. [n |-> 0, id |-> 0, age |-> 0, clean |-> f, txd |-> 0] =
          [[n |-> 0, id |-> 0, age |-> 0, clean |-> f, txd |-> 0] EXCEPT !.clean = f]
      OBVIOUS
    <3> QED  BY <3>1, <3>2, Zenon DEF NoRequest
  <2> QED  BY <1>2, <2>1, <2>2
<1>4. CASE PollLineState
  <2>1. Receives' /\ Sends'
    BY <1>2, <1>4, BoardTypes DEF PollLineState
  <2>2. Waits'
    BY <1>4 DEF PollLineState, BoardStands, TypeOK, Waits, toolVars, sendVars, pastVars
  <2> QED  BY <2>1, <2>2 DEF TypeOK
<1>5. CASE ReallocControl
  <2>1. Receives' /\ Sends'
    BY <1>1, <1>2, <1>5, BoardTypes DEF ReallocControl
  <2>2. /\ UNCHANGED << toolVars, sendVars, hostIn, stalled, lastBeat, ghost >>
        /\ faults' = faults + 1 /\ disturbed' = TRUE /\ calm' = 0 /\ Unclean
    BY <1>5 DEF ReallocControl, BoardStands, Disturb
  <2>3. Waits'
    BY <1>1, <1>3, <2>2, SMTT(40) DEF TypeOK, Waits, toolVars, sendVars
  <2> QED  BY <2>1, <2>3 DEF TypeOK
<1>6. CASE Stall
  <2>1. Receives' /\ Sends'
    BY <1>2, <1>6, BoardTypes DEF Stall
  <2>2. /\ UNCHANGED << toolVars, sendVars, hostIn, lastBeat, ghost >>
        /\ faults' = faults + 1 /\ disturbed' = TRUE /\ calm' = 0 /\ Unclean /\ stalled' = TRUE
    BY <1>6 DEF Stall, BoardStands, Disturb
  <2>3. Waits'
    BY <1>1, <1>3, <2>2, SMTT(40) DEF TypeOK, Waits, toolVars, sendVars
  <2> QED  BY <2>1, <2>3 DEF TypeOK
<1>7. CASE StallEnds
  <2>1. Receives' /\ Sends'
    BY <1>2, <1>7, BoardTypes DEF StallEnds
  <2>2. /\ UNCHANGED << toolVars, sendVars, hostIn, lastBeat, ghost, disturbed, faults >>
        /\ calm' = 0 /\ Unclean /\ stalled' = FALSE
    BY <1>7 DEF StallEnds, BoardStands
  <2>3. Waits'
    BY <1>1, <1>3, <2>2 DEF TypeOK, Waits, toolVars, sendVars
  <2> QED  BY <2>1, <2>3 DEF TypeOK
<1>8. CASE Tick
  <2>1. \A k \in 0 .. IDLE + 1 : UpTo(k, IDLE + 1) \in 0 .. IDLE + 1
    BY CtlAssumption DEF UpTo
  <2>2. /\ quiet' \in {0, UpTo(quiet, IDLE + 1)} /\ calm' \in {0, UpTo(calm, IDLE + 1)}
        /\ pending' = IF pending = NoRequest THEN NoRequest ELSE [pending EXCEPT !.age = pending.age + 1]
        /\ UNCHANGED << rxVars, rx_buf, pc, out, txVars, hbVars, hb_on, ctl_line_state,
                  cout, stalled, toolVars, sendVars, hostIn, lastBeat, ghost, disturbed, faults >>
    BY <1>8 DEF Tick
  <2>3. quiet' \in 0 .. IDLE + 1 /\ calm' \in 0 .. IDLE + 1
    BY <1>1, <1>2, <2>1, <2>2
  <2>4. Receives' /\ Sends'
    BY <2>2, <2>3 DEF TypeOK, Receives, Sends, rxVars, txVars, hbVars
  <2>5. /\ pending' \in [n : Nat, id : Nat, age : Nat, clean : BOOLEAN, txd : Nat]
        /\ pending' # NoRequest => pending # NoRequest
    BY <1>2, <2>2, SMTT(40)
  <2>6. Waits'
    BY <2>2, <2>3, <2>5 DEF TypeOK, Waits, toolVars, sendVars
  <2> QED  BY <2>4, <2>6 DEF TypeOK
<1> QED  BY <1>4, <1>5, <1>6, <1>7, <1>8

\* Every step keeps the types and the wire.
LEMMA TypeStep == TypeOK /\ WireInv /\ [Next]_vars => TypeOK' /\ WireInv'
<1> SUFFICES ASSUME TypeOK, WireInv, [Next]_vars PROVE TypeOK' /\ WireInv'
  OBVIOUS
<1>1. CASE Next
  <2>1. WireInv'
    BY <1>1, WireKeptByReceive, WireKeptByRespond, WireKeptByHeartbeat, WireKeptByOthers DEF Next
  <2>2. TypeOK'
    BY <1>1, TypeFeed, TypeService, TypeHeartbeat, TypeHost, TypeRest DEF Next
  <2> QED  BY <2>1, <2>2
<1>2. CASE UNCHANGED vars
  BY <1>2 DEF vars, txVars, rxVars, hbVars, toolVars, sendVars, pastVars, WireInv, WireIsWhole,
     BankHeld, TypeOK, Receives, Sends, Waits
<1> QED  BY <1>1, <1>2

\* The parser, the banks and the host's bookkeeping stay consistent, for any bounds.
THEOREM TypeCorrect == Spec => []TypeOK
  BY TypeInit, WireInit, TypeStep, PTL DEF Spec

----------------------------------------------------------------------------
(* A missing beat shows *)

\* How far what a beat says is ahead of the interrupts up to it; how far the
\* board's own counts are.  Neither ever falls.
Excess(beat) == beat.seq + beat.dropped - beat.n
Lead == hb_seq + hb_dropped - beats
InCin == cin # << >> /\ cin[1].beat

BeatsInOrder ==
  /\ Excess(lastBeat) <= Lead
  /\ \A i \in DOMAIN hostIn :
       hostIn[i].beat => /\ Excess(lastBeat) <= Excess(hostIn[i])
                         /\ Excess(hostIn[i]) <= Lead
                         /\ InCin => Excess(hostIn[i]) <= Excess(cin[1])
  /\ \A i, j \in DOMAIN hostIn :
       i < j /\ hostIn[i].beat /\ hostIn[j].beat => Excess(hostIn[i]) <= Excess(hostIn[j])
  /\ InCin => Excess(lastBeat) <= Excess(cin[1]) /\ Excess(cin[1]) <= Lead

\* The beats there are.
LEMMA BeatTypes ==
  ASSUME TypeOK
  PROVE  /\ lastBeat \in Beats /\ Lead \in Int
         /\ hostIn \in Seq(Answers \cup Beats)
         /\ \A i \in DOMAIN hostIn : hostIn[i].beat => hostIn[i] \in Beats
         /\ InCin => cin[1] \in Beats
         /\ \A beat \in Beats : Excess(beat) \in Int
<1>1. /\ beats \in Nat /\ hb_seq \in Nat /\ hb_dropped \in Nat
      /\ cin \in Seq(Answers \cup Beats) /\ hostIn \in Seq(Answers \cup Beats) /\ lastBeat \in Beats
  BY DEF TypeOK, Sends, Waits
<1>2. \A x \in Answers \cup Beats : x.beat => x \in Beats
  BY DEF Answers, Beats
<1>3. \A q \in Seq(Answers \cup Beats) : \A i \in DOMAIN q : q[i] \in Answers \cup Beats
  OBVIOUS
<1>4. cin # << >> => 1 \in DOMAIN cin
  BY <1>1
<1>5. \A beat \in Beats : Excess(beat) \in Int
  BY DEF Excess, Beats
<1>6. Lead \in Int
  BY <1>1 DEF Lead
<1> QED  BY <1>1, <1>2, <1>3, <1>4, <1>5, <1>6 DEF InCin

\* Beats that are lost on the way, and answers, change nothing of the order.
LEMMA BeatsStand ==
  ASSUME TypeOK, BeatsInOrder, UNCHANGED << lastBeat, hb_seq, hb_dropped, beats >>,
         hostIn' = hostIn \/ hostIn' = << >>, cin' = cin \/ ~InCin'
  PROVE  BeatsInOrder'
<1>1. Lead' = Lead
  BY DEF Lead
<1>2. InCin' => InCin /\ cin' = cin
  BY DEF InCin
<1>3. DOMAIN << >> = {}
  OBVIOUS
<1>4. CASE hostIn' = hostIn
  BY <1>1, <1>2, <1>4 DEF BeatsInOrder
<1>5. CASE hostIn' = << >>
  BY <1>1, <1>2, <1>3, <1>5 DEF BeatsInOrder
<1> QED  BY <1>4, <1>5

\* The interrupt sends a beat that is as far ahead as the board is.
LEMMA BeatsSent ==
  ASSUME TypeOK, WireInv, BeatsInOrder, Heartbeat
  PROVE  BeatsInOrder'
<1>1. UNCHANGED << lastBeat, hostIn >>
  BY DEF Heartbeat
<1>2. PICK e, l, n, q, d :
        e = Lead /\ l = Lead' /\ n = beats /\ q = hb_seq /\ d = hb_dropped
  OBVIOUS
<1>3. n \in Nat /\ q \in Nat /\ d \in Nat /\ e = q + d - n /\ e \in Int
  BY <1>2, BeatTypes DEF TypeOK, Sends, Lead
<1>4. CASE /\ beats' = beats + 1 /\ hb_seq' = hb_seq + 1 /\ hb_dropped' = hb_dropped
           /\ cin = << >>
           /\ \E beat : beat = Beat(beats + 1, hb_seq + 1, hb_dropped) /\ cin' = << beat, beat >>
  <2>1. PICK beat : beat = Beat(n + 1, q + 1, d) /\ cin' = << beat, beat >>
    BY <1>2, <1>4
  <2>2. Excess(beat) = (q + 1) + d - (n + 1)
    BY <2>1 DEF Excess, Beat
  <2>3. l = (q + 1) + d - (n + 1)
    BY <1>2, <1>4 DEF Lead
  <2>4. Excess(beat) = e /\ l = e
    BY <1>3, <2>2, <2>3
  <2>5. cin'[1] = beat
    BY <2>1
  <2>6. Excess(cin'[1]) = Lead /\ Lead' = Lead /\ Lead \in Int
    BY <1>2, <1>3, <2>4, <2>5
  <2>7. \A i \in DOMAIN hostIn : hostIn[i].beat => Excess(hostIn[i]) <= Excess(cin'[1])
    BY <2>6 DEF BeatsInOrder
  <2>8. Excess(lastBeat) <= Excess(cin'[1]) /\ Excess(cin'[1]) <= Lead'
    BY <2>6 DEF BeatsInOrder
  <2> QED  BY <1>1, <2>6, <2>7, <2>8 DEF BeatsInOrder
<1>5. CASE /\ beats' = beats + 1 /\ hb_seq' \in {hb_seq, hb_seq + 1}
           /\ hb_dropped' = hb_dropped + 1 /\ UNCHANGED cin
  <2>1. l = q + (d + 1) - (n + 1) \/ l = (q + 1) + (d + 1) - (n + 1)
    BY <1>2, <1>5 DEF Lead
  <2>2. l \in Int /\ e <= l
    BY <1>3, <2>1
  <2>3. \A x \in Int : x <= e => x <= l
    BY <1>3, <2>2
  <2>4. InCin' <=> InCin
    BY <1>5 DEF InCin
  <2>5. /\ Excess(lastBeat) <= l
        /\ \A i \in DOMAIN hostIn : hostIn[i].beat => Excess(hostIn[i]) <= l
        /\ InCin => Excess(cin[1]) <= l
    BY <1>2, <2>3, BeatTypes DEF BeatsInOrder
  <2> QED  BY <1>1, <1>2, <1>5, <2>4, <2>5 DEF BeatsInOrder
<1> QED  BY <1>4, <1>5, OneBeat

\* The kernel's queue takes the beat after those it has, and gives the oldest.
LEMMA BeatsMove ==
  ASSUME TypeOK, BeatsInOrder, BusTakes \/ HostReads
  PROVE  BeatsInOrder'
<1>1. Lead' = Lead
  BY DEF BusTakes, HostReads, BoardStands, hbVars, Lead
<1>2. CASE BusTakes
  <2>1. /\ hostIn' = Append(hostIn, cin[1]) /\ cin' = << >> /\ cin # << >> /\ UNCHANGED lastBeat
    BY <1>2 DEF BusTakes
  <2>2. ~InCin'
    BY <2>1 DEF InCin
  <2>3. /\ DOMAIN hostIn' = 1 .. Len(hostIn) + 1 /\ hostIn'[Len(hostIn) + 1] = cin[1]
        /\ \A i \in DOMAIN hostIn : hostIn'[i] = hostIn[i]
        /\ DOMAIN hostIn = 1 .. Len(hostIn) /\ Len(hostIn) \in Nat
    BY <2>1, BeatTypes
  <2>4. PICK n \in Nat : n = Len(hostIn)
    BY <2>3
  <2>5. /\ \A i \in DOMAIN hostIn' : i \in DOMAIN hostIn \/ i = n + 1
        /\ \A i \in DOMAIN hostIn : i < n + 1
    BY <2>3, <2>4
  <2>6. cin[1].beat => InCin
    BY <2>1 DEF InCin
  <2>7. \A i \in DOMAIN hostIn' :
          hostIn'[i].beat => /\ Excess(lastBeat) <= Excess(hostIn'[i])
                            /\ Excess(hostIn'[i]) <= Lead
    BY <2>3, <2>4, <2>5, <2>6 DEF BeatsInOrder
  <2>8. \A i, j \in DOMAIN hostIn' :
          i < j /\ hostIn'[i].beat /\ hostIn'[j].beat => Excess(hostIn'[i]) <= Excess(hostIn'[j])
    <3> SUFFICES ASSUME NEW i \in DOMAIN hostIn', NEW j \in DOMAIN hostIn', i < j,
                        hostIn'[i].beat, hostIn'[j].beat
                 PROVE  Excess(hostIn'[i]) <= Excess(hostIn'[j])
      OBVIOUS
    <3>1. i \in DOMAIN hostIn
      BY <2>3, <2>4, <2>5
    <3>2. CASE j \in DOMAIN hostIn
      BY <2>3, <3>1, <3>2 DEF BeatsInOrder
    <3>3. CASE j = n + 1
      BY <2>3, <2>4, <2>6, <3>1, <3>3 DEF BeatsInOrder
    <3> QED  BY <2>5, <3>2, <3>3
  <2> QED  BY <1>1, <2>1, <2>2, <2>7, <2>8 DEF BeatsInOrder
<1>3. CASE HostReads
  <2>1. /\ hostIn # << >> /\ hostIn' = Tail(hostIn) /\ UNCHANGED cin
        /\ lastBeat' = IF Head(hostIn).beat THEN Head(hostIn) ELSE lastBeat
    BY <1>3 DEF HostReads
  <2>2. InCin' <=> InCin
    BY <2>1 DEF InCin
  <2>3. /\ Head(hostIn) = hostIn[1] /\ 1 \in DOMAIN hostIn
        /\ \A i \in DOMAIN hostIn' : /\ hostIn'[i] = hostIn[i + 1] /\ i + 1 \in DOMAIN hostIn
                                     /\ 1 < i + 1 /\ i \in Nat
    BY <2>1, BeatTypes, FirstToken
  <2>4. \A i, j \in DOMAIN hostIn' : i < j => i + 1 < j + 1
    BY <2>3
  <2>5. \A i, j \in DOMAIN hostIn' :
          i < j /\ hostIn'[i].beat /\ hostIn'[j].beat => Excess(hostIn'[i]) <= Excess(hostIn'[j])
    BY <2>3, <2>4 DEF BeatsInOrder
  <2>6. \A i \in DOMAIN hostIn' :
          hostIn'[i].beat => /\ Excess(lastBeat') <= Excess(hostIn'[i])
                             /\ Excess(hostIn'[i]) <= Lead
                             /\ InCin => Excess(hostIn'[i]) <= Excess(cin[1])
    BY <2>1, <2>3 DEF BeatsInOrder
  <2>7. /\ Excess(lastBeat') <= Lead
        /\ InCin => Excess(lastBeat') <= Excess(cin[1]) /\ Excess(cin[1]) <= Lead
    BY <2>1, <2>3 DEF BeatsInOrder
  <2> QED  BY <1>1, <2>1, <2>2, <2>5, <2>6, <2>7 DEF BeatsInOrder
<1> QED  BY <1>2, <1>3

\* Every step keeps the beats in order.
LEMMA BeatsStep == TypeOK /\ WireInv /\ BeatsInOrder /\ [Next]_vars => BeatsInOrder'
<1> SUFFICES ASSUME TypeOK, WireInv, BeatsInOrder, [Next]_vars PROVE BeatsInOrder'
  OBVIOUS
<1>1. CASE Heartbeat
  BY <1>1, BeatsSent
<1>2. CASE BusTakes \/ HostReads
  BY <1>2, BeatsMove
<1>3. CASE RespondCommit
  <2>1. /\ cin' = << fifo[1], out >> /\ fifo = << out >> /\ UNCHANGED << lastBeat, hbVars, hostIn >>
    BY <1>3 DEF RespondCommit, RespondStep, WireInv, BankHeld
  <2>2. cin'[1] = out /\ out.beat = FALSE
    BY <2>1 DEF TypeOK, Sends, Answers
  <2> QED  BY <2>1, <2>2, BeatsStand DEF InCin, hbVars
<1>4. CASE ToolCloses \/ ReallocControl
  <2>1. cin' = cin \/ cin' = << >>
    BY <1>4 DEF ToolCloses, ReallocControl
  <2>2. UNCHANGED << lastBeat, hb_seq, hb_dropped, beats >> /\ (hostIn' = hostIn \/ hostIn' = << >>)
    BY <1>4 DEF ToolCloses, ReallocControl, BoardStands, hbVars
  <2> QED  BY <2>1, <2>2, BeatsStand DEF InCin
<1>5. CASE \/ ServiceEnter \/ FeedMagic \/ FeedHeader \/ FeedPayload \/ FeedSkip
           \/ RespondBegin \/ RespondTest
           \/ ToolOpens \/ \E kind \in Kinds : Request(kind)
           \/ HostGivesUp \/ BusDelivers \/ PollLineState \/ Stall \/ StallEnds \/ Tick
           \/ UNCHANGED vars
  <2>1. UNCHANGED << lastBeat, hbVars, hostIn, cin >>
    BY <1>5 DEF ServiceEnter, FeedMagic, FeedHeader, FeedPayload, FeedSkip, Feed, RespondBegin,
       RespondTest, RespondStep, ToolOpens, Request, HostGivesUp, BusDelivers, PollLineState, Stall,
       StallEnds, Tick, BoardStands, txVars, vars
  <2> QED  BY <2>1, BeatsStand DEF hbVars
<1> QED  BY <1>1, <1>2, <1>3, <1>4, <1>5 DEF Next

\* A beat that a host misses shows, for any number of interrupts and whatever is
\* lost on the way: the beats a host reads are never less far ahead than the ones
\* before them (ctl_heartbeat_emit_isr).
THEOREM MissingBeatsShow == Spec => LostBeatShows
<1>1. Init => BeatsInOrder
  <2> SUFFICES ASSUME Init PROVE BeatsInOrder
    OBVIOUS
  <2>1. /\ lastBeat = NoBeat /\ hb_seq = 0 /\ hb_dropped = 0 /\ beats = 0
        /\ hostIn = << >> /\ cin = << >>
    BY DEF Init
  <2>2. Excess(lastBeat) = 0 + 0 - 0 /\ Lead = 0 + 0 - 0 /\ ~InCin /\ DOMAIN hostIn = {}
    BY <2>1 DEF Excess, NoBeat, Beat, Lead, InCin
  <2>3. Excess(lastBeat) <= Lead
    BY <2>2
  <2> QED  BY <2>2, <2>3 DEF BeatsInOrder
<1>2. TypeOK /\ WireInv /\ BeatsInOrder /\ [Next]_vars =>
        [lastBeat'.n > lastBeat.n + 1
           => \/ lastBeat'.seq > lastBeat.seq + 1
              \/ lastBeat'.dropped > lastBeat.dropped]_vars
  <2> SUFFICES ASSUME TypeOK, WireInv, BeatsInOrder, [Next]_vars
               PROVE  lastBeat'.n > lastBeat.n + 1
                        => \/ lastBeat'.seq > lastBeat.seq + 1
                           \/ lastBeat'.dropped > lastBeat.dropped
    OBVIOUS
  <2> SUFFICES ASSUME lastBeat'.n > lastBeat.n + 1
               PROVE  \/ lastBeat'.seq > lastBeat.seq + 1
                      \/ lastBeat'.dropped > lastBeat.dropped
    OBVIOUS
  <2>0. lastBeat' # lastBeat
    <3>1. lastBeat \in Beats
      BY BeatTypes
    <3>2. ~(lastBeat.n > lastBeat.n + 1)
      BY <3>1 DEF Beats
    <3> QED  BY <3>2
  <2>1. HostReads
    BY <2>0 DEF Next, ServiceEnter, FeedMagic, FeedHeader, FeedPayload, FeedSkip, Feed, RespondBegin,
       RespondTest, RespondCommit, RespondStep, Heartbeat, ToolOpens, ToolCloses, Request,
       HostGivesUp, BusDelivers, BusTakes, PollLineState, ReallocControl, Stall, StallEnds, Tick, vars
  <2>2. PICK a, b : a = lastBeat /\ b = lastBeat'
    OBVIOUS
  <2>3. /\ 1 \in DOMAIN hostIn /\ b = hostIn[1] /\ hostIn[1].beat
    BY <2>0, <2>1, <2>2, BeatTypes, FirstToken DEF HostReads
  <2>4. a \in Beats /\ b \in Beats /\ Excess(a) <= Excess(b) /\ b.n > a.n + 1
    BY <2>2, <2>3, BeatTypes DEF BeatsInOrder
  <2>5. /\ a.n \in Nat /\ a.seq \in Nat /\ a.dropped \in Nat
        /\ b.n \in Nat /\ b.seq \in Nat /\ b.dropped \in Nat
        /\ a.seq + a.dropped - a.n <= b.seq + b.dropped - b.n
    BY <2>4 DEF Beats, Excess
  <2>6. b.seq > a.seq + 1 \/ b.dropped > a.dropped
    BY <2>4, <2>5
  <2> QED  BY <2>2, <2>6
<1> QED  BY <1>1, <1>2, TypeInit, WireInit, TypeStep, BeatsStep, PTL DEF Spec, LostBeatShows

----------------------------------------------------------------------------
(* Answers and the requests they belong to *)

\* Whatever carries a request's number: headers on their way, the one the parser
\* keeps, the answer being sent, and frames on their way back.
Numbered ==
  {x \in ToSet(hostOut) \cup ToSet(cout) \cup ToSet(rx_buf) : x.b = "H"}
    \cup {rx_hdr, out} \cup ToSet(fifo) \cup ToSet(cin) \cup ToSet(hostIn)

\* A request's serial number, from its identifier, for the tool that is there now.
Base == requests + 1 - nextId

\* Not a request's identifier, or an earlier tool's, or the number it belongs to.
Own(x, t, base) ==
  \/ x.id \in {0, IDS + 1}
  \/ x.tool < t
  \/ x.tool = t /\ x.n = x.id + base

NumbersAgree ==
  /\ \A x \in Numbered : Own(x, tool, Base)
  /\ nextId <= requests + 1 /\ requests <= MaxRequests
  /\ pending # NoRequest => /\ pending.id \in 1 .. IDS
                            /\ pending.n = pending.id + Base

\* The elements of what is left of a sequence, or put behind one.
LEMMA Elements ==
  ASSUME NEW S
  PROVE  /\ \A s \in Seq(S) : s # << >> => /\ ToSet(Tail(s)) \subseteq ToSet(s)
                                           /\ Head(s) \in ToSet(s) /\ s[1] \in ToSet(s)
         /\ \A s \in Seq(S), x \in S : ToSet(Append(s, x)) \subseteq ToSet(s) \cup {x}
         /\ \A s, t \in Seq(S) : ToSet(s \o t) \subseteq ToSet(s) \cup ToSet(t)
         /\ \A s \in Seq(S), k \in Nat :
              k \in 1 .. Len(s) => /\ ToSet(SubSeq(s, 1, k)) \subseteq ToSet(s)
                                   /\ ToSet(SubSeq(s, k + 1, Len(s))) \subseteq ToSet(s)
<1>1. ASSUME NEW s \in Seq(S), s # << >>
      PROVE  ToSet(Tail(s)) \subseteq ToSet(s) /\ Head(s) \in ToSet(s) /\ s[1] \in ToSet(s)
  <2>1. /\ Head(s) = s[1] /\ 1 \in DOMAIN s
        /\ \A i \in DOMAIN Tail(s) : Tail(s)[i] = s[i + 1] /\ i + 1 \in DOMAIN s
    <3>1. /\ Head(s) = s[1] /\ Tail(s) \in Seq(S) /\ Len(s) \in Nat \ {0}
          /\ \A i \in 1 .. Len(Tail(s)) : Tail(s)[i] = s[i + 1] /\ i + 1 \in 1 .. Len(s)
      BY <1>1, FirstToken
    <3> QED  BY <3>1
  <2> QED  BY <2>1 DEF ToSet
<1>2. ASSUME NEW s \in Seq(S), NEW x \in S
      PROVE  ToSet(Append(s, x)) \subseteq ToSet(s) \cup {x}
  BY <1>2 DEF ToSet
<1>3. ASSUME NEW s \in Seq(S), NEW t \in Seq(S)
      PROVE  ToSet(s \o t) \subseteq ToSet(s) \cup ToSet(t)
  BY <1>3 DEF ToSet
<1>4. ASSUME NEW s \in Seq(S), NEW k \in Nat, k \in 1 .. Len(s)
      PROVE  /\ ToSet(SubSeq(s, 1, k)) \subseteq ToSet(s)
             /\ ToSet(SubSeq(s, k + 1, Len(s))) \subseteq ToSet(s)
  BY <1>4, SMTT(40) DEF ToSet
<1> QED  BY <1>1, <1>2, <1>3, <1>4

\* The headers in what encode sends: the request's, and the one its payload spells.
LEMMA FrameHeader ==
  ASSUME NEW n \in Nat, NEW t \in Nat, NEW id \in Nat, NEW kind \in Kinds
  PROVE  \A x \in ToSet(Frame(n, t, id, kind)) :
           x.b = "H" => x.id = IDS + 1 \/ (x.id = id /\ x.tool = t /\ x.n = n)
<1>1. PICK m : m = ctl_magic
  OBVIOUS
<1>2. m \in Seq(Tokens) /\ \A x \in ToSet(m) : x.b # "H"
  <2>1. /\ ctl_magic \in Seq(Tokens) /\ DOMAIN ctl_magic = 1 .. 4
        /\ \A i \in 1 .. 4 : ctl_magic[i].b # "H"
    BY DEF ctl_magic, Byte, Tokens
  <2> QED  BY <1>1, <2>1 DEF ToSet
<1>3. \A h \in Headers : /\ m \o << h >> \in Seq(Tokens)
                         /\ \A x \in ToSet(m \o << h >>) : x.b = "H" => x = h
  <2> SUFFICES ASSUME NEW h \in Headers
               PROVE  m \o << h >> \in Seq(Tokens)
                      /\ \A x \in ToSet(m \o << h >>) : x.b = "H" => x = h
    OBVIOUS
  <2>1. << h >> \in Seq(Tokens) /\ ToSet(<< h >>) = {h}
    BY WireTypes DEF ToSet
  <2>2. PICK w : w = << h >>
    OBVIOUS
  <2>3. m \o w \in Seq(Tokens) /\ ToSet(m \o w) \subseteq ToSet(m) \cup ToSet(w)
    <3>1. m \in Seq(Tokens) /\ w \in Seq(Tokens)
      BY <1>2, <2>1, <2>2
    <3> QED  BY <3>1, Elements
  <2> QED  BY <1>2, <2>1, <2>2, <2>3
<1>4. PICK p : p = PayloadOf(kind, n)
  OBVIOUS
<1>5. p \in Seq(Tokens) /\ \A x \in ToSet(p) : x.b = "H" => x.id = IDS + 1
  <2>1. CASE kind = "ping"
    <3>1. p = << >>
      BY <1>4, <2>1 DEF PayloadOf
    <3> QED  BY <3>1 DEF ToSet
  <2>2. CASE kind = "toolong"
    <3>1. PICK h : h = Header(0, 0, IDS + 1, "ping", 0)
      OBVIOUS
    <3>2. h \in Headers /\ h.id = IDS + 1
      BY <3>1, CtlAssumption DEF Header, Headers
    <3>3. p = m \o << h >>
      BY <1>1, <1>4, <2>2, <3>1 DEF PayloadOf, GhostFrame
    <3> QED  BY <1>3, <3>2, <3>3
  <2>3. CASE kind \notin {"ping", "toolong"}
    <3>1. p = << Data(n), Data(n) >>
      BY <1>4, <2>3, CtlAssumption DEF PayloadOf
    <3>2. Data(n) \in Tokens /\ Data(n).b # "H"
      BY DEF Data, Tokens
    <3>3. ToSet(p) = {Data(n)} /\ p \in Seq(Tokens)
      BY <3>1, <3>2 DEF ToSet
    <3> QED  BY <3>2, <3>3
  <2> QED  BY <2>1, <2>2, <2>3
<1>6. Len(p) \in Nat
  BY <1>5
<1>7. PICK h : h = Header(n, t, id, kind, Len(p))
  OBVIOUS
<1>8. h \in Headers /\ h.id = id /\ h.tool = t /\ h.n = n
  BY <1>6, <1>7, CtlAssumption DEF Header, Headers
<1>9. Frame(n, t, id, kind) = (m \o << h >>) \o p
  BY <1>1, <1>4, <1>7 DEF Frame
<1>10. PICK q : q = m \o << h >>
  OBVIOUS
<1>11. q \in Seq(Tokens) /\ ToSet(q \o p) \subseteq ToSet(q) \cup ToSet(p)
  BY <1>3, <1>5, <1>8, <1>10, Elements
<1> QED  BY <1>3, <1>5, <1>8, <1>9, <1>10, <1>11

\* The numbers, in the words of the parts they are in.
LEMMA NumberedParts ==
  ASSUME TypeOK
  PROVE  /\ hostOut \in Seq(Tokens) /\ cout \in Seq(Tokens) /\ rx_buf \in Seq(Tokens)
         /\ fifo \in Seq(Answers \cup Beats) /\ cin \in Seq(Answers \cup Beats)
         /\ hostIn \in Seq(Answers \cup Beats)
         /\ rx_hdr \in Headers /\ out \in Answers
BY DEF TypeOK, Receives, Sends, Waits

\* While the host's counters stand, the agreement is kept by whatever brings in
\* no number but those there were, and those of no request.
LEMMA AgreementKept ==
  ASSUME NumbersAgree, UNCHANGED toolVars,
         pending' # NoRequest => pending # NoRequest /\ pending'.id = pending.id
                                 /\ pending'.n = pending.n,
         \A x \in Numbered' : \/ x.id \in {0, IDS + 1}
                              \/ \E y \in Numbered : x.id = y.id /\ x.tool = y.tool /\ x.n = y.n
  PROVE  NumbersAgree'
<1>1. /\ tool' = tool /\ requests' = requests /\ nextId' = nextId
  BY DEF toolVars
<1>2. Base' = Base
  BY <1>1 DEF Base
<1>3. \A x \in Numbered' : Own(x, tool, Base)
  BY DEF NumbersAgree, Own
<1>4. \A x \in Numbered' : Own(x, tool', Base')
  BY <1>1, <1>2, <1>3
<1>5. pending' # NoRequest => pending'.id \in 1 .. IDS /\ pending'.n = pending'.id + Base'
  BY <1>2 DEF NumbersAgree
<1> QED  BY <1>1, <1>4, <1>5 DEF NumbersAgree

\* What the board does with a token or an answer.
LEMMA AgreementOnBoard ==
  ASSUME TypeOK, WireInv, NumbersAgree,
         \/ ServiceEnter \/ FeedMagic \/ FeedHeader \/ FeedPayload \/ FeedSkip
         \/ RespondBegin \/ RespondTest \/ RespondCommit \/ Heartbeat
  PROVE  NumbersAgree'
<1> DEFINE Came(x) == \/ x.id \in {0, IDS + 1}
                      \/ \E y \in Numbered : x.id = y.id /\ x.tool = y.tool /\ x.n = y.n
<1>1. /\ \A x \in Numbered : Came(x)
      /\ Came(NoHeader) /\ Came(NoAnswer)
      /\ \A len : Came(JunkHeader(len)) /\ Came(Answer(JunkHeader(len)))
      /\ \A x \in Numbered : Came(Answer(x))
      /\ \A x \in Beats : Came(x)
  <2>1. NoHeader.id = 0 /\ NoAnswer.id = 0
    BY DEF NoHeader, NoAnswer, Answer, Header
  <2>2. \A len : JunkHeader(len).id = IDS + 1 /\ Answer(JunkHeader(len)).id = IDS + 1
    BY DEF JunkHeader, Header, Answer
  <2>3. \A x : Answer(x).id = x.id /\ Answer(x).tool = x.tool /\ Answer(x).n = x.n
    BY DEF Answer
  <2>4. \A x \in Beats : x.id = 0
    BY DEF Beats
  <2> QED  BY <2>1, <2>2, <2>3, <2>4
<1>2. UNCHANGED << toolVars, pending, hostOut, hostIn >>
  BY DEF ServiceEnter, FeedMagic, FeedHeader, FeedPayload, FeedSkip, Feed, RespondBegin,
     RespondTest, RespondCommit, RespondStep, Heartbeat, sendVars
<1>3. ASSUME \A x \in {rx_hdr', out'} \cup ToSet(fifo') \cup ToSet(cin') : Came(x),
             ToSet(cout') \cup ToSet(rx_buf') \subseteq ToSet(cout) \cup ToSet(rx_buf)
      PROVE  NumbersAgree'
  <2>1. \A x \in Numbered' : Came(x)
    BY <1>1, <1>2, <1>3 DEF Numbered
  <2> QED  BY <1>2, <2>1, AgreementKept
<1>4. /\ Came(rx_hdr) /\ Came(out)
      /\ \A x \in ToSet(fifo) \cup ToSet(cin) : Came(x)
  BY <1>1 DEF Numbered
<1> HIDE DEF Came
<1>5. CASE ServiceEnter
  <2>1. /\ UNCHANGED << out, txVars >> /\ rx_hdr' \in {rx_hdr, NoHeader}
        /\ \/ rx_buf' = cout /\ cout' = << >>
           \/ UNCHANGED << rx_buf, cout >>
    BY <1>5 DEF ServiceEnter
  <2>2. ToSet(<< >>) = {}
    BY DEF ToSet
  <2> QED  BY <1>1, <1>3, <1>4, <2>1, <2>2 DEF txVars
<1>6. ASSUME NEW state, Feed(state)
      PROVE  /\ UNCHANGED << fifo, cin, cout >> /\ Head(rx_buf) \in ToSet(rx_buf)
             /\ ToSet(rx_buf') \subseteq ToSet(rx_buf) /\ Head(rx_buf) \in Tokens
  <2>1. /\ rx_buf' = Tail(rx_buf) /\ pc = "feed" /\ UNCHANGED << fifo, cin, cout >>
    BY <1>6 DEF Feed, txVars
  <2>2. rx_buf # << >> /\ rx_buf \in Seq(Tokens)
    BY <2>1 DEF TypeOK, Receives
  <2> QED  BY <2>1, <2>2, Elements, FirstToken
<1>7. ASSUME NEW state, Feed(state), Came(rx_hdr'), Came(out') PROVE NumbersAgree'
  BY <1>3, <1>4, <1>6, <1>7
<1>8. Silently => Came(out')
  BY <1>4 DEF Silently
<1>9. CASE FeedMagic
  BY <1>4, <1>7, <1>8, <1>9 DEF FeedMagic
<1>10. CASE FeedHeader
  <2>1. Feed("HEADER")
    BY <1>10 DEF FeedHeader
  <2>2. ASSUME NEW h, Came(Answer(h)), HeaderRefused(h) PROVE NumbersAgree'
    BY <1>1, <1>7, <2>1, <2>2 DEF HeaderRefused, Answering
  <2>3. PICK byte : byte = Head(rx_buf) /\ byte \in Tokens /\ byte \in ToSet(rx_buf)
    BY <1>6, <2>1
  <2>4. CASE byte.b = "H" /\ HeaderComplete(byte)
    <3>1. byte \in Numbered
      BY <2>3, <2>4 DEF Numbered
    <3>2. Came(byte) /\ Came(Answer(byte))
      BY <1>1, <3>1
    <3>3. CASE HeaderRefused(byte)
      BY <2>2, <3>2, <3>3
    <3>4. CASE FrameComplete(byte, << >>)
      BY <1>1, <1>7, <2>1, <3>2, <3>4 DEF FrameComplete, Answering
    <3>5. CASE rx_hdr' = byte /\ Silently
      BY <1>7, <1>8, <2>1, <3>2, <3>5
    <3> QED  BY <2>4, <3>3, <3>4, <3>5 DEF HeaderComplete
  <2>5. CASE \E len \in 0 .. JunkSkip : HeaderRefused(JunkHeader(len))
    BY <1>1, <2>2, <2>5
  <2>6. CASE rx_hdr' = JunkHeader(0) /\ Silently
    BY <1>1, <1>7, <1>8, <2>1, <2>6
  <2> QED  BY <1>10, <2>3, <2>4, <2>5, <2>6 DEF FeedHeader
<1>11. CASE FeedPayload
  <2>1. Feed("PAYLOAD")
    BY <1>11 DEF FeedPayload
  <2>2. rx_hdr \in Numbered
    BY DEF Numbered
  <2>3. Came(Answer(rx_hdr))
    BY <1>1, <2>2
  <2>4. CASE Silently /\ rx_hdr' = rx_hdr
    BY <1>4, <1>7, <1>8, <2>1, <2>4
  <2>5. ASSUME NEW payload, FrameComplete(rx_hdr, payload) PROVE NumbersAgree'
    BY <1>1, <1>7, <2>1, <2>3, <2>5 DEF FrameComplete, Answering
  <2> QED  BY <1>11, <2>4, <2>5 DEF FeedPayload
<1>12. CASE FeedSkip
  BY <1>4, <1>7, <1>8, <1>12 DEF FeedSkip
<1>13. CASE RespondBegin
  BY <1>3, <1>4, <1>13 DEF RespondBegin, RespondStep, txVars, rxVars
<1>14. CASE RespondTest
  <2>1. /\ UNCHANGED << rx_hdr, cin, cout, rx_buf >> /\ out' \in {out, NoAnswer}
        /\ fifo' = fifo \/ fifo' = << out >>
    BY <1>14 DEF RespondTest, RespondStep, rxVars
  <2>2. ToSet(<< out >>) = {out}
    BY DEF ToSet
  <2> QED  BY <1>1, <1>3, <1>4, <2>1, <2>2
<1>15. CASE RespondCommit
  <2>1. /\ UNCHANGED << rx_hdr, cout, rx_buf >> /\ out' = NoAnswer /\ fifo' = << >>
        /\ cin' = << out, out >>
    BY <1>15 DEF RespondCommit, RespondStep, rxVars, WireInv, BankHeld
  <2>2. ToSet(<< out, out >>) = {out} /\ ToSet(<< >>) = {}
    BY DEF ToSet
  <2> QED  BY <1>1, <1>3, <1>4, <2>1, <2>2
<1>16. CASE Heartbeat
  <2>1. UNCHANGED << rx_hdr, out, cout, rx_buf >>
    BY <1>16 DEF Heartbeat, rxVars
  <2>2. PICK beat : beat = Beat(beats + 1, hb_seq + 1, hb_dropped)
    OBVIOUS
  <2>3. Came(beat)
    <3>1. beat \in Beats
      BY <2>2, WireTypes DEF TypeOK, Sends
    <3> QED  BY <1>1, <3>1
  <2>4. \/ cin' = << beat, beat >> /\ fifo' = << >>
        \/ UNCHANGED << cin, fifo >>
    BY <1>16, <2>2, OneBeat
  <2>5. ToSet(<< beat, beat >>) = {beat} /\ ToSet(<< >>) = {}
    BY DEF ToSet
  <2> QED  BY <1>3, <1>4, <2>1, <2>3, <2>4, <2>5
<1> QED  BY <1>5, <1>9, <1>10, <1>11, <1>12, <1>13, <1>14, <1>15, <1>16

\* The host and the bus: a request made is the only number that comes in.
LEMMA AgreementOnHost ==
  ASSUME TypeOK, WireInv, NumbersAgree, MaxRequests < IDS,
         \/ ToolOpens \/ ToolCloses \/ \E kind \in Kinds : Request(kind)
         \/ HostReads \/ HostGivesUp \/ BusDelivers \/ BusTakes
         \/ PollLineState \/ ReallocControl \/ Stall \/ StallEnds \/ Tick
  PROVE  NumbersAgree'
<1>1. UNCHANGED << rx_hdr, out, fifo, rx_buf >>
  BY DEF ToolOpens, ToolCloses, Request, HostReads, HostGivesUp, BusDelivers, BusTakes,
         PollLineState, ReallocControl, Stall, StallEnds, Tick, BoardStands, txVars, rxVars
<1>2. ToSet(<< >>) = {}
  BY DEF ToSet
<1>3. ASSUME ToSet(cin') \cup ToSet(hostIn') \subseteq ToSet(cin) \cup ToSet(hostIn),
             ToSet(cout') \cup ToSet(hostOut') \subseteq ToSet(cout) \cup ToSet(hostOut)
      PROVE  Numbered' \subseteq Numbered
  BY <1>1, <1>3 DEF Numbered
<1>4. ASSUME UNCHANGED toolVars, Numbered' \subseteq Numbered,
             pending' = NoRequest \/ pending' = pending \/ Unclean
                 \/ pending' = [pending EXCEPT !.age = @ + 1],
             pending = NoRequest => pending' = NoRequest
      PROVE  NumbersAgree'
  <2>1. pending' # NoRequest => /\ pending # NoRequest /\ pending'.id = pending.id
                                /\ pending'.n = pending.n
    BY <1>4 DEF Unclean, TypeOK, Waits
  <2> QED  BY <1>4, <2>1, AgreementKept
<1>5. Unclean => (pending = NoRequest => pending' = NoRequest)
  <2>1. NoRequest = [NoRequest EXCEPT !.clean = FALSE]
    <3>1. PICK f : f = FALSE
      OBVIOUS
    <3>2. [n |-> 0, id |-> 0, age |-> 0, clean |-> f, txd |-> 0] =
          [[n |-> 0, id |-> 0, age |-> 0, clean |-> f, txd |-> 0] EXCEPT !.clean = f]
      OBVIOUS
    <3> QED  BY <3>1, <3>2, Zenon DEF NoRequest
  <2> QED  BY <2>1 DEF Unclean
<1>6. /\ tool \in Nat /\ requests \in Nat /\ nextId \in 1 .. IDS /\ IDS \in Nat \ {0}
      /\ MaxRequests \in Nat
  BY CtlAssumption DEF TypeOK, Waits
<1>7. CASE ToolOpens
  <2>1. /\ UNCHANGED << hostOut, cout, cin, hostIn, pending, requests >>
        /\ tool' = tool + 1 /\ nextId' = 1 /\ pending = NoRequest
    BY <1>7 DEF ToolOpens, TypeOK, Waits, sendVars
  <2>2. Numbered' = Numbered
    BY <1>1, <2>1 DEF Numbered
  <2>3. ASSUME NEW x \in Numbered
        PROVE  x.id \in {0, IDS + 1} \/ x.tool < tool + 1
    <3>1. x.id \in {0, IDS + 1} \/ x.tool < tool \/ x.tool = tool
      BY DEF NumbersAgree, Own
    <3>2. x.tool \in Nat \/ x.id = 0
      <4>1. x \in Headers \cup Answers \cup Beats
        BY NumberedParts, WireTypes DEF Numbered, ToSet
      <4> QED  BY <4>1 DEF Headers, Answers, Beats
    <3> QED  BY <1>6, <3>1, <3>2
  <2>4. \A x \in Numbered' : Own(x, tool', Base')
    BY <2>1, <2>2, <2>3 DEF Own
  <2>5. nextId' <= requests' + 1 /\ requests' <= MaxRequests
    <3>1. 1 <= requests + 1 /\ requests <= MaxRequests
      BY <1>6 DEF NumbersAgree
    <3> QED  BY <2>1, <3>1
  <2> QED  BY <2>1, <2>4, <2>5 DEF NumbersAgree
<1>8. CASE ToolCloses
  <2>1. /\ hostOut' = << >> /\ hostIn' = << >> /\ pending' = NoRequest
        /\ UNCHANGED << tool, nextId, requests, cin, cout >>
    BY <1>8 DEF ToolCloses
  <2>2. Numbered' \subseteq Numbered
    BY <1>2, <1>3, <2>1
  <2>3. Base' = Base
    BY <2>1 DEF Base
  <2> QED  BY <2>1, <2>2, <2>3 DEF NumbersAgree
<1>9. ASSUME NEW kind \in Kinds, Request(kind) PROVE NumbersAgree'
  <2>1. /\ requests < MaxRequests /\ requests' = requests + 1 /\ nextId' = IdAfter(nextId)
        /\ hostOut' = hostOut \o Frame(requests + 1, tool, nextId, kind)
        /\ pending' = [n |-> requests + 1, id |-> nextId, age |-> 0,
                       clean |-> Calm, txd |-> ctl_tx_dropped]
        /\ UNCHANGED << tool, cout, cin, hostIn >>
    BY <1>9 DEF Request
  <2>2. nextId <= requests + 1
    BY DEF NumbersAgree
  <2>3. nextId % IDS = nextId
    <3>1. nextId \in 0 .. IDS - 1
      BY <1>6, <2>1, <2>2
    <3> QED  BY <1>6, <3>1, ModSmall
  <2>4. nextId' = nextId + 1
    BY <2>1, <2>3 DEF IdAfter
  <2>5. Base' = Base
    <3>1. (requests + 1) + 1 - (nextId + 1) = requests + 1 - nextId
      BY <1>6
    <3> QED  BY <2>1, <2>4, <3>1 DEF Base
  <2>6. PICK f : f = Frame(requests + 1, tool, nextId, kind)
    OBVIOUS
  <2>7. /\ f \in Seq(Tokens)
        /\ \A x \in ToSet(f) :
             x.b = "H" => x.id = IDS + 1 \/ (x.id = nextId /\ x.tool = tool /\ x.n = requests + 1)
    <3>1. PICK r \in Nat, i \in Nat : r = requests + 1 /\ i = nextId
      BY <1>6
    <3>2. f = Frame(r, tool, i, kind) /\ tool \in Nat
      BY <1>6, <2>6, <3>1
    <3>3. f \in Seq(Tokens)
      BY <3>2, FrameCells DEF Encoded
    <3>4. \A x \in ToSet(f) : x.b = "H" => x.id = IDS + 1 \/ (x.id = i /\ x.tool = tool /\ x.n = r)
      BY <3>2, FrameHeader
    <3> QED  BY <3>1, <3>3, <3>4
  <2>8. ToSet(hostOut') \subseteq ToSet(hostOut) \cup ToSet(f)
    BY <2>1, <2>6, <2>7, NumberedParts, Elements
  <2>9. requests + 1 = nextId + Base
    BY <1>6 DEF Base
  <2>10. \A x \in Numbered' : x \in Numbered \/ (x \in ToSet(f) /\ x.b = "H")
    BY <1>1, <2>1, <2>8 DEF Numbered
  <2>11. \A x \in Numbered' : Own(x, tool, Base)
    BY <2>7, <2>9, <2>10 DEF NumbersAgree, Own
  <2>12. \A x \in Numbered' : Own(x, tool', Base')
    BY <2>1, <2>5, <2>11
  <2>13. nextId' <= requests' + 1 /\ requests' <= MaxRequests
    <3>1. nextId + 1 <= (requests + 1) + 1 /\ requests + 1 <= MaxRequests
      BY <1>6, <2>1, <2>2
    <3> QED  BY <2>1, <2>4, <3>1
  <2>14. pending'.id \in 1 .. IDS /\ pending'.n = pending'.id + Base'
    BY <1>6, <2>1, <2>5, <2>9
  <2> QED  BY <2>12, <2>13, <2>14 DEF NumbersAgree
<1>10. CASE HostReads
  <2>1. /\ hostIn # << >> /\ hostIn' = Tail(hostIn) /\ UNCHANGED << toolVars, hostOut, cout, cin >>
        /\ pending' \in {NoRequest, pending} /\ pending # NoRequest
    BY <1>10 DEF HostReads, sendVars
  <2>2. ToSet(hostIn') \subseteq ToSet(hostIn)
    BY <2>1, NumberedParts, Elements
  <2>3. Numbered' \subseteq Numbered
    BY <1>3, <2>1, <2>2
  <2> QED  BY <1>4, <1>10, <2>1, <2>3 DEF HostReads
<1>11. CASE HostGivesUp
  <2>1. UNCHANGED << toolVars, hostOut, hostIn, cout, cin >> /\ pending' = NoRequest
    BY <1>11 DEF HostGivesUp, sendVars
  <2> QED  BY <1>3, <1>4, <2>1
<1>12. CASE BusDelivers
  <2>1. PICK k \in 1 .. Len(hostOut) :
          cout' = SubSeq(hostOut, 1, k) /\ hostOut' = SubSeq(hostOut, k + 1, Len(hostOut))
    BY <1>12 DEF BusDelivers
  <2>2. UNCHANGED << toolVars, pending, hostIn, cin >>
    BY <1>12 DEF BusDelivers, BoardStands
  <2>3. k \in Nat
    BY <2>1, NumberedParts
  <2>4. ToSet(cout') \subseteq ToSet(hostOut) /\ ToSet(hostOut') \subseteq ToSet(hostOut)
    BY <2>1, <2>3, NumberedParts, Elements
  <2>5. Numbered' \subseteq Numbered
    BY <1>3, <2>2, <2>4
  <2> QED  BY <1>4, <2>2, <2>5
<1>13. CASE BusTakes
  <2>1. /\ cin # << >> /\ hostIn' = Append(hostIn, cin[1]) /\ cin' = << >>
        /\ UNCHANGED << toolVars, pending, hostOut, cout >>
    BY <1>13 DEF BusTakes, sendVars
  <2>2. cin[1] \in ToSet(cin) /\ cin[1] \in Answers \cup Beats
    BY <2>1, NumberedParts, Elements, FirstToken
  <2>3. ToSet(hostIn') \subseteq ToSet(hostIn) \cup {cin[1]}
    BY <2>1, <2>2, NumberedParts, Elements
  <2>4. Numbered' \subseteq Numbered
    BY <1>2, <1>3, <2>1, <2>2, <2>3
  <2> QED  BY <1>4, <2>1, <2>4
<1>14. CASE PollLineState \/ ReallocControl \/ Stall \/ StallEnds \/ Tick
  <2>1. /\ UNCHANGED << toolVars, hostOut, hostIn >>
        /\ cin' \in {cin, << >>} /\ cout' \in {cout, << >>}
    BY <1>14 DEF PollLineState, ReallocControl, Stall, StallEnds, Tick, BoardStands, sendVars, txVars
  <2>2. Numbered' \subseteq Numbered
    BY <1>2, <1>3, <2>1
  <2>3. \/ pending' = pending \/ Unclean
        \/ pending = NoRequest /\ pending' = NoRequest
        \/ pending # NoRequest /\ pending' = [pending EXCEPT !.age = @ + 1]
    BY <1>14 DEF PollLineState, ReallocControl, Stall, StallEnds, Tick
  <2> QED  BY <1>4, <1>5, <2>1, <2>2, <2>3
<1> QED  BY <1>7, <1>8, <1>9, <1>10, <1>11, <1>12, <1>13, <1>14

\* While a tool's identifiers do not come round again, no answer is taken for
\* another request's of the same tool, however late it comes: an answer keeps its
\* request's identifier from the parser to the host, and the identifiers keep in
\* step with the requests (Control.request, ctl_respond).
THEOREM RepliesAreOwn == MaxRequests < IDS => (Spec => []NoReplyMistaken)
<1> SUFFICES ASSUME MaxRequests < IDS PROVE Spec => []NoReplyMistaken
  OBVIOUS
<1>1. Init => NumbersAgree
  <2> SUFFICES ASSUME Init PROVE NumbersAgree
    OBVIOUS
  <2>1. ToSet(<< >>) = {}
    BY DEF ToSet
  <2>2. /\ hostOut = << >> /\ cout = << >> /\ rx_buf = << >> /\ fifo = << >> /\ cin = << >>
        /\ hostIn = << >> /\ rx_hdr = NoHeader /\ out = NoAnswer /\ nextId = 1 /\ requests = 0
        /\ pending = NoRequest
    BY DEF Init
  <2>3. Numbered = {NoHeader, NoAnswer}
    BY <2>1, <2>2 DEF Numbered
  <2>4. NoHeader.id = 0 /\ NoAnswer.id = 0
    BY DEF NoHeader, NoAnswer, Answer, Header
  <2> QED  BY <2>2, <2>3, <2>4, CtlAssumption DEF NumbersAgree, Own
<1>2. TypeOK /\ WireInv /\ NumbersAgree /\ [Next]_vars => NumbersAgree'
  <2> SUFFICES ASSUME TypeOK, WireInv, NumbersAgree, [Next]_vars PROVE NumbersAgree'
    OBVIOUS
  <2>1. CASE UNCHANGED vars
    <3>1. /\ UNCHANGED << toolVars, pending >> /\ Numbered' = Numbered
      BY <2>1 DEF vars, rxVars, txVars, sendVars, Numbered
    <3> QED  BY <3>1, AgreementKept
  <2> QED  BY <2>1, AgreementOnBoard, AgreementOnHost DEF Next
<1>3. TypeOK /\ NumbersAgree => NoReplyMistaken
  <2> SUFFICES ASSUME TypeOK, NumbersAgree, pending # NoRequest,
                      NEW frame \in ToSet(hostIn) \cup ToSet(cin),
                      frame.id = pending.id, frame.tool = tool
               PROVE  frame.n = pending.n
    BY DEF NoReplyMistaken
  <2>1. frame \in Numbered
    BY DEF Numbered
  <2>2. pending.id \in 1 .. IDS /\ pending.n = pending.id + Base /\ Own(frame, tool, Base)
    BY <2>1 DEF NumbersAgree
  <2>3. frame.id \notin {0, IDS + 1} /\ ~(frame.tool < tool)
    BY <2>2, CtlAssumption DEF TypeOK, Waits
  <2> QED  BY <2>2, <2>3 DEF Own
<1> QED  BY <1>1, <1>2, <1>3, TypeInit, WireInit, TypeStep, PTL DEF Spec

----------------------------------------------------------------------------
(* The parser in step with the requests *)

\* Where a token on its way to the board belongs: its request, and its position
\* in the request's frame.
FrameEnd(kind) == 5 + PayloadLen(kind)
Places ==
  {l \in [n : Nat \ {0}, tool : Nat, id : Nat, kind : Kinds, pos : Nat \ {0}] :
     l.pos <= FrameEnd(l.kind)}

HeaderOf(l) == Header(l.n, l.tool, l.id, l.kind, PayloadLen(l.kind))

Fits(x, l) ==
  /\ l.pos <= 4 => x = ctl_magic[l.pos]
  /\ l.pos = 5 => x = HeaderOf(l)
  /\ l.pos > 5 /\ l.kind \notin Refused => x = Data(l.n)

Follows(l, m) ==
  IF l.pos = FrameEnd(l.kind) THEN m.pos = 1 ELSE m = [l EXCEPT !.pos = l.pos + 1]

\* The tokens s are those of whole frames, but for the beginning of the first.
Placed(lab, s) ==
  /\ lab \in Seq(Places) /\ Len(lab) = Len(s)
  /\ \A i \in 1 .. Len(s) : Fits(s[i], lab[i])
  /\ \A i \in 1 .. Len(s) : i < Len(s) => Follows(lab[i], lab[i + 1])
  /\ Len(s) > 0 => lab[Len(s)].pos = FrameEnd(lab[Len(s)].kind)

\* How long payloads are.
LEMMA FrameEnds ==
  /\ \A kind : PayloadLen(kind) \in Nat /\ FrameEnd(kind) \in Nat /\ FrameEnd(kind) >= 5
  /\ FrameEnd("ping") = 5 /\ FrameEnd("toolong") = 10
  /\ \A kind \in {"set_on", "set_off", "badver"} : FrameEnd(kind) = 7
  /\ \A l \in Places : /\ l.n \in Nat \ {0} /\ l.tool \in Nat /\ l.id \in Nat /\ l.kind \in Kinds
                       /\ l.pos \in Nat \ {0} /\ l.pos <= FrameEnd(l.kind)
BY DEF PayloadLen, FrameEnd, Places

\* What is behind the first token is placed as it was.
LEMMA PlacedTail ==
  ASSUME NEW s \in Seq(Tokens), NEW lab, Placed(lab, s), s # << >>
  PROVE  /\ lab[1] \in Places /\ Fits(s[1], lab[1]) /\ Len(s) \in Nat \ {0} /\ Len(lab) = Len(s)
         /\ Placed(Tail(lab), Tail(s))
         /\ IF lab[1].pos = FrameEnd(lab[1].kind)
            THEN Tail(s) # << >> => Tail(lab)[1].pos = 1
            ELSE Tail(s) # << >> /\ Tail(lab)[1] = [lab[1] EXCEPT !.pos = lab[1].pos + 1]
         /\ \A i \in 1 .. Len(lab) : i = 1 \/ (i - 1 \in 1 .. Len(Tail(lab)) /\ Tail(lab)[i - 1] = lab[i])
<1>1. /\ lab \in Seq(Places) /\ Len(lab) = Len(s) /\ Len(s) \in Nat \ {0} /\ lab # << >>
  BY FirstToken DEF Placed
<1>2. /\ Tail(s) \in Seq(Tokens) /\ Len(Tail(s)) = Len(s) - 1
      /\ \A i \in 1 .. Len(Tail(s)) : Tail(s)[i] = s[i + 1] /\ i + 1 \in 1 .. Len(s)
      /\ Len(s) = 1 <=> Tail(s) = << >>
  BY FirstToken
<1>3. /\ Tail(lab) \in Seq(Places) /\ Len(Tail(lab)) = Len(lab) - 1 /\ lab[1] \in Places
      /\ \A i \in 1 .. Len(Tail(lab)) : Tail(lab)[i] = lab[i + 1] /\ i + 1 \in 1 .. Len(lab)
  BY <1>1, FirstToken
<1>4. PICK m \in Nat : m + 1 = Len(s) /\ Len(Tail(s)) = m /\ Len(Tail(lab)) = m
  BY <1>1, <1>2, <1>3
<1>5. /\ \A i \in 1 .. m : Tail(s)[i] = s[i + 1] /\ Tail(lab)[i] = lab[i + 1] /\ i + 1 \in 1 .. m + 1
      /\ \A i \in 1 .. m + 1 : Fits(s[i], lab[i])
      /\ \A i \in 1 .. m + 1 : i < m + 1 => Follows(lab[i], lab[i + 1])
      /\ lab[m + 1].pos = FrameEnd(lab[m + 1].kind)
  BY <1>1, <1>2, <1>3, <1>4, SMTT(40) DEF Placed
<1>6. \A i \in 1 .. m : Fits(Tail(s)[i], Tail(lab)[i])
  BY <1>5
<1>7. \A i \in 1 .. m : i < m => Follows(Tail(lab)[i], Tail(lab)[i + 1])
  <2> SUFFICES ASSUME NEW i \in 1 .. m, i < m
               PROVE  Follows(Tail(lab)[i], Tail(lab)[i + 1])
    OBVIOUS
  <2>1. i + 1 \in 1 .. m /\ i + 1 \in 1 .. m + 1 /\ i + 1 < m + 1
    BY <1>4
  <2>2. Tail(lab)[i] = lab[i + 1] /\ Tail(lab)[i + 1] = lab[(i + 1) + 1]
    BY <1>5, <2>1
  <2> QED  BY <1>5, <2>1, <2>2
<1>8. m > 0 => Tail(lab)[m].pos = FrameEnd(Tail(lab)[m].kind)
  <2>1. m > 0 => m \in 1 .. m
    BY <1>4
  <2>2. m > 0 => Tail(lab)[m] = lab[m + 1]
    BY <1>5, <2>1
  <2> QED  BY <1>5, <2>2
<1>9. Placed(Tail(lab), Tail(s))
  BY <1>3, <1>4, <1>6, <1>7, <1>8 DEF Placed
<1>10. IF lab[1].pos = FrameEnd(lab[1].kind)
       THEN Tail(s) # << >> => Tail(lab)[1].pos = 1
       ELSE Tail(s) # << >> /\ Tail(lab)[1] = [lab[1] EXCEPT !.pos = lab[1].pos + 1]
  <2>1. CASE m = 0
    <3>1. m + 1 = 1
      BY <2>1
    <3>2. Len(s) = 1 /\ lab[1].pos = FrameEnd(lab[1].kind)
      BY <1>4, <1>5, <3>1
    <3>3. Tail(s) = << >>
      BY <1>2, <3>2
    <3> QED  BY <3>2, <3>3
  <2>2. CASE m > 0
    <3>1. Tail(s) # << >> /\ Tail(lab)[1] = lab[1 + 1] /\ Follows(lab[1], lab[1 + 1])
      BY <1>2, <1>4, <1>5, <2>2
    <3> QED  BY <3>1 DEF Follows
  <2> QED  BY <1>4, <2>1, <2>2
<1>11. \A i \in 1 .. Len(lab) : i = 1 \/ (i - 1 \in 1 .. Len(Tail(lab)) /\ Tail(lab)[i - 1] = lab[i])
  <2>1. \A i \in 1 .. m + 1 : i = 1 \/ (i - 1 \in 1 .. m /\ (i - 1) + 1 = i)
    BY <1>4
  <2> QED  BY <1>1, <1>4, <1>5, <2>1
<1> QED  BY <1>1, <1>3, <1>5, <1>9, <1>10, <1>11

\* The places lab of s and then the places g of t.
Joined(lab, g, s, t) ==
  /\ Placed(lab \o g, s \o t)
  /\ (lab \o g)[1] = IF s = << >> THEN g[1] ELSE lab[1]
  /\ Len(lab \o g) = Len(s) + Len(t)
  /\ \A i \in 1 .. Len(s) : (lab \o g)[i] = lab[i]
  /\ \A i \in 1 .. Len(t) : (lab \o g)[Len(s) + i] = g[i]

\* A frame behind whole frames.
LEMMA PlacedBehind ==
  ASSUME NEW s \in Seq(Tokens), NEW t \in Seq(Tokens), NEW lab, NEW g,
         Placed(lab, s), Placed(g, t), Len(t) > 0, g[1].pos = 1
  PROVE  Joined(lab, g, s, t)
<1>1. /\ lab \in Seq(Places) /\ g \in Seq(Places) /\ Len(lab) = Len(s) /\ Len(g) = Len(t)
  BY DEF Placed
<1>2. PICK e, f : e = lab \o g /\ f = s \o t
  OBVIOUS
<1>3. /\ e \in Seq(Places) /\ Len(e) = Len(lab) + Len(g)
      /\ \A i \in 1 .. Len(lab) : e[i] = lab[i]
      /\ \A i \in 1 .. Len(g) : e[Len(lab) + i] = g[i]
  <2>1. lab \in Seq(Places) /\ g \in Seq(Places) /\ e = lab \o g
    BY <1>1, <1>2
  <2> QED  BY <2>1, Behind
<1>4. /\ f \in Seq(Tokens) /\ Len(f) = Len(s) + Len(t)
      /\ \A i \in 1 .. Len(s) : f[i] = s[i]
      /\ \A i \in 1 .. Len(t) : f[Len(s) + i] = t[i]
  BY <1>2, Behind
<1>5. PICK m \in Nat, k \in Nat \ {0} : m = Len(s) /\ k = Len(t)
  BY LenProperties
<1>6. /\ Len(lab) = m /\ Len(g) = k /\ Len(e) = m + k /\ Len(f) = m + k
      /\ \A i \in 1 .. m : e[i] = lab[i] /\ f[i] = s[i] /\ Fits(s[i], lab[i])
      /\ \A i \in 1 .. k : e[m + i] = g[i] /\ f[m + i] = t[i] /\ Fits(t[i], g[i])
      /\ \A i \in 1 .. m : i < m => Follows(lab[i], lab[i + 1])
      /\ \A i \in 1 .. k : i < k => Follows(g[i], g[i + 1])
      /\ m > 0 => lab[m].pos = FrameEnd(lab[m].kind)
      /\ g[k].pos = FrameEnd(g[k].kind)
  BY <1>1, <1>3, <1>4, <1>5 DEF Placed
<1>7. \A i \in 1 .. m + k : \/ i \in 1 .. m /\ i < m /\ i + 1 \in 1 .. m
                            \/ i = m /\ i \in 1 .. m
                            \/ \E j \in 1 .. k : i = m + j /\ j < k /\ j + 1 \in 1 .. k
                                                 /\ i + 1 = m + (j + 1)
                            \/ i = m + k
  <2> SUFFICES ASSUME NEW i \in 1 .. m + k, ~(i \in 1 .. m), i # m + k
               PROVE  \E j \in 1 .. k : i = m + j /\ j < k /\ j + 1 \in 1 .. k /\ i + 1 = m + (j + 1)
    BY <1>5
  <2>1. i - m \in 1 .. k /\ i = m + (i - m) /\ i - m < k /\ (i - m) + 1 \in 1 .. k
        /\ i + 1 = m + ((i - m) + 1)
    BY <1>5
  <2> QED  BY <2>1
<1>8. \A i \in 1 .. m + k : Fits(f[i], e[i])
  <2>1. \A i \in 1 .. m + k : i \in 1 .. m \/ (i - m \in 1 .. k /\ i = m + (i - m))
    BY <1>5
  <2> QED  BY <1>6, <2>1
<1>9. \A i \in 1 .. m + k : i < m + k => Follows(e[i], e[i + 1])
  <2> SUFFICES ASSUME NEW i \in 1 .. m + k, i < m + k PROVE Follows(e[i], e[i + 1])
    OBVIOUS
  <2>1. CASE i \in 1 .. m /\ i < m /\ i + 1 \in 1 .. m
    BY <1>6, <2>1
  <2>2. CASE i = m /\ i \in 1 .. m
    <3>1. m > 0 /\ 1 \in 1 .. k
      BY <1>5, <2>2
    <3>2. e[i] = lab[m] /\ e[i + 1] = g[1] /\ lab[m].pos = FrameEnd(lab[m].kind)
      BY <1>6, <2>2, <3>1
    <3> QED  BY <3>2 DEF Follows
  <2>3. CASE \E j \in 1 .. k : i = m + j /\ j < k /\ j + 1 \in 1 .. k /\ i + 1 = m + (j + 1)
    <3>1. PICK j \in 1 .. k : i = m + j /\ j < k /\ j + 1 \in 1 .. k /\ i + 1 = m + (j + 1)
      BY <2>3
    <3>2. e[i] = g[j] /\ e[i + 1] = g[j + 1]
      BY <1>6, <3>1
    <3>3. Follows(g[j], g[j + 1])
      BY <1>6, <3>1
    <3> QED  BY <3>2, <3>3
  <2>4. i # m + k
    BY <1>5
  <2> QED  BY <1>7, <2>1, <2>2, <2>3, <2>4
<1>10. k \in 1 .. k /\ 1 \in 1 .. k /\ m + k > 0
  BY <1>5
<1>11. Placed(e, f)
  BY <1>3, <1>6, <1>8, <1>9, <1>10 DEF Placed
<1>12. e[1] = IF s = << >> THEN g[1] ELSE lab[1]
  <2>1. CASE s = << >>
    <3>1. m = 0
      BY <1>5, <2>1
    <3> QED  BY <1>6, <1>10, <2>1, <3>1
  <2>2. CASE s # << >>
    <3>1. 1 \in 1 .. m
      BY <1>5, <2>2
    <3> QED  BY <1>6, <2>2, <3>1
  <2> QED  BY <2>1, <2>2
<1> QED  BY <1>2, <1>5, <1>6, <1>11, <1>12 DEF Joined

\* The places of a frame's tokens.
Place(n, t, id, kind, i) == [n |-> n, tool |-> t, id |-> id, kind |-> kind, pos |-> i]
PlacesOf(n, t, id, kind) == [i \in 1 .. FrameEnd(kind) |-> Place(n, t, id, kind, i)]

LEMMA PlaceFields ==
  ASSUME NEW n \in Nat, n > 0, NEW t \in Nat, NEW id \in Nat, NEW kind \in Kinds,
         NEW i \in Nat, i > 0, i <= FrameEnd(kind)
  PROVE  /\ Place(n, t, id, kind, i) \in Places
         /\ Place(n, t, id, kind, i).id = id /\ Place(n, t, id, kind, i).kind = kind
         /\ Place(n, t, id, kind, i).pos = i /\ Place(n, t, id, kind, i).n = n
         /\ Place(n, t, id, kind, i + 1) = [Place(n, t, id, kind, i) EXCEPT !.pos = i + 1]
         /\ HeaderOf(Place(n, t, id, kind, i)) = Header(n, t, id, kind, PayloadLen(kind))
BY DEF Place, Places, HeaderOf

\* A frame f, and the places g of its tokens.
FramePlaced(f, g, n, t, id, kind) ==
  /\ f = Frame(n, t, id, kind) /\ g = PlacesOf(n, t, id, kind)
  /\ f \in Seq(Tokens) /\ Placed(g, f) /\ Len(f) = FrameEnd(kind) /\ g[1].pos = 1
  /\ \A i \in 1 .. FrameEnd(kind) : g[i].id = id /\ g[i].kind = kind /\ g[i].pos = i

\* Every frame a tool sends is placed from its first token to its last.
LEMMA PlacedFrame ==
  ASSUME NEW n \in Nat, NEW t \in Nat, NEW id \in Nat, NEW kind \in Kinds, n > 0
  PROVE  \E f, g : FramePlaced(f, g, n, t, id, kind)
<1>1. PICK f : f = Frame(n, t, id, kind)
  OBVIOUS
<1>2. /\ f \in Seq(Tokens) /\ Len(f) = 5 + PayloadLen(kind)
      /\ \A i \in 1 .. 4 : f[i] = ctl_magic[i]
      /\ f[5] = Header(n, t, id, kind, PayloadLen(kind))
      /\ kind \notin Refused => \A i \in 6 .. 5 + PayloadLen(kind) : f[i] = Data(n)
  <2>1. Encoded(f, n, t, id, kind)
    BY <1>1, FrameCells
  <2> QED  BY <2>1 DEF Encoded
<1>0. PICK g : g = PlacesOf(n, t, id, kind)
  OBVIOUS
<1>3. PICK k \in Nat : k = FrameEnd(kind) /\ k >= 5 /\ k = 5 + PayloadLen(kind)
  BY FrameEnds DEF FrameEnd
<1>4. \A i \in 1 .. k : i \in Nat /\ i > 0 /\ i <= FrameEnd(kind)
  BY <1>3
<1>5. g = [i \in 1 .. k |-> Place(n, t, id, kind, i)]
  BY <1>0, <1>3 DEF PlacesOf
<1>6. \A i \in 1 .. k : /\ g[i] = Place(n, t, id, kind, i) /\ g[i] \in Places
                        /\ g[i].n = n /\ g[i].id = id /\ g[i].kind = kind /\ g[i].pos = i
                        /\ Place(n, t, id, kind, i + 1) = [g[i] EXCEPT !.pos = i + 1]
                        /\ HeaderOf(g[i]) = Header(n, t, id, kind, PayloadLen(kind))
  BY <1>4, <1>5, PlaceFields
<1>7. g \in Seq(Places) /\ Len(g) = k
  <2>1. \A i \in 1 .. k : Place(n, t, id, kind, i) \in Places
    BY <1>4, PlaceFields
  <2> QED  BY <1>5, <2>1
<1>8. \A i \in 1 .. k : Fits(f[i], g[i])
  <2> SUFFICES ASSUME NEW i \in 1 .. k PROVE Fits(f[i], g[i])
    OBVIOUS
  <2>1. i <= 4 => f[i] = ctl_magic[i]
    BY <1>2
  <2>2. i = 5 => f[i] = HeaderOf(g[i])
    BY <1>2, <1>6
  <2>3. i > 5 /\ kind \notin Refused => f[i] = Data(n)
    <3>1. i > 5 => i \in 6 .. 5 + PayloadLen(kind)
      BY <1>3
    <3> QED  BY <1>2, <3>1
  <2>4. g[i].n = n /\ g[i].kind = kind /\ g[i].pos = i
    BY <1>6
  <2> QED  BY <2>1, <2>2, <2>3, <2>4 DEF Fits
<1>9. \A i \in 1 .. k : i < k => Follows(g[i], g[i + 1])
  <2> SUFFICES ASSUME NEW i \in 1 .. k, i < k PROVE Follows(g[i], g[i + 1])
    OBVIOUS
  <2>1. i + 1 \in 1 .. k
    BY <1>3
  <2>2. g[i + 1] = [g[i] EXCEPT !.pos = i + 1] /\ g[i].pos = i /\ g[i].kind = kind
    BY <1>6, <2>1
  <2>3. i # FrameEnd(kind)
    BY <1>3
  <2> QED  BY <2>2, <2>3 DEF Follows
<1>10. 1 \in 1 .. k /\ k \in 1 .. k /\ Len(f) = k
  BY <1>2, <1>3
<1>11. g[k].pos = k /\ g[k].kind = kind
  BY <1>6, <1>10
<1>12. Placed(g, f)
  BY <1>3, <1>7, <1>8, <1>9, <1>10, <1>11 DEF Placed
<1>13. /\ Len(f) = FrameEnd(kind) /\ g[1].pos = 1
       /\ \A i \in 1 .. FrameEnd(kind) : g[i].id = id /\ g[i].kind = kind /\ g[i].pos = i
  BY <1>3, <1>6, <1>10
<1>14. FramePlaced(f, g, n, t, id, kind)
  BY <1>0, <1>1, <1>2, <1>12, <1>13 DEF FramePlaced
<1> QED  BY <1>14

\* What is on its way to the board.
Stream == (rx_buf \o cout) \o hostOut

\* The parser takes the next token for the first of a frame.
AtStart == rx_state = "MAGIC" \/ (pc = "loop" /\ quiet > IDLE)

\* The parser takes the next token for what it is.
At(l) ==
  /\ l.pos = 1 => AtStart
  /\ l.pos > 1 => quiet = 0
  /\ l.pos \in 2 .. 4 => rx_state = "MAGIC" /\ rx_magic_at = l.pos - 1
  /\ l.pos = 5 => rx_state = "HEADER" /\ rx_hdr = NoHeader
  /\ l.pos > 5 /\ l.kind \in Refused =>
       rx_state = "SKIP" /\ rx_skip = FrameEnd(l.kind) - l.pos + 1
  /\ l.pos > 5 /\ l.kind \notin Refused =>
       /\ rx_state = "PAYLOAD" /\ rx_hdr = HeaderOf(l)
       /\ rx_payload = IF l.pos = 6 THEN << >> ELSE << Data(l.n) >>

InStep(lab) ==
  /\ Placed(lab, Stream)
  /\ IF Stream = << >> THEN AtStart ELSE At(lab[1])

\* The token on which the request is answered.
Answered(l) == l.pos = IF l.kind \in Refused THEN 5 ELSE FrameEnd(l.kind)

\* The parser in step takes a token of the magic for what it is.
LEMMA InMagic ==
  ASSUME TypeOK, NEW l \in Places, At(l), Fits(Head(rx_buf), l), l.pos <= 4, pc = "feed",
         FeedMagic \/ FeedHeader \/ FeedPayload \/ FeedSkip,
         NEW m, m = [l EXCEPT !.pos = l.pos + 1]
  PROVE  At(m)' /\ ghost' = ghost /\ ~Answered(l) /\ l.pos # FrameEnd(l.kind)
<1>1. l.pos \in 1 .. 4 /\ FrameEnd(l.kind) >= 5 /\ FrameEnd(l.kind) \in Nat
  BY FrameEnds
<1>2. rx_state = "MAGIC" /\ (l.pos > 1 => rx_magic_at = l.pos - 1)
  BY <1>1 DEF At, AtStart
<1>3. FeedMagic
  BY <1>2 DEF FeedHeader, FeedPayload, FeedSkip, Feed
<1>4. /\ ctl_magic[1] = Byte("D") /\ ctl_magic[2] = Byte("U") /\ ctl_magic[3] = Byte("E")
      /\ ctl_magic[4] = Byte("C") /\ Len(ctl_magic) = 4
      /\ Byte("D") # Byte("U") /\ Byte("D") # Byte("E") /\ Byte("D") # Byte("C")
  <2>1. \A a, b : Byte(a) = Byte(b) => a = b
    <3>1. \A a : Byte(a).b = a
      BY DEF Byte
    <3> QED  BY <3>1
  <2> QED  BY <2>1 DEF ctl_magic
<1>5. Head(rx_buf) = ctl_magic[l.pos] /\ rx_magic_at \in 0 .. 3
  BY <1>1 DEF Fits, TypeOK, Receives
<1>6. MatchAfter(Head(rx_buf)) = l.pos
  <2>1. CASE l.pos = 1
    <3>1. \A k \in 0 .. 3 : Byte("D") = ctl_magic[k + 1] => k = 0
      <4>1. \A k \in 0 .. 3 : k = 0 \/ k + 1 = 2 \/ k + 1 = 3 \/ k + 1 = 4
        OBVIOUS
      <4> QED  BY <1>4, <4>1
    <3>2. Head(rx_buf) = Byte("D")
      BY <1>4, <1>5, <2>1
    <3> QED  BY <1>4, <1>5, <2>1, <3>1, <3>2 DEF MatchAfter
  <2>2. CASE l.pos > 1
    <3>1. rx_magic_at + 1 = l.pos
      BY <1>1, <1>2, <2>2
    <3> QED  BY <1>5, <3>1 DEF MatchAfter
  <2> QED  BY <1>1, <2>1, <2>2
<1>7. /\ quiet' = 0 /\ rx_hdr' = rx_hdr /\ rx_hdr = NoHeader /\ Silently
      /\ IF l.pos = 4 THEN rx_magic_at' = 0 /\ rx_state' = "HEADER"
                      ELSE rx_magic_at' = l.pos /\ rx_state' = "MAGIC"
  BY <1>2, <1>3, <1>4, <1>6 DEF FeedMagic, Feed, TypeOK, Receives
<1>8. m.pos = l.pos + 1 /\ m.kind = l.kind /\ m.pos \in 2 .. 5 /\ m.pos - 1 = l.pos
  BY <1>1 DEF Places
<1>9. At(m)'
  BY <1>1, <1>7, <1>8 DEF At
<1>10. ~Answered(l) /\ l.pos # FrameEnd(l.kind)
  BY <1>1 DEF Answered
<1> QED  BY <1>7, <1>9, <1>10 DEF Silently

\* It takes the header of a request for what it is.
LEMMA InHeader ==
  ASSUME TypeOK, NEW l \in Places, At(l), Fits(Head(rx_buf), l), l.pos = 5, pc = "feed",
         FeedMagic \/ FeedHeader \/ FeedPayload \/ FeedSkip,
         NEW m, m = [l EXCEPT !.pos = l.pos + 1]
  PROVE  /\ IF l.pos = FrameEnd(l.kind) THEN rx_state' = "MAGIC" ELSE At(m)'
         /\ ghost' = ghost /\ (Answered(l) => pc' = "respond" /\ out'.id = l.id)
<1>1. rx_state = "HEADER" /\ rx_hdr = NoHeader /\ rx_payload = << >>
  BY DEF At, TypeOK, Receives
<1>2. FeedHeader /\ quiet' = 0
  BY <1>1 DEF FeedMagic, FeedHeader, FeedPayload, FeedSkip, Feed
<1>3. PICK h : h = HeaderOf(l)
  OBVIOUS
<1>4. Head(rx_buf) = h
  BY <1>3 DEF Fits
<1>5. /\ h.b = "H" /\ h.n = l.n /\ h.id = l.id /\ h.kind = l.kind /\ h.len = PayloadLen(l.kind)
      /\ Answer(h).id = l.id
  BY <1>3 DEF HeaderOf, Header, Answer
<1>6. /\ l.n # 0 /\ l.kind \in {"ping", "set_on", "set_off", "toolong", "badver"}
      /\ FrameEnd(l.kind) = 5 + PayloadLen(l.kind) /\ PayloadLen(l.kind) \in Nat
  BY FrameEnds, CtlAssumption DEF FrameEnd
<1>7. HeaderComplete(h)
  BY <1>1, <1>2, <1>4, <1>5 DEF FeedHeader
<1>8. m.pos = 6 /\ m.kind = l.kind /\ m.n = l.n /\ HeaderOf(m) = h
  BY <1>3 DEF Places, HeaderOf
<1>9. CASE l.kind \in Refused
  <2>1. HeaderRefused(h) /\ PayloadLen(l.kind) > 0
    BY <1>5, <1>7, <1>9 DEF HeaderComplete, Refused, PayloadLen
  <2>2. /\ pc' = "respond" /\ out'.id = l.id /\ ghost' = ghost
        /\ rx_skip' = PayloadLen(l.kind) /\ rx_state' = "SKIP"
    BY <1>5, <2>1 DEF HeaderRefused, SkipPayload, Answering
  <2>3. FrameEnd(m.kind) - m.pos + 1 = PayloadLen(l.kind) /\ l.pos # FrameEnd(l.kind)
    BY <1>6, <1>8, <2>1
  <2>4. At(m)'
    BY <1>2, <1>8, <1>9, <2>2, <2>3 DEF At
  <2> QED  BY <2>2, <2>3, <2>4
<1>10. CASE l.kind = "ping"
  <2>1. FrameComplete(h, << >>) /\ l.pos = FrameEnd(l.kind)
    BY <1>5, <1>6, <1>7, <1>10 DEF HeaderComplete, PayloadLen
  <2>2. << >> = PayloadOf(h.kind, h.n)
    BY <1>5, <1>10 DEF PayloadOf
  <2>3. rx_state' = "MAGIC" /\ pc' = "respond" /\ out'.id = l.id
    BY <1>5, <2>1 DEF FrameComplete, Answering
  <2>4. ghost' = ghost
    <3>1. Dispatch(h)
      BY <2>1, <2>2 DEF FrameComplete
    <3> QED  BY <1>5, <1>6, <3>1 DEF Dispatch, TypeOK, Waits
  <2> QED  BY <2>1, <2>3, <2>4
<1>11. CASE l.kind \in {"set_on", "set_off"}
  <2>1. rx_state' = "PAYLOAD" /\ rx_hdr' = h /\ Silently /\ rx_payload' = rx_payload
    BY <1>5, <1>7, <1>11 DEF HeaderComplete, PayloadLen
  <2>2. l.kind \notin Refused /\ l.pos # FrameEnd(l.kind) /\ ~Answered(l)
    BY <1>6, <1>11 DEF Refused, PayloadLen, Answered
  <2>3. At(m)'
    BY <1>1, <1>2, <1>8, <2>1, <2>2 DEF At
  <2> QED  BY <2>1, <2>2, <2>3 DEF Silently
<1> QED  BY <1>6, <1>9, <1>10, <1>11 DEF Refused

\* One thing put behind nothing, and behind itself.
LEMMA OneTwo ==
  ASSUME NEW x
  PROVE  /\ Append(<< >>, x) = << x >> /\ Append(<< x >>, x) = << x, x >>
         /\ Len(<< x >>) = 1 /\ Len(<< x, x >>) = 2
<1>1. PICK S : x \in S
  <2>1. x \in {x}
    OBVIOUS
  <2> QED  BY <2>1
<1>2. PICK e, s, t : e = << >> /\ s = << x >> /\ t = << x, x >>
  OBVIOUS
<1>3. /\ e \in Seq(S) /\ s \in Seq(S) /\ t \in Seq(S) /\ Len(e) = 0 /\ Len(s) = 1 /\ Len(t) = 2
      /\ s[1] = x /\ t[1] = x /\ t[2] = x
  BY <1>1, <1>2
<1>4. /\ Append(e, x) \in Seq(S) /\ Len(Append(e, x)) = 1 /\ Append(e, x)[1] = x
  BY <1>1, <1>3, AppendProperties
<1>5. Append(e, x) = s
  BY <1>3, <1>4, SeqEqual
<1>6. /\ Append(s, x) \in Seq(S) /\ Len(Append(s, x)) = 2 /\ Append(s, x)[1] = x
      /\ Append(s, x)[2] = x
  <2>1. /\ Append(s, x) \in Seq(S) /\ Len(Append(s, x)) = Len(s) + 1
        /\ \A i \in 1 .. Len(s) : Append(s, x)[i] = s[i]
        /\ Append(s, x)[Len(s) + 1] = x
    <3>1. s \in Seq(S)
      BY <1>3
    <3> QED  BY <1>1, <3>1, AppendProperties
  <2>2. Len(s) + 1 = 2 /\ 1 \in 1 .. Len(s)
    BY <1>3
  <2> QED  BY <1>3, <2>1, <2>2
<1>7. \A i \in 1 .. 2 : i = 1 \/ i = 2
  OBVIOUS
<1>8. Append(s, x) = t
  BY <1>3, <1>6, <1>7, SeqEqual
<1> QED  BY <1>2, <1>3, <1>5, <1>8

\* It takes a payload byte for what it is.
LEMMA InPayload ==
  ASSUME TypeOK, NEW l \in Places, At(l), Fits(Head(rx_buf), l), l.pos > 5, pc = "feed",
         FeedMagic \/ FeedHeader \/ FeedPayload \/ FeedSkip,
         NEW m, m = [l EXCEPT !.pos = l.pos + 1]
  PROVE  /\ IF l.pos = FrameEnd(l.kind) THEN rx_state' = "MAGIC" ELSE At(m)'
         /\ ghost' = ghost /\ (Answered(l) => pc' = "respond" /\ out'.id = l.id)
<1>1. /\ l.n # 0 /\ l.kind \in {"ping", "set_on", "set_off", "toolong", "badver"}
      /\ FrameEnd(l.kind) = 5 + PayloadLen(l.kind) /\ PayloadLen(l.kind) \in Nat
      /\ l.pos \in Nat /\ l.pos <= FrameEnd(l.kind)
  BY FrameEnds, CtlAssumption DEF FrameEnd
<1>2. m.pos = l.pos + 1 /\ m.kind = l.kind /\ m.n = l.n /\ HeaderOf(m) = HeaderOf(l)
  BY DEF Places, HeaderOf
<1>3. CASE l.kind \in Refused
  <2>1. rx_state = "SKIP" /\ rx_skip = FrameEnd(l.kind) - l.pos + 1
    BY <1>3 DEF At
  <2>2. FeedSkip /\ quiet' = 0
    BY <2>1 DEF FeedMagic, FeedHeader, FeedPayload, FeedSkip, Feed
  <2>3. PICK k \in Nat : k = FrameEnd(l.kind) - l.pos
    BY <1>1
  <2>4. rx_skip - 1 = k
    BY <1>1, <2>1, <2>3
  <2>5. rx_skip' = k /\ rx_state' = (IF k = 0 THEN "MAGIC" ELSE "SKIP") /\ Silently
    BY <2>2, <2>4 DEF FeedSkip
  <2>6. ghost' = ghost /\ ~Answered(l)
    BY <1>3, <2>5 DEF Silently, Answered
  <2>7. CASE k = 0
    BY <1>1, <2>3, <2>5, <2>6, <2>7
  <2>8. CASE k # 0
    <3>1. FrameEnd(m.kind) - m.pos + 1 = k /\ l.pos # FrameEnd(l.kind) /\ m.pos > 5
      BY <1>1, <1>2, <2>3, <2>8
    <3>2. At(m)'
      BY <1>2, <1>3, <2>2, <2>5, <2>8, <3>1 DEF At
    <3> QED  BY <2>6, <3>1, <3>2
  <2> QED  BY <2>7, <2>8
<1>4. CASE l.kind \notin Refused
  <2>1. /\ rx_state = "PAYLOAD" /\ rx_hdr = HeaderOf(l)
        /\ rx_payload = IF l.pos = 6 THEN << >> ELSE << Data(l.n) >>
    BY <1>4 DEF At
  <2>2. FeedPayload /\ quiet' = 0
    BY <2>1 DEF FeedMagic, FeedHeader, FeedPayload, FeedSkip, Feed
  <2>3. l.kind \in {"set_on", "set_off"} /\ l.pos \in {6, 7} /\ FrameEnd(l.kind) = 7
    BY <1>1, <1>4 DEF Refused, PayloadLen
  <2>4. PICK h : h = HeaderOf(l)
    OBVIOUS
  <2>5. h.len = 2 /\ h.n = l.n /\ h.kind = l.kind /\ h.id = l.id /\ Answer(h).id = l.id
    BY <2>3, <2>4 DEF HeaderOf, Header, PayloadLen, Answer
  <2>6. PICK x : x = Data(l.n)
    OBVIOUS
  <2>7. Head(rx_buf) = x
    BY <1>4, <2>6 DEF Fits
  <2>8. Append(<< >>, x) = << x >> /\ Append(<< x >>, x) = << x, x >>
        /\ Len(<< x >>) = 1 /\ Len(<< x, x >>) = 2
    BY OneTwo
  <2>12. PICK p : /\ p = Append(rx_payload, Head(rx_buf))
                  /\ IF Len(p) < h.len
                     THEN rx_payload' = p /\ Silently /\ UNCHANGED << rx_state, rx_hdr >>
                     ELSE FrameComplete(h, p)
    BY <2>1, <2>2, <2>4 DEF FeedPayload
  <2>9. CASE l.pos = 6
    <3>1. p = << x >> /\ Len(p) < h.len
      BY <2>1, <2>5, <2>7, <2>8, <2>9, <2>12
    <3>2. rx_payload' = << x >> /\ Silently /\ rx_state' = "PAYLOAD" /\ rx_hdr' = h
      BY <2>1, <2>4, <2>12, <3>1
    <3>3. At(m)' /\ ~Answered(l) /\ l.pos # FrameEnd(l.kind)
      BY <1>2, <1>4, <2>2, <2>3, <2>4, <2>6, <2>9, <3>2 DEF At, Answered
    <3> QED  BY <3>2, <3>3 DEF Silently
  <2>10. CASE l.pos = 7
    <3>1. p = << x, x >> /\ ~(Len(p) < h.len)
      BY <2>1, <2>5, <2>6, <2>7, <2>8, <2>10, <2>12
    <3>2. FrameComplete(h, << x, x >>)
      BY <2>12, <3>1
    <3>3. << x, x >> = PayloadOf(h.kind, h.n)
      BY <2>3, <2>5, <2>6 DEF PayloadOf
    <3>4. rx_state' = "MAGIC" /\ pc' = "respond" /\ out'.id = l.id
      BY <2>5, <3>2 DEF FrameComplete, Answering
    <3>5. ghost' = ghost
      <4>1. Dispatch(h)
        BY <3>2, <3>3 DEF FrameComplete
      <4> QED  BY <1>1, <2>5, <4>1 DEF Dispatch, TypeOK, Waits
    <3> QED  BY <2>3, <2>10, <3>4, <3>5
  <2> QED  BY <2>3, <2>9, <2>10
<1> QED  BY <1>3, <1>4

\* What is behind the first of two sequences.
LEMMA TailOfConcat ==
  ASSUME NEW s \in Seq(Tokens), NEW t \in Seq(Tokens), s # << >>
  PROVE  /\ s \o t \in Seq(Tokens) /\ s \o t # << >> /\ (s \o t)[1] = Head(s)
         /\ Tail(s) \o t = Tail(s \o t)
<1>1. PICK e, f : e = s \o t /\ f = Tail(s) \o t
  OBVIOUS
<1>2. /\ Head(s) = s[1] /\ Tail(s) \in Seq(Tokens) /\ Len(s) \in Nat \ {0}
      /\ Len(Tail(s)) = Len(s) - 1
      /\ \A i \in 1 .. Len(Tail(s)) : Tail(s)[i] = s[i + 1] /\ i + 1 \in 1 .. Len(s)
  BY FirstToken
<1>3. /\ e \in Seq(Tokens) /\ Len(e) = Len(s) + Len(t)
      /\ \A i \in 1 .. Len(s) : e[i] = s[i]
      /\ \A i \in 1 .. Len(t) : e[Len(s) + i] = t[i]
  BY <1>1, Behind
<1>4. /\ f \in Seq(Tokens) /\ Len(f) = Len(Tail(s)) + Len(t)
      /\ \A i \in 1 .. Len(Tail(s)) : f[i] = Tail(s)[i]
      /\ \A i \in 1 .. Len(t) : f[Len(Tail(s)) + i] = t[i]
  BY <1>1, <1>2, Behind
<1>5. PICK a, k \in Nat : a + 1 = Len(s) /\ a = Len(Tail(s)) /\ k = Len(t)
  <2>1. Len(t) \in Nat
    BY LenProperties
  <2>2. Len(s) - 1 \in Nat /\ (Len(s) - 1) + 1 = Len(s)
    BY <1>2
  <2> QED  BY <1>2, <2>1, <2>2
<1>6. e # << >> /\ e[1] = Head(s)
  <2>1. Len(e) > 0 /\ 1 \in 1 .. Len(s)
    BY <1>3, <1>5
  <2> QED  BY <1>2, <1>3, <2>1
<1>7. /\ Tail(e) \in Seq(Tokens) /\ Len(Tail(e)) = Len(e) - 1
      /\ \A i \in 1 .. Len(Tail(e)) : Tail(e)[i] = e[i + 1]
  BY <1>3, <1>6, FirstToken
<1>8. Len(Tail(e)) = a + k /\ Len(f) = a + k
  BY <1>3, <1>4, <1>5, <1>7
<1>9. \A i \in 1 .. a + k : f[i] = Tail(e)[i]
  <2> SUFFICES ASSUME NEW i \in 1 .. a + k PROVE f[i] = e[i + 1]
    BY <1>7, <1>8
  <2>1. CASE i <= a
    <3>1. i \in 1 .. a /\ i + 1 \in 1 .. a + 1
      BY <1>5, <2>1
    <3> QED  BY <1>2, <1>3, <1>4, <1>5, <3>1
  <2>2. CASE i > a
    <3>1. i - a \in 1 .. k /\ i = a + (i - a) /\ i + 1 = (a + 1) + (i - a)
      BY <1>5, <2>2
    <3>2. f[i] = t[i - a] /\ e[i + 1] = t[i - a]
      BY <1>3, <1>4, <1>5, <3>1
    <3> QED  BY <3>2
  <2> QED  BY <1>5, <2>1, <2>2
<1>10. f = Tail(e)
  BY <1>4, <1>7, <1>8, <1>9, SeqEqual
<1> QED  BY <1>1, <1>3, <1>6, <1>10

\* A token fed to a parser in step leaves it in step, is answered if it is the one
\* to answer, and makes no ghost.
LEMMA FedInStep ==
  ASSUME TypeOK, NEW lab, InStep(lab), pc = "feed",
         FeedMagic \/ FeedHeader \/ FeedPayload \/ FeedSkip
  PROVE  /\ InStep(Tail(lab))' /\ ghost' = ghost
         /\ Len(Stream) > 0 /\ Len(lab) = Len(Stream)
         /\ Answered(lab[1]) => pc' = "respond" /\ out'.id = lab[1].id
         /\ \A i \in 1 .. Len(lab) :
              i = 1 \/ (i - 1 \in 1 .. Len(Tail(lab)) /\ Tail(lab)[i - 1] = lab[i])
<1>1. /\ rx_buf \in Seq(Tokens) /\ rx_buf # << >> /\ cout \in Seq(Tokens)
      /\ hostOut \in Seq(Tokens)
  BY DEF TypeOK, Receives, Waits
<1>2. rx_buf' = Tail(rx_buf) /\ UNCHANGED << cout, hostOut >>
  BY DEF FeedMagic, FeedHeader, FeedPayload, FeedSkip, Feed, sendVars
<1>3. PICK rest : rest = cout \o hostOut
  OBVIOUS
<1>4. rest \in Seq(Tokens) /\ Stream = rx_buf \o rest
  BY <1>1, <1>3, ConcatAssociative DEF Stream
<1>5. Tail(rx_buf) \in Seq(Tokens) /\ Stream' = Tail(rx_buf) \o rest
  <2>1. PICK b : b = Tail(rx_buf)
    OBVIOUS
  <2>2. b \in Seq(Tokens)
    BY <1>1, <2>1, FirstToken
  <2>3. Stream' = (b \o cout) \o hostOut
    BY <1>2, <2>1 DEF Stream
  <2>4. (b \o cout) \o hostOut = b \o (cout \o hostOut)
    BY <1>1, <2>2, ConcatAssociative, SMTT(40)
  <2> QED  BY <1>3, <2>1, <2>2, <2>3, <2>4
<1>6. /\ Stream \in Seq(Tokens) /\ Stream # << >> /\ Stream[1] = Head(rx_buf)
      /\ Stream' = Tail(Stream)
  BY <1>1, <1>4, <1>5, TailOfConcat
<1>7. PICK l : l = lab[1]
  OBVIOUS
<1>8. Placed(lab, Stream) /\ At(l)
  BY <1>6, <1>7 DEF InStep
<1>9. /\ l \in Places /\ Fits(Head(rx_buf), l) /\ Len(Stream) \in Nat \ {0} /\ Len(lab) = Len(Stream)
      /\ Placed(Tail(lab), Tail(Stream))
      /\ IF l.pos = FrameEnd(l.kind)
         THEN Tail(Stream) # << >> => Tail(lab)[1].pos = 1
         ELSE Tail(Stream) # << >> /\ Tail(lab)[1] = [l EXCEPT !.pos = l.pos + 1]
      /\ \A i \in 1 .. Len(lab) :
           i = 1 \/ (i - 1 \in 1 .. Len(Tail(lab)) /\ Tail(lab)[i - 1] = lab[i])
  BY <1>6, <1>7, <1>8, PlacedTail
<1>10. PICK m : m = [l EXCEPT !.pos = l.pos + 1]
  OBVIOUS
<1>11. /\ IF l.pos = FrameEnd(l.kind) THEN rx_state' = "MAGIC" ELSE At(m)'
       /\ ghost' = ghost /\ (Answered(l) => pc' = "respond" /\ out'.id = l.id)
  <2>1. l.pos <= 4 \/ l.pos = 5 \/ l.pos > 5
    BY <1>9, FrameEnds, SMTT(40)
  <2>2. CASE l.pos <= 4
    BY <1>8, <1>9, <1>10, <2>2, InMagic
  <2>3. CASE l.pos = 5
    BY <1>8, <1>9, <1>10, <2>3, InHeader
  <2>4. CASE l.pos > 5
    BY <1>8, <1>9, <1>10, <2>4, InPayload
  <2> QED  BY <2>1, <2>2, <2>3, <2>4
<1>12. InStep(Tail(lab))'
  <2>1. CASE l.pos = FrameEnd(l.kind)
    <3>1. AtStart'
      BY <1>11, <2>1 DEF AtStart
    <3>2. Stream' # << >> => At(Tail(lab)[1])'
      <4>1. PICK z : z = Tail(lab)[1]
        OBVIOUS
      <4>2. Stream' # << >> => z.pos = 1
        BY <1>6, <1>9, <2>1, <4>1
      <4>3. z.pos = 1 => At(z)'
        BY <3>1 DEF At
      <4> QED  BY <4>1, <4>2, <4>3
    <3> QED  BY <1>6, <1>9, <3>1, <3>2 DEF InStep
  <2>2. CASE l.pos # FrameEnd(l.kind)
    <3>1. Stream' # << >> /\ Tail(lab)[1] = m
      BY <1>6, <1>9, <1>10, <2>2
    <3> QED  BY <1>6, <1>9, <1>11, <2>2, <3>1 DEF InStep
  <2> QED  BY <2>1, <2>2
<1> QED  BY <1>7, <1>9, <1>11, <1>12

\* The request's answer is to come from a token on its way, ...
Due(lab) == \E i \in 1 .. Len(lab) : Answered(lab[i]) /\ lab[i].id = pending.id

\* ... or is on its way itself, or was dropped and counted.
Coming ==
  \/ pc \in {"respond", "test", "commit"} /\ out.id = pending.id
  \/ cin # << >> /\ cin[1].id = pending.id
  \/ \E i \in DOMAIN hostIn : hostIn[i].id = pending.id
  \/ ctl_tx_dropped > pending.txd

\* Unless a fault has just happened, the parser is in step and the answer that is
\* waited for is to come.
Synced == Calm => \E lab : InStep(lab) /\ (pending.clean => Due(lab) \/ Coming)

\* A clean request has seen no fault, and whatever a tick finds under way is done.
Attended ==
  /\ pending.clean => Calm /\ (pending.age > 0 => ctl_tx_dropped > pending.txd)
  /\ ctl_tx_dropped >= pending.txd
  /\ stalled => pc = "loop"

\* During the silence after a fault nothing is under way, and a parser left inside a
\* frame is idle as long as the silence lasts.
Quieting ==
  disturbed /\ ~stalled /\ calm \in 1 .. IDLE =>
    /\ Stream = << >> /\ pc = "loop"
    /\ rx_state # "MAGIC" => quiet >= calm

Restored == Synced /\ Attended /\ Quieting

\* The parser's variables and what is on its way, as they were.
LEMMA InStepKept ==
  ASSUME NEW lab, InStep(lab), Stream' = Stream,
         UNCHANGED << rx_state, rx_magic_at, rx_hdr, rx_payload, rx_skip, quiet >>,
         AtStart => AtStart'
  PROVE  InStep(lab)'
<1>1. PICK l : l = lab[1]
  OBVIOUS
<1>2. At(l) => At(l)'
  BY DEF At
<1>3. PICK s : s = Stream
  OBVIOUS
<1>4. Placed(lab, s) /\ IF s = << >> THEN AtStart ELSE At(l)
  BY <1>1, <1>3 DEF InStep
<1>5. Stream' = s
  BY <1>3
<1> QED  BY <1>1, <1>2, <1>4, <1>5 DEF InStep

\* What does not touch the parser, and keeps the answer coming.
LEMMA RestoredKept ==
  ASSUME TypeOK, Restored, Stream' = Stream, UNCHANGED << stalled, disturbed, calm >>,
         UNCHANGED << rx_state, rx_magic_at, rx_hdr, rx_payload, rx_skip, quiet, pc >>,
         ctl_tx_dropped' = ctl_tx_dropped,
         pending' = NoRequest \/ (pending' = pending /\ (Coming => Coming'))
  PROVE  Restored'
<1>1. AtStart => AtStart'
  BY DEF AtStart
<1>2. Calm' <=> Calm
  BY DEF Calm
<1>3. ~NoRequest.clean /\ NoRequest.txd = 0 /\ ctl_tx_dropped \in Nat
  BY DEF NoRequest, TypeOK, Sends
<1>4. Synced'
  <2> SUFFICES ASSUME Calm' PROVE \E lab : InStep(lab)' /\ (pending'.clean => Due(lab)' \/ Coming')
    BY DEF Synced
  <2>1. PICK lab : InStep(lab) /\ (pending.clean => Due(lab) \/ Coming)
    BY <1>2 DEF Restored, Synced
  <2>2. InStep(lab)'
    BY <1>1, <2>1, InStepKept
  <2>3. CASE pending' = NoRequest
    BY <1>3, <2>2, <2>3
  <2>4. CASE pending' = pending /\ (Coming => Coming')
    <3>1. Due(lab)' <=> Due(lab)
      BY <2>4 DEF Due
    <3> QED  BY <2>1, <2>2, <2>4, <3>1
  <2> QED  BY <2>3, <2>4
<1>5. Attended'
  <2>1. CASE pending' = NoRequest
    BY <1>3, <2>1 DEF Attended, Restored
  <2>2. CASE pending' = pending
    BY <1>2, <2>2 DEF Attended, Restored
  <2> QED  BY <2>1, <2>2
<1>6. Quieting'
  BY DEF Restored, Quieting
<1> QED  BY <1>4, <1>5, <1>6 DEF Restored

\* Right after a fault nothing is promised.
LEMMA RestoredAfterFault ==
  ASSUME Restored, TypeOK, disturbed' = TRUE, calm' = 0, stalled' => pc' = "loop",
         ctl_tx_dropped' = ctl_tx_dropped,
         pending' = NoRequest \/ Unclean
  PROVE  Restored'
<1>1. ~(0 > IDLE) /\ 0 \notin 1 .. IDLE
  BY CtlAssumption
<1>2. ~Calm' /\ Quieting'
  BY <1>1 DEF Calm, Quieting
<1>3. ~pending'.clean /\ pending'.txd \in {0, pending.txd}
  BY DEF Unclean, NoRequest, TypeOK, Waits
<1>4. ctl_tx_dropped >= 0 /\ ctl_tx_dropped >= pending.txd
  BY DEF Restored, Attended, TypeOK, Sends
<1> QED  BY <1>2, <1>3, <1>4 DEF Restored, Synced, Attended

\* ctl_service up to its loop: a packet taken, and a frame that stopped arriving
\* given up.
LEMMA RestoredByService ==
  ASSUME TypeOK, Restored, ServiceEnter
  PROVE  Restored'
<1>1. /\ pc = "loop" /\ ~stalled
      /\ UNCHANGED << rx_skip, quiet, out, txVars, stalled, hostOut, hostIn, pending, pastVars >>
      /\ IF rx_buf = << >> THEN rx_buf' = cout /\ cout' = << >>
                           ELSE UNCHANGED << rx_buf, cout >>
      /\ pc' = IF rx_buf' = << >> THEN "loop" ELSE "feed"
  BY DEF ServiceEnter, sendVars
<1>2. /\ Abandoned => rx_state' = "MAGIC"
      /\ ~Abandoned => UNCHANGED << rx_state, rx_magic_at, rx_hdr, rx_payload >>
  BY DEF ServiceEnter
<1>3. rx_buf \in Seq(Tokens) /\ cout \in Seq(Tokens) /\ hostOut \in Seq(Tokens)
  BY DEF TypeOK, Receives, Waits
<1>4. Stream' = Stream
  <2>1. CASE rx_buf = << >>
    <3>1. << >> \o cout = cout /\ cout \o << >> = cout
      BY <1>3, ConcatEmptySeq
    <3>2. rx_buf \o cout = cout /\ rx_buf' \o cout' = cout
      BY <1>1, <2>1, <3>1
    <3> QED  BY <1>1, <3>2 DEF Stream
  <2>2. CASE rx_buf # << >>
    BY <1>1, <2>2 DEF Stream
  <2> QED  BY <2>1, <2>2
<1>5. Calm' <=> Calm
  BY <1>1 DEF Calm, pastVars
<1>6. Coming => Coming'
  BY <1>1 DEF Coming, txVars
<1>7. AtStart => rx_state' = "MAGIC"
  BY <1>1, <1>2 DEF AtStart, Abandoned
<1>8. Synced'
  <2> SUFFICES ASSUME Calm' PROVE \E lab : InStep(lab)' /\ (pending'.clean => Due(lab)' \/ Coming')
    BY DEF Synced
  <2>1. PICK lab : InStep(lab) /\ (pending.clean => Due(lab) \/ Coming)
    BY <1>5 DEF Restored, Synced
  <2>2. InStep(lab)'
    <3>1. AtStart => AtStart'
      BY <1>7 DEF AtStart
    <3>2. CASE ~Abandoned
      BY <1>1, <1>2, <1>4, <2>1, <3>1, <3>2, InStepKept
    <3>3. CASE Abandoned
      <4>1. PICK l, s : l = lab[1] /\ s = Stream
        OBVIOUS
      <4>2. rx_state' = "MAGIC" /\ AtStart'
        BY <1>2, <3>3 DEF AtStart
      <4>3. s # << >> => l.pos = 1
        <5> SUFFICES ASSUME s # << >> PROVE l.pos = 1
          OBVIOUS
        <5>1. At(l) /\ Placed(lab, s)
          BY <2>1, <4>1 DEF InStep
        <5>2. ~(quiet = 0)
          BY <3>3, CtlAssumption DEF Abandoned
        <5>3. l \in Places
          <6>1. s \in Seq(Tokens)
            BY <1>3, <4>1 DEF Stream
          <6> QED  BY <4>1, <5>1, <6>1, PlacedTail
        <5>4. ~(l.pos > 1)
          BY <5>1, <5>2 DEF At
        <5> QED  BY <5>3, <5>4, FrameEnds
      <4>4. l.pos = 1 => At(l)'
        BY <4>2 DEF At
      <4>5. Stream' = s /\ Placed(lab, s)
        BY <1>4, <2>1, <4>1 DEF InStep
      <4> QED  BY <4>1, <4>2, <4>3, <4>4, <4>5 DEF InStep
    <3> QED  BY <3>2, <3>3
  <2>3. Due(lab)' <=> Due(lab)
    BY <1>1 DEF Due
  <2> QED  BY <1>1, <1>6, <2>1, <2>2, <2>3
<1>9. Attended'
  BY <1>1, <1>5 DEF Attended, Restored, txVars
<1>10. Quieting'
  <2> SUFFICES ASSUME disturbed, ~stalled, calm \in 1 .. IDLE
               PROVE  /\ Stream' = << >> /\ pc' = "loop"
                      /\ rx_state' # "MAGIC" => quiet' >= calm'
    BY <1>1 DEF Quieting, pastVars
  <2>1. Stream = << >> /\ (rx_state # "MAGIC" => quiet >= calm)
    BY DEF Restored, Quieting
  <2>2. rx_buf = << >> /\ cout = << >>
    BY <1>3, <2>1, ConcatEqualIffEmpty DEF Stream
  <2>3. pc' = "loop"
    BY <1>1, <2>2
  <2>4. rx_state' # "MAGIC" => rx_state # "MAGIC"
    BY <1>2
  <2> QED  BY <1>1, <1>4, <2>1, <2>3, <2>4 DEF pastVars
<1> QED  BY <1>8, <1>9, <1>10 DEF Restored

\* A token taken by ctl_feed; and a ghost is obeyed only after a fault.
LEMMA RestoredByFeed ==
  ASSUME TypeOK, Restored, FeedMagic \/ FeedHeader \/ FeedPayload \/ FeedSkip
  PROVE  Restored' /\ (ghost' # ghost => disturbed')
<1>1. /\ pc = "feed"
      /\ UNCHANGED << txVars, stalled, hostIn, pending, pastVars >>
  BY DEF FeedMagic, FeedHeader, FeedPayload, FeedSkip, Feed
<1>2. Calm' <=> Calm
  BY <1>1 DEF Calm, pastVars
<1>3. ~stalled
  BY <1>1 DEF Restored, Attended
<1>4. ~(disturbed /\ calm \in 1 .. IDLE)
  BY <1>1, <1>3 DEF Restored, Quieting
<1>5. Quieting'
  BY <1>1, <1>4 DEF Quieting, pastVars
<1>6. Attended'
  BY <1>1, <1>2, <1>3 DEF Attended, Restored, txVars
<1>7. CASE Calm
  <2>1. PICK lab : InStep(lab) /\ (pending.clean => Due(lab) \/ Coming)
    BY <1>7 DEF Restored, Synced
  <2>2. /\ InStep(Tail(lab))' /\ ghost' = ghost
        /\ Answered(lab[1]) => pc' = "respond" /\ out'.id = lab[1].id
        /\ \A i \in 1 .. Len(lab) :
              i = 1 \/ (i - 1 \in 1 .. Len(Tail(lab)) /\ Tail(lab)[i - 1] = lab[i])
    BY <1>1, <2>1, FedInStep
  <2>3. Due(lab) => Due(Tail(lab))' \/ Coming'
    <3> SUFFICES ASSUME NEW i \in 1 .. Len(lab), Answered(lab[i]), lab[i].id = pending.id
                 PROVE  Due(Tail(lab))' \/ Coming'
      BY DEF Due
    <3>1. CASE i = 1
      BY <1>1, <2>2, <3>1 DEF Coming
    <3>2. CASE i - 1 \in 1 .. Len(Tail(lab)) /\ Tail(lab)[i - 1] = lab[i]
      <4>1. PICK j \in 1 .. Len(Tail(lab)) : Tail(lab)[j] = lab[i]
        BY <3>2
      <4> QED  BY <1>1, <4>1 DEF Due
    <3> QED  BY <2>2, <3>1, <3>2
  <2>4. Coming => Coming'
    BY <1>1 DEF Coming, txVars
  <2>5. Synced'
    BY <1>1, <2>1, <2>2, <2>3, <2>4 DEF Synced
  <2> QED  BY <1>5, <1>6, <2>2, <2>5 DEF Restored
<1>8. CASE ~Calm
  <2>1. disturbed /\ disturbed' = disturbed
    BY <1>1, <1>3, <1>8 DEF Calm, pastVars
  <2> QED  BY <1>2, <1>5, <1>6, <1>8, <2>1 DEF Restored, Synced
<1> QED  BY <1>7, <1>8

\* The answer on its way through ctl_respond.
LEMMA RestoredByRespond ==
  ASSUME TypeOK, WireInv, Restored, RespondBegin \/ RespondTest \/ RespondCommit
  PROVE  Restored'
<1>1. /\ pc \in {"respond", "test", "commit"}
      /\ UNCHANGED << rxVars, rx_buf, quiet, cout, stalled, sendVars, hostIn, pending, pastVars >>
  BY DEF RespondBegin, RespondTest, RespondCommit, RespondStep
<1>2. Calm' <=> Calm
  BY <1>1 DEF Calm, pastVars
<1>3. ~stalled
  BY <1>1 DEF Restored, Attended
<1>4. ~(disturbed /\ calm \in 1 .. IDLE)
  BY <1>1, <1>3 DEF Restored, Quieting
<1>5. Quieting'
  BY <1>1, <1>4 DEF Quieting, pastVars
<1>6. ctl_tx_dropped \in Nat /\ ctl_tx_dropped >= pending.txd /\ pending.txd \in Nat
  BY DEF Restored, Attended, TypeOK, Sends, Waits
<1>7. PICK d \in Nat : d = ctl_tx_dropped' /\ d >= ctl_tx_dropped
  <2>1. ctl_tx_dropped' \in {ctl_tx_dropped, ctl_tx_dropped + 1}
    BY DEF RespondBegin, RespondTest, RespondCommit, txVars
  <2> QED  BY <1>6, <2>1
<1>8. Attended'
  <2>1. d >= pending.txd /\ (ctl_tx_dropped > pending.txd => d > pending.txd)
    BY <1>6, <1>7
  <2> QED  BY <1>1, <1>2, <1>3, <1>7, <2>1 DEF Attended, Restored
<1>9. Coming => Coming'
  <2>1. CASE RespondBegin
    BY <1>1, <2>1 DEF RespondBegin, RespondStep, Coming, txVars
  <2>2. CASE RespondTest
    <3>1. CASE pc' = "commit" /\ UNCHANGED << out, ctl_tx_dropped, cin >>
      BY <1>1, <3>1 DEF Coming
    <3>2. CASE ctl_tx_dropped' = ctl_tx_dropped + 1
      <4>1. ctl_tx_dropped + 1 > pending.txd
        BY <1>6
      <4> QED  BY <1>1, <3>2, <4>1 DEF Coming
    <3> QED  BY <2>2, <3>1, <3>2 DEF RespondTest
  <2>3. CASE RespondCommit
    <3>1. /\ cin = << >> /\ cin' = << out, out >> /\ ctl_tx_dropped' = ctl_tx_dropped
      BY <2>3 DEF RespondCommit, RespondStep, WireInv, BankHeld
    <3>2. cin' # << >> /\ cin'[1] = out
      BY <3>1
    <3> QED  BY <1>1, <3>1, <3>2 DEF Coming
  <2> QED  BY <2>1, <2>2, <2>3
<1>10. Synced'
  <2> SUFFICES ASSUME Calm' PROVE \E lab : InStep(lab)' /\ (pending'.clean => Due(lab)' \/ Coming')
    BY DEF Synced
  <2>1. PICK lab : InStep(lab) /\ (pending.clean => Due(lab) \/ Coming)
    BY <1>2 DEF Restored, Synced
  <2>2. Stream' = Stream
    BY <1>1 DEF Stream, sendVars
  <2>3. AtStart => AtStart'
    BY <1>1 DEF AtStart, rxVars
  <2>4. InStep(lab)'
    BY <1>1, <2>1, <2>2, <2>3, InStepKept DEF rxVars
  <2>5. Due(lab)' <=> Due(lab)
    BY <1>1 DEF Due
  <2> QED  BY <1>1, <1>9, <2>1, <2>4, <2>5
<1> QED  BY <1>5, <1>8, <1>10 DEF Restored

\* The heartbeat interrupt, and what the host and the bus do but for a request.
LEMMA RestoredByOthers ==
  ASSUME TypeOK, WireInv, Restored,
         \/ Heartbeat \/ ToolOpens \/ ToolCloses \/ HostReads \/ HostGivesUp
         \/ BusDelivers \/ BusTakes \/ PollLineState
  PROVE  Restored'
<1>1. /\ rx_buf \in Seq(Tokens) /\ cout \in Seq(Tokens) /\ hostOut \in Seq(Tokens)
      /\ hostIn \in Seq(Answers \cup Beats) /\ cin \in Seq(Answers \cup Beats)
  BY DEF TypeOK, Receives, Sends, Waits
<1>2. /\ UNCHANGED << rx_state, rx_magic_at, rx_hdr, rx_payload, rx_skip, quiet, pc, stalled,
                      ctl_tx_dropped, rx_buf >>
  BY DEF Heartbeat, ToolOpens, ToolCloses, HostReads, HostGivesUp, BusDelivers, BusTakes,
         PollLineState, BoardStands, rxVars
<1>3. CASE Heartbeat
  <2>1. /\ UNCHANGED << pending, hostIn, out, disturbed, calm, cout, hostOut >>
    BY <1>3 DEF Heartbeat, pastVars, sendVars
  <2>2. cin' = cin \/ cin = << >>
    BY <1>3, OneBeat
  <2>3. Coming => Coming'
    BY <1>2, <2>1, <2>2 DEF Coming
  <2>4. Stream' = Stream
    BY <1>2, <2>1 DEF Stream
  <2> QED  BY <1>2, <2>1, <2>3, <2>4, RestoredKept
<1>4. CASE ToolOpens \/ PollLineState
  <2>1. UNCHANGED << pending, hostIn, out, disturbed, calm, cout, hostOut, cin >>
    BY <1>4 DEF ToolOpens, PollLineState, BoardStands, pastVars, sendVars
  <2>2. Coming => Coming'
    BY <1>2, <2>1 DEF Coming
  <2>3. Stream' = Stream
    BY <1>2, <2>1 DEF Stream
  <2> QED  BY <1>2, <2>1, <2>2, <2>3, RestoredKept
<1>5. CASE ToolCloses
  <2>1. hostOut' = << >> /\ pending' = NoRequest /\ cout' = cout
    BY <1>5 DEF ToolCloses
  <2>2. CASE hostOut = << >> /\ UNCHANGED pastVars
    <3>1. Stream' = Stream
      BY <1>2, <2>1, <2>2 DEF Stream
    <3> QED  BY <1>2, <2>1, <2>2, <3>1, RestoredKept DEF pastVars
  <2>3. CASE Disturb
    <3>1. disturbed' = TRUE /\ calm' = 0
      BY <2>3 DEF Disturb
    <3>2. stalled' => pc' = "loop"
      BY <1>2 DEF Restored, Attended
    <3> QED  BY <1>2, <2>1, <3>1, <3>2, RestoredAfterFault
  <2> QED  BY <1>5, <2>2, <2>3 DEF ToolCloses
<1>6. CASE HostReads
  <2>1. /\ UNCHANGED << out, disturbed, calm, cout, hostOut, cin >>
        /\ hostIn # << >> /\ hostIn' = Tail(hostIn)
        /\ pending' = IF Head(hostIn).id = pending.id THEN NoRequest ELSE pending
    BY <1>6 DEF HostReads, BoardStands, pastVars, sendVars
  <2>2. CASE Head(hostIn).id = pending.id
    <3>1. Stream' = Stream
      BY <1>2, <2>1 DEF Stream
    <3> QED  BY <1>2, <2>1, <2>2, <3>1, RestoredKept
  <2>3. CASE Head(hostIn).id # pending.id
    <3>1. \A i \in DOMAIN hostIn : hostIn[i].id = pending.id => \E j \in DOMAIN hostIn' :
                                                             hostIn'[j] = hostIn[i]
      <4> SUFFICES ASSUME NEW i \in DOMAIN hostIn, hostIn[i].id = pending.id
                   PROVE  \E j \in DOMAIN hostIn' : hostIn'[j] = hostIn[i]
        OBVIOUS
      <4>1. /\ Head(hostIn) = hostIn[1] /\ Tail(hostIn) \in Seq(Answers \cup Beats)
            /\ Len(hostIn) \in Nat \ {0} /\ Len(Tail(hostIn)) = Len(hostIn) - 1
            /\ \A j \in 1 .. Len(Tail(hostIn)) : Tail(hostIn)[j] = hostIn[j + 1]
        BY <1>1, <2>1, FirstToken
      <4>2. i \in 1 .. Len(hostIn) /\ i # 1
        BY <1>1, <2>3, <4>1
      <4>3. i - 1 \in 1 .. Len(Tail(hostIn)) /\ (i - 1) + 1 = i
        BY <4>1, <4>2
      <4>4. Tail(hostIn)[i - 1] = hostIn[i] /\ i - 1 \in DOMAIN Tail(hostIn)
        BY <4>1, <4>3
      <4> QED  BY <2>1, <4>4
    <3>2. Coming => Coming'
      BY <1>2, <2>1, <2>3, <3>1 DEF Coming
    <3>3. Stream' = Stream
      BY <1>2, <2>1 DEF Stream
    <3> QED  BY <1>2, <2>1, <2>3, <3>2, <3>3, RestoredKept
  <2> QED  BY <2>2, <2>3
<1>7. CASE HostGivesUp
  <2>1. UNCHANGED << disturbed, calm, cout, hostOut >> /\ pending' = NoRequest
    BY <1>7 DEF HostGivesUp, pastVars, sendVars
  <2>2. Stream' = Stream
    BY <1>2, <2>1 DEF Stream
  <2> QED  BY <1>2, <2>1, <2>2, RestoredKept
<1>8. CASE BusDelivers
  <2>1. PICK k \in 1 .. Len(hostOut) :
          cout' = SubSeq(hostOut, 1, k) /\ hostOut' = SubSeq(hostOut, k + 1, Len(hostOut))
    BY <1>8 DEF BusDelivers
  <2>2. cout = << >> /\ UNCHANGED << out, disturbed, calm, pending, hostIn, cin >>
    BY <1>8 DEF BusDelivers, BoardStands, pastVars
  <2>3. cout' \o hostOut' = hostOut /\ cout' \in Seq(Tokens) /\ hostOut' \in Seq(Tokens)
    <3>1. Len(hostOut) \in Nat /\ k \in 1 .. Len(hostOut)
      BY <1>1
    <3>2. 1 \in 1 .. Len(hostOut) + 1 /\ k \in 1 - 1 .. Len(hostOut)
          /\ Len(hostOut) \in k .. Len(hostOut)
      BY <3>1
    <3>3. SubSeq(hostOut, 1, k) \o SubSeq(hostOut, k + 1, Len(hostOut)) =
            SubSeq(hostOut, 1, Len(hostOut))
      BY <1>1, <3>2, ConcatAdjacentSubSeq
    <3>4. SubSeq(hostOut, 1, Len(hostOut)) = hostOut
      BY <1>1, SubSeqFull
    <3>5. SubSeq(hostOut, 1, k) \in Seq(Tokens) /\ SubSeq(hostOut, k + 1, Len(hostOut)) \in Seq(Tokens)
      BY <1>1, <3>1
    <3> QED  BY <2>1, <3>3, <3>4, <3>5
  <2>4. Stream' = Stream
    <3>1. PICK b, c : b = cout' /\ c = hostOut'
      OBVIOUS
    <3>2. b \in Seq(Tokens) /\ c \in Seq(Tokens) /\ b \o c = hostOut
      BY <2>3, <3>1
    <3>3. (rx_buf \o b) \o c = rx_buf \o (b \o c)
      <4>1. rx_buf \in Seq(Tokens) /\ b \in Seq(Tokens) /\ c \in Seq(Tokens)
        BY <1>1, <3>2
      <4> QED  BY <4>1, ConcatAssociative, SMTT(40)
    <3>4. rx_buf \o << >> = rx_buf
      BY <1>1, ConcatEmptySeq
    <3>5. Stream' = (rx_buf \o b) \o c
      BY <1>2, <3>1 DEF Stream
    <3>6. Stream = rx_buf \o hostOut
      BY <2>2, <3>4 DEF Stream
    <3> QED  BY <3>2, <3>3, <3>5, <3>6
  <2>5. Coming => Coming'
    BY <1>2, <2>2 DEF Coming
  <2> QED  BY <1>2, <2>2, <2>4, <2>5, RestoredKept
<1>9. CASE BusTakes
  <2>1. /\ UNCHANGED << out, disturbed, calm, cout, hostOut, pending >>
        /\ hostIn' = Append(hostIn, cin[1]) /\ cin # << >> /\ cin' = << >>
    BY <1>9 DEF BusTakes, BoardStands, pastVars, sendVars
  <2>2. /\ \A i \in DOMAIN hostIn : i \in DOMAIN hostIn' /\ hostIn'[i] = hostIn[i]
        /\ \E j \in DOMAIN hostIn' : hostIn'[j] = cin[1]
    <3>1. cin[1] \in Answers \cup Beats
      BY <1>1, <2>1, FirstToken
    <3>2. /\ Append(hostIn, cin[1]) \in Seq(Answers \cup Beats)
          /\ Len(Append(hostIn, cin[1])) = Len(hostIn) + 1 /\ Len(hostIn) \in Nat
          /\ \A i \in 1 .. Len(hostIn) : Append(hostIn, cin[1])[i] = hostIn[i]
          /\ Append(hostIn, cin[1])[Len(hostIn) + 1] = cin[1]
      BY <1>1, <3>1, AppendProperties
    <3>3. /\ DOMAIN hostIn = 1 .. Len(hostIn)
          /\ DOMAIN Append(hostIn, cin[1]) = 1 .. Len(hostIn) + 1
      BY <1>1, <3>2
    <3>4. Len(hostIn) + 1 \in 1 .. Len(hostIn) + 1
          /\ \A i \in 1 .. Len(hostIn) : i \in 1 .. Len(hostIn) + 1
      BY <3>2
    <3> QED  BY <2>1, <3>2, <3>3, <3>4
  <2>3. Coming => Coming'
    BY <1>2, <2>1, <2>2 DEF Coming
  <2>4. Stream' = Stream
    BY <1>2, <2>1 DEF Stream
  <2> QED  BY <1>2, <2>1, <2>3, <2>4, RestoredKept
<1> QED  BY <1>3, <1>4, <1>5, <1>6, <1>7, <1>8, <1>9

\* A request's frame behind what is on its way: its answer is due.
LEMMA RestoredByRequest ==
  ASSUME TypeOK, Restored, NEW kind \in Kinds, Request(kind)
  PROVE  Restored'
<1>1. /\ UNCHANGED << rx_state, rx_magic_at, rx_hdr, rx_payload, rx_skip, quiet, pc, stalled,
                      ctl_tx_dropped, rx_buf, cout, disturbed >>
      /\ hostOut' = hostOut \o Frame(requests', tool, nextId, kind)
      /\ requests' = requests + 1
      /\ pending' = [n |-> requests', id |-> nextId, age |-> 0, clean |-> Calm,
                     txd |-> ctl_tx_dropped]
      /\ calm' = IF Calm THEN calm ELSE 0
  BY DEF Request, BoardStands, rxVars
<1>2. /\ rx_buf \in Seq(Tokens) /\ cout \in Seq(Tokens) /\ hostOut \in Seq(Tokens)
      /\ requests + 1 \in Nat /\ requests + 1 > 0 /\ tool \in Nat /\ nextId \in Nat
      /\ ctl_tx_dropped \in Nat
  <2>1. rx_buf \in Seq(Tokens) /\ cout \in Seq(Tokens) /\ hostOut \in Seq(Tokens)
    BY DEF TypeOK, Receives, Waits
  <2>2. requests \in Nat /\ tool \in Nat /\ nextId \in 1 .. IDS
    BY DEF TypeOK, Waits
  <2>3. ctl_tx_dropped \in Nat
    BY DEF TypeOK, Sends
  <2>4. requests + 1 \in Nat /\ requests + 1 > 0 /\ nextId \in Nat
    BY <2>2, CtlAssumption
  <2> QED  BY <2>1, <2>2, <2>3, <2>4
<1>3. /\ pending'.clean = Calm /\ pending'.txd = ctl_tx_dropped /\ pending'.age = 0
      /\ pending'.id = nextId
  BY <1>1
<1>4. Calm' <=> Calm
  <2>1. ~(0 > IDLE)
    BY CtlAssumption
  <2>2. CASE Calm
    BY <1>1, <2>2 DEF Calm
  <2>3. CASE ~Calm
    BY <1>1, <2>1, <2>3 DEF Calm
  <2> QED  BY <2>2, <2>3
<1>5. Attended'
  <2>1. ~(0 > 0) /\ ctl_tx_dropped >= ctl_tx_dropped
    BY <1>2
  <2> QED  BY <1>1, <1>3, <1>4, <2>1 DEF Attended, Restored
<1>6. Quieting'
  <2>1. 0 \notin 1 .. IDLE /\ \A c \in 1 .. IDLE : ~(c > IDLE)
    BY CtlAssumption
  <2>2. ~(disturbed /\ ~stalled /\ calm' \in 1 .. IDLE)
    BY <1>1, <2>1 DEF Calm
  <2> QED  BY <1>1, <2>2 DEF Quieting
<1>7. Synced'
  <2> SUFFICES ASSUME Calm' PROVE \E lab : InStep(lab)' /\ (pending'.clean => Due(lab)' \/ Coming')
    BY DEF Synced
  <2>1. PICK lab : InStep(lab)
    BY <1>4 DEF Restored, Synced
  <2>2. PICK r \in Nat, i \in Nat : r = requests + 1 /\ i = nextId /\ r > 0
    BY <1>2
  <2>3. PICK f, g : /\ f = Frame(r, tool, i, kind)
                    /\ f \in Seq(Tokens) /\ Placed(g, f) /\ Len(f) = FrameEnd(kind) /\ g[1].pos = 1
                    /\ \A j \in 1 .. FrameEnd(kind) :
                         g[j].id = i /\ g[j].kind = kind /\ g[j].pos = j
    <3>1. PICK f, g : FramePlaced(f, g, r, tool, i, kind)
      BY <1>2, <2>2, PlacedFrame
    <3> QED  BY <3>1 DEF FramePlaced
  <2>4. FrameEnd(kind) \in Nat /\ FrameEnd(kind) >= 5
    BY FrameEnds
  <2>5. PICK s : s = Stream
    OBVIOUS
  <2>6. s \in Seq(Tokens) /\ s = (rx_buf \o cout) \o hostOut
    BY <1>2, <2>5 DEF Stream
  <2>7. Stream' = s \o f
    <3>1. PICK b : b = rx_buf \o cout
      OBVIOUS
    <3>2. b \in Seq(Tokens) /\ hostOut \in Seq(Tokens) /\ f \in Seq(Tokens)
      BY <1>2, <2>3, <3>1
    <3>3. (b \o hostOut) \o f = b \o (hostOut \o f)
      BY <3>2, ConcatAssociative
    <3>4. hostOut' = hostOut \o f
      BY <1>1, <2>2, <2>3
    <3>5. Stream' = b \o (hostOut \o f)
      BY <1>1, <3>1, <3>4 DEF Stream
    <3> QED  BY <2>6, <3>1, <3>3, <3>5
  <2>8. Placed(lab, s) /\ IF s = << >> THEN AtStart ELSE At(lab[1])
    BY <2>1, <2>5 DEF InStep
  <2>9. Len(f) > 0
    BY <2>3, <2>4
  <2>10. PICK e, t : e = lab \o g /\ t = s \o f
    OBVIOUS
  <2>11. /\ Placed(e, t) /\ e[1] = (IF s = << >> THEN g[1] ELSE lab[1])
         /\ Len(e) = Len(s) + Len(f)
         /\ \A j \in 1 .. Len(f) : e[Len(s) + j] = g[j]
    <3>1. s \in Seq(Tokens) /\ f \in Seq(Tokens) /\ Placed(lab, s) /\ Placed(g, f)
          /\ Len(f) > 0 /\ g[1].pos = 1
      BY <2>3, <2>6, <2>8, <2>9
    <3>2. Joined(lab, g, s, f)
      BY <3>1, PlacedBehind
    <3> QED  BY <2>10, <3>2 DEF Joined
  <2>12. t # << >>
    <3>1. Len(s) \in Nat /\ t \in Seq(Tokens) /\ Len(t) = Len(s) + Len(f)
      <4>1. s \in Seq(Tokens) /\ f \in Seq(Tokens)
        BY <2>3, <2>6
      <4> QED  BY <2>10, <4>1, ConcatProperties, LenProperties
    <3>2. Len(t) > 0
      BY <2>3, <2>4, <3>1
    <3> QED  BY <3>2
  <2>13. AtStart' <=> AtStart
    BY <1>1 DEF AtStart
  <2>14. PICK l : l = e[1]
    OBVIOUS
  <2>15. At(l)'
    <3>1. CASE s = << >>
      <4>1. l.pos = 1 /\ AtStart'
        BY <2>3, <2>8, <2>11, <2>13, <2>14, <3>1
      <4> QED  BY <4>1 DEF At
    <3>2. CASE s # << >>
      <4>1. At(l)
        BY <2>8, <2>11, <2>14, <3>2
      <4> QED  BY <1>1, <2>13, <4>1 DEF At
    <3> QED  BY <3>1, <3>2
  <2>16. InStep(e)'
    BY <2>7, <2>10, <2>11, <2>12, <2>14, <2>15 DEF InStep
  <2>17. PICK a \in Nat : a = (IF kind \in Refused THEN 5 ELSE FrameEnd(kind)) /\ a \in 1 .. FrameEnd(kind)
    BY <2>4
  <2>18. PICK m \in Nat : m = Len(s)
    BY <2>6, LenProperties
  <2>19. /\ e[m + a] = g[a] /\ g[a].id = nextId /\ g[a].kind = kind /\ g[a].pos = a
         /\ m + a \in 1 .. Len(e)
    <3>1. a \in 1 .. Len(f) /\ Len(e) = m + FrameEnd(kind)
      BY <2>3, <2>11, <2>17, <2>18
    <3>2. e[m + a] = g[a]
      BY <2>11, <2>18, <3>1
    <3>3. g[a].id = nextId /\ g[a].kind = kind /\ g[a].pos = a
      BY <2>2, <2>3, <2>17
    <3>4. m + a \in 1 .. m + FrameEnd(kind)
      BY <2>4, <2>17, <2>18
    <3> QED  BY <3>1, <3>2, <3>3, <3>4
  <2>20. Answered(e[m + a]) /\ e[m + a].id = pending'.id
    BY <1>3, <2>17, <2>19 DEF Answered
  <2>21. Due(e)'
    BY <2>19, <2>20 DEF Due
  <2> QED  BY <2>16, <2>21
<1> QED  BY <1>5, <1>6, <1>7 DEF Restored

\* Time: a tick finds nothing under way, unless the main loop is busy elsewhere.
LEMMA RestoredByTick ==
  ASSUME TypeOK, Restored, Tick
  PROVE  Restored'
<1>1. /\ Settled
      /\ quiet' = (IF rx_state = "MAGIC" THEN 0 ELSE UpTo(quiet, IDLE + 1))
      /\ calm' = (IF disturbed THEN UpTo(calm, IDLE + 1) ELSE 0)
      /\ pending' = IF pending = NoRequest THEN NoRequest ELSE [pending EXCEPT !.age = @ + 1]
      /\ UNCHANGED << rx_state, rx_magic_at, rx_hdr, rx_payload, rx_skip, rx_buf, pc, out,
                      ctl_tx_dropped, cin, cout, hostOut, hostIn, stalled, disturbed >>
  BY DEF Tick, rxVars, txVars, sendVars
<1>2. /\ quiet \in 0 .. IDLE + 1 /\ calm \in 0 .. IDLE + 1 /\ IDLE \in Nat
      /\ pending \in [n : Nat, id : Nat, age : Nat, clean : BOOLEAN, txd : Nat]
  BY CtlAssumption DEF TypeOK, Receives, Waits
<1>3. /\ pending'.clean = pending.clean /\ pending'.txd = pending.txd /\ pending'.id = pending.id
  BY <1>1, <1>2
<1>4. ~stalled => rx_buf = << >> /\ cout = << >> /\ hostOut = << >> /\ Stream = << >> /\ pc = "loop"
  BY <1>1 DEF Settled, Stream
<1>5. Stream' = Stream
  BY <1>1 DEF Stream
<1>6. /\ \A k \in 0 .. IDLE + 1 : /\ UpTo(k, IDLE + 1) \in 0 .. IDLE + 1 /\ UpTo(k, IDLE + 1) >= k
                                  /\ k > IDLE => UpTo(k, IDLE + 1) > IDLE
                                  /\ k < IDLE + 1 => UpTo(k, IDLE + 1) = k + 1
  BY <1>2 DEF UpTo
<1>7. Calm => Calm'
  <2> SUFFICES ASSUME Calm PROVE Calm'
    OBVIOUS
  <2>1. disturbed => calm > IDLE
    BY DEF Calm
  <2>2. disturbed => UpTo(calm, IDLE + 1) > IDLE
    BY <1>2, <1>6, <2>1
  <2> QED  BY <1>1, <2>2 DEF Calm
<1>8. pending.clean => ctl_tx_dropped > pending.txd
  <2> SUFFICES ASSUME pending.clean PROVE ctl_tx_dropped > pending.txd
    OBVIOUS
  <2>1. pending # NoRequest /\ toolOpen
    <3>1. ~NoRequest.clean
      BY DEF NoRequest
    <3> QED  BY <3>1 DEF TypeOK, Waits
  <2>2. cin = << >> /\ hostIn = << >>
    BY <1>1, <2>1 DEF Settled
  <2>3. Calm /\ ~stalled
    BY DEF Restored, Attended, Calm
  <2>4. PICK lab : InStep(lab) /\ (Due(lab) \/ Coming)
    BY <2>3 DEF Restored, Synced
  <2>5. ~Due(lab)
    <3>1. Len(lab) = 0
      <4>1. PICK s : s = Stream
        OBVIOUS
      <4>2. Placed(lab, s) /\ s = << >>
        BY <1>4, <2>3, <2>4, <4>1 DEF InStep
      <4> QED  BY <4>2 DEF Placed
    <3> QED  BY <3>1 DEF Due
  <2>6. DOMAIN hostIn = {} /\ pc = "loop"
    BY <1>4, <2>2, <2>3
  <2> QED  BY <2>2, <2>4, <2>5, <2>6 DEF Coming
<1>9. Attended'
  BY <1>1, <1>3, <1>7, <1>8 DEF Attended, Restored
<1>10. Quieting'
  <2> SUFFICES ASSUME disturbed, ~stalled, calm' \in 1 .. IDLE
               PROVE  /\ Stream' = << >> /\ pc' = "loop"
                      /\ rx_state' # "MAGIC" => quiet' >= calm'
    BY <1>1 DEF Quieting
  <2>1. PICK c, q : c = calm' /\ q = quiet'
    OBVIOUS
  <2>2. c = UpTo(calm, IDLE + 1) /\ c \in 1 .. IDLE
    BY <1>1, <2>1
  <2>3. calm < IDLE + 1 /\ c = calm + 1
    <3>1. calm > IDLE => c > IDLE
      BY <1>2, <1>6, <2>2
    <3>2. calm < IDLE + 1
      BY <1>2, <2>2, <3>1
    <3> QED  BY <1>2, <1>6, <2>2, <3>2
  <2>4. rx_state # "MAGIC" => quiet >= calm
    <3>1. CASE calm = 0
      BY <1>2, <3>1
    <3>2. CASE calm \in 1 .. IDLE
      BY <3>2 DEF Restored, Quieting
    <3> QED  BY <1>2, <2>3, <3>1, <3>2
  <2>5. rx_state # "MAGIC" => q >= c
    <3> SUFFICES ASSUME rx_state # "MAGIC" PROVE q >= c
      OBVIOUS
    <3>1. q = UpTo(quiet, IDLE + 1) /\ quiet >= calm
      BY <1>1, <2>1, <2>4
    <3>2. CASE quiet < IDLE + 1
      BY <1>2, <1>6, <2>2, <2>3, <3>1, <3>2
    <3>3. CASE ~(quiet < IDLE + 1)
      <4>1. quiet = IDLE + 1 /\ q = IDLE + 1
        BY <1>2, <1>6, <3>1, <3>3 DEF UpTo
      <4> QED  BY <1>2, <2>2, <4>1
    <3> QED  BY <3>2, <3>3
  <2> QED  BY <1>1, <1>4, <1>5, <2>1, <2>5
<1>11. Synced'
  <2> SUFFICES ASSUME Calm' PROVE \E lab : InStep(lab)' /\ (pending'.clean => Due(lab)' \/ Coming')
    BY DEF Synced
  <2>1. ~stalled /\ Stream = << >> /\ pc = "loop"
    BY <1>1, <1>4 DEF Calm
  <2>2. pending'.clean => Coming'
    BY <1>1, <1>3, <1>8 DEF Coming
  <2>3. AtStart'
    <3>1. CASE Calm
      <4>1. PICK lab : InStep(lab)
        BY <3>1 DEF Restored, Synced
      <4>2. AtStart
        BY <2>1, <4>1 DEF InStep
      <4>3. quiet > IDLE /\ rx_state # "MAGIC" => quiet' > IDLE
        BY <1>1, <1>2, <1>6
      <4> QED  BY <1>1, <4>2, <4>3 DEF AtStart
    <3>2. CASE ~Calm
      <4>1. disturbed /\ ~(calm > IDLE)
        BY <2>1, <3>2 DEF Calm
      <4>2. UpTo(calm, IDLE + 1) > IDLE
        BY <1>1, <4>1 DEF Calm
      <4>3. calm = IDLE
        BY <1>2, <1>6, <4>1, <4>2
      <4>4. rx_state # "MAGIC" => quiet >= IDLE
        <5>1. CASE IDLE = 0
          BY <1>2, <5>1
        <5>2. CASE IDLE # 0
          <6>1. calm \in 1 .. IDLE
            BY <1>2, <4>3, <5>2
          <6> QED  BY <2>1, <4>1, <4>3, <6>1 DEF Restored, Quieting
        <5> QED  BY <5>1, <5>2
      <4>5. rx_state # "MAGIC" => UpTo(quiet, IDLE + 1) > IDLE
        BY <1>2, <4>4 DEF UpTo
      <4> QED  BY <1>1, <2>1, <4>5 DEF AtStart
    <3> QED  BY <3>1, <3>2
  <2>4. PICK lab : lab = << >>
    OBVIOUS
  <2>5. Placed(lab, << >>)
    <3>1. lab \in Seq(Places) /\ Len(lab) = 0 /\ Len(<< >>) = 0
      BY <2>4
    <3> QED  BY <3>1 DEF Placed
  <2>6. InStep(lab)'
    BY <1>5, <2>1, <2>3, <2>5 DEF InStep
  <2> QED  BY <2>2, <2>6
<1> QED  BY <1>9, <1>10, <1>11 DEF Restored

\* A fault, and the end of a stall: nothing is promised yet.
LEMMA RestoredByFault ==
  ASSUME TypeOK, Restored, ReallocControl \/ Stall \/ StallEnds
  PROVE  Restored'
<1>1. /\ disturbed' = TRUE /\ calm' = 0
  <2>1. CASE ReallocControl \/ Stall
    BY <2>1 DEF ReallocControl, Stall, Disturb
  <2>2. CASE StallEnds
    <3>1. stalled /\ disturbed \in BOOLEAN /\ (stalled => disturbed)
      BY <2>2 DEF StallEnds, TypeOK, Waits
    <3> QED  BY <2>2, <3>1 DEF StallEnds
  <2> QED  BY <2>1, <2>2
<1>2. stalled' => pc' = "loop"
  BY DEF ReallocControl, Stall, StallEnds, BoardStands
<1>3. ctl_tx_dropped' = ctl_tx_dropped /\ Unclean
  BY DEF ReallocControl, Stall, StallEnds, BoardStands
<1> QED  BY <1>1, <1>2, <1>3, RestoredAfterFault

LEMMA RestoredInit == Init => Restored
<1> SUFFICES ASSUME Init PROVE Restored
  OBVIOUS
<1>1. /\ rx_buf = << >> /\ cout = << >> /\ hostOut = << >> /\ rx_state = "MAGIC"
      /\ pending = NoRequest /\ ctl_tx_dropped = 0 /\ disturbed = FALSE /\ stalled = FALSE
      /\ calm = 0
  BY DEF Init
<1>2. ~NoRequest.clean /\ NoRequest.txd = 0
  BY DEF NoRequest
<1>3. Stream = << >>
  BY <1>1 DEF Stream
<1>4. PICK lab : lab = << >>
  OBVIOUS
<1>5. Placed(lab, << >>)
  <2>1. lab \in Seq(Places) /\ Len(lab) = 0 /\ Len(<< >>) = 0
    BY <1>4
  <2> QED  BY <2>1 DEF Placed
<1>6. InStep(lab)
  BY <1>1, <1>3, <1>5 DEF InStep, AtStart
<1>7. Synced
  BY <1>1, <1>2, <1>6 DEF Synced
<1>8. Attended /\ Quieting
  BY <1>1, <1>2 DEF Attended, Quieting
<1> QED  BY <1>7, <1>8 DEF Restored

LEMMA RestoredStep == TypeOK /\ WireInv /\ Restored /\ [Next]_vars => Restored'
<1> SUFFICES ASSUME TypeOK, WireInv, Restored, [Next]_vars PROVE Restored'
  OBVIOUS
<1>1. CASE UNCHANGED vars
  <2>1. /\ UNCHANGED << rx_state, rx_magic_at, rx_hdr, rx_payload, rx_skip, quiet, pc >>
        /\ UNCHANGED << stalled, disturbed, calm, ctl_tx_dropped, pending >>
        /\ UNCHANGED << rx_buf, cout, hostOut, out, cin, hostIn >>
    BY <1>1 DEF vars, rxVars, txVars, sendVars, pastVars
  <2>2. Stream' = Stream /\ (Coming => Coming')
    BY <2>1 DEF Stream, Coming
  <2> QED  BY <2>1, <2>2, RestoredKept
<1>2. CASE FeedMagic \/ FeedHeader \/ FeedPayload \/ FeedSkip
  BY <1>2, RestoredByFeed
<1>3. CASE ServiceEnter \/ RespondBegin \/ RespondTest \/ RespondCommit
  BY <1>3, RestoredByService, RestoredByRespond
<1>4. CASE \E kind \in Kinds : Request(kind)
  BY <1>4, RestoredByRequest
<1>5. CASE \/ Heartbeat \/ ToolOpens \/ ToolCloses \/ HostReads \/ HostGivesUp
           \/ BusDelivers \/ BusTakes \/ PollLineState
  BY <1>5, RestoredByOthers
<1>6. CASE ReallocControl \/ Stall \/ StallEnds \/ Tick
  BY <1>6, RestoredByFault, RestoredByTick
<1> QED  BY <1>1, <1>2, <1>3, <1>4, <1>5, <1>6 DEF Next

\* A request begun after a silence, whatever state a fault had left the parser in,
\* and not disturbed while it waits, is answered within a tick, unless the answer was
\* dropped and counted (ctl_service's CTL_IDLE_US, ctl_header_complete's skipping).
THEOREM SilenceIsEnough == Spec => []SilenceRestores
<1>1. Restored /\ TypeOK => SilenceRestores
  <2>1. TIMEOUT > 0
    BY CtlAssumption
  <2> QED  BY <2>1 DEF Restored, Attended, SilenceRestores
<1> QED  BY <1>1, RestoredInit, RestoredStep, TypeInit, WireInit, TypeStep, PTL DEF Spec

\* What was never sent as a frame is obeyed only if something was lost or cut short
\* before: until then the parser takes every token for what it was sent as, and skips
\* a refused payload to its end (ctl_header_complete, CTL_RX_SKIP).
THEOREM OnlyFramesAreObeyed == Spec => []NoGhost
<1>1. Init => NoGhost
  BY DEF Init, NoGhost
<1>2. TypeOK /\ Restored /\ NoGhost /\ [Next]_vars => NoGhost'
  <2> SUFFICES ASSUME TypeOK, Restored, NoGhost, [Next]_vars PROVE NoGhost'
    OBVIOUS
  <2>1. CASE FeedMagic \/ FeedHeader \/ FeedPayload \/ FeedSkip
    <3>1. disturbed' = disturbed
      BY <2>1 DEF FeedMagic, FeedHeader, FeedPayload, FeedSkip, Feed, pastVars
    <3>2. ghost' # ghost => disturbed'
      BY <2>1, RestoredByFeed
    <3> QED  BY <3>1, <3>2 DEF NoGhost
  <2>2. CASE ~(FeedMagic \/ FeedHeader \/ FeedPayload \/ FeedSkip)
    <3>1. ghost' = ghost
      BY <2>2 DEF Next, vars, ServiceEnter, RespondBegin, RespondTest, RespondCommit,
                  RespondStep, Heartbeat, ToolOpens, ToolCloses, Request, HostReads,
                  HostGivesUp, BusDelivers, BusTakes, PollLineState, ReallocControl, Stall,
                  StallEnds, Tick, BoardStands
    <3>2. disturbed' = disturbed \/ disturbed' = TRUE
      BY <2>2 DEF Next, vars, ServiceEnter, RespondBegin, RespondTest, RespondCommit,
                  RespondStep, Heartbeat, ToolOpens, ToolCloses, Request, HostReads,
                  HostGivesUp, BusDelivers, BusTakes, PollLineState, ReallocControl, Stall,
                  StallEnds, Tick, Disturb, pastVars
    <3> QED  BY <3>1, <3>2 DEF NoGhost
  <2> QED  BY <2>1, <2>2
<1> QED  BY <1>1, <1>2, RestoredInit, RestoredStep, TypeInit, WireInit, TypeStep, PTL DEF Spec
=============================================================================
