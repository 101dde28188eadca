---------------------------- MODULE CaptureRing ----------------------------
(***************************************************************************)
(* The sample path of the oscilloscope, from the ADC's peripheral DMA      *)
(* controller (PDC) to the USB IN endpoint: the four-slot capture ring of  *)
(* drivers/acq.c, its interrupt handler, and the shared framer of          *)
(* lib/due_shared/src/stream_core.c that sends one slot as one frame.      *)
(*                                                                         *)
(* Three actors share the ring and none of them waits for another: the PDC *)
(* fills slots at the ADC's rate, the interrupt handler hands it the next  *)
(* slot, and the main loop lends the head slot to the USB DMA channel.     *)
(*                                                                         *)
(* A capture buffer is named by its ordinal, 1, 2, 3, ... in the order the *)
(* PDC started them in this capture; slot[s] is the ordinal most recently started in s, so *)
(* a slot whose ordinal changed while its frame was in flight is a torn    *)
(* frame.  The samples themselves are not represented.                     *)
(* Definitions named Fault_... are seeded faults: each is a plausible slip  *)
(* in the definition after it, kept to show that the properties notice it. *)
(***************************************************************************)
EXTENDS Integers, FiniteSets

CONSTANTS
  NBUF,              \* slots in the ring (ACQ_NBUF = STREAM_NBUF = 4)
  CHUNKS,            \* DMA transfers one frame takes (8 of 512 bytes)
  BUDGET,            \* iterations of one stream_core_service call (4)
  StopCanFail,       \* may dma_channel_stop run out of spins?
  StartWhileActive,  \* may a start command arrive during a capture?
  MaxBuffers,        \* bound: buffers the PDC starts in one capture
  MaxLosses,         \* bound: buffers of one capture that lose samples
  MaxStarts,         \* bound: start commands
  MaxPortChanges     \* bound: DTR edges, bus resets, configurations

ASSUME RingAssumption ==
  /\ NBUF \in Nat /\ NBUF >= 3
  /\ CHUNKS \in Nat \ {0}
  /\ BUDGET \in Nat \ {0}

ASSUME BoundAssumption ==
  /\ StopCanFail \in BOOLEAN
  /\ StartWhileActive \in BOOLEAN
  /\ MaxBuffers \in Nat /\ MaxLosses \in Nat
  /\ MaxStarts \in Nat /\ MaxPortChanges \in Nat

Slots  == 0 .. NBUF - 1
NoSlot == -1                \* a PDC pointer pair or DMA channel that is idle

VARIABLES
  \* drivers/acq.c
  capturing,         \* conversions triggered, ADC interrupt unmasked
  filling,           \* slot the handler believes the PDC is filling
  acq_produced, acq_consumed,
  acq_rxbuff_overruns, acq_govre, acq_ring_overflow,
  \* lib/due_shared/src/stream_core.c
  active, tx_dma, tx_phase, tx_off, seq, pending_overrun, resync_count,
  tx_hdr,            \* the header last built, with the ordinal it was built for
  budget,            \* iterations left of the service call; 0: not in a call
  \* the hardware
  rpr, rnpr,         \* slots in the PDC's current and next pointer
  endrx, govreFlag,  \* ADC_ISR.ENDRX and ADC_ISR.GOVRE, not yet read
  slot,              \* ordinal of the buffer last started in each slot
  started,           \* buffers the PDC has started
  inSrc,             \* slot the USB IN DMA channel is reading
  ready,             \* usb_cdc_ready(): configured and DTR raised
  \* what happened, for the properties
  lossy,             \* ordinals that do not join on to the one before
  spoiled,           \* the PDC has started on the slot of the frame in flight
  last,              \* ordinal of the last frame sent whole on this port
                     \* session, 0 before the first
  joined,            \* did that frame join on to the one sent before it?
  quiet,             \* frames sent since one carried FRAME_FLAG_OVERRUN, up to
                     \* NBUF, which is also what a start leaves
  torn,              \* frames sent out of a slot the PDC was rewriting
  stopFailed,        \* dma_channel_stop gave up at least once
  starts, portChanges

acqVars  == << capturing, filling, acq_produced, acq_consumed,
               acq_rxbuff_overruns, acq_govre, acq_ring_overflow >>
txVars   == << active, tx_dma, tx_phase, tx_off, seq, pending_overrun,
               resync_count, tx_hdr, budget >>
pdcVars  == << rpr, rnpr, endrx, govreFlag, slot, started >>
usbVars  == << inSrc, ready >>
sentVars == << last, joined, quiet, torn >>
pastVars == << lossy, spoiled, stopFailed, starts, portChanges >>
vars     == << acqVars, txVars, pdcVars, usbVars, sentVars, pastVars >>

NoHeader == [seq |-> 0, overrun |-> 0, flagged |-> FALSE, ord |-> 0]

----------------------------------------------------------------------------
(* Helpers *)

Occupancy == acq_produced - acq_consumed
SlotOf(i) == i % NBUF
Head      == SlotOf(acq_consumed)

NextSlot(s) == (s + 1) % NBUF

\* The slot the handler gives the PDC to take after slot f.
Fault_ReloadSlot(f) == f
ReloadSlot(f) == NextSlot(f)

\* The handler's overflow test: the writer is about to reach the head slot.
Fault_Overtaking == Occupancy > NBUF - 1
Overtaking == Occupancy >= NBUF - 1

\* acq_frame_available
Available == acq_produced # acq_consumed

\* stream_port_ready: the UART is always ready, USB when the host holds DTR
PortReady == ~tx_dma \/ ready

\* The count every header carries: each way samples can be lost, summed.
Fault_Overruns(resyncs) == acq_rxbuff_overruns + acq_ring_overflow + resyncs
Overruns(resyncs) ==
  acq_rxbuff_overruns + acq_govre + acq_ring_overflow + resyncs

\* Part of the frame being sent is still to be read out of its slot.
Unread ==
  \/ tx_phase = "HEADER"
  \/ tx_phase \in {"DMA", "PAYLOAD"} /\ (inSrc # NoSlot \/ tx_off < CHUNKS)

\* The ADC interrupt outranks everything, so the main loop takes no step
\* while it is pending.  The hardware does not wait for it: how late it may be
\* is not bounded here, as ADC_Handler does not assume a bound but counts the
\* case in which the PDC ran dry.
InterruptPending == capturing /\ endrx
BetweenCalls == budget = 0 /\ ~InterruptPending
InService    == budget > 0 /\ ~InterruptPending

\* dma_channel_stop on the IN channel: the channel is idle afterwards, or the
\* bounded wait ran out and it is still enabled.
StopInChannel ==
  \/ /\ inSrc' = NoSlot
     /\ UNCHANGED stopFailed
  \/ /\ StopCanFail
     /\ inSrc # NoSlot
     /\ stopFailed' = TRUE
     /\ UNCHANGED inSrc

\* The PDC starts writing slot s from its first sample.
PdcStarts(s) ==
  /\ started' = started + 1
  /\ slot' = [slot EXCEPT ![s] = started + 1]
  /\ spoiled' = (spoiled \/ (Unread /\ s = Head))

----------------------------------------------------------------------------
(* Commands, run by the main loop between service calls *)

InitFramer ==
  /\ seq' = 0
  /\ pending_overrun' = 0
  /\ resync_count' = 0
  /\ tx_phase' = "IDLE"
  /\ tx_off' = 0

CanStart ==
  /\ BetweenCalls
  /\ starts < MaxStarts
  /\ active => StartWhileActive
  /\ starts' = starts + 1

\* acq_start's half of a start: counters to zero, PDC on slots 0 and 1.
AcqStart ==
  /\ capturing' = TRUE
  /\ filling' = 0
  /\ acq_produced' = 0 /\ acq_consumed' = 0
  /\ acq_rxbuff_overruns' = 0 /\ acq_govre' = 0 /\ acq_ring_overflow' = 0
  /\ rpr' = 0 /\ rnpr' = 1
  /\ endrx' = FALSE /\ govreFlag' = FALSE
  /\ started' = 1
  /\ slot' = [s \in Slots |-> IF s = 0 THEN 1 ELSE 0]
  /\ lossy' = {}

StreamCoreStart(usb) ==
  /\ CanStart
  /\ InitFramer
  /\ AcqStart
  /\ tx_dma' = usb
  /\ IF usb THEN StopInChannel ELSE UNCHANGED << inSrc, stopFailed >>
  /\ active' = TRUE
  /\ last' = 0 /\ joined' = TRUE /\ quiet' = NBUF /\ torn' = 0
  /\ spoiled' = FALSE
  /\ UNCHANGED << tx_hdr, budget, ready, portChanges >>

\* acq_start returns false (rate past the converter's ceiling, or a channel
\* count it does not know).  acq_init has already reset the ADC, which drops
\* its trigger and its interrupt mask; the framer's state has already been
\* cleared; active, tx_dma and the DMA channel are as they were.
StreamCoreStartRefused ==
  /\ CanStart
  /\ InitFramer
  /\ capturing' = FALSE
  /\ spoiled' = FALSE
  /\ UNCHANGED << filling, acq_produced, acq_consumed, acq_rxbuff_overruns,
                  acq_govre, acq_ring_overflow, active, tx_dma, tx_hdr, budget,
                  pdcVars, usbVars, sentVars, lossy, stopFailed, portChanges >>

StreamCoreStop ==
  /\ BetweenCalls
  /\ active
  /\ active' = FALSE
  /\ IF tx_dma THEN StopInChannel ELSE UNCHANGED << inSrc, stopFailed >>
  /\ tx_dma' = FALSE
  /\ tx_phase' = "IDLE" /\ tx_off' = 0
  /\ capturing' = FALSE
  /\ UNCHANGED << filling, acq_produced, acq_consumed, acq_rxbuff_overruns,
                  acq_govre, acq_ring_overflow, seq, pending_overrun,
                  resync_count, tx_hdr, budget, pdcVars, ready, sentVars,
                  lossy, spoiled, starts, portChanges >>

----------------------------------------------------------------------------
(* stream_core_service: one action per way round its loop *)

\* The port is closed: what has been captured is discarded, unless the DMA
\* channel still reads the head slot, which is then left to finish.
HeadIsLent == tx_phase = "DMA" /\ inSrc # NoSlot

Fault_MayDiscard      == TRUE
Fault_MayDiscardFrame == tx_phase = "IDLE"
MayDiscard == ~HeadIsLent

ServiceDiscard ==
  /\ BetweenCalls
  /\ active /\ ~PortReady
  /\ MayDiscard
  /\ acq_consumed' = acq_produced
  /\ tx_phase' = "IDLE" /\ tx_off' = 0
  /\ last' = 0
  /\ UNCHANGED << capturing, filling, acq_produced, acq_rxbuff_overruns,
                  acq_govre, acq_ring_overflow, active, tx_dma, seq,
                  pending_overrun, resync_count, tx_hdr, budget, pdcVars,
                  usbVars, joined, quiet, torn, pastVars >>

ServiceEnter ==
  /\ BetweenCalls
  /\ active /\ PortReady
  /\ budget' = BUDGET
  /\ UNCHANGED << acqVars, active, tx_dma, tx_phase, tx_off, seq,
                  pending_overrun, resync_count, tx_hdr, pdcVars, usbVars,
                  sentVars, pastVars >>

Continue == budget' = budget - 1
Return   == budget' = 0

\* Nothing to do now: the DMA channel is busy, or the ring is empty.
ServiceWait ==
  /\ InService
  /\ \/ HeadIsLent
     \/ tx_phase = "IDLE" /\ ~Available
  /\ Return
  /\ UNCHANGED << acqVars, active, tx_dma, tx_phase, tx_off, seq,
                  pending_overrun, resync_count, tx_hdr, pdcVars, usbVars,
                  sentVars, pastVars >>

\* usb_dma_in_start refuses when the port closed since the call began.
ServiceArm ==
  /\ InService
  /\ tx_phase = "DMA" /\ inSrc = NoSlot /\ tx_off < CHUNKS
  /\ IF ready
     THEN /\ inSrc' = Head
          /\ tx_off' = tx_off + 1
          /\ Continue
     ELSE /\ Return
          /\ UNCHANGED << inSrc, tx_off >>
  /\ UNCHANGED << acqVars, active, tx_dma, tx_phase, seq, pending_overrun,
                  resync_count, tx_hdr, pdcVars, ready, sentVars, pastVars >>

\* Consecutive frames join when the second is the next buffer captured, and
\* no sample was lost ahead of it or in it.
Joins(k) == last = 0 \/ (k = last + 1 /\ k \notin lossy)

\* The whole frame is out: release the slot, count the frame.
FrameSent ==
  /\ acq_consumed' = acq_consumed + 1
  /\ seq' = seq + 1
  /\ tx_phase' = "IDLE" /\ tx_off' = 0
  /\ last' = tx_hdr.ord
  /\ joined' = Joins(tx_hdr.ord)
  /\ quiet' = IF tx_hdr.flagged THEN 0
              ELSE IF quiet < NBUF THEN quiet + 1 ELSE quiet
  /\ torn' = torn + (IF spoiled THEN 1 ELSE 0)
  /\ UNCHANGED << capturing, filling, acq_produced, acq_rxbuff_overruns,
                  acq_govre, acq_ring_overflow, active, tx_dma,
                  pending_overrun, resync_count, tx_hdr, pdcVars, usbVars,
                  pastVars >>

ServiceFrameDone ==
  /\ InService
  /\ tx_phase = "DMA" /\ inSrc = NoSlot /\ tx_off = CHUNKS
  /\ Continue
  /\ FrameSent

\* The lap check.  A writer this far ahead is about to reach the head slot.
Lapped == Occupancy >= NBUF - 1
Fault_ResyncTo == acq_produced - (NBUF - 1)
ResyncTo == acq_produced - (NBUF - 2)

\* Choose the slot and build its header: the only place either happens.
ServiceSelect ==
  /\ InService
  /\ tx_phase = "IDLE" /\ Available
  /\ acq_consumed' = IF Lapped THEN ResyncTo ELSE acq_consumed
  /\ resync_count' = IF Lapped THEN resync_count + 1 ELSE resync_count
  /\ pending_overrun' = Overruns(resync_count')
  /\ tx_hdr' = [seq     |-> seq,
                overrun |-> pending_overrun',
                flagged |-> pending_overrun' # pending_overrun,
                ord     |-> slot[SlotOf(acq_consumed')]]
  /\ tx_off' = 0
  /\ spoiled' = FALSE
  /\ IF tx_dma
     THEN tx_phase' = "DMA" /\ Continue
     ELSE tx_phase' = "HEADER" /\ UNCHANGED budget
  /\ UNCHANGED << capturing, filling, acq_produced, acq_rxbuff_overruns,
                  acq_govre, acq_ring_overflow, active, tx_dma, seq, pdcVars,
                  usbVars, sentVars, lossy, stopFailed, starts, portChanges >>

\* The processor's write path.  A write that takes less than it was offered
\* ends the call and is resumed by a later one.
ServiceHeader ==
  /\ InService
  /\ tx_phase = "HEADER"
  /\ tx_phase' = "PAYLOAD" /\ tx_off' = 0
  /\ UNCHANGED << acqVars, active, tx_dma, seq, pending_overrun, resync_count,
                  tx_hdr, budget, pdcVars, usbVars, sentVars, pastVars >>

ServicePayload ==
  /\ InService
  /\ tx_phase = "PAYLOAD" /\ tx_off < CHUNKS
  /\ tx_off' = tx_off + 1
  /\ UNCHANGED << acqVars, active, tx_dma, tx_phase, seq, pending_overrun,
                  resync_count, tx_hdr, budget, pdcVars, usbVars, sentVars,
                  pastVars >>

ServiceShortWrite ==
  /\ InService
  /\ \/ tx_phase = "HEADER"
     \/ tx_phase = "PAYLOAD" /\ tx_off < CHUNKS
  /\ Return
  /\ UNCHANGED << acqVars, active, tx_dma, tx_phase, tx_off, seq,
                  pending_overrun, resync_count, tx_hdr, pdcVars, usbVars,
                  sentVars, pastVars >>

ServicePayloadDone ==
  /\ InService
  /\ tx_phase = "PAYLOAD" /\ tx_off = CHUNKS
  /\ Continue
  /\ FrameSent

ServiceIteration ==
  \/ ServiceWait \/ ServiceArm \/ ServiceFrameDone \/ ServiceSelect
  \/ ServiceHeader \/ ServicePayload \/ ServiceShortWrite \/ ServicePayloadDone

----------------------------------------------------------------------------
(* The ADC interrupt: preempts the main loop between any two of its steps *)

ADC_Handler ==
  /\ InterruptPending
  /\ acq_govre' = acq_govre + (IF govreFlag THEN 1 ELSE 0)
  \* RXBUFF: both counters of the PDC are at zero
  /\ acq_rxbuff_overruns' =
       acq_rxbuff_overruns + (IF rpr = NoSlot THEN 1 ELSE 0)
  /\ filling' = NextSlot(filling)
  /\ LET next == ReloadSlot(filling') IN
       IF rpr = NoSlot
       \* an exhausted PDC takes the next pair at once
       THEN /\ rpr' = next
            /\ PdcStarts(next)
            /\ UNCHANGED rnpr
       ELSE /\ rnpr' = next
            /\ UNCHANGED << rpr, slot, started, spoiled >>
  /\ endrx' = FALSE /\ govreFlag' = FALSE
  /\ acq_ring_overflow' =
       acq_ring_overflow + (IF Overtaking THEN 1 ELSE 0)
  /\ acq_produced' = acq_produced + 1
  /\ UNCHANGED << capturing, acq_consumed, txVars, usbVars, sentVars, lossy,
                  stopFailed, starts, portChanges >>

----------------------------------------------------------------------------
(* The hardware and the host *)

\* The PDC completes a buffer and promotes its next pointer, if it has one.
PdcBufferFull ==
  /\ capturing /\ rpr # NoSlot
  /\ started < MaxBuffers
  /\ rpr' = rnpr /\ rnpr' = NoSlot
  /\ endrx' = TRUE
  /\ IF rnpr # NoSlot THEN PdcStarts(rnpr)
                      ELSE UNCHANGED << slot, started, spoiled >>
  /\ UNCHANGED << acqVars, txVars, govreFlag, usbVars, sentVars, lossy,
                  stopFailed, starts, portChanges >>

\* A conversion overran: the PDC had no buffer for it, or could not reach
\* memory in time.  Either way the buffer it falls in, or the next one to be
\* started, does not join on to the one before.
SampleLost ==
  /\ capturing
  /\ Cardinality(lossy) < MaxLosses
  /\ LET ord == IF rpr = NoSlot THEN started + 1 ELSE slot[rpr]
     IN  lossy' = lossy \cup {ord}
  /\ govreFlag' = TRUE
  /\ UNCHANGED << acqVars, txVars, rpr, rnpr, endrx, slot, started, usbVars,
                  sentVars, spoiled, stopFailed, starts, portChanges >>

\* The host has read the chunk in flight. It may do so with the port closed
\* too (DTR says nothing of pending reads), or never.
DmaChunkDone ==
  /\ inSrc # NoSlot
  /\ inSrc' = NoSlot
  /\ UNCHANGED << acqVars, txVars, pdcVars, ready, sentVars, pastVars >>

PortChange ==
  /\ portChanges < MaxPortChanges
  /\ portChanges' = portChanges + 1

\* DTR falls, or a bus reset clears the configuration and the line state.
PortClose ==
  /\ PortChange
  /\ ready
  /\ ready' = FALSE
  /\ UNCHANGED << acqVars, txVars, pdcVars, inSrc, sentVars, lossy, spoiled,
                  stopFailed, starts >>

\* SET_CONFIGURATION rebuilds the endpoints, aborting the channel, and is
\* always seen with DTR down: the bus reset before it cleared the line state.
\* The framer's next call finds the port closed and drops the frame, so that
\* the port never opens over a half-sent one.
Configure ==
  /\ PortChange
  /\ ~ready /\ BetweenCalls
  /\ StopInChannel
  /\ IF active /\ tx_dma /\ inSrc' = NoSlot
     THEN /\ acq_consumed' = acq_produced
          /\ tx_phase' = "IDLE" /\ tx_off' = 0
          /\ last' = 0
     ELSE UNCHANGED << acq_consumed, tx_phase, tx_off, last >>
  /\ UNCHANGED << capturing, filling, acq_produced, acq_rxbuff_overruns,
                  acq_govre, acq_ring_overflow, active, tx_dma, seq,
                  pending_overrun, resync_count, tx_hdr, budget, pdcVars,
                  ready, joined, quiet, torn, lossy, spoiled, starts >>

PortOpen ==
  /\ PortChange
  /\ ~ready
  /\ ready' = TRUE
  /\ UNCHANGED << acqVars, txVars, pdcVars, inSrc, sentVars, lossy, spoiled,
                  stopFailed, starts >>

----------------------------------------------------------------------------
Init ==
  /\ capturing = FALSE /\ filling = 0
  /\ acq_produced = 0 /\ acq_consumed = 0
  /\ acq_rxbuff_overruns = 0 /\ acq_govre = 0 /\ acq_ring_overflow = 0
  /\ active = FALSE /\ tx_dma = FALSE /\ tx_phase = "IDLE" /\ tx_off = 0
  /\ seq = 0 /\ pending_overrun = 0 /\ resync_count = 0
  /\ tx_hdr = NoHeader /\ budget = 0
  /\ rpr = NoSlot /\ rnpr = NoSlot /\ endrx = FALSE /\ govreFlag = FALSE
  /\ slot = [s \in Slots |-> 0] /\ started = 0
  /\ inSrc = NoSlot /\ ready = FALSE
  /\ lossy = {} /\ spoiled = FALSE /\ stopFailed = FALSE
  /\ last = 0 /\ joined = TRUE /\ quiet = NBUF /\ torn = 0
  /\ starts = 0 /\ portChanges = 0

Command == (\E usb \in BOOLEAN : StreamCoreStart(usb))
           \/ StreamCoreStartRefused \/ StreamCoreStop

Service == ServiceDiscard \/ ServiceEnter \/ ServiceIteration

Hardware == PdcBufferFull \/ SampleLost \/ DmaChunkDone

Port == PortClose \/ Configure \/ PortOpen

Next == Command \/ Service \/ ADC_Handler \/ Hardware \/ Port

Spec == Init /\ [][Next]_vars

\* The main loop calls the framer on every pass, a pending interrupt is taken,
\* and the host reads what is offered to it for as long as it holds the port
\* open. Nothing says that it reads through a port it has closed.
FairSpec ==
  /\ Spec
  /\ WF_vars(Service) /\ WF_vars(ADC_Handler)
  /\ WF_vars(ready /\ DmaChunkDone)
  /\ SF_vars(ServiceHeader) /\ SF_vars(ServicePayload)

----------------------------------------------------------------------------
(* Types *)

FlagsOK ==
  /\ {capturing, active, tx_dma, endrx, govreFlag} \subseteq BOOLEAN
  /\ {ready, spoiled, joined, stopFailed} \subseteq BOOLEAN

CountsOK ==
  /\ acq_produced \in Nat /\ acq_consumed \in Nat
  /\ acq_rxbuff_overruns \in Nat /\ acq_govre \in Nat
  /\ acq_ring_overflow \in Nat
  /\ tx_off \in 0 .. CHUNKS /\ seq \in Nat
  /\ pending_overrun \in Nat /\ resync_count \in Nat
  /\ budget \in 0 .. BUDGET
  /\ started \in Nat /\ last \in Nat /\ quiet \in 0 .. NBUF
  /\ torn \in Nat /\ starts \in Nat /\ portChanges \in Nat
  /\ lossy \subseteq Nat

PlacesOK ==
  /\ filling \in Slots
  /\ rpr \in Slots \cup {NoSlot} /\ rnpr \in Slots \cup {NoSlot}
  /\ inSrc \in Slots \cup {NoSlot}
  /\ slot \in [Slots -> Nat]
  /\ tx_phase \in {"IDLE", "HEADER", "PAYLOAD", "DMA"}
  /\ tx_hdr \in [seq: Nat, overrun: Nat, flagged: BOOLEAN, ord: Nat]

TypeOK == FlagsOK /\ CountsOK /\ PlacesOK

----------------------------------------------------------------------------
(* Properties *)

\* The PDC's view of the ring while a capture is on.  Its registers and the
\* handler's count agree up to one interrupt's delay: with the interrupt taken
\* it is on the buffer the count names and has the next one, or it ran dry
\* and was restarted, and is one buffer ahead with none; with the interrupt
\* pending it is on the next buffer or has run dry.
RingFilled ==
  \A i \in 0 .. started - 1 : started <= i + NBUF => slot[SlotOf(i)] = i + 1

RingShape ==
  /\ filling = SlotOf(acq_produced)
  /\ RingFilled
  /\ IF endrx
     THEN /\ started = acq_produced + 2
          /\ rpr \in {NoSlot, SlotOf(acq_produced + 1)}
          /\ rnpr = NoSlot
     ELSE \/ /\ started = acq_produced + 1
             /\ rpr = SlotOf(acq_produced)
             /\ rnpr = SlotOf(acq_produced + 1)
          \/ /\ started = acq_produced + 2
             /\ rpr = SlotOf(acq_produced + 1)
             /\ rnpr = NoSlot

\* The handler's count, the framer's index and the PDC's registers never drift
\* apart (ADC_Handler reloads only the next pointer, stream_core_service moves
\* acq_consumed without masking the interrupt): the frame being sent is always
\* a completed buffer, and each of the last NBUF buffers the PDC started is in
\* the slot its ordinal names.
RingInv ==
  /\ acq_consumed <= acq_produced
  /\ tx_phase # "IDLE" => acq_consumed < acq_produced
  /\ budget > 0 => active
  /\ active \/ capturing => RingShape

\* A slot lent to the USB DMA channel stays the head of the ring until the
\* channel is done with it: no path of the framer (frame done, port closed,
\* resync, stop, restart) releases it or starts another frame first, unless
\* dma_channel_stop itself failed (stream_core_service and stream_core_stop).
SourceHeld ==
  inSrc # NoSlot /\ ~stopFailed =>
    active /\ tx_phase = "DMA" /\ inSrc = Head

\* The slot the framer chooses holds, whole, the capture buffer its index
\* names, and is neither the slot the PDC writes nor the one it takes next,
\* however late the ADC interrupt has been (the resync rule of
\* stream_core_service against the reload rule of ADC_Handler).
SelectsWhole ==
  [][tx_phase = "IDLE" /\ tx_phase' # "IDLE" =>
       /\ tx_hdr'.ord = acq_consumed' + 1
       /\ SlotOf(acq_consumed') \notin {rpr, rnpr}]_vars

\* A frame the PDC overwrote while it was being sent is in the overrun count
\* by the time the interrupt of that overwrite has run (ADC_Handler's
\* ring-overflow test is exactly early enough).
TornIsCounted ==
  capturing /\ ~endrx => torn <= acq_ring_overflow + acq_rxbuff_overruns

\* A discontinuity between two frames sent one after the other is always
\* flagged, on the later frame or at most NBUF - 2 frames ahead of it: the
\* flag can be early by what the ring held, and is never missing or late.
FlagNotMissing == ~joined => quiet <= NBUF - 2

\* A frame begun is finished, discarded with the port, or dropped by a stop:
\* the framer never stays in the middle of one, through any port changes,
\* except over a chunk the host leaves in flight behind a port it closed for
\* good. There stream_core_service returns without discarding, for ever, since
\* no path aborts the channel but a stop or a new configuration.
TransmissionEnds ==
  \/ tx_phase # "IDLE" ~> tx_phase = "IDLE"
  \/ <>[](~ready /\ HeadIsLent)

\* docs/protocol.md says flag bit 0 marks the frame that is not continuous
\* with the previous one, so a frame without it is.
FlagMarksTheBreak == ~joined => quiet = 0

\* A comment in stream_core_service says the processor never writes a fresh
\* header into a slot the USB DMA channel is still reading.
HeaderNotOverLiveDma ==
  [][tx_phase = "IDLE" /\ tx_phase' = "DMA" /\ ~stopFailed =>
       inSrc # SlotOf(acq_consumed')]_vars
=============================================================================
