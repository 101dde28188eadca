------------------------------ MODULE PlayRing ------------------------------
(***************************************************************************)
(* Playback: the ring of drivers/play.c that the USB OUT DMA fills with    *)
(* host samples and the DACC's PDC empties into the converter.             *)
(*                                                                         *)
(* Four actors: the USB controller lands bytes into a span of free slots,  *)
(* the main loop (play_service) publishes what has landed, arms the next   *)
(* span and starts the converter's timer, the PDC emits the two slots it   *)
(* has been given, and the DACC interrupt releases one and queues the next.*)
(*                                                                         *)
(* A slot holds UNITS units of data; ring[a] is the number of the host     *)
(* unit last written at address a, so slot contents are exact and a span   *)
(* resumed at the wrong place would show.                                  *)
(* Definitions named Fault_... are seeded faults, as in CaptureRing.       *)
(***************************************************************************)
EXTENDS Integers

CONSTANTS
  NBUF,           \* slots in the ring (PLAY_NBUF, 32)
  UNITS,          \* units of data in one slot (1024 bytes)
  PRIME,          \* PLAY_PRIME_BUFS (24)
  PRIME_MIN,      \* PLAY_PRIME_MIN (4)
  PRIME_QUIET,    \* PLAY_PRIME_QUIET_MS (100), in ticks
  ABANDON,        \* PLAY_ABANDON_MS (500), in ticks
  StopCanFail,    \* may dma_channel_stop run out of spins?
  MaxUnits,       \* bound: units the host sends in one run
  MaxRepeats,     \* bound: buffers repeated in one run
  MaxStarts,      \* bound: play commands
  MaxPortChanges  \* bound: DTR edges and configurations

ASSUME PlayAssumption ==
  /\ NBUF \in Nat /\ NBUF >= 3
  /\ UNITS \in Nat \ {0}
  /\ PRIME \in Nat /\ PRIME_MIN \in Nat
  /\ PRIME_MIN >= 3 /\ PRIME_MIN <= PRIME /\ PRIME <= NBUF - 2
  /\ PRIME_QUIET \in Nat /\ ABANDON \in Nat /\ PRIME_QUIET < ABANDON

ASSUME PlayBoundAssumption ==
  /\ StopCanFail \in BOOLEAN
  /\ MaxUnits \in Nat /\ MaxRepeats \in Nat
  /\ MaxStarts \in Nat /\ MaxPortChanges \in Nat

Slots     == 0 .. NBUF - 1
Addresses == 0 .. NBUF * UNITS - 1
NoSlot    == -1
Silence   == -1

VARIABLES
  \* drivers/play.c
  active, primed, timerOn,
  fill_off, dma_inflight, dma_asked, dma_start_off, dma_published, dma_counted,
  play_produced, play_consumed, play_underruns, play_bytes_in,
  abandon_bytes,
  pc,               \* where play_service is: between calls, arming, priming
  \* hardware
  tpr, tnpr, endtx, \* the DACC PDC's pointer pairs, DACC_ISR.ENDTX
  outBusy, outAt, outLeft, \* the OUT DMA channel: enabled, address, BUFF_COUNT
  ring,
  ready,            \* usb_cdc_ready()
  quiet,            \* ticks since abandon_at_ms, no further than past ABANDON
  \* what happened, for the properties
  landed,           \* units the OUT DMA has written in this run
  emitted,          \* number of the buffer the PDC emits, or emitted last
  top,              \* highest buffer number emitted so far
  repeats,          \* buffers emitted that were not the next new one
  passed,           \* play_service completed a pass since the last tick
  stopFailed, starts, portChanges

fillVars == << fill_off, dma_inflight, dma_asked, dma_start_off,
               dma_published, dma_counted >>
ringVars == << play_produced, play_bytes_in, abandon_bytes >>
drainVars == << play_consumed, play_underruns, tpr, tnpr, endtx >>
runVars  == << active, primed, timerOn >>
outVars  == << outBusy, outAt, outLeft >>
emitVars == << emitted, top, repeats >>
pastVars == << stopFailed, starts, portChanges >>
vars == << runVars, fillVars, ringVars, drainVars, outVars, emitVars, pastVars,
           pc, ring, ready, quiet, landed, passed >>

----------------------------------------------------------------------------
(* Helpers *)

SlotOf(i) == i % NBUF
Queued    == play_produced - play_consumed

\* Slots the service never hands to the DMA: two short of the reader.
Reserve == 2

\* The handler queues a new buffer only if it is complete already.
CanQueue == Queued >= 3

InterruptPending == active /\ endtx
BetweenCalls == pc = "loop" /\ ~InterruptPending
InService(where) == active /\ pc = where /\ ~InterruptPending

StopOutChannel ==
  \/ /\ outBusy' = FALSE
     /\ UNCHANGED << outAt, outLeft, stopFailed >>
  \/ /\ StopCanFail /\ outBusy
     /\ stopFailed' = TRUE
     /\ UNCHANGED outVars

\* The number of the buffer that slot s holds, by its first unit.
BufferIn(s) == ring[s * UNITS] \div UNITS

\* The PDC starts emitting slot s.
PdcStarts(s) ==
  /\ emitted' = BufferIn(s)
  /\ top' = IF emitted' > top THEN emitted' ELSE top
  /\ repeats' = IF emitted' > top THEN repeats ELSE repeats + 1

----------------------------------------------------------------------------
(* Commands *)

\* play_start calls play_stop and then usb_dma_mode_out, either of which stops
\* what is left of an earlier run's transfer.
Fault_StopEarlierTransfer == UNCHANGED << outVars, stopFailed >>
StopEarlierTransfer == StopOutChannel

\* play_start, past its rate check.
PlayStart ==
  /\ BetweenCalls
  /\ starts < MaxStarts /\ starts' = starts + 1
  /\ StopEarlierTransfer
  /\ active' = TRUE /\ primed' = FALSE /\ timerOn' = FALSE
  /\ fill_off' = 0 /\ dma_inflight' = FALSE
  /\ play_produced' = 0 /\ play_consumed' = 0 /\ play_underruns' = 0
  /\ play_bytes_in' = 0 /\ abandon_bytes' = 0
  /\ quiet' = 0 /\ passed' = FALSE
  /\ ring' = [a \in Addresses |-> Silence]
  /\ tpr' = 0 /\ tnpr' = 1 /\ endtx' = FALSE
  /\ landed' = 0 /\ emitted' = 0 /\ top' = 0 /\ repeats' = 0
  /\ UNCHANGED << dma_asked, dma_start_off, dma_published, dma_counted, pc,
                  ready, portChanges >>

StopPlayback ==
  /\ StopOutChannel
  /\ active' = FALSE /\ timerOn' = FALSE
  /\ UNCHANGED primed

PlayStop ==
  /\ BetweenCalls
  /\ active
  /\ StopPlayback
  /\ UNCHANGED << fillVars, ringVars, drainVars, emitVars, pc, ring, ready,
                  quiet, landed, passed, starts, portChanges >>

----------------------------------------------------------------------------
(* play_service, in the three parts between which an interrupt matters *)

\* Nothing has arrived for longer than a host that is merely slow takes.
Fault_AbandonDue ==
  ready /\ play_bytes_in = abandon_bytes /\ abandon_bytes # 0
        /\ quiet > ABANDON
AbandonDue ==
  play_bytes_in = abandon_bytes /\ abandon_bytes # 0 /\ quiet > ABANDON

ServiceAbandon ==
  /\ InService("loop")
  /\ AbandonDue
  /\ StopPlayback
  /\ UNCHANGED << fillVars, ringVars, drainVars, emitVars, pc, ring, ready,
                  quiet, landed, passed, starts, portChanges >>

\* What a status snapshot says of the transfer: units landed since it began.
Done == IF dma_asked > outLeft THEN dma_asked - outLeft ELSE 0
SlotsDone == (dma_start_off + Done) \div UNITS

\* Where in its slot the next span resumes when a transfer has ended.
ResumeAt == (dma_start_off + Done) % UNITS

\* Entry: note arrivals, publish what one status snapshot shows, and if the
\* transfer has ended go on to arm the next.
ServicePublish ==
  /\ InService("loop")
  /\ ~AbandonDue
  /\ IF play_bytes_in # abandon_bytes
     THEN abandon_bytes' = play_bytes_in /\ quiet' = 0
     ELSE UNCHANGED << abandon_bytes, quiet >>
  /\ IF dma_inflight
     THEN /\ play_produced' = play_produced +
               (IF SlotsDone > dma_published THEN SlotsDone - dma_published
                                             ELSE 0)
          /\ dma_published' =
               IF SlotsDone > dma_published THEN SlotsDone ELSE dma_published
          /\ play_bytes_in' = play_bytes_in + Done - dma_counted
          /\ dma_counted' = Done
          /\ IF outBusy
             THEN pc' = "prime" /\ UNCHANGED << dma_inflight, fill_off >>
             ELSE /\ pc' = "arm"
                  /\ dma_inflight' = FALSE
                  /\ fill_off' = ResumeAt
     ELSE /\ pc' = "arm"
          /\ UNCHANGED << play_produced, play_bytes_in, dma_published,
                          dma_counted, dma_inflight, fill_off >>
  /\ UNCHANGED << dma_asked, dma_start_off, runVars, drainVars, outVars,
                  emitVars, pastVars, ring, ready, landed, passed >>

\* The next span: contiguous free slots, up to the end of the ring.
Span ==
  LET free == (NBUF - Reserve) - Queued
      untilWrap == NBUF - SlotOf(play_produced)
  IN  IF free < untilWrap THEN free ELSE untilWrap

ServiceArm ==
  /\ InService("arm")
  /\ pc' = "prime"
  /\ IF Queued < NBUF - Reserve
     THEN /\ dma_asked' = Span * UNITS - fill_off
          /\ dma_start_off' = fill_off
          /\ dma_published' = 0 /\ dma_counted' = 0
          \* usb_dma_out_start_stream refuses on a closed port or a busy channel
          /\ IF ready /\ ~outBusy
             THEN /\ outBusy' = TRUE
                  /\ outAt' = SlotOf(play_produced) * UNITS + fill_off
                  /\ outLeft' = dma_asked'
                  /\ dma_inflight' = TRUE
             ELSE UNCHANGED << outVars, dma_inflight >>
     ELSE UNCHANGED << outVars, dma_inflight, dma_asked, dma_start_off,
                       dma_published, dma_counted >>
  /\ UNCHANGED << fill_off, runVars, ringVars, drainVars, emitVars, pastVars,
                  ring, ready, quiet, landed, passed >>

\* Enough is queued, or a host with less than that has gone quiet.
Fault_PrimeDue == play_produced >= PRIME
PrimeDue ==
  \/ play_produced >= PRIME
  \/ /\ play_produced >= PRIME_MIN
     /\ play_bytes_in = abandon_bytes
     /\ quiet > PRIME_QUIET

ServicePrime ==
  /\ InService("prime")
  /\ pc' = "loop"
  /\ passed' = TRUE
  /\ primed' = (primed \/ PrimeDue)
  /\ timerOn' = (timerOn \/ primed')
  /\ UNCHANGED << active, fillVars, ringVars, drainVars, outVars, emitVars,
                  pastVars, ring, ready, quiet, landed >>

----------------------------------------------------------------------------
(* The DACC interrupt: play_endtx *)

\* What the handler queues next, once play_consumed is what it will be.
Fault_QueuedSlot(consumed) == SlotOf(consumed + 2)
QueuedSlot(consumed) == SlotOf(consumed + 1)

DACC_Handler ==
  /\ InterruptPending
  /\ IF CanQueue
     THEN /\ play_consumed' = play_consumed + 1
          /\ UNCHANGED play_underruns
     ELSE /\ play_underruns' = play_underruns + 1
          /\ UNCHANGED play_consumed
  /\ LET next == IF CanQueue THEN QueuedSlot(play_consumed')
                             ELSE SlotOf(play_consumed)
     IN IF tpr = NoSlot
        \* an exhausted PDC takes the next pair at once
        THEN tpr' = next /\ PdcStarts(next) /\ UNCHANGED tnpr
        ELSE tnpr' = next /\ UNCHANGED << tpr, emitVars >>
  /\ endtx' = FALSE
  /\ UNCHANGED << fillVars, ringVars, runVars, outVars, pastVars, pc, ring,
                  ready, quiet, landed, passed >>

----------------------------------------------------------------------------
(* The hardware and the host *)

\* The PDC has emitted a whole slot and takes the latched one, if there is one.
PdcBufferEmpty ==
  /\ active /\ timerOn /\ tpr # NoSlot
  /\ repeats < MaxRepeats
  /\ tpr' = tnpr /\ tnpr' = NoSlot
  /\ endtx' = TRUE
  /\ IF tnpr # NoSlot THEN PdcStarts(tnpr) ELSE UNCHANGED emitVars
  /\ UNCHANGED << play_consumed, play_underruns, fillVars, ringVars, runVars,
                  outVars, pastVars, pc, ring, ready, quiet, landed, passed >>

\* One more unit from the host lands; the channel stops after its last.
OutDmaLands ==
  /\ outBusy
  /\ landed < MaxUnits
  /\ ring' = [ring EXCEPT ![outAt] = landed]
  /\ landed' = landed + 1
  /\ outAt' = outAt + 1 /\ outLeft' = outLeft - 1
  /\ outBusy' = (outLeft > 1)
  /\ UNCHANGED << fillVars, ringVars, drainVars, runVars, emitVars, pastVars,
                  pc, ready, quiet, passed >>

\* A tick of millis().  The main loop comes round at least once a tick: that is
\* what makes a host's silence measurable at all.
Tick ==
  /\ active /\ passed
  /\ quiet' = IF quiet > ABANDON THEN quiet ELSE quiet + 1
  /\ passed' = FALSE
  /\ UNCHANGED << fillVars, ringVars, drainVars, runVars, outVars, emitVars,
                  pastVars, pc, ring, ready, landed >>

PortClose ==
  /\ ready /\ portChanges < MaxPortChanges
  /\ ready' = FALSE /\ portChanges' = portChanges + 1
  /\ UNCHANGED << fillVars, ringVars, drainVars, runVars, outVars, emitVars,
                  pc, ring, quiet, landed, passed, stopFailed, starts >>

PortOpen ==
  /\ ~ready /\ portChanges < MaxPortChanges
  /\ ready' = TRUE /\ portChanges' = portChanges + 1
  /\ UNCHANGED << fillVars, ringVars, drainVars, runVars, outVars, emitVars,
                  pc, ring, quiet, landed, passed, stopFailed, starts >>

\* SET_CONFIGURATION aborts the transfer in flight, perhaps inside a slot; it
\* runs from usb_cdc_poll, between calls of play_service.
Configure ==
  /\ ~ready /\ BetweenCalls /\ portChanges < MaxPortChanges
  /\ portChanges' = portChanges + 1
  /\ StopOutChannel
  /\ UNCHANGED << fillVars, ringVars, drainVars, runVars, emitVars, pc, ring,
                  ready, quiet, landed, passed, starts >>

----------------------------------------------------------------------------
Init ==
  /\ active = FALSE /\ primed = FALSE /\ timerOn = FALSE
  /\ fill_off = 0 /\ dma_inflight = FALSE /\ dma_asked = 0
  /\ dma_start_off = 0 /\ dma_published = 0 /\ dma_counted = 0
  /\ play_produced = 0 /\ play_consumed = 0 /\ play_underruns = 0
  /\ play_bytes_in = 0 /\ abandon_bytes = 0
  /\ pc = "loop"
  /\ tpr = NoSlot /\ tnpr = NoSlot /\ endtx = FALSE
  /\ outBusy = FALSE /\ outAt = 0 /\ outLeft = 0
  /\ ring = [a \in Addresses |-> Silence]
  /\ ready = TRUE /\ quiet = 0 /\ landed = 0
  /\ emitted = 0 /\ top = 0 /\ repeats = 0
  /\ passed = FALSE /\ stopFailed = FALSE /\ starts = 0 /\ portChanges = 0

Command  == PlayStart \/ PlayStop
Service  == ServiceAbandon \/ ServicePublish \/ ServiceArm \/ ServicePrime
Hardware == PdcBufferEmpty \/ OutDmaLands \/ Tick
Port     == PortClose \/ PortOpen \/ Configure

Next == Command \/ Service \/ DACC_Handler \/ Hardware \/ Port

Spec == Init /\ [][Next]_vars

\* The main loop calls play_service on every pass, a pending interrupt is
\* taken, and time passes.  Nothing is assumed of the host.
FairSpec == Spec /\ WF_vars(Service) /\ WF_vars(DACC_Handler) /\ WF_vars(Tick)

----------------------------------------------------------------------------
(* Types *)

FlagsOK ==
  /\ {active, primed, timerOn, dma_inflight} \subseteq BOOLEAN
  /\ {endtx, outBusy, ready, passed, stopFailed} \subseteq BOOLEAN

CountsOK ==
  /\ play_produced \in Nat /\ play_consumed \in Nat
  /\ play_underruns \in Nat /\ play_bytes_in \in Nat /\ abandon_bytes \in Nat
  /\ dma_asked \in Nat /\ dma_counted \in Nat /\ dma_published \in Nat
  /\ fill_off \in 0 .. UNITS - 1 /\ dma_start_off \in 0 .. UNITS - 1
  /\ quiet \in 0 .. ABANDON + 1 /\ landed \in Nat
  /\ top \in Nat /\ repeats \in Nat
  /\ starts \in Nat /\ portChanges \in Nat

PlacesOK ==
  /\ pc \in {"loop", "arm", "prime"}
  /\ tpr \in Slots \cup {NoSlot} /\ tnpr \in Slots \cup {NoSlot}
  /\ outAt \in 0 .. NBUF * UNITS /\ outLeft \in 0 .. NBUF * UNITS
  /\ outBusy => outLeft > 0 /\ outAt + outLeft <= NBUF * UNITS
  /\ ring \in [Addresses -> Nat \cup {Silence}]

TypeOK == FlagsOK /\ CountsOK /\ PlacesOK

----------------------------------------------------------------------------
(* Properties *)

\* Slot s holds all of buffer k.
Whole(s, k) == \A u \in 0 .. UNITS - 1 : ring[s * UNITS + u] = k * UNITS + u

\* The DMA transfer in flight will write into slot s.
WillWrite(s) ==
  outBusy /\ outAt < (s + 1) * UNITS /\ outAt + outLeft > s * UNITS

\* Once the converter's timer runs, each slot the PDC owns holds one whole
\* buffer of host data and is outside what the OUT DMA has left to write:
\* the reservation of play_service, two slots short of the reader, against
\* the three-slot rule of play_endtx, whose underruns step back one slot.
EmitsOnlyWhole ==
  active /\ timerOn /\ ~stopFailed =>
    \A s \in {tpr, tnpr} \ {NoSlot} :
      /\ Whole(s, BufferIn(s))
      /\ ~WillWrite(s)

\* The converter emits the buffers 0, 1, 2, ... in order, with nothing but
\* repeats between, and every buffer it emits a second time has been counted as
\* an underrun: at most one underrun is counted ahead of its repeat (play_endtx
\* counts when it queues, the PDC repeats one buffer later).
CountedAhead == play_underruns - repeats
EmissionInOrder ==
  [][active /\ active' /\ ~stopFailed /\ ~stopFailed' =>
       /\ top' \in {top, top + 1} \/ starts' # starts
       /\ CountedAhead' \in {0, 1}]_vars

\* Bytes are exact across spans, wraps, and transfers aborted inside a slot:
\* whenever no transfer is in flight, every unit that landed is counted, and
\* each is in a published buffer or in the part of one that fill_off names.
BytesExact ==
  active /\ ~dma_inflight /\ ~stopFailed =>
    /\ play_bytes_in = landed
    /\ play_produced * UNITS + fill_off = landed

\* Both, also across a playback started anew over a transfer of the last one.
PlaysWhatLanded == EmitsOnlyWhole /\ BytesExact

\* A playback too short to fill the ring to PLAY_PRIME_BUFS is started, not
\* abandoned: by the time play_service would give up on the host, it has
\* started whatever is long enough to be played.
ShortPlaybackStarts ==
  InService("loop") /\ AbandonDue => primed \/ play_produced < PRIME_MIN

\* A host that goes away after sending something does not leave the device
\* playing, and holding bulk OUT, for ever (objective 0c in play.c): the run
\* ends by itself, unless a new play command has replaced it or a transfer of
\* an earlier run could not be stopped.
HostLossIsNoticed ==
  active /\ landed # 0 ~> ~active \/ landed = 0 \/ stopFailed
=============================================================================
