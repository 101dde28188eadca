------------------------------ MODULE Ownership ------------------------------
(***************************************************************************)
(* Who owns the converters and the two USB sample endpoints.  Console      *)
(* commands start and stop capture, playback and the USB benches; the      *)
(* service loop drives whichever is active.  Nothing arbitrates: ownership *)
(* is a matter of which flags are set, and of the order they are set in.   *)
(*                                                                         *)
(* On the bare-metal track a command runs inside the main loop, so it is   *)
(* atomic to the services.  On the RTOS track it runs in a task of lower   *)
(* priority than the service task, which can preempt it between any two    *)
(* stores.  A command is therefore the sequence of the steps left of it,   *)
(* and `track` says whether a pass may begin inside one.                   *)
(* A pass is never preempted by the console on either track.               *)
(* Definitions named Fault_... are seeded faults, as in CaptureRing.       *)
(***************************************************************************)
EXTENDS Integers, Sequences

CONSTANTS
  Tracks,       \* the builds considered: "bare_metal", "rtos"
  Commands,     \* the commands the operator uses, for each track
  StopsFirst,   \* does the operator send `0` before each start?
  MaxCommands   \* bound: commands issued

DmaBenches  == {"flood_dma", "sink_dma", "duplex_dma"}
FifoBenches == {"flood", "sink", "duplex"}
Benches     == FifoBenches \cup DmaBenches
Starts      == {"stream", "uart", "play", "loop", "mimic", "crosscheck"}

ASSUME OwnershipAssumption ==
  /\ Tracks \subseteq {"bare_metal", "rtos"} /\ StopsFirst \in BOOLEAN
  /\ Commands \in [Tracks -> SUBSET (Starts \cup Benches \cup {"stop"})]
  /\ MaxCommands \in Nat

VARIABLES
  track,            \* which build runs: apps/baremetal_bringup, rtos_bringup
  cmd, todo,        \* the last command issued, the steps left of it
  console_busy,     \* RTOS track: raised for as long as input is pending
  issued,
  svc,              \* where the service pass is; "idle" between passes
  active, tx_dma,   \* lib/due_shared/src/stream_core.c
  bench,            \* lib/due_shared/src/stream_bench.c
  playing, primed, dma_inflight,     \* drivers/play.c (active there)
  clock_started,    \* run_t0_us # 0
  queued,           \* of this run's data: "none", "some", "enough" to start
  dma_mode_in, dma_mode_out,         \* drivers/usb_cdc.c
  inDma, outDma,    \* who armed the transfer each channel runs
  adcOn,            \* conversions triggered, ADC interrupt unmasked
  dacFrom,          \* whose table the DACC's PDC was last pointed at
  dacOn,            \* DACC interrupt unmasked, PDC enabled
  tc1On,            \* the playback timer runs
  \* what happened, for the properties
  mixed,            \* endpoints the FIFO path touched while DMA had them
  record            \* a status record went out since the last play_start

consoleVars == << track, cmd, todo, console_busy, issued >>
Preemptive  == track = "rtos"
coreVars    == << active, tx_dma >>
playVars    == << playing, primed, dma_inflight, clock_started, queued >>
modeVars    == << dma_mode_in, dma_mode_out >>
dmaVars     == << inDma, outDma >>
dacVars     == << dacFrom, dacOn, tc1On >>
pastVars    == << mixed, record >>
vars == << consoleVars, svc, coreVars, bench, playVars, modeVars, dmaVars,
           adcOn, dacVars, pastVars >>

----------------------------------------------------------------------------
(* Commands as sequences of steps *)

Fault_CoreStop == << "in_dma_off_if_tx_dma", "tx_dma_off", "core_off",
                     "framer_reset", "adc_off", "gen_stop" >>
CoreStop == << "core_off", "in_dma_off_if_tx_dma", "tx_dma_off",
               "framer_reset", "adc_off", "gen_stop" >>

Fault_BenchStop == << "bench_off", "bench_modes_off" >>
BenchStop == << "bench_modes_off", "bench_off" >>

PlayStop == << "out_dma_off_if_playing", "play_off", "tc1_off", "dacc_off" >>

PlayStart ==
  PlayStop \o << "play_reset", "out_dma_on", "dacc_play", "play_on",
                 "play_unprime" >>

\* stream_core_start up to the point where acq_start may refuse, and after it
CaptureBegin(gen) ==
  << "adc_off" >> \o (IF gen THEN << "gen_init" >> ELSE << >>)
                  \o << "framer_reset" >>
CaptureEnd(gen, usb) ==
  << "adc_on" >> \o (IF gen THEN << "gen_start" >> ELSE << >>)
                 \o (IF usb THEN << "tx_dma_on", "in_dma_on" >>
                            ELSE << "tx_dma_off" >>)
                 \o << "core_on" >>
Capture(gen, usb) == CaptureBegin(gen) \o CaptureEnd(gen, usb)

Stop == CoreStop \o BenchStop \o PlayStop

BenchProgram == CoreStop \o BenchStop \o << "bench_modes_on", "bench_on" >>

Program(c) ==
  CASE c = "stream"     -> Capture(TRUE, TRUE)
    [] c = "uart"       -> Capture(TRUE, FALSE)
    [] c = "play"       -> PlayStart
    [] c = "loop"       -> PlayStart \o Capture(FALSE, TRUE)
    [] c = "mimic"      -> PlayStop \o << "gen_init", "gen_prepare" >>
                             \o Capture(FALSE, TRUE) \o << "gen_go" >>
    [] c = "crosscheck" -> << "gen_init", "gen_prepare", "gen_go" >>
                             \o Capture(FALSE, TRUE)
    [] c = "stop"       -> Stop
    [] OTHER            -> BenchProgram

\* The same when the ADC refuses the rate that was asked for.
Refusable == {"stream", "uart", "loop", "mimic", "crosscheck"}
RefusedProgram(c) ==
  CASE c \in {"stream", "uart"} -> CaptureBegin(TRUE)
    [] c = "loop"       -> PlayStart \o CaptureBegin(FALSE) \o PlayStop
    [] c = "mimic"      -> PlayStop \o << "gen_init", "gen_prepare" >>
                             \o CaptureBegin(FALSE)
    [] c = "crosscheck" -> << "gen_init", "gen_prepare", "gen_go" >>
                             \o CaptureBegin(FALSE) \o << "gen_stop" >>

ConsoleRuns == svc = "idle"

Issue(c) ==
  /\ ConsoleRuns /\ todo = << >>
  /\ issued < MaxCommands /\ issued' = issued + 1
  /\ StopsFirst /\ c # "stop" => cmd = "stop"
  /\ cmd' = c
  /\ console_busy' = TRUE
  /\ todo' \in {Program(c)} \cup (IF c \in Refusable THEN {RefusedProgram(c)}
                                                   ELSE {})
  /\ UNCHANGED << track, svc, coreVars, bench, playVars, modeVars, dmaVars,
                  adcOn, dacVars, pastVars >>

\* The console's input has drained.
ConsoleDrained ==
  /\ ConsoleRuns /\ todo = << >>
  /\ console_busy
  /\ console_busy' = FALSE
  /\ UNCHANGED << track, cmd, todo, issued, svc, coreVars, bench, playVars, modeVars,
                  dmaVars, adcOn, dacVars, pastVars >>

----------------------------------------------------------------------------
(* The steps *)

Step(name) ==
  /\ ConsoleRuns
  /\ todo # << >> /\ Head(todo) = name
  /\ todo' = Tail(todo)
  /\ UNCHANGED << track, cmd, console_busy, issued, svc >>

\* usb_dma_mode_in and usb_dma_mode_out stop the channel, then set the mode.
ModeIn(on) == inDma' = "none" /\ dma_mode_in' = on
ModeOut(on) == outDma' = "none" /\ dma_mode_out' = on

CoreStep ==
  \/ /\ \/ Step("core_on") /\ active' = TRUE
        \/ Step("core_off") /\ active' = FALSE
        \/ Step("framer_reset") /\ UNCHANGED active
     /\ UNCHANGED << tx_dma, inDma, dma_mode_in, adcOn >>
  \/ /\ \/ Step("tx_dma_on") /\ tx_dma' = TRUE
        \/ Step("tx_dma_off") /\ tx_dma' = FALSE
     /\ UNCHANGED << active, inDma, dma_mode_in, adcOn >>
  \/ /\ \/ Step("in_dma_on") /\ ModeIn(TRUE)
        \/ /\ Step("in_dma_off_if_tx_dma")
           /\ IF tx_dma THEN ModeIn(FALSE) ELSE UNCHANGED << inDma, dma_mode_in >>
     /\ UNCHANGED << active, tx_dma, adcOn >>
  \/ /\ \/ Step("adc_on") /\ adcOn' = TRUE
        \/ Step("adc_off") /\ adcOn' = FALSE
     /\ UNCHANGED << active, tx_dma, inDma, dma_mode_in >>

ConsoleCore ==
  /\ CoreStep
  /\ UNCHANGED << bench, playVars, dma_mode_out, outDma, dacVars, pastVars >>

BenchStep ==
  \/ /\ Step("bench_modes_off")
     /\ IF bench \in DmaBenches
        THEN ModeIn(FALSE) /\ ModeOut(FALSE)
        ELSE UNCHANGED << modeVars, dmaVars >>
     /\ UNCHANGED bench
  \/ /\ Step("bench_modes_on")
     /\ IF cmd \in DmaBenches
        THEN ModeIn(cmd # "sink_dma") /\ ModeOut(cmd # "flood_dma")
        ELSE UNCHANGED << modeVars, dmaVars >>
     /\ UNCHANGED bench
  \/ /\ \/ Step("bench_off") /\ bench' = "off"
        \/ Step("bench_on") /\ bench' = cmd
     /\ UNCHANGED << modeVars, dmaVars >>

ConsoleBench ==
  /\ BenchStep
  /\ UNCHANGED << coreVars, playVars, adcOn, dacVars, pastVars >>

PlayStep ==
  \/ /\ Step("out_dma_off_if_playing")
     /\ IF playing THEN ModeOut(FALSE) ELSE UNCHANGED << outDma, dma_mode_out >>
     /\ UNCHANGED << playVars, record >>
  \/ /\ Step("out_dma_on")
     /\ ModeOut(TRUE)
     /\ UNCHANGED << playVars, record >>
  \/ /\ \/ Step("play_off") /\ playing' = FALSE
        \/ Step("play_on") /\ playing' = TRUE
     /\ UNCHANGED << primed, dma_inflight, clock_started, queued, outDma,
                     dma_mode_out, record >>
  \/ /\ Step("play_unprime")
     /\ primed' = FALSE
     /\ UNCHANGED << playing, dma_inflight, clock_started, queued, outDma,
                     dma_mode_out, record >>
  \/ /\ Step("play_reset")
     /\ dma_inflight' = FALSE /\ clock_started' = FALSE /\ queued' = "none"
     /\ record' = FALSE
     /\ UNCHANGED << playing, primed, outDma, dma_mode_out >>

ConsolePlay ==
  /\ PlayStep
  /\ UNCHANGED << coreVars, bench, dma_mode_in, inDma, adcOn, dacVars, mixed >>

\* gen_init resets the converter; gen_start and gen_prepare_tioa1 hand it the
\* generator's table, play_start the ring; gen_stop and play_stop mask it.
DaccStep ==
  \/ /\ Step("gen_init") \/ Step("gen_stop") \/ Step("dacc_off")
     /\ dacOn' = FALSE
     /\ UNCHANGED << dacFrom, tc1On >>
  \/ /\ Step("gen_start")
     /\ dacOn' = TRUE /\ dacFrom' = "gen"
     /\ UNCHANGED tc1On
  \/ /\ \/ Step("gen_prepare") /\ dacFrom' = "gen"
        \/ Step("dacc_play") /\ dacFrom' = "play"
     /\ dacOn' = TRUE
     /\ tc1On' = FALSE
  \/ /\ \/ Step("gen_go") /\ tc1On' = TRUE
        \/ Step("tc1_off") /\ tc1On' = FALSE
     /\ UNCHANGED << dacFrom, dacOn >>

ConsoleDacc ==
  /\ DaccStep
  /\ UNCHANGED << coreVars, bench, playVars, modeVars, dmaVars, adcOn, pastVars >>

----------------------------------------------------------------------------
(* The service pass, in the order of the main loop *)

\* The FIFO path used on an endpoint: noted when DMA has that endpoint.
InTouched  == dma_mode_in \/ inDma # "none"
OutTouched == dma_mode_out \/ outDma # "none"
FifoPath(ends) ==
  mixed' = mixed \cup {e \in ends : \/ e = "IN" /\ InTouched
                                    \/ e = "OUT" /\ OutTouched}

PassBegins ==
  /\ svc = "idle"
  /\ Preemptive \/ todo = << >>
  /\ svc' = "play"
  /\ UNCHANGED << consoleVars, coreVars, bench, playVars, modeVars, dmaVars,
                  adcOn, dacVars, pastVars >>

PassMoves(from, to) ==
  /\ svc = from /\ svc' = to
  /\ UNCHANGED << consoleVars, coreVars, adcOn, dacFrom >>

PlayIdle ==
  /\ PassMoves("play", "bench")
  /\ ~playing
  /\ UNCHANGED << bench, playVars, modeVars, dmaVars, dacOn, tc1On, pastVars >>

\* Data came and comes no more: play_service stops playback itself.
PlayAbandons ==
  /\ PassMoves("play", "bench")
  /\ playing /\ queued # "none"
  /\ ModeOut(FALSE)
  /\ playing' = FALSE
  /\ tc1On' = FALSE /\ dacOn' = FALSE
  /\ UNCHANGED << bench, primed, dma_inflight, clock_started, queued,
                  dma_mode_in, inDma, pastVars >>

\* Publish what landed, arm the next span if nothing is in flight, and start
\* the clock once enough is queued.
PlayServes ==
  /\ PassMoves("play", "bench")
  /\ playing
  /\ queued' \in {queued} \cup (IF dma_inflight THEN {"some", "enough"} ELSE {})
  /\ queued = "enough" => queued' = queued
  /\ IF dma_inflight /\ outDma # "none"
     THEN UNCHANGED << outDma, dma_inflight >>
     ELSE \E started \in BOOLEAN :
            /\ started => outDma = "none"
            /\ outDma' = IF started THEN "play" ELSE outDma
            /\ dma_inflight' = started
  /\ primed' = (primed \/ queued' = "enough")
  /\ clock_started' = (clock_started \/ primed')
  /\ tc1On' = (tc1On \/ (primed' /\ ~clock_started))
  /\ UNCHANGED << bench, playing, modeVars, inDma, dacOn, mixed, record >>

\* stream_bench_service: FIFO benches move bytes, DMA benches re-arm.
BenchServes ==
  /\ PassMoves("bench", "core")
  /\ FifoPath(CASE bench = "flood"  -> {"IN"}
                [] bench = "sink"   -> {"OUT"}
                [] bench = "duplex" -> {"IN", "OUT"}
                [] OTHER            -> {})
  /\ inDma' \in {inDma} \cup
       (IF bench \in {"flood_dma", "duplex_dma"} /\ inDma = "none"
        THEN {"bench"} ELSE {})
  /\ outDma' \in {outDma} \cup
       (IF bench \in {"sink_dma", "duplex_dma"} /\ outDma = "none"
        THEN {"bench"} ELSE {})
  /\ UNCHANGED << bench, playVars, modeVars, dacOn, tc1On, record >>

\* stream_core_service arms the IN channel when it has a frame; the UART path
\* touches no endpoint.
CoreServes ==
  /\ PassMoves("core", "drain")
  /\ inDma' \in {inDma} \cup
       (IF active /\ tx_dma /\ inDma = "none" THEN {"core"} ELSE {})
  /\ UNCHANGED << bench, playVars, modeVars, outDma, dacOn, tc1On, pastVars >>

StreamOutInUse == bench \in {"sink", "duplex", "sink_dma", "duplex_dma"}

Fault_StreamInInUse ==
  bench \in {"flood", "duplex", "flood_dma", "duplex_dma"}
StreamInInUse ==
  active \/ bench \in {"flood", "duplex", "flood_dma", "duplex_dma"}

\* Bulk OUT is read by hand on every pass nothing else consumes it.
Drain ==
  /\ PassMoves("drain", "stat")
  /\ IF ~playing /\ ~StreamOutInUse THEN FifoPath({"OUT"}) ELSE UNCHANGED mixed
  /\ UNCHANGED << bench, playVars, modeVars, dmaVars, dacOn, tc1On,
                  record >>

Fault_MayReport == playing /\ ~StreamInInUse
MayReport ==
  playing /\ ~StreamInInUse /\ (Preemptive => ~console_busy)

\* A status record on bulk IN, when one is due.
Report ==
  /\ PassMoves("stat", "idle")
  /\ \/ MayReport /\ FifoPath({"IN"}) /\ record' = TRUE
     \/ UNCHANGED << mixed, record >>
  /\ UNCHANGED << bench, playVars, modeVars, dmaVars, dacOn, tc1On >>

----------------------------------------------------------------------------
(* The USB controller finishes a transfer, or a bus reset aborts it *)

TransferEnds ==
  /\ \/ inDma # "none" /\ inDma' = "none" /\ UNCHANGED outDma
     \/ outDma # "none" /\ outDma' = "none" /\ UNCHANGED inDma
  /\ UNCHANGED << consoleVars, svc, coreVars, bench, playVars, modeVars, adcOn,
                  dacVars, pastVars >>

----------------------------------------------------------------------------
Init ==
  /\ track \in Tracks
  /\ cmd = "stop" /\ todo = << >> /\ console_busy = FALSE /\ issued = 0
  /\ svc = "idle"
  /\ active = FALSE /\ tx_dma = FALSE
  /\ bench = "off"
  /\ playing = FALSE /\ primed = FALSE /\ dma_inflight = FALSE
  /\ clock_started = FALSE /\ queued = "none"
  /\ dma_mode_in = FALSE /\ dma_mode_out = FALSE
  /\ inDma = "none" /\ outDma = "none"
  /\ adcOn = FALSE
  /\ dacFrom = "none" /\ dacOn = FALSE /\ tc1On = FALSE
  /\ mixed = {} /\ record = FALSE

Console == (\E c \in Commands[track] : Issue(c)) \/ ConsoleDrained
           \/ ConsoleCore \/ ConsoleBench \/ ConsolePlay \/ ConsoleDacc

Pass == PassBegins \/ PlayIdle \/ PlayAbandons \/ PlayServes \/ BenchServes
        \/ CoreServes \/ Drain \/ Report

Next == Console \/ Pass \/ TransferEnds

Spec == Init /\ [][Next]_vars

----------------------------------------------------------------------------
(* Types *)

TypeOK ==
  /\ track \in Tracks
  /\ cmd \in Commands[track] \cup {"stop"}
  /\ svc \in {"idle", "play", "bench", "core", "drain", "stat"}
  /\ {console_busy, active, tx_dma, playing, primed, dma_inflight,
      clock_started, dma_mode_in, dma_mode_out, adcOn, dacOn, tc1On,
      record} \subseteq BOOLEAN
  /\ queued \in {"none", "some", "enough"}
  /\ bench \in Benches \cup {"off"}
  /\ inDma \in {"none", "core", "bench"} /\ outDma \in {"none", "play", "bench"}
  /\ dacFrom \in {"none", "gen", "play"}
  /\ mixed \subseteq {"IN", "OUT"}
  /\ issued \in 0 .. MaxCommands

----------------------------------------------------------------------------
(* Properties.  The claims about bulk IN hold on both tracks: the order of  *)
(* stores in stream_core_start and stream_core_stop is for that.  Those     *)
(* about bulk OUT are claims about bare metal; README section 3.2 says what *)
(* breaks them when the service task preempts a command.                    *)

\* The processor's FIFO path never touches an endpoint that is in DMA mode or
\* has a transfer armed ("never mix them on the same endpoint at the same
\* time", drivers/usb_cdc.c; the drain, the status record and the FIFO benches
\* against the DMA modes that commands switch).
NoMixing == mixed \subseteq (IF Preemptive THEN {"OUT"} ELSE {})

\* A transfer in flight belongs to whoever is active, so that the code that
\* reads the channel's status is the code that armed it; and the converter is
\* playback's exactly while playback is active, which is what DACC_Handler
\* dispatches on ("they are never active at once", play.c).
InOwned ==
  /\ inDma = "core" => active /\ tx_dma
  /\ inDma = "bench" => bench \in {"flood_dma", "duplex_dma"}
OutOwned ==
  /\ outDma = "play" => playing
  /\ outDma = "bench" => bench \in {"sink_dma", "duplex_dma"}
DacOwned == playing <=> dacOn /\ dacFrom = "play"
TransfersAreOwned ==
  todo = << >> => InOwned /\ DacOwned /\ (Preemptive \/ OutOwned)

\* After a stop command nothing runs, and both endpoints are back on the FIFO
\* path, whatever was running before; on the RTOS track, capture at least.
CaptureQuiet == ~active /\ inDma = "none" /\ ~dma_mode_in /\ ~adcOn
Quiet ==
  /\ CaptureQuiet
  /\ bench = "off" /\ ~playing
  /\ outDma = "none" /\ ~dma_mode_out
  /\ ~dacOn /\ ~tc1On
StopIsComplete ==
  cmd = "stop" /\ todo = << >> => IF Preemptive THEN CaptureQuiet ELSE Quiet

\* A loop's capture starts with no status record ahead of its first frame in
\* the IN endpoint (the console_busy guard of the RTOS service task).
LoopStartsClean ==
  [][cmd = "loop" /\ ~active /\ active' => ~record]_vars
==============================================================================
