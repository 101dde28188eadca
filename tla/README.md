# Formal model of the Due oscilloscope

TLA+ specifications of an oscilloscope and waveform player built on an Arduino
Due: its firmware, the daemon that owns the board, the window that draws its
samples, and two of the tools beside them. TLC checks them on small instances,
and TLAPS checks proofs for every instance.

Paths below are relative to the repository. `stream_core.c`, `stream_bench.c`,
`console_cmds.c` and `ctl.c` are in `lib/due_shared/src/`; `acq.c`, `play.c`,
`gen.c` and `usb_cdc.c` in `drivers/`; `device.py`, `server.py` and `client.py`
in `host/daemon/`; `stream.py` and `app.py` in `gui/`; `flash.py` and
`stack_depth.py` in `tools/`.

## 1. The system

The board samples its ADC into a ring of four 4 KB buffers and sends each buffer
as one frame over native USB (or a UART). It plays a waveform the host sends,
out of a ring of 32 slots, through the DAC. It can do both at once, and it has
benches that load the USB endpoints. One firmware exists in two builds that
share the drivers: a bare-metal main loop, and a FreeRTOS application with a
service task and a console task. On the host a Python daemon owns the board and
serves several clients; a GUI and measurement tools are its clients.

### 1.1 Inventory

| Component | State it keeps | Operations | What makes it correct |
|---|---|---|---|
| Capture ring, `acq.c` | `acq_produced`, `acq_consumed`, `filling`, three loss counters, PDC registers | `acq_start`, `acq_stop`, `ADC_Handler`, `acq_frame_*` | the handler's count and the PDC's registers agree; a frame's slot is whole; every loss is counted |
| Framer, `stream_core.c` | `active`, `tx_dma`, `tx_phase`, `tx_off`, `seq`, the header being sent | start, stop, `stream_core_service` | a slot lent to USB is not released or reused before the transfer ends; losses are flagged; a frame begun ends |
| Playback ring, `play.c` | `play_produced`, `play_consumed`, `fill_off`, the transfer in flight, `primed`, the abandon timer | `play_start`, `play_stop`, `play_service`, `play_endtx` | the DAC never gets a slot being filled; order is kept; bytes and underruns are counted; a vanished host is noticed |
| USB driver, `usb_cdc.c` | endpoint modes, DMA channels, configuration, DTR, FIFO banks | mode switches, start and stop of DMA, bank reads and writes, control requests | one path per endpoint at a time; a reset leaves no channel armed |
| Generator, `gen.c` | its table, the DACC's PDC | init, start, prepare, go, stop | owns the DACC only when playback does not |
| USB benches, `stream_bench.c` | `bench`, byte counters, `duplex_pending` | start, stop, service | an endpoint is served in the mode it is in; re-arm only what it owns |
| Console, `console.c`, `console_cmds.c` | argument accumulator, selected port | feed, dispatch, commands | commands leave one mode running; stop ends everything |
| Main loop / RTOS tasks | `stream_stat_next`, `console_busy`, `uart_rx_ready` | service order, OUT drain, status record | each endpoint has one reader and one writer on each pass |
| Control channel, `ctl.c` | receive state, packet buffer, `ctl_tx_busy`, heartbeat sequence and drop count | `ctl_service`, `ctl_respond`, `ctl_heartbeat_emit_isr` | resynchronises after noise; heartbeat and response never interleave |
| Clock reference, `clockref.c` | the extended USB frame number, elapsed microseconds, the latched pair | poll, read | the frames and the microseconds handed out are those of one span |
| Control client, `host/control.py` | pending request, request number | open, request, heartbeat demultiplexing, close | a response is matched to its request |
| Board access, `host/measure.py` | descriptors, the cached control link | open, drain, close with its wedge ladder | a link is not closed under a reader |
| Feeder, `pacing.py` | bytes sent, device occupancy | pace, react to status records | the ring neither starves nor stalls |
| Daemon device, `device.py` | `fd`, `_readable`, `running`, the control link, heartbeat period | start, read, stop, control, pump | data of an old run never reaches a new one; closing stops the board; beats come back |
| Daemon server, `server.py` | sessions, controller, per-client queues, recorder, run generation | hello, start, stop, subscribe, record, publish, shut down | one controller; what is dropped is counted; nothing outlives a stop |
| Client and GUI, `client.py`, `gui/` | receive thread, bounded deque, rings per channel, held sweep | receive, drain, ingest, trigger, draw, start a run | what the stream tells of is marked where it is: a gap between neighbours, and a hole of the board's nearby |
| Flash tool, `flash.py` | what it saw before the touch, attempt, flash log | touch, await, write, check, retry, log | the right board gets the right bytes and the log says so |
| Stack tool, `stack_depth.py` | call graph, declared interrupt levels | bound a stack | the number is a bound |
| Measurement tools, records, hardware, H7, sketches | files | offline analysis | no running state of their own, or a separate program |

`PROJECT.json` lists the same components with their sources, and says of each
whether it is modelled, partly modelled or not.

### 1.2 How they interact, and what is hard

* **Capture.** The ADC's PDC writes the slot in its current pointer and takes
  the next one without asking. `ADC_Handler` runs when a slot is full, counts
  it and loads the slot after next. The framer, in the main loop, chooses the
  oldest full slot, writes a header in front of it and lends both to the USB IN
  DMA channel. Nobody waits for anybody: if the host is slow the PDC overwrites
  the frame being sent. The code answers with a rule for skipping when it is
  lapped, with counters, and with a flag in the next header.
* **Playback.** The OUT DMA channel fills a span of slots, `play_service`
  publishes how far it has got, `play_endtx` gives the next published slot to
  the DACC's PDC. Counters are written on one side and read on the other with
  no lock, and the transfer's progress is read from a status register while it
  moves.
* **Modes.** Commands start and stop capture, playback and benches in any order.
  Nothing arbitrates: who owns an endpoint or the converter is a matter of four
  flags and the order they are written in. On bare metal a command is atomic to
  the services; on the RTOS track the service task (priority 3) preempts the
  console task (priority 1) between any two stores.
* **Control channel.** Responses from the main loop and heartbeats from a timer
  interrupt share one endpoint.
* **A run.** A session thread starts and stops the board, the reader thread takes
  whatever the native port has, and the thread that closes the daemon stops the
  device wherever the session is. No lock covers all of it: a gate, a
  descriptor, a flag and a generation number do.
* **The command port.** Every client's query, the heartbeat pump and the ladder
  that unwedges a stuck port find, drop and replace one link.
* **Clients.** A client that does not read holds its sender up for ever, and
  nobody else. Its queue drops the oldest frame; replies and events go first.
* **The window.** Frames cross a bounded deque from the receive thread to the
  window's timer. A held sweep is a view into the ring it was cut from.
* **A flash.** The board that is erased comes back as a node nothing ties to it.

Failures the code handles: DTR dropping, bus reset and reconfiguration in the
middle of a transfer, a DMA channel that will not stop, a refused start, a host
that stops sending, ADC overruns, late interrupts; console writes that fail,
links that die, clients that hang up or stop reading, disks that fill, touches
that are missed, tools that are killed.

## 2. Modules

| Module | Models |
|---|---|
| `CaptureRing` | `acq.c`, `stream_core.c`, the ADC's PDC, the USB IN channel |
| `PlayRing` | `play.c`, the USB OUT channel, the DACC's PDC |
| `Ownership` | command sequences of `console_cmds.c` over the stores of `stream_core.c`, `stream_bench.c`, `play.c`, `gen.c`, and the service pass of both builds |
| `CtlChannel` | `ctl.c`, the control endpoints of `usb_cdc.c`, `Control` of `host/control.py` |
| `DeviceRun` | a run: `start`, `read`, `stop` and `_teardown` of `device.py`, the opening and draining in `host/measure.py`, the reader loop and the frame splitter |
| `CommandLink` | the control link of `device.py` and `host/measure.py`: queries, heartbeat pump, wedge ladder |
| `FanOut` | the reader's loop over the subscribers, each session's queues and sender, the receiving side of `client.py` |
| `DaemonServer` | connections, control, operations, the recorder and `Server.stop` |
| `Display`, `SampleLog` | `gui/stream.py` and the window's timer; what a display window promises |
| `Flash` | `flash.py`, `measure.flash()`, the attribution by `host/provenance.py` |
| `StackDepth` | the bound of `stack_depth.py`, and a processor that must stay below it |
| `ClockRef` | `clockref.c`, the frames, suspends and resets of the bus |
| `RingArithmetic` | facts about `%` and `*` that the ring proofs rest on |
| `CaptureRingProofs`, `PlayRingProofs`, `CtlChannelProofs`, `DisplayProofs` | theorems about the modules they are named for |
| `MainLoopProofs` | theorems about `Ownership` and `ClockRef` |
| `DeviceProofs` | theorems about `DeviceRun`, `CommandLink` and `Flash` |
| `DaemonProofs` | theorems about `DaemonServer` and `FanOut` |
| `MC...` | an instance of each for TLC |

The models meet at named places. `CaptureRing` and `PlayRing` each own one USB
channel and take the mode flags as given; `Ownership` shows when each has its
channel and its converter to itself. `DeviceRun` takes the board as a source of
frames in order, which is what `CaptureRing` is about, and `FanOut` takes from
it a reader that hands on whole frames. `DaemonServer` takes the device as
`running` and the queues as sets of sessions. `Display` takes a stream in which
a lost frame shows as a gap in the numbers and a hole has its flag where
`CaptureRing!FlagNotMissing` puts it, and its `SampleLog` is the only
thing the properties of the screen need to know of the ring. `CommandLink` is
about the same device object as `DeviceRun` and shares no variable with it: the
command port and the native port meet only in `close_native`.

A proof module that holds the theorems of several specifications extends them all, so
these have names of their own where others would clash: `FanInit` and `FanSpec`,
`LinkInit` and `LinkSpec`, `FlashInit` and `FlashSpec`, `ClockInit` and `ClockSpec`.

Definitions named `Fault_...` are deliberate slips in the definition that
follows. They are used by nothing; substituting one for its original must break
the property that `PROJECT.json` pairs it with, which shows the property
notices that mistake.

### 2.1 CaptureRing

Variables keep the names of the C variables (`acq_produced`, `tx_phase`,
`pending_overrun`, ...). Added are the PDC's pointers (`rpr`, `rnpr`, the slot
number or `NoSlot` when the count is zero), the two ADC status flags, the slot
the USB channel reads (`inSrc`), and history: a buffer is named by its
*ordinal*, the order in which the PDC began it, and `slot[s]` is the ordinal
last begun in slot `s`. The samples themselves are not represented. A slot is
torn when the PDC begins it while its frame is in flight.

* `AcqStart` inside `StreamCoreStart`, and `StreamCoreStartRefused`:
  `stream_core_start` in full, also when `acq_start` says no after the framer's
  state was reset.
* `PdcBufferFull`, `SampleLost`, `ADC_Handler`: the converter side. An
  exhausted PDC takes a pair loaded late at once, and the handler counts
  RXBUFF, GOVRE and the ring overflow with the test the code uses, made before
  `acq_produced` moves.
* `ServiceEnter`, `ServiceSelect` and the steps for each `tx_phase`:
  `stream_core_service`, one action per iteration of its loop. `BUDGET` is the
  number of iterations of a call; the interrupt can fall between any two.
* `DmaChunkDone`, `PortClose`, `PortOpen`, `Configure`: the
  controller and the host.

Choices a reader should know:

* The main loop takes no step while an ADC interrupt is pending: it has
  priority 0 and nothing masks it after boot. How *late* the interrupt is to
  the PDC is not bounded: `ADC_Handler` does not assume a bound, it counts the
  case in which the PDC ran dry.
* A handler is one step. Nothing it reads is written by a higher priority.
* ENDRX is cleared by the handler's write of RNCR.
* `Configure` merges the abort at SET_CONFIGURATION with the discard the
  framer does next; `PortClose` may fall inside a service call, which is a
  superset of what bare metal does.
* On the UART transport `tx_dma` is false and the port is always ready.
* `dma_channel_stop` may give up (`StopCanFail`); `stopFailed` remembers it.
* Ordinals start again with each run. Throughput counters are left out.

### 2.2 PlayRing

A slot is `UNITS` units; `ring[a]` says which unit of this run's stream is at
address `a`, `Silence` for the fill. `outAt` and `outLeft` are the OUT
channel's address and residue, `tpr` and `tnpr` the DACC's pointers, `emitted`
the first unit of the slot the PDC emits. The service call is split in three
(`ServiceAbandon`/`ServicePublish`, `ServiceArm`, `ServicePrime`), between which
`DACC_Handler`, `OutDmaLands`, `PdcBufferEmpty`, port changes and ticks fall. One status snapshot is one
step, as it is one register read.

`quiet` is the time since the last arrival the service noticed, in ticks; both
the prime-quiet and the abandon thresholds compare with it. A tick needs a
completed service pass since the last one, because the main loop comes round
many times in a millisecond; without that a silent host cannot be told from a
stalled device.

### 2.3 Ownership

A command is the sequence of steps still to do (`todo`), one step for each
store that the services can see: `CoreStop`, `PlayStart`, `BenchStop` and so on
are the C functions, in their order, `Program(c)` the command. A refused start
is the prefix of the program the code has done by then. A service pass goes
through playback, bench, framer, OUT drain and status record in the order of
the main loop. `track` is chosen at the start and says whether a pass may begin
inside a command (`Preemptive`): on `apps/rtos_bringup` it may, on
`apps/baremetal_bringup` not. `StopsFirst` is the discipline of the host tools,
which send `0` before a start.

Play data is abstracted to `queued` (none, some, enough for the clock to start). An armed
transfer is named by who armed it; `TransferEnds` is its completion or a bus
reset. `dma_channel_stop` always succeeds here. The instants *inside* a command
at which an interrupt sees half of it are left to the `todo = << >>` in the
properties, except for the properties that are about exactly that.

### 2.4 CtlChannel

The byte stream is a sequence of tokens: the magic's four bytes, the other
twelve bytes of a header as one token, and payload bytes. The header token
carries a serial number that is not on the wire, so that a property can say
which request an answer was made for. `ServiceEnter` is a call of `ctl_service`
up to its loop, `FeedMagic`, `FeedHeader`, `FeedPayload` and `FeedSkip` are one
byte of `ctl_feed` each, `RespondBegin`, `RespondTest` and `RespondCommit` the
stretches of `ctl_respond` that the heartbeat interrupt can fall between. The
answer ends the call, as in the code, and the rest of the packet waits in
`rx_buf`. `fifo` is what is stored in the single IN bank and not yet committed.

Lengths are counted in tokens. A magic whose header was lost takes the bytes
that come next for a header; such bytes have the wrong version, and the count to
skip is any of `0 .. JunkSkip`, since it depends on bytes that are not modelled.
The payload of a refused (too long) request spells a whole frame.

The host is one tool at a time. A request is answered, or given up after
`TIMEOUT`; the port may be closed at any moment, which flushes the kernel's
queues and leaves the board's banks alone. DTR rises on open and may or may not
fall on close (POSIX leaves it, since the port is opened without HUPCL). What a
tick must not overtake is in `Settled`: transfers and service passes take
microseconds to milliseconds against 200 ms of `CTL_IDLE_US`, except during a
stall. `Disturb` marks the faults: a reallocation that loses a packet, a stalled
main loop, a tool that dies with something under way.

Left out: bus reset and reconfiguration, requests whose declared length is not
the length sent, wrap of the identifiers with requests outstanding, and what the
opcodes other than HEARTBEAT read and set.

### 2.5 DeviceRun

Three threads (`pc` of the session and of the thread that closes the daemon,
`rpc` of the reader) over `fd`, `readable`, `running`, the board and the bytes the
kernel holds. A frame is a head that carries the magic and a tail; a piece
carries its run's number, which is not on the wire. `StartBegins` to `Confirm`
are the stretches of `start()` between two points where another thread's step
could show, `StopNothing`, `StopBoard`, `StopLost`, `TeardownGate` and
`TeardownClose` those of `stop()`. One pass of the reader is `ReaderLooks` (the gate),
`ReaderReads`, `ReaderChecks` (the generation is compared, once for what was read) and
`ReaderFeeds`, which gives the splitter one piece a step (`Split`) and hands a
frame on as it is complete (`HandsOn`). The code splits everything it has read before
it hands the first frame on; nobody else sees the splitter, and the generation it was
read under is not looked at again, so the order of the two does not show.

`ReaderMayStall` says whether the reader may hold what it read from before a stop
until after the next start has begun its generation, which is a round trip to
the client later. The failures are a port that does not open, a mode the board
refuses, a waveform that is missing, and console writes that raise. The feeder is
a flag; that `join` may time out is left out.

No operation asks whether the server is stopping: `handle()` never tests `_stop`, a
session goes on with the messages it had decoded, and one that is accepted while
`Server.stop` works is never closed. So starts and stops go on in the model after
`CloseDaemon`, and after the device was closed. `overlapped` says that a start was
under way when `close()` tested `running`, or began after that; `left` says what failed
operations have left behind by now: `"port"` when a mode command was lost with the port
open, `"board"` when a playback was refused with the board playing or when `close()`'s own
write was lost. A later teardown or stop takes it out again.

### 2.6 CommandLink

A link object is a name. `board_ctl` and `ctl` are the two cached references,
`opened` the links not closed, `live` those the board answers on, `hooked` those
that deliver beats to the device. `Control...` are the returns of
`BoardDevice.control`, `BoardOpens`/`BoardOpened` the opening in `Board.ctl`
(between them other threads run), `QueryAsks` to `DropInvalidates` a client's
counters and load, `Switch...` and `SetPeriod` the heartbeat operation,
`CloseNative`, `Closed` and `Wedged` the close that ends in the ladder, `Pump...` one
round of the pump. `MaxFailures` bounds failed opens, unanswered requests and wedged
closes together.

### 2.7 FanOut

`FrameRead` is the reader taking a frame and its list of subscribers under the
server's lock; `PutFrame(c)` queues it, one session at a time, so anything may
happen in between. `taken` is what a sender took out of the queues and the socket
has not taken yet, for as long as the client pleases. A frame is its number.
`Unsubscribe`, `DiscardFrames` and `Reply` are the three steps of the unsubscribe
operation that a reader or sender can fall between. Frames discarded with a
subscription are kept apart in `discarded` from those in `lost`, the session's
dropped count; `toSend` is its frame queue.

### 2.8 DaemonServer

A connection is accepted, gets a session, runs one operation at a time
(`session[c] = "busy"`) and is forgotten. `Asks` is the check of control and the
beginning of an operation, the operation itself a later step: control is looked
at without a lock. A recording has its queue, its file, its counts, a writer
thread that takes, writes, fails or ends, and a sidecar. `Finish` is the rest of
the recorder's `stop()`: the file is closed and the sidecar written (`Reports`), or
the last flush failed and the close raises before there is a sidecar (`Raises`, with
the recording in `raised`), which is an error to a client and the end of
`Server.stop`. `StopLists`, `StopCloses` and `StopEnds` are the
stretches of `Server.stop`. `WriterMayStall` says whether a write to the disk may
outlast the five seconds for which the recorder waits.

### 2.9 Display and SampleLog

A sample is named by its run and its place in the stream, as the frames' numbers and
flags tell it. Where the signal itself breaks is kept apart, in `holes`: `Produce`
flags a frame or not, and a hole is in a frame that carries the flag or follows one
that does by at most `Early` frames, which is what `FlagNotMissing` of `CaptureRing`
says of the board (`Early` is its `NBUF - 2`). A torn frame is flagged behind, if at
all, and is not here. `Put` is the client's deque, `Tick`, `Ingest` and `Draw` the window's timer: `Ingest` is
`AcquisitionState.ingest` with `set_rate` and `append` of a channel ring, `Draw`
the selection of a sweep, triggered or not. `Appended` says what each cell holds
after an append, whole ring, wrap or neither. A sweep that one slice of the ring
covers is a view: `live`, and its content is whatever the ring's cells hold now;
the others are copies. `StartCapture` is the reset of the acquisition state
followed by the start command. One channel is modelled; the rings of the others
are fed by the same frames.

`SampleLog` is the abstract promise: the newest samples, oldest first, breaks on
the first sample behind a hole. `Display` implements it with `shown <- Window`.

### 2.10 Flash

Two boards: ours and another that may sit on the same host. A board runs, is in
its ROM bootloader, is resetting, or is absent; `node` is the name its USB node
has. The tool is a program counter over `_flash_attempt`: adopt a bootloader that
is up or find the programming port, touch (`Touch` opens it at 1200 and drops DTR,
`Closes` sets it back to 115200 on the way out), await the node on two polls, touch
again and clear the speed, write through the node and then through the port, wait for
the boot, open the port once more at 115200, log. `speed` is what the port is stored at.
Setting it back may fail, and is passed over, in `Closes` (`flash.py:269`), or gives a
warning, in `restore_115200` (`flash.py:286`); a kill in between leaves 1200 as well.
`Opens` is what the next opening then does on a host where it is a touch of its own
(`Refires`, measured at `flash.py:256-268`): it erases. bossac opens the port too
(`Touching`).

The faults are `AwaitGivesUp`, `NotWritten`, `Drops`, `Killed`, a touch that does
nothing, a speed that stays, and git and the log: `Misread` is what a git call that
fails or times out makes of the tree, both at the check (`Run`) and at the row, and
`Logs` may lose the row, since `_log_flash` swallows everything. A developer edits,
commits and builds at any time. `LogRow` is made of the file and the tree as they are
after the boot; its ghost field `sound` says whether that is still what this run checked
and wrote. `Firmware` is the lookup that provenance makes in the log. The other board
may be running, blank in its bootloader from the start, or absent; it does not enter its
bootloader during a run of ours unless the tool writes it.

### 2.11 StackDepth

The call graph, what the declarations say of each handler and what level it
really has are chosen at the start. `Analyse` is the tool: `find_cycle`,
`deepest`, `roots_of` and `nest_total` as recursive functions over the graph. Then
the processor calls, returns and takes interrupts as the levels allow, and `Used`
is what its stack holds. A call the tool could not follow is an edge to a
stand-in without a frame, which must take the number away from every root above
it. The thread's entry is assumed to be called by nobody, as in both builds; if
something called it, it would not be a root and the thread's term would be
missing from the total.

### 2.12 ClockRef

`Tick` is time, with the host's frames in it; a poll comes at any tick, or at none
for as long as a pass blocks. `PollUnconfigured`, `PollStarts`, `PollRestarts` and
`PollCounts` are the four ways through `clockref_poll` that change anything, after
`usb_cdc_poll` in the same pass; the way that returns at an unchanged number
changes nothing and is a stutter. `epochs` counts the epochs in the span, since
each start adds a fraction of a frame of its own.

What is not in `src/` is taken for granted, and named in the module. That a reset
clears the frame number follows from the note in `sketches/bringup/ctl_port.cpp`
that every bounce of the port cost the other track a whole turn of the number; that
it does so as the reset ends, with EORST, is an assumption. If it
did so as the reset begins, or if a reset ended between the two polls of one pass,
`clockref_poll` would count up to a turn of frames that never were, and `frames` is
not cleared when the device is unconfigured. The other track's
`ctl_port_sof_poll` is not modelled: whether it is right depends on the same moment.

## 3. Runs

| Run | Instance | States | Question |
|---|---|---|---|
| `capture` | ring 4, 2 chunks, budget 2, 5 buffers, 1 loss, 2 starts, 2 port changes, failing stops, fair | 907 k | is the framer ever given, or does it ever release, the wrong slot; is a loss ever missed; is a frame begun always ended |
| `playback` | ring 6, 2 units a slot, 14 units, 1 repeat, 2 starts, 2 port changes, failing stops, fair | 2.0 M | is what the DAC gets whole, in order and counted; does anything leak from one run into the next; does a silent host end playback |
| `clock_ref` | frame 2 ticks, wrap 4 frames, stall 6 ticks, 22 ticks, 3 resets | 7.1 M | are the frames and the microseconds of the pair of one span |
| `modes` | both tracks, all commands (RTOS: without the DMA benches), 7 in a row, stop first | 538 k | has every mode its endpoints and converter to itself, also when the service task preempts a command |
| `ctl_channel` | 2 tools, 2 requests, 2 beats, 2 faults, 1 split write; IDLE 1, TIMEOUT 2 | 5.3 M | are answers whole and matched, refused payloads unread; does a silence restore the channel; does a missing beat show |
| `device_run` | 3 starts, 2 frames a run, 1 failed write | 4.4 M | does anything of one run reach the next; is a frame of a run missing; who reads the port; does closing stop the board |
| `command_link` | 2 sessions and the pump, 2 faults, 1 switch of the beats, fair | 592 k | is a link closed under a reader; do the beats come back |
| `fan_out` | 2 clients, queue of 2, 3 frames, 2 requests each, 1 event | 1.3 M | does the count tell the gap; what can follow an unsubscribe |
| `daemon_server` | 2 clients, 4 operations, 3 frames, 1 recording, queue of 1, 1 failure of the disk, fair | 634 k | is a hole in a recording told; how many may drive the device; what outlives a stop |
| `display` | rings of 7 and 2, frames of 1 and 3, deque of 2, 2 runs, 4 frames, 1 lost, 1 flag, 1 hole, 1 early | 3.4 M | does the ring implement the log; is every gap the frames tell of marked; how far is a hole from a mark |
| `flash` | 2 boards, 2 names, 2 commits, 1 retry, 2 faults, 2 edits, 2 rows, ports that refire, fair | 2.0 M | is success true, also when ports stay at 1200 baud; is the other board spared; does the log say what a board runs; does running it again recover |
| `stack_depth` | a thread, 2 helpers, 3 handlers, 2 levels, all graphs | 1.5 M | is the printed number a bound |

Six more configurations are kept that end in a counterexample, which is their result:
each states what a document or a comment says of the program (section 3.2). They are
run by hand, `tlc -config <file> <module>`, and take seconds.

| Configuration | Statement | Instance |
|---|---|---|
| `CaptureRing_flag.cfg` | `FlagMarksTheBreak` | no failing stops, 7 buffers, the other bounds 1 |
| `CaptureRing_header.cfg` | `HeaderNotOverLiveDma` | 2 starts, one of them over a capture, 7 buffers, no loss |
| `CtlChannel_late.cfg` | `LateReplyNotMistaken` | 2 tools, 2 requests, no beats, 1 fault |
| `DeviceRun_stop.cfg` | `StopStopsTheDevice` | 2 starts, 1 frame, no faults |
| `Display_join.cfg` | `NeverJoined` | one run of 4 frames, 1 flag, 1 hole, none lost |
| `Flash_log.cfg` | `LogNamesWhatWasFlashed` | 2 edits, no faults, 1 row |

**Bounds.** Every bound is a constant named `Max...` and is a guard of one
action, so that a run is the beginning of an unbounded one.

* *Rings.* Five capture buffers take a ring of four past a full wrap, with the
  framer lapped and resynchronised; six buffers pass as well under the safety
  properties alone (3.3 M states). Two chunks are the least for which a frame can
  be half sent. A playback ring of six is the least with room
  for a start threshold of four above a minimum of three, the two reserved slots and
  a span cut by the wrap; 14 units are seven slots, past the wrap. With two repeats
  everything passes as well (3.4 M states), and with a ring of seven.
* *Modes.* Seven commands are three starts with their stops and one more stop, so
  each mode follows each other mode.
* *Clock.* A frame number of two bits wraps every eight ticks and the stall limit is six,
  as 1.5 s is to 2.048 s; 22 ticks hold a stall that hides a whole turn, the restart and
  a span after it; three resets are three epochs in one span.
* *Control.* Two requests are enough for an answer to come late or a frame to be
  read as another's tail, two faults for a tool that dies in mid frame with a
  packet lost or a stall on top. Only `IDLE < TIMEOUT` matters of the two times:
  the host waits at least 1 s where the board abandons a frame after 0.2 s.
* *Daemon.* Three starts are a run, one that fails or is refused and one after it;
  two frames a run are the least for one to be cut and another to follow. Two
  faults on the command link are a replaced link that fails again. A queue of two
  with three frames overflows with one more frame in the sender's hand. One
  recording with a queue of one can be full, fail and be cut off by a stop.
* *Screen.* Frames of one and three meet a ring of seven and one of two: less than
  a ring, wrapping, and longer than it. The ring of seven holds the flagged frame, the
  one after it with the hole in it, and what is before them; the frame with the
  flag, or the one after it, may be the one that is lost.
* *Flash.* Two faults make a first attempt go wrong and its repair go wrong as well
  (missed touch, late node, a speed that stays); two rows let the log name one commit
  twice, and two edits are a change and a build. Two names are enough for two boards
  to be told apart and, while the other is away, for one to come back under another
  name; with three names everything passes as well (4.5 M states).
* *Stack.* Ten functions on the stack are more than three handlers and the thread
  can hold with two helpers each and no recursion.

**Deadlock** is not checked: every bounded run stops when its bounds are used
up, and the system itself may rest.

**Fairness.**

* `capture`: the main loop keeps running, a pending interrupt is taken, and
  while the port is open the host reads, so the channel moves
  (`WF_vars(ready /\ DmaChunkDone)`: a chunk in flight when DTR falls may be
  read or may stay there for ever); the header and
  payload writes of the UART path are strongly fair, since a port change can
  disable them over and over while bounded port changes cannot do so for ever.
* `playback`: the main loop, the interrupt and the clock, and *nothing of the
  host*: that is the point of the property.
* `command_link`: threads go on, and the lock is handed to whoever keeps asking
  (strong fairness for the pump's turn); clients need not ask for anything.
* `daemon_server`: threads go on. Clients neither have to ask nor to leave.
* `flash`: the tool runs, a board that was reset comes back on the bus, and the
  operator runs the tool again on a board that was not flashed.

### 3.1 Properties

* `RingInv` (capture): index, count and PDC registers agree up to one
  interrupt's delay, and each of the last `NBUF` buffers begun is where its
  number says.
* `SelectsWhole`: the slot chosen for a frame holds the buffer its index names,
  and the PDC neither writes it nor takes it next, however late the interrupt.
* `SourceHeld`: the slot lent to USB stays the head of the ring until the
  channel is done, through port changes, stops and resyncs.
* `TornIsCounted`: a frame overwritten in flight is in the counters.
* `FlagNotMissing`: a break between consecutive frames is flagged on the later
  frame or at most `NBUF - 2` frames early.
* `TransmissionEnds`: no frame is held for ever, through any port changes,
  unless the host closes the port for good over a chunk it never reads. That one
  case is in the property because it is in the code: `stream_core_service` then
  returns at lines 199-200 on every pass, discarding nothing, and only a stop or a
  new configuration ends it.
* `PlaysWhatLanded`: the slot the DAC emits is a whole slot of this run's data that
  the OUT channel is not writing, and with no transfer in flight the counts and
  the resumption offset are exactly what landed, aborts included.
* `EmissionInOrder`: slots come out in the order they came in, and a repeat is an
  underrun counted, at most one ahead of its repeat.
* `ShortPlaybackStarts`: the abandon timer never drops a playback long enough
  to be started.
* `HostLossIsNoticed`: playback ends by itself when the host goes.
* `PairIsTrue` (clock reference): elapsed time and frame count agree to less than a
  frame for each epoch, so no wrap is missed or added and both count from one origin.
* `NoMixing`, `TransfersAreOwned`, `StopIsComplete`: the FIFO path keeps off an
  endpoint in DMA mode; a transfer, and the converter, belong to whoever is
  active; after a stop nothing runs. On the RTOS track the claims are those that
  hold there: everything about bulk IN and the converter. Section 3.2 says why not more.
* `LoopStartsClean`: no status record goes ahead of a loop's first frame.
* `WireIsWhole`: a packet is one frame of one writer.
* `NoGhost`: bytes of a refused payload are not obeyed unless something was lost.
* `NoReplyMistaken`: a tool never takes a late answer for the one it waits for.
* `SilenceRestores`: after any fault, a silence longer than the idle timeout
  leaves a channel on which every request is answered, or its loss is counted.
* `LostBeatShows`: a beat that did not reach the host shows in `seq` or in
  `dropped` of the next one that does.
* `OnlyWholeFrames`, `EveryFrameDelivered`: no client is given a frame put together
  from two, and each frame of a run reaches the clients, the first one included.
* `OneReader`: while the port is drained the reader keeps off it, and while the
  board sends the gate is open.
* `ClosedMeansStopped`: closing the device leaves the board stopped and the port shut,
  also when a session's stop was under way or its write had failed, up to what
  `overlapped` and `left` name (section 3.2 says what that is).
* `LadderSparesReaders`: the ladder never closes a link somebody is reading.
* `BeatsResume`: after the last fault the pump gets at the beats again.
* `CountTellsGap`: every frame queued for a client arrived, is on its way, was
  discarded with its subscription, or is in the count.
* `AtMostOneAfter`: at most one frame follows the reply to an unsubscribe.
* `HoleIsTold`: what a recording was offered is in the file, in order and once, or
  counted, or the sidecar carries the error.
* `OneMutator`, `ControlReleased`: two clients never drive the device at once, and
  control does not stay with a client that left.
* `StopLeavesNothing`: when `Server.stop` has returned a recording has its sidecar,
  whoever got hold of it first, unless its `stop()` raised, a `record.stop` is still
  at it, or it was begun behind the list; and no session or run is left, unless
  something was being accepted or run meanwhile.
* `ShowsTheNewest`: the ring, through wraps and changes of rate, is the log of
  `SampleLog`.
* `NothingJoined`: within a run, samples with a flag or a missing number between them
  are not drawn as adjacent without a mark, and no trigger sits on such a mark's splice.
* `MarkIsNear`: a hole of the board's has a mark less than `Early + 1` frames of
  samples ahead of it, though the flagged frame itself may have been dropped.
* `HeldUntilOverwritten`: a held sweep is what was drawn until the ring comes round;
  proved, and in no run.
* `SuccessIsWritten`: success means that the image is on a board when the tool is
  done and stays there, though the last thing it does is to open a port that was at
  1200 in between, unless the attempt could not set that port back (section 3.2).
* `AttributionIsTrue`: what provenance finds in the log for the commit a board states
  is what the board runs, and a flash that was reported and logged is found; of rows
  that are `sound`, among rows that are not, that are lost, or that hide others.
* `OthersSpared`: another board is only written when no port was named, or after a
  touch that did not bring our bootloader up in time.
* `Recovers`: however a flash ended, running the tool again gets the board flashed.
* `BoundHolds`: no nesting of calls and interrupts uses more than the total, and no
  chain of calls more than the row of its root.

Properties that depend on a channel being stopped exempt behaviours in which
`dma_channel_stop` gave up, and say so; the three of `DeviceRun` about frames exempt, in
`leftover`, a behaviour in which a start or stop failed half way and left the board as
it was. `ClosedMeansStopped` does not: it names what is left and until when.

### 3.2 What the models also show

The properties above say what holds. Where a comment or a document claims more,
the claim was stated as well, and a configuration shows its counterexample.

| Configuration | Statement | What happens |
|---|---|---|
| `CaptureRing_flag.cfg` | `CaptureRing!FlagMarksTheBreak` | `docs/protocol.md:64` says the flag marks the frame that does not join on. It goes on the first header built after a counter moved (`stream_core.c:300`), which is up to two frames early; `FlagNotMissing` is what holds. |
| `CaptureRing_header.cfg` | `CaptureRing!HeaderNotOverLiveDma` | A refused start (`stream_core.c:61`) has set `tx_phase` to idle with the channel still reading, and the next call builds a header in that slot, which the comment at `stream_core.c:191` rules out. |
| `CtlChannel_late.cfg` | `CtlChannel!LateReplyNotMistaken` | Each `Control` numbers its requests from 1 (`control.py:185`) and the board keeps an unread packet across a close, so a killed tool's answer is taken by the next tool; `docs/control-protocol.md:290` says the number tells them apart. |
| `DeviceRun_stop.cfg` | `DeviceRun!StopStopsTheDevice` | A playback start without a waveform is refused after the board has been told to play (`device.py:1225`); `running` is still false, so the stop that follows does nothing, and answers that it stopped (`docs/daemon-api.md:83`). |
| `Display_join.cfg` | `Display!NeverJoined` | `docs/frontend.md:548` says never to join across a discontinuity. With the flag on an earlier frame the break is drawn there and the samples around the hole are joined (`stream.py:437`); `MarkIsNear` is what holds. |
| `Flash_log.cfg` | `Flash!LogNamesWhatWasFlashed` | `_log_flash` calls itself the place that knows the binary and the tree at the same moment (`flash.py:628`). It reads both when the board has booted; a build in between puts a file in the row that was not flashed. |

On the RTOS track, and in modes used together:

* `play_stop` takes OUT off DMA before it clears `active` (`play.c:220`); preempted in
  between, `play_service` arms it again. `play_start` raises `active` before it
  clears `primed`; preempted there, the clock starts on an empty ring.
  `stream_bench_stop` hands the endpoints back before it clears `bench`. The
  framer's own stop has the order right, and run `modes` shows that it matters.
* A stream start with the generator over a running playback takes the converter
  and leaves playback's flag set (`stream_core.c:53`, `play.c:494`); with a stop first,
  as the host tools send, it cannot happen. A UART stream started over a USB
  stream leaves IN in DMA mode because `tx_dma` no longer says so.

In the firmware otherwise:

* A frame overtaken in flight is sent torn and only counted: the lap check is
  made once, when a frame is chosen. On an underrun the buffer repeated is the one
  before the current.
* A beat skipped because an answer is being written does not advance `hb_seq`,
  although the comment at `ctl.c:935` says the host sees a gap in `seq`; it
  shows in `dropped` alone. An answer is dropped, and counted, when a beat the
  host has not fetched occupies the single bank; `docs/control-protocol.md:315` says
  every response is sent. A stale answer taken after a reused number lets the host
  send on while the parser is still out of step, which is why `SilenceRestores` counts
  the silence from the last request sent too soon.

In the daemon:

* With `ReaderMayStall` TRUE a reader that slept through a stop and a start feeds
  pieces of the old run to the splitter of the new one: the generation is compared
  after the read (`server.py:500`), so the splitter is reset first and then given
  the old bytes. A start refused during a run costs that run a
  frame, since it begins a generation.
* A start that is under way when `close()` tests `running`, or that begins after it, leaves
  the board streaming with the port open, or with the port closed under it:
  `handle()` (`server.py:537`) does not ask whether the server is stopping, and a session
  accepted between the list of line 408 and the end of `_accept_loop` is never closed.
  So does a stop that `close()` itself cannot write. A mode command that is lost leaves
  the port open and readable (`device.py:1200`), since `start()` undoes nothing.
* A failed open is remembered (`_ctl_tried`) and nobody asks again, so the beats stay
  away until the daemon is restarted; `BeatsResume` exempts it. Two sessions whose
  queries keep failing can drop each other's newly opened link for ever, hence
  `OneClientLeft`. `_drop_control` closes without holding `_ctl_lock`.
* The frame that may follow an unsubscribe need not be "the one the sender already
  holds": it can be one the reader queued by a list it took before.
* With `WriterMayStall` TRUE the sidecar is written while frames are still in the
  queue and the write goes on (`server.py:299`), so a hole is in no count. An error
  of the last flush is swallowed (`server.py:307`), and the close two lines on flushes
  again and raises: the recording gets no sidecar. For a client's `record.stop` that is
  an error reply; in `Server.stop` (`server.py:415`) the exception leaves the function,
  so the threads are not joined and `device.close()` is never called. A session that is
  accepted, or an operation that begins a run or a recording, behind the list is left
  over (`straddled` in `StopLeavesNothing`). `Server.stop` waits for no session. A controller
  that says hello as an observer changes its role and stays the controller
  (`server.py:676`).

On the screen:

* A trigger can sit on the samples that `Display_join.cfg` shows joined, though
  `docs/frontend.md:608` has a crossing at a discontinuity rejected.
* `start_capture` resets the state and leaves the client's deque alone, so frames of
  the old run can enter the new rings (`stream.py:376` says they must not). They are
  joined to the new run's without a break if the numbers happen to follow on, since
  nothing in a frame says which run it is of; `Follows` is therefore only claimed within a run.
* A held sweep is a numpy view. Once the ring has come round, the measurements and
  the export (`app.py:750`) describe samples that were never drawn.
* The two-channel plot takes the samples without their break marks.

In the tools:

* With a named port whose board comes up late, the only other bootloader there is
  adopted (`flash.py:506`); a second board in its bootloader otherwise ends the run.
  The boot check takes an empty bus for a board that has started, also in the
  middle of its reset, and watches nothing when the write went through the
  programming port. An exit by `SystemExit` passes over the restoration of 115200.
* Where an opening at 1200 is a touch, a board can be erased by the tool that has just
  flashed it: setting the speed back is passed over when it fails (`flash.py:269-272`),
  or ends in a warning (`flash.py:286-298`), and the opening at `flash.py:587` comes after the
  boot check. The run is reported and logged as a success; `SuccessIsWritten` exempts
  such an attempt (`unrestored`).
* A success need not be found in the log. `_log_flash` swallows whatever goes wrong
  (`flash.py:730`), and a git call that fails or times out gives a row without a commit,
  or one that calls the tree clean (`flash.py:652-660`, `714`). `check_stamp_agrees` lets an
  image through when git does not answer (`flash.py:999` on). Without `--require-tree`
  a row can give one commit's name to another commit's bytes. `AttributionIsTrue` claims
  nothing of these rows, but that they do no harm to the others.

## 4. Proofs

Each theorem holds for every value of the constants that the module's ASSUMEs allow; TLC
evaluates those ASSUMEs in every run. In `[]P` below the `Spec =>` is left out.

| Module | Theorem | States | Hypothesis |
|---|---|---|---|
| `CaptureRingProofs` | `TypeCorrect` | `[]TypeOK` | |
| | `RingConsistent` | `[]RingInv` | |
| | `SelectionIsWhole` | `SelectsWhole` | |
| | `SourceIsHeld` | `[]SourceHeld` | no start during a capture |
| | `TornFramesAreCounted` | `[]TornIsCounted` | |
| | `NoBreakIsSilent` | `[]FlagNotMissing` | no start during a capture |
| `PlayRingProofs` | `TypeCorrect` | `[](TypeOK /\ DmaOK)` | |
| | `PlaybackIsExact` | `[]PlaysWhatLanded` | |
| | `BuffersInOrder` | `EmissionInOrder` | |
| | `ShortPlaybackIsStarted` | `[]ShortPlaybackStarts` | |
| `CtlChannelProofs` | `TypeCorrect` | `[]TypeOK` | |
| | `PacketsAreWhole` | `[]WireIsWhole` | |
| | `MissingBeatsShow` | `LostBeatShows` | |
| | `RepliesAreOwn` | `[]NoReplyMistaken` | `MaxRequests < IDS` |
| | `SilenceIsEnough` | `[]SilenceRestores` | |
| | `OnlyFramesAreObeyed` | `[]NoGhost` | |
| `DaemonProofs` (`FanOut`) | `DropCountExact` | `[]CountTellsGap` | |
| | `UnsubscribeIsQuiet` | `[]AtMostOneAfter` | |
| (`DaemonServer`) | `TypeCorrect` | `[]TypeOK` | |
| | `MutatorsTakeTurns` | `[]OneMutator` | |
| | `HolesAreTold` | `[]HoleIsTold` | no write outlasts its join |
| | `StopIsClean` | `[]StopLeavesNothing` | |
| `DisplayProofs` | `TypeCorrect` | `[]TypeOK` | |
| | `ImplementsLog` | `ShowsTheNewest` (refinement) | |
| | `HeldSweepIsDrawn` | `[]HeldUntilOverwritten` | |
| | `SplicesAreMarked` | `[]NothingJoined` | |
| `MainLoopProofs` (`Ownership`) | `Ownership_Inductive` | `[]IInv` | a stop before each start; no DMA bench on the RTOS track |
| | `Ownership_NoMixing` | `[]NoMixing` | the same |
| | `Ownership_TransfersAreOwned` | `[]TransfersAreOwned` | the same |
| | `Ownership_StopIsComplete` | `[]StopIsComplete` | the same |
| | `Ownership_LoopStartsClean` | `LoopStartsClean` | the same |
| (`ClockRef`) | `PairHolds` | `[]PairIsTrue` | |
| `DeviceProofs` (`DeviceRun`) | `DeviceRun_Ordered` | `[]Order_Inv` | |
| | `DeviceRun_OneReader` | `[]OneReader` | |
| | `DeviceRun_ClosedMeansStopped` | `[]ClosedMeansStopped` | |
| | `DeviceRun_InOrder` | `[](Order_Inv /\ Reader_Inv /\ Stream_Inv /\ Clean_Inv)` | the reader has handed on what it read by the next start |
| | `DeviceRun_OnlyWholeFrames` | `[]OnlyWholeFrames` | the same |
| | `DeviceRun_EveryFrameDelivered` | `[]EveryFrameDelivered` | the same |
| (`CommandLink`) | `LadderIsExclusive` | `[]LadderSparesReaders` | |
| (`Flash`) | `FlashTypeCorrect` | `[]FlashTypes` | |
| | `SuccessHolds` | `[]SuccessIsWritten` | |
| | `OtherBoardIsSpared` | `OthersSpared` | |
| | `LogTellsTheTruth` | `[]AttributionIsTrue` | |

Most theorems have no hypothesis. The others' are needed, and each is met by the runs:

* `StartWhileActive = FALSE`: the host tools send `0` before a start. Without it a
  refused start abandons a transfer under way (`HeaderNotOverLiveDma`, section 3.2).
* `WriterMayStall = FALSE`: a write to the disk ends within the join of
  `_Recorder.stop`. Otherwise the sidecar is written too early (section 3.2).
* `StopsFirst = TRUE`, and `NoDmaBenchesOnRtos`: the host tools send `0` before a start,
  and on the RTOS track the DMA benches are left out. A stream start over a playback
  takes its converter, and a bench's stop that is preempted finds its own transfer
  armed again (section 3.2). Any sequence of the other commands is allowed, on both
  tracks, and on the RTOS track a service pass may begin between any two of a
  command's stores.
* `ReaderMayStall = FALSE`: what the reader read before a stop it has handed on when
  the next start, a round trip to the client later, begins its generation.
  Otherwise frames of two runs can be joined (section 3.2).
* `MaxRequests < IDS`: fewer than 65535 requests, so that `req_id` does not come round
  while an old answer is about. The kernel's queues are not bounded in the model, so a
  board that stalls for 65535 requests could otherwise answer the first as the last.

### 4.1 The arguments

*Capture.* `TypeOK` is inductive by itself and is proved in three parts (flags, counts,
places), because the provers handle each kind of value best alone. `RingInv` is
inductive given `TypeOK`. Its core, `RingShape`, says which of three situations the PDC
is in: the interrupt has been taken and both pointers are loaded; it is pending and the
PDC is one buffer ahead of the count, or has run dry; it was late, and the reload set
the PDC going one buffer ahead with nothing latched. One lemma per action that touches
it (`ShapeOfStart`, `ShapeOfFull`, `ShapeOfHandler`) moves between them, and `ShapeKept`
covers the rest. That the last `NBUF` ordinals are where they belong is kept by
`FilledStep`, which rests on `SlotsApart` of `RingArithmetic`: two numbers less than
`NBUF` apart have different residues. `SelectionIsWhole` then needs only the guard of
the resync rule: an index at most `NBUF - 2` behind the count is in neither PDC pointer
(`SafeToSelect`).

`TornIsCounted` is not inductive: between the PDC's step and the handler's count a frame
is torn and not counted. `TornInv` adds that the handler's test, when it comes, will
succeed. `FlagNotMissing` speaks of frames already sent; `FlagInv` adds what is known of
those to come (`LossInv`): every lossy buffer still ahead of the framer is in the counts
that the next header compares, or will be counted by the interrupt that is due, or a
frame already flagged is at most `NBUF - 2` before it. `OrderInv` ties the header under
way to the index.

*Playback.* `DmaOK` (the channel's address and residue stay inside the ring, even if the
channel could not be stopped) makes the type invariant inductive. `PlayInv` has the
rest, for behaviours in which every stop worked: `SpanOK` says where the transfer in
flight began and how long it is, in terms of the published count and `fill_off`;
`ContentsOK` that every unit from the buffer before the next to be consumed up to what
has landed is in the slot and at the offset its number names; `DrainOK` and `LatchOK`
that the PDC's two pointers are slots of buffers in order, and that a repeat latched is
a repeat counted. The span arithmetic (`Snapshot`, `ArmedSpan`, `LandsAt`) turns on
`PlaceOf`, `UnitOf` and `WholeSlots` of `RingArithmetic`: division of an address into a
slot and an offset. That nothing overwrites what the PDC owns (`NotOverwritten`) is the
guard of `ServiceArm`: the span is clipped to the room, which leaves out the two slots
of the PDC. `ShortPlaybackStarts` needs `QuietOK`: a playback not primed has been quiet
only since its last service pass.

*Control channel.* `WireInv` adds `BankHeld` to `WireIsWhole`: from the test of TXINI to
the commit the bank is empty and holds the answer's bytes, and at no other time is
anything stored in it. `BeatsInOrder` orders the beats on their way by `Excess`, what
`seq` and `dropped` say beyond the number of interrupts; it never falls, so of two beats
read with one missing between them one of the two fields has moved by more than it
should. `NumbersAgree` says that every token, header and answer anywhere in the channel
belongs to an earlier tool, or has the serial number its identifier stands for (`Own`).

`SilenceRestores` and `NoGhost` rest on one invariant, `Restored`. `InStep(lab)` gives
each token on its way to the board a place, its request and its position in that
request's frame, such that the tokens are those of whole frames from the first one's
position on and the parser is in the state that position calls for. `FedInStep` shows
that a byte fed moves the parser to the next place (`InMagic`, `InHeader`, `InPayload`),
obeys nothing else, and makes the answer when the place is the frame's last. `Synced`
claims `InStep` whenever there was no fault or a silence since, and that the answer
waited for is due from a token, or on its way, or counted as dropped. `Quieting` is what
makes the silence do its work: during it nothing is on its way and a parser left inside
a frame is idle for as long as the silence lasts, so that when it ends the next byte
starts afresh. `Attended` turns the absence of anything under way at a tick into the
property.

*Fan-out.* `CountTellsGap` is inductive with `TypeOK`, whose own induction needs the
bound on the queues; its core is what one `PutFrame` does to a queue (`QueuedLength`).
`AtMostOneAfter` needs `UnsubscribeInv`: there is one reply at a time (`OneReply`), and
what may still come to a client that is leaving, in its queue, the sender's hand and the
reader's list, is bounded at each stage of its request (`OwedOneAtMost`).

*Daemon.* `Controlled`: an operation that changes the device belongs to the controller,
and control moves only between operations. `RecordInv`: what a recording was offered is
in the file, in the writer's hand, in the queue, or counted, and these are in order.
`StopLeavesNothing` needs `Kept`, which says whose a recording is at each moment (the
server's, or the thread's that ends it) until its file is closed, and `Quiet`, which follows the stages of a stop
that found nothing under way: no session is left to begin anything and what the list
holds is on its way out.

*Display.* `ImplementsLog` is a step simulation: each action of `Display` is a step of
`SampleLog` under the refinement mapping `Window`, or leaves it alone. `AppendCell` and
`WindowAfter` give the window after a write that may wrap. `HeldInv` says where the
cells of a live view are, counted from the write position when it was cut, and that the
ring has `room` writes left before it reaches them. `ChainInv` carries adjacency from
the deque into the ring: each frame that waits, and the ring's last sample, is followed
by what its number and flag announce (`QueueOK`, `TailOK`), hence the window and the
trigger.

*Flash.* `Landed` carries the written image from bossac's success to the end of the run
and beyond; the one later step that could erase, the last opening of the port, needs
the port to be at 115200, which `Orderly` gives for an attempt that set it back. `Steady` is why the other board is spared: as long as a
port is named and touches work, its bootloader was seen before the touch, and ours is
erased and hence in its bootloader or on its way to it. So a new bootloader is ours
(`FreshIsOurs`), and a lone old one that is adopted is ours too, come back under a name
that was there before (`AdoptedIsOurs`); both need that two boards have two names
(`Apart`). `Told` keeps, from the start of a run to its row, that the image and the tree
it checked agree, hence that every sound row agrees with itself (`NewRow`); the newest row
under a commit, if sound, is then that commit's image.

*Modes.* The difficulty of `Ownership` is that a command is half done at any store, and
that on the RTOS track a pass may begin there. What a command has still to do is a
sequence, but only which names are left in it matters (`Left`), and for each name which
others come after it. `Facts` lists these orders for the names that need one: playback's
flag goes up after its channel was armed, a bench's flag comes down after its
endpoints were given back. `Ordered` says it of a sequence; `TakesOne` that it
survives a step, and gives the facts of the step taken; `Joined` lets the programs of
the commands be put together from their parts. The invariant `IInv` then relates what
is set to what is left: a converter that is playback's while no playback is on is to
be started or to be given back (`DacSide`); bulk IN in DMA mode belongs to a capture, a
bench, or a bench that will yet raise its flag (`InSide`, and `OutSide` for bulk OUT on
bare metal); a stop either has done its step or has it left (`StopSoFar`). With nothing left,
what remains of each is the property. `CommandFlags` says which command can have raised
which flag, which is where the stop before a start is used.

*Clock.* `PairIsTrue` speaks of two numbers; the proof of where they come from. `SpanInv`
says that the last number was read in some frame `k` of all time, `q` ticks into it
(`Since`): the host is as many numbers further as there were frames since, the stored
microseconds are those of that tick, and less than a turn of either clock has passed.
Then a number that changed tells the frames by `StepsAreTrue` and `micros()` the time by
`GapIsTrue`, which is where the stall limit below a turn is used. The error of a span
is `q` at most while it lasts, so that it comes to less than a frame for each epoch (`Slack`);
`SumInv` adds these up, and `BusInv` says what the port knows of the host's number
when the link is up, silent, or just reset.

*A run of the device.* `Order_Inv` is the order of the assignments in `start()` and
`stop()`: which thread may be where (`Places_Inv`), what is open, set and sending at
each place when no start or stop was left half done (`Gate_Inv`), and who answers for a
board or a port that is left when one was (`Left_Inv`). `OneReader` follows from the
second part and `ClosedMeansStopped` from the third. For the frames, `Stream_Inv` says how many pieces of
the run have been split, `next`, and that what the reader holds and then what the kernel
holds are the pieces that follow, in order, up to the last one sent (`Queued`); that the
splitter's buffer is the piece before, or one that the reset of the next pass will throw
away (`Buffered`); and that the last frame handed on is the one that `next` says (`Delivered`).
A start finds the kernel and the reader empty, which is where `ReaderMayStall` is used.
Once the daemon is closed over a start none of this holds, but then the reader has ended,
so that what was handed on stays right (`Clean_Inv`).

*Command link.* `Exclusive`: a thread that reads the link, or closes the native port and
so may climb the ladder, holds the lock; and the lock has one holder.

The choice of a recording's name, and of the largest index below a bound, needs that a
set of numbers has a least member; `FirstUnused` and `LargestMember` take it from the
library's theorem that `<` on the naturals is well founded.

### 4.2 What the proofs changed in the models

* `Display` let `Pre` be any number. The proof of `NothingJoined` needs the trigger to
  be on the screen; the code takes `round(0.5 * n)` of `n` samples, and
  `DisplayAssumption` now says `Pre \in 0 .. Screen - 1`. The ghost field `since` of a
  sweep grew with every frame for ever; it stops once past `room` (`Aged`), as nothing
  asks for it beyond.
* `DaemonServer` did not say that its two names for nobody are not clients;
  `DaemonAssumption` does. Its sidecars and states have a `TypeOK` of their own.
* `Flash` did not say that there are two names to tell two boards apart by, a commit to
  build, and that no commit is the mark of an erased, foreign or unwritten flash;
  `FlashAssumption` does.
* `DeviceRun` folded the splitter over what was read, in one step. A fold computes by
  recursion over data, of which nothing can be proved here; the reader is now two
  steps, the comparison of the generation and the splitting, a piece at a time. The
  run has more states for it and its properties are the same.
* `CommandLink` did not say that a session is not the pump, nor `Nobody`, the holder of a
  free lock; `LinkAssumption` does.
* `CtlChannel` has a `TypeOK` in three parts (`Receives`, `Sends`, `Waits`) strong
  enough to be inductive: among other things a payload under way is shorter than its
  header says.

### 4.3 Only model-checked

* `BoundHolds` of `StackDepth`: what its recursive definition computes for every graph
  needs induction over data, which the provers cannot do. With `MarkIsNear` of
  `Display` it is the one invariant of a passing run that no theorem states.
* All liveness (`TransmissionEnds`, `HostLossIsNoticed`, `BeatsResume`,
  `ControlReleased`, `Recovers`): fairness and ENABLED are out of the prover's reach.

Each component that has theorems has its variables typed by them: by its `TypeOK`
(`FanTypeOK` and `FlashTypes` in two of them), or, for `Ownership`, `ClockRef`, `DeviceRun`
and `CommandLink`, by the conjuncts of the inductive invariant that the proof needs
(`Interlock`, `BusInv`, `Flags_Inv`, `Exclusive` and so on), and no further. The rest of those modules' type invariants holds in their runs'
instances and is in no run: the runs check what says more.

## 5. Not modelled

The map covers a small share of the Python by lines, and no honest model would
cover most of it. Nearly half of it is `measure.py`, `dso_metrics.py`, the other
analysis tools and the record writers: floating-point signal processing and
reporting over recorded data on one thread, in which TLC has nothing to interleave
and no integers to count. Much of the rest is formatting, argument parsing, Qt
widgets and drawing. What keeps state over time or is shared between threads is
what was chosen.

* Of `ClockRef`: the heartbeat interrupt that reads the pair between its two stores,
  and then reports frames newer than its microseconds; the frequency that
  `ctl_fill_sof` computes and caches from the pair; the 49 days of the frame count.
* Enumeration and the sample endpoints' FIFO banks, the
  console parser, the benches' byte counts, the generator's table.
* The feeder's pacing: a control loop over real numbers.
* `FakeDevice` and `FileDevice`, the H7 device and its simulator, the rate tables.
* Board support, reports and formatting, one-shot ADC and DAC reads: no
  concurrency, or register access only.
* The Arduino sketches and the H7 firmware are other programs.
* A port closed and opened again in the middle of a run discards a frame without
  marking it; `FlagNotMissing` starts a new session there.
* The DACC's FIFO below one buffer, and the gap when its interrupt is later than a
  whole buffer.
* Of `Flash`: `--samba`, `--close-at-1200`, `--no-boot-check` and `--stale-ok`, with
  which the operator takes the decision over, a bossac that outlives the tool, and
  the matching of stamps older than the present format.
* Of `StackDepth`: reading the compiler's and the linker's output, in which most of
  the tool's lines are, and the matching of names.
* Of `Display`: two channels at once, the two-channel plot, measurements.

## 6. Plan

1. The safety part of `ControlReleased` as an invariant: who holds control is a session
   that is registered, or one on its way out.
2. The other track's poll of the frame number (`ctl_port_sof_poll`), which rests on
   the moment at which a reset clears it (section 2.12).
3. `UsbCdc`: reset, configuration and banks; the benches' byte counts and the
   resumption of a short write.
4. `FrameStream`, the abstract promise of a capture (frames in order, breaks
   flagged at most a ring early), with `CaptureRing` shown to implement it and
   `DeviceRun` taking it for its board.
5. Pure algorithms against references: the span arithmetic, `gen.c`'s table,
   `rates.py`, the console's argument accumulator.
