----------------------------- MODULE DaemonServer -----------------------------
(***************************************************************************)
(* The daemon's life around its clients (host/daemon/server.py): sessions  *)
(* that are accepted, ask for control, run operations one at a time in a   *)
(* thread of their own and are forgotten; the recorder, which takes the    *)
(* reader's frames through a bounded queue to a writer thread and a file;  *)
(* and Server.stop, which ends all of it from yet another thread.          *)
(*                                                                         *)
(* Control is looked at before an operation and not held by a lock while   *)
(* the operation runs.  Server.stop takes its list of sessions once, and   *)
(* waits for the accept and the reader thread but for no session.          *)
(***************************************************************************)
EXTENDS Integers, Sequences, FiniteSets

CONSTANTS
  Clients,        \* connections; each is made once
  RecordQueue,    \* RECORD_QUEUE_FRAMES
  WriterMayStall, \* can a write to the disk outlast the join of stop()?
  MaxOps,         \* bound: operations asked for
  MaxFrames,      \* bound: frames the device delivers
  MaxRecordings,  \* bound: recordings
  MaxErrors       \* bound: writes that fail

Nobody     == "nobody"
Stopper    == "stopper"

ASSUME DaemonAssumption ==
  /\ {Nobody, Stopper} \cap Clients = {}
  /\ RecordQueue \in Nat \ {0} /\ WriterMayStall \in BOOLEAN
  /\ {MaxOps, MaxFrames, MaxRecordings, MaxErrors} \subseteq Nat

Recordings == 1 .. MaxRecordings
NoRecorder == 0
Mutating   == {"start", "stop", "record.start", "record.stop"}
Hellos     == {"control", "observer"}

VARIABLES
  \* per connection: where its session is, the operation it runs, its role
  session, op, role,
  left,             \* the clients that hung up
  closed,           \* the sessions with _stop set
  accepting,        \* the connection the accept thread holds
  controller,       \* Server.controller
  recorder,         \* Server.recorder
  running,          \* the device runs
  \* per recording: a _Recorder
  queue, file, dropped, error, ended, writer, hand, sidecar,
  raised,             \* the recordings whose stop() raised: closed, no sidecar
  finishing,        \* per thread: the recording whose stop() it is in
  \* Server._read_loop: frames so far, the recording the last one is for
  frames, target,
  stage, toClose,   \* Server.stop: how far it is, the sessions it will close
  ops,
  \* what happened, for the properties
  offered,          \* frames put into a recording that was not stopped
  straddled         \* stop() found a session being made or busy

sessionVars == << session, op, role, left, closed, accepting, controller >>
recVars     == << recorder, queue, file, dropped, error, ended, writer, hand,
                  sidecar, raised, finishing, offered >>
readVars    == << frames, target >>
stopVars    == << stage, toClose, straddled >>
vars == << sessionVars, recVars, readVars, stopVars, running, ops >>

Threads == Clients \cup {Stopper}
Alive   == {c \in Clients : session[c] \in {"open", "busy"}}

----------------------------------------------------------------------------
(* Connections *)

\* The listening socket hands a connection to the accept thread.
Accept(c) ==
  /\ stage = "serving" /\ accepting = Nobody
  /\ session[c] = "absent"
  /\ accepting' = c
  /\ session' = [session EXCEPT ![c] = "accepted"]
  /\ UNCHANGED << op, role, left, closed, controller, recVars, readVars,
                  stopVars, running, ops >>

\* What it does with it does not depend on the daemon being stopped meanwhile.
AddSession ==
  /\ accepting # Nobody
  /\ session' = [session EXCEPT ![accepting] = "open"]
  /\ accepting' = Nobody
  /\ UNCHANGED << op, role, left, closed, controller, recVars, readVars,
                  stopVars, running, ops >>

HangUp(c) ==
  /\ session[c] # "absent" /\ c \notin left
  /\ left' = left \cup {c}
  /\ UNCHANGED << session, op, role, closed, accepting, controller, recVars,
                  readVars, stopVars, running, ops >>

\* The receive loop ends when it next reads: the session closes and is forgotten.
Fault_Forget(c) == UNCHANGED controller
Forget(c) == controller' = IF controller = c THEN Nobody ELSE controller

SessionEnds(c) ==
  /\ session[c] = "open" /\ (c \in left \/ c \in closed)
  /\ session' = [session EXCEPT ![c] = "gone"]
  /\ closed' = closed \cup {c}
  /\ Forget(c)
  /\ UNCHANGED << op, role, left, accepting, recVars, readVars, stopVars,
                  running, ops >>

----------------------------------------------------------------------------
(* Operations *)

Fault_MayRun(c, o) == o \in Mutating => controller # Nobody
MayRun(c, o) == o \in Mutating => controller = c

\* handle(): refused at once, or begun.
Asks(c, o) ==
  /\ session[c] = "open" /\ c \notin left \cup closed
  /\ ops < MaxOps /\ ops' = ops + 1
  /\ MayRun(c, o)
  /\ session' = [session EXCEPT ![c] = "busy"]
  /\ op' = [op EXCEPT ![c] = o]
  /\ straddled' = (straddled \/ stage # "serving")
  /\ UNCHANGED << role, left, closed, accepting, controller, recVars, readVars,
                  stage, toClose, running >>

Done(c) == session' = [session EXCEPT ![c] = "open"] /\ op' = [op EXCEPT ![c] = "none"]
Runs(c, o) == session[c] = "busy" /\ op[c] = o

\* A session that asks for control again keeps it; one that asks to observe
\* changes its role and not the controller.
Hello(c, want) ==
  /\ Runs(c, want) /\ Done(c)
  /\ IF want = "control" /\ controller \in {Nobody, c}
     THEN /\ controller' = c
          /\ role' = [role EXCEPT ![c] = IF controller = c THEN @ ELSE "control"]
     ELSE role' = [role EXCEPT ![c] = "observer"] /\ UNCHANGED controller
  /\ UNCHANGED << left, closed, accepting, recVars, readVars, stopVars, running, ops >>

\* The device's own steps are in DeviceRun.
Start(c) ==
  /\ Runs(c, "start") /\ Done(c)
  /\ running' = TRUE
  /\ UNCHANGED << role, left, closed, accepting, controller, recVars, readVars,
                  stopVars, ops >>

Stop(c) ==
  /\ Runs(c, "stop") /\ Done(c)
  /\ running' = FALSE
  /\ UNCHANGED << role, left, closed, accepting, controller, recVars, readVars,
                  stopVars, ops >>

\* One recording at a time, looked up and set under the server's lock.
Unused == {r \in Recordings : writer[r] = "none"}
RecordStart(c) ==
  /\ Runs(c, "record.start") /\ Done(c)
  /\ IF recorder = NoRecorder /\ Unused # {}
     THEN LET r == CHOOSE u \in Unused : \A v \in Unused : u <= v
          IN  recorder' = r /\ writer' = [writer EXCEPT ![r] = "idle"]
     ELSE UNCHANGED << recorder, writer >>
  /\ UNCHANGED << role, left, closed, accepting, controller, queue, file, dropped,
                  error, ended, hand, sidecar, raised, finishing, offered, readVars,
                  stopVars, running, ops >>

RecordStop(c) ==
  /\ Runs(c, "record.stop")
  /\ finishing[c] = NoRecorder
  /\ IF recorder = NoRecorder
     THEN Done(c) /\ UNCHANGED << recorder, finishing, ended >>
     ELSE /\ recorder' = NoRecorder
          /\ finishing' = [finishing EXCEPT ![c] = recorder]
          /\ ended' = ended \cup {recorder}
          /\ UNCHANGED << session, op >>
  /\ UNCHANGED << role, left, closed, accepting, controller, queue, file, dropped,
                  error, writer, hand, sidecar, raised, offered, readVars, stopVars,
                  running, ops >>

----------------------------------------------------------------------------
(* The recorder *)

\* put(): the oldest frame goes when the queue is full, and is counted; after
\* stop() nothing is taken any more.
Fault_Lost(r) == 0
Lost(r) == IF Len(queue[r]) >= RecordQueue THEN 1 ELSE 0

Put(r, f) ==
  IF r \in ended THEN UNCHANGED << queue, dropped, offered >>
  ELSE /\ queue' = [queue EXCEPT ![r] =
                      Append(IF Len(@) >= RecordQueue THEN Tail(@) ELSE @, f)]
       /\ dropped' = [dropped EXCEPT ![r] = @ + Lost(r)]
       /\ offered' = [offered EXCEPT ![r] = @ + 1]

\* The reader takes the recorder under the lock and hands it the frame after.
ReaderTakes ==
  /\ running /\ stage \in {"serving", "listed", "closed"}
  /\ target = << >> /\ frames < MaxFrames
  /\ frames' = frames + 1
  /\ target' = IF recorder = NoRecorder THEN << >> ELSE << recorder >>
  /\ UNCHANGED << sessionVars, recVars, stopVars, running, ops >>

ReaderPuts ==
  /\ target # << >> /\ target' = << >>
  /\ Put(target[1], frames)
  /\ UNCHANGED << sessionVars, recorder, file, error, ended, writer, hand, sidecar, raised,
                  finishing, frames, stopVars, running, ops >>

WriterTakes(r) ==
  /\ writer[r] = "idle" /\ queue[r] # << >>
  /\ writer' = [writer EXCEPT ![r] = "writing"]
  /\ hand' = [hand EXCEPT ![r] = Head(queue[r])]
  /\ queue' = [queue EXCEPT ![r] = Tail(@)]
  /\ UNCHANGED << sessionVars, recorder, file, dropped, error, ended, sidecar, raised,
                  finishing, offered, readVars, stopVars, running, ops >>

\* A write to a file that stop() has closed ends the thread without a word.
FileClosed(r) == sidecar[r] # << >> \/ r \in raised
WriterWrites(r) ==
  /\ writer[r] = "writing"
  /\ IF FileClosed(r)
     THEN writer' = [writer EXCEPT ![r] = "dead"] /\ UNCHANGED file
     ELSE writer' = [writer EXCEPT ![r] = "idle"]
          /\ file' = [file EXCEPT ![r] = Append(@, hand[r])]
  /\ UNCHANGED << sessionVars, recorder, queue, dropped, error, ended, hand,
                  sidecar, raised, finishing, offered, readVars, stopVars, running, ops >>

DiskFails == Cardinality(error) + Cardinality(raised) < MaxErrors

WriteFails(r) ==
  /\ writer[r] = "writing" /\ ~FileClosed(r)
  /\ DiskFails
  /\ writer' = [writer EXCEPT ![r] = "dead"]
  /\ error' = error \cup {r}
  /\ UNCHANGED << sessionVars, recorder, queue, file, dropped, ended, hand, sidecar, raised,
                  finishing, offered, readVars, stopVars, running, ops >>

MayEnd(r) == r \in ended /\ queue[r] = << >>

WriterEnds(r) ==
  /\ writer[r] = "idle" /\ MayEnd(r)
  /\ writer' = [writer EXCEPT ![r] = "dead"]
  /\ UNCHANGED << sessionVars, recorder, queue, file, dropped, error, ended, hand,
                  sidecar, raised, finishing, offered, readVars, stopVars, running, ops >>

\* The rest of stop(): the thread has ended, or has had its time.  The file is
\* closed and the sidecar says what is in it; or the last flush failed, which is
\* swallowed, and the close flushes again and raises, before there is a sidecar.
Reports(r) ==
  /\ sidecar' = [sidecar EXCEPT ![r] =
                   << [frames |-> Len(file[r]), dropped |-> dropped[r],
                       error |-> r \in error] >>]
  /\ UNCHANGED raised
Raises(r) ==
  /\ DiskFails
  /\ raised' = raised \cup {r}
  /\ UNCHANGED sidecar

\* A client gets an error for it; Server.stop ends there, with its exception.
Returns(t, after) ==
  IF t = Stopper THEN stage' = after /\ UNCHANGED << session, op >>
                 ELSE Done(t) /\ UNCHANGED stage

Finish(t) ==
  LET r == finishing[t]
  IN  /\ r # NoRecorder /\ r \in ended
      /\ writer[r] = "dead" \/ WriterMayStall
      /\ \/ Reports(r) /\ Returns(t, "recorded")
         \/ Raises(r) /\ Returns(t, "raised")
      /\ finishing' = [finishing EXCEPT ![t] = NoRecorder]
      /\ UNCHANGED << role, left, closed, accepting, controller, recorder, queue,
                      file, dropped, error, ended, writer, hand, offered, readVars,
                      toClose, straddled, running, ops >>

----------------------------------------------------------------------------
(* Server.stop *)

Fault_RecorderAtStop == NoRecorder
RecorderAtStop == recorder

\* The list of sessions and the recorder, under the lock.
StopLists ==
  /\ stage = "serving" /\ stage' = "listed"
  /\ toClose' = Alive
  /\ straddled' = (accepting # Nobody \/ \E c \in Clients : session[c] = "busy")
  /\ finishing' = [finishing EXCEPT ![Stopper] = RecorderAtStop]
  /\ recorder' = NoRecorder
  /\ UNCHANGED << sessionVars, queue, file, dropped, error, ended, writer, hand,
                  sidecar, raised, offered, readVars, running, ops >>

StopCloses ==
  /\ stage = "listed"
  /\ closed' = closed \cup toClose
  /\ ended' = ended \cup ({finishing[Stopper]} \ {NoRecorder})
  /\ stage' = IF finishing[Stopper] = NoRecorder THEN "recorded" ELSE "closed"
  /\ UNCHANGED << session, op, role, left, accepting, controller, recorder, queue,
                  file, dropped, error, writer, hand, sidecar, raised, finishing, offered,
                  readVars, toClose, straddled, running, ops >>

\* After the accept and the reader thread have ended the device is closed.
StopEnds ==
  /\ stage = "recorded" /\ stage' = "done"
  /\ accepting = Nobody /\ target = << >>
  /\ running' = FALSE
  /\ UNCHANGED << sessionVars, recVars, readVars, toClose, straddled, ops >>

----------------------------------------------------------------------------
Init ==
  /\ session = [c \in Clients |-> "absent"] /\ op = [c \in Clients |-> "none"]
  /\ role = [c \in Clients |-> "observer"]
  /\ left = {} /\ closed = {} /\ accepting = Nobody
  /\ controller = Nobody /\ recorder = NoRecorder /\ running = FALSE
  /\ queue = [r \in Recordings |-> << >>] /\ file = [r \in Recordings |-> << >>]
  /\ dropped = [r \in Recordings |-> 0] /\ error = {} /\ ended = {} /\ raised = {}
  /\ writer = [r \in Recordings |-> "none"] /\ hand = [r \in Recordings |-> 0]
  /\ sidecar = [r \in Recordings |-> << >>]
  /\ finishing = [t \in Threads |-> NoRecorder]
  /\ frames = 0 /\ target = << >>
  /\ stage = "serving" /\ toClose = {} /\ ops = 0
  /\ offered = [r \in Recordings |-> 0] /\ straddled = FALSE

Handler(c) == \/ \E want \in Hellos : Hello(c, want)
              \/ Start(c) \/ Stop(c) \/ RecordStart(c) \/ RecordStop(c)
Writer(r) == WriterTakes(r) \/ WriterWrites(r) \/ WriteFails(r) \/ WriterEnds(r)

Next ==
  \/ AddSession \/ ReaderTakes \/ ReaderPuts
  \/ StopLists \/ StopCloses \/ StopEnds
  \/ \E c \in Clients : \/ Accept(c) \/ HangUp(c) \/ SessionEnds(c) \/ Handler(c)
                        \/ \E o \in Mutating \cup Hellos : Asks(c, o)
  \/ \E r \in Recordings : Writer(r)
  \/ \E t \in Threads : Finish(t)

\* Every thread goes on; clients need not ask, nor the disk fail.
Spec ==
  /\ Init /\ [][Next]_vars
  /\ \A c \in Clients : WF_vars(SessionEnds(c)) /\ WF_vars(Handler(c))
  /\ \A r \in Recordings : WF_vars(Writer(r))
  /\ \A t \in Threads : WF_vars(Finish(t))

----------------------------------------------------------------------------
(* Properties *)

\* Sessions and recordings are in one of their stages, and what names a recording
\* names one.
Report == [frames : Nat, dropped : Nat, error : BOOLEAN]
TypeOK ==
  /\ session \in [Clients -> {"absent", "accepted", "open", "busy", "gone"}]
  /\ op \in [Clients -> Mutating \cup Hellos \cup {"none"}]
  /\ role \in [Clients -> Hellos]
  /\ left \subseteq Clients /\ closed \subseteq Clients /\ toClose \subseteq Clients
  /\ accepting \in Clients \cup {Nobody} /\ controller \in Clients \cup {Nobody}
  /\ recorder \in Recordings \cup {NoRecorder}
  /\ finishing \in [Threads -> Recordings \cup {NoRecorder}]
  /\ queue \in [Recordings -> Seq(Nat)] /\ file \in [Recordings -> Seq(Nat)]
  /\ dropped \in [Recordings -> Nat] /\ offered \in [Recordings -> Nat]
  /\ error \subseteq Recordings /\ ended \subseteq Recordings
  /\ raised \subseteq Recordings
  /\ writer \in [Recordings -> {"none", "idle", "writing", "dead"}]
  /\ hand \in [Recordings -> Nat]
  /\ sidecar \in [Recordings -> Seq(Report)]
  /\ \A r \in Recordings : Len(sidecar[r]) \in {0, 1}
  /\ target \in {<< >>} \cup {<< r >> : r \in Recordings}
  /\ stage \in {"serving", "listed", "closed", "recorded", "raised", "done"}
  /\ {running, straddled} \subseteq BOOLEAN
  /\ frames \in Nat /\ ops \in Nat

\* "A recording with a hole in it says so - in the sidecar" (_Recorder): what was
\* put into the recording is in the file, in order and once, or in the count, or
\* the sidecar carries the error that ended it, if there is a sidecar: a stop()
\* that raised wrote none.  With a write that outlasts the join, the rest of the
\* queue is in none of these.
HoleIsTold ==
  \A r \in Recordings :
    /\ \A i, j \in DOMAIN file[r] : i < j => file[r][i] < file[r][j]
    /\ sidecar[r] # << >> /\ ~sidecar[r][1].error =>
         /\ offered[r] = sidecar[r][1].frames + sidecar[r][1].dropped
         /\ sidecar[r][1].frames = Len(file[r])

\* Two clients never change the device at once, although control is looked at
\* before the operation and nothing is held while it runs: it is only let go of
\* by the thread that runs the operation.
OneMutator ==
  \A c, d \in Clients :
    session[c] = "busy" /\ op[c] \in Mutating /\ session[d] = "busy"
      /\ op[d] \in Mutating => c = d

\* Nothing outlives a stop (test_the_server_leaves_no_threads_behind).  A
\* recording has its sidecar, whoever of Server.stop and a record.stop got hold
\* of it first, or its stop() raised, or the record.stop of a session is still
\* at it, or it was begun behind the list.  No session and no run of the device
\* is left, unless a connection was being accepted or an operation was running
\* between the list and the closing: stop() waits for neither.
StopLeavesNothing ==
  stage = "done" =>
    /\ \A r \in Recordings :
         writer[r] # "none" /\ ~FileClosed(r) =>
           \/ \E c \in Clients : finishing[c] = r
           \/ straddled /\ recorder = r
    /\ ~straddled => ~running /\ Alive \subseteq closed

\* Control "is released when that client disconnects" (docs/daemon-api.md,
\* Ownership), whatever it was doing.
ControlReleased ==
  \A c \in Clients : c \in left ~> controller # c
==============================================================================
