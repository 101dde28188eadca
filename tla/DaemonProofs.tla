---------------------------- MODULE DaemonProofs ----------------------------
(***************************************************************************)
(* The daemon's two specifications.                                        *)
(*                                                                         *)
(* DaemonServer, for any clients, queue, recordings and bounds: a hole in  *)
(* a recording is told, the device has one mutator at a time, and a stop   *)
(* that no request straddles leaves nothing behind.                        *)
(*                                                                         *)
(* FanOut, for any subscribers, capacity and bounds: the drop count is     *)
(* exact, and a client that unsubscribes is left alone after one frame.    *)
(***************************************************************************)
EXTENDS DaemonServer, FanOut, TLAPS, SequenceTheorems, WellFoundedInduction

(* The invariants *)

\* An operation that changes the device runs for the client that has control.
Controlled ==
  \A c \in Clients :
    session[c] = "busy" /\ op[c] \in Mutating => controller = c

\* Whose frames are whose: the file, the one in the writer's hand, the queue and
\* the frame to come follow one another.
Increasing(s) == \A i, j \in DOMAIN s : i < j => s[i] < s[j]
AllUnder(s, n) == \A i \in DOMAIN s : s[i] < n
AllOver(s, n)  == \A i \in DOMAIN s : n < s[i]
Coming == IF target = << >> THEN frames + 1 ELSE frames

InOrder(r) ==
  /\ Increasing(file[r]) /\ Increasing(queue[r])
  /\ AllUnder(file[r], Coming) /\ AllUnder(queue[r], Coming)
  /\ \A i \in DOMAIN file[r] : AllOver(queue[r], file[r][i])
  /\ writer[r] = "writing" => /\ AllUnder(file[r], hand[r])
                              /\ AllOver(queue[r], hand[r])
                              /\ hand[r] < Coming

\* Every frame put into the recording is accounted for until an error ends it.
Unsaved(r) == IF writer[r] = "writing" THEN 1 ELSE 0
Balanced(r) ==
  r \notin error =>
    offered[r] = Len(file[r]) + Len(queue[r]) + dropped[r] + Unsaved(r)

\* A writer that ended without an error had nothing left and nothing to come;
\* the file is closed after it, and what the sidecar says of it stays true.
Settled(r) ==
  /\ writer[r] = "dead" /\ r \notin error => r \in ended /\ queue[r] = << >>
  /\ sidecar[r] # << >> =>
       /\ r \in ended /\ writer[r] = "dead"
       /\ sidecar[r][1] = [frames |-> Len(file[r]), dropped |-> dropped[r],
                           error |-> r \in error]
  /\ r \in raised => r \in ended /\ writer[r] = "dead"

RecordInv == \A r \in Recordings : InOrder(r) /\ Balanced(r) /\ Settled(r)

\* A recording under way is somebody's: the server's, or the one that ends it.
Unfinished(r) == writer[r] # "none" /\ ~FileClosed(r)
Kept ==
  /\ \A c \in Clients : finishing[c] # NoRecorder => Runs(c, "record.stop")
  /\ \A c \in Clients : session[c] = "accepted" <=> accepting = c
  /\ \A r \in Recordings :
       Unfinished(r) => r = recorder \/ \E t \in Threads : finishing[t] = r
  /\ recorder \notin ended
  /\ \A t \in Threads : finishing[t] = recorder => recorder = NoRecorder
  /\ \A r \in Unused : r \notin ended \cup {recorder} /\ \A t \in Threads : finishing[t] # r
  /\ stage = "serving" => ~straddled /\ finishing[Stopper] = NoRecorder
  /\ stage \in {"recorded", "raised", "done"} => finishing[Stopper] = NoRecorder

\* Once stop() has its list and nothing was under way, there is nobody left to
\* begin anything, and what the list holds is on its way out.
Quiet ==
  stage # "serving" /\ ~straddled =>
    /\ accepting = Nobody /\ recorder = NoRecorder
    /\ \A c \in Clients : session[c] # "busy"
    /\ Alive \subseteq toClose
    /\ stage # "listed" => toClose \subseteq closed
    /\ stage = "listed" => finishing[Stopper] \notin ended
    /\ stage = "done" => ~running

----------------------------------------------------------------------------
(* Types *)

\* record.start takes the first recording that was not used yet, and there is one.
LEMMA FirstUnused ==
  Unused # {} => (CHOOSE u \in Unused : \A v \in Unused : u <= v) \in Unused
<1> SUFFICES ASSUME Unused # {}
             PROVE  \E u \in Unused : \A v \in Unused : u <= v
  OBVIOUS
<1>1. Unused \subseteq Nat
  BY DaemonAssumption DEF Unused, Recordings
<1>2. \E x \in Unused : \A y \in Unused : ~(<< y, x >> \in OpToRel(<, Nat))
  BY <1>1, NatLessThanWellFounded, WFMin
<1>3. PICK x \in Unused : \A y \in Unused : ~(y < x)
  BY <1>1, <1>2 DEF OpToRel
<1> QED  BY <1>1, <1>3

\* The names of the threads that are no client.
LEMMA Names ==
  /\ Stopper \notin Clients /\ Nobody \notin Clients
  /\ NoRecorder \notin Recordings
  /\ Threads = Clients \cup {Stopper}
  BY DaemonAssumption DEF Threads, Recordings, NoRecorder

\* The initial state is well typed.
LEMMA TypeInit == Init => TypeOK
<1> SUFFICES ASSUME Init PROVE TypeOK
  OBVIOUS
<1>1. << >> \in Seq(Nat) /\ << >> \in Seq(Report) /\ Len(<< >>) = 0
  OBVIOUS
<1> QED  BY <1>1 DEF Init, TypeOK, Hellos

\* Connections keep the types.
LEMMA TypeConnections ==
  ASSUME TypeOK, NEW c \in Clients, Accept(c) \/ HangUp(c) \/ SessionEnds(c)
  PROVE  TypeOK'
<1> USE DEF TypeOK, sessionVars, recVars, readVars, stopVars
<1>1. CASE Accept(c)
  BY <1>1 DEF Accept
<1>2. CASE HangUp(c)
  BY <1>2 DEF HangUp
<1>3. CASE SessionEnds(c)
  BY <1>3 DEF SessionEnds, Forget
<1> QED  BY <1>1, <1>2, <1>3

\* The accept thread and Server.stop keep the types.
LEMMA TypeServer ==
  ASSUME TypeOK, AddSession \/ StopLists \/ StopCloses \/ StopEnds
  PROVE  TypeOK'
<1> USE DEF TypeOK, sessionVars, recVars, readVars, stopVars
<1>1. CASE AddSession
  BY <1>1 DEF AddSession
<1>2. CASE StopLists
  BY <1>2, Names DEF StopLists, RecorderAtStop, Alive
<1>3. CASE StopCloses
  BY <1>3, Names DEF StopCloses
<1>4. CASE StopEnds
  BY <1>4 DEF StopEnds
<1> QED  BY <1>1, <1>2, <1>3, <1>4

\* Operations keep the types.
LEMMA TypeOperations ==
  ASSUME TypeOK, NEW c \in Clients,
         \/ \E o \in Mutating \cup Hellos : Asks(c, o)
         \/ Handler(c)
  PROVE  TypeOK'
<1> USE DEF TypeOK, sessionVars, recVars, readVars, stopVars
<1>1. ASSUME NEW o \in Mutating \cup Hellos, Asks(c, o) PROVE TypeOK'
  BY <1>1 DEF Asks
<1>2. ASSUME NEW want \in Hellos, Hello(c, want) PROVE TypeOK'
  <2>1. role' \in [Clients -> Hellos] /\ controller' \in Clients \cup {Nobody}
    BY <1>2, ZenonT(60) DEF Hello, Hellos
  <2> QED  BY <1>2, <2>1 DEF Hello, Done
<1>3. CASE Start(c)
  BY <1>3 DEF Start, Done
<1>4. CASE Stop(c)
  BY <1>4 DEF Stop, Done
<1>5. CASE RecordStart(c)
  <2>1. recorder' \in Recordings \cup {NoRecorder}
        /\ writer' \in [Recordings -> {"none", "idle", "writing", "dead"}]
    BY <1>5, FirstUnused DEF RecordStart, Unused
  <2> QED  BY <1>5, <2>1 DEF RecordStart, Done
<1>6. CASE RecordStop(c)
  <2>1. CASE recorder = NoRecorder
    BY <1>6, <2>1 DEF RecordStop, Done
  <2>2. CASE recorder # NoRecorder
    <3>1. finishing' \in [Threads -> Recordings \cup {NoRecorder}]
          /\ ended' \subseteq Recordings /\ recorder' = NoRecorder
      <4>1. recorder \in Recordings /\ c \in Threads
        BY <2>2, Names
      <4>2. /\ finishing' = [finishing EXCEPT ![c] = recorder]
            /\ ended' = ended \cup {recorder} /\ recorder' = NoRecorder
        BY <1>6, <2>2 DEF RecordStop
      <4> QED  BY <4>1, <4>2
    <3> QED  BY <1>6, <2>2, <3>1 DEF RecordStop
  <2> QED  BY <2>1, <2>2
<1> QED  BY <1>1, <1>2, <1>3, <1>4, <1>5, <1>6 DEF Handler

\* What put() leaves in the queue.
Pushed(r, f) == Append(IF Len(queue[r]) >= RecordQueue THEN Tail(queue[r]) ELSE queue[r], f)

\* Counts of recordings that are raised stay counts.
LEMMA Raised ==
  \A f \in [Recordings -> Nat], r \in Recordings, n \in Nat :
    [f EXCEPT ![r] = f[r] + n] \in [Recordings -> Nat]
  OBVIOUS

\* The reader keeps the types.
LEMMA TypeReader ==
  ASSUME TypeOK, ReaderTakes \/ ReaderPuts
  PROVE  TypeOK'
<1> USE DEF TypeOK, sessionVars, recVars, readVars, stopVars
<1>1. CASE ReaderTakes
  BY <1>1 DEF ReaderTakes
<1>2. CASE ReaderPuts
  <2>1. PICK q \in Recordings : target[1] = q /\ Put(q, frames)
    BY <1>2 DEF ReaderPuts
  <2>2. Lost(q) \in Nat
    BY DEF Lost
  <2>3. queue[q] \in Seq(Nat) /\ frames \in Nat
    OBVIOUS
  <2>4. Len(queue[q]) >= RecordQueue => queue[q] # << >>
    BY <2>3, DaemonAssumption
  <2>5. Pushed(q, frames) \in Seq(Nat)
    BY <2>3, <2>4 DEF Pushed
  <2>6. CASE q \in ended
    BY <1>2, <2>1, <2>6 DEF ReaderPuts, Put
  <2>7. CASE q \notin ended
    <3>1. /\ queue' = [queue EXCEPT ![q] = Pushed(q, frames)]
          /\ dropped' = [dropped EXCEPT ![q] = dropped[q] + Lost(q)]
          /\ offered' = [offered EXCEPT ![q] = offered[q] + 1]
      BY <2>1, <2>7 DEF Put, Pushed
    <3>2. dropped' \in [Recordings -> Nat] /\ offered' \in [Recordings -> Nat]
      BY <2>2, <3>1, Raised
    <3>3. \A s \in Seq(Nat) : [queue EXCEPT ![q] = s] \in [Recordings -> Seq(Nat)]
      OBVIOUS
    <3>4. queue' \in [Recordings -> Seq(Nat)]
      BY <2>5, <3>1, <3>3
    <3> QED  BY <1>2, <3>2, <3>4 DEF ReaderPuts
  <2> QED  BY <2>6, <2>7
<1> QED  BY <1>1, <1>2

\* A recording's writer keeps the types.
LEMMA TypeWriter ==
  ASSUME TypeOK, NEW r \in Recordings, Writer(r)
  PROVE  TypeOK'
<1> USE DEF TypeOK, sessionVars, recVars, readVars, stopVars
<1>1. CASE WriterTakes(r)
  <2>1. queue[r] \in Seq(Nat) /\ queue[r] # << >>
    BY <1>1 DEF WriterTakes
  <2>2. Head(queue[r]) \in Nat /\ Tail(queue[r]) \in Seq(Nat)
    BY <2>1, HeadTailProperties
  <2> QED  BY <1>1, <2>2 DEF WriterTakes
<1>2. CASE WriterWrites(r)
  <2>1. Append(file[r], hand[r]) \in Seq(Nat)
    OBVIOUS
  <2> QED  BY <1>2, <2>1 DEF WriterWrites
<1>3. CASE WriteFails(r)
  BY <1>3 DEF WriteFails
<1>4. CASE WriterEnds(r)
  BY <1>4 DEF WriterEnds
<1> QED  BY <1>1, <1>2, <1>3, <1>4 DEF Writer

\* The end of a recording keeps the types.
LEMMA TypeFinish ==
  ASSUME TypeOK, NEW t \in Threads, Finish(t)
  PROVE  TypeOK'
<1> USE DEF TypeOK, sessionVars, recVars, readVars, stopVars
<1>1. PICK r \in Recordings : r = finishing[t]
  BY DEF Finish
<1>2. PICK s : s = [frames |-> Len(file[r]), dropped |-> dropped[r], error |-> r \in error]
  OBVIOUS
<1>3. s \in Report
  BY <1>2 DEF Report
<1>4. << s >> \in Seq(Report) /\ Len(<< s >>) = 1
  BY <1>3
<1>5. \/ sidecar' = [sidecar EXCEPT ![r] = << s >>] /\ raised' = raised
      \/ sidecar' = sidecar /\ raised' = raised \cup {r}
  BY <1>1, <1>2 DEF Finish, Reports, Raises
<1>6. /\ sidecar' \in [Recordings -> Seq(Report)] /\ raised' \subseteq Recordings
      /\ \A q \in Recordings : Len(sidecar'[q]) \in {0, 1}
  BY <1>4, <1>5
<1>7. finishing' \in [Threads -> Recordings \cup {NoRecorder}]
  BY DEF Finish
<1>8. CASE t = Stopper
  BY <1>6, <1>7, <1>8 DEF Finish, Returns
<1>9. CASE t # Stopper
  <2>1. t \in Clients
    BY <1>9, Names
  <2>2. session' = [session EXCEPT ![t] = "open"] /\ op' = [op EXCEPT ![t] = "none"]
        /\ UNCHANGED stage
    BY <1>9 DEF Finish, Returns, Done
  <2>3. /\ session' \in [Clients -> {"absent", "accepted", "open", "busy", "gone"}]
        /\ op' \in [Clients -> Mutating \cup Hellos \cup {"none"}]
    BY <2>1, <2>2
  <2> QED  BY <1>6, <1>7, <2>2, <2>3 DEF Finish
<1> QED  BY <1>8, <1>9

\* Every step keeps the types.
LEMMA TypeStep == TypeOK /\ [Next]_vars => TypeOK'
<1> SUFFICES ASSUME TypeOK, [Next]_vars PROVE TypeOK'
  OBVIOUS
<1>1. CASE AddSession \/ StopLists \/ StopCloses \/ StopEnds
  BY <1>1, TypeServer
<1>2. CASE ReaderTakes \/ ReaderPuts
  BY <1>2, TypeReader
<1>3. ASSUME NEW c \in Clients,
             \/ Accept(c) \/ HangUp(c) \/ SessionEnds(c) \/ Handler(c)
             \/ \E o \in Mutating \cup Hellos : Asks(c, o)
      PROVE TypeOK'
  BY <1>3, TypeConnections, TypeOperations
<1>4. ASSUME NEW r \in Recordings, Writer(r) PROVE TypeOK'
  BY <1>4, TypeWriter
<1>5. ASSUME NEW t \in Threads, Finish(t) PROVE TypeOK'
  BY <1>5, TypeFinish
<1>6. CASE UNCHANGED vars
  BY <1>6 DEF vars, TypeOK, sessionVars, recVars, readVars, stopVars, Unused
<1> QED  BY <1>1, <1>2, <1>3, <1>4, <1>5, <1>6 DEF Next

\* The server's state is well typed, for any clients and any bounds.
THEOREM TypeCorrect == Spec => []TypeOK
  BY TypeInit, TypeStep, PTL DEF Spec

----------------------------------------------------------------------------
(* One mutator *)

\* What the reader, the writers and Server.stop do leaves sessions, their
\* operations and control alone.
LEMMA SessionsStand ==
  ASSUME \/ ReaderTakes \/ ReaderPuts \/ StopLists \/ StopCloses \/ StopEnds
         \/ \E c \in Clients : HangUp(c)
         \/ \E r \in Recordings : Writer(r)
         \/ Finish(Stopper)
  PROVE  UNCHANGED << session, op, controller, accepting >>
<1> USE DEF sessionVars
<1>1. CASE ReaderTakes \/ ReaderPuts
  BY <1>1 DEF ReaderTakes, ReaderPuts
<1>2. CASE StopLists \/ StopCloses \/ StopEnds
  BY <1>2 DEF StopLists, StopCloses, StopEnds
<1>3. ASSUME NEW c \in Clients, HangUp(c)
      PROVE  UNCHANGED << session, op, controller, accepting >>
  BY <1>3 DEF HangUp
<1>4. ASSUME NEW r \in Recordings, Writer(r)
      PROVE  UNCHANGED << session, op, controller, accepting >>
  BY <1>4 DEF Writer, WriterTakes, WriterWrites, WriteFails, WriterEnds
<1>5. CASE Finish(Stopper)
  BY <1>5 DEF Finish, Returns
<1> QED  BY <1>1, <1>2, <1>3, <1>4, <1>5

\* Control goes to nobody else, and is let go of by nobody else, while the client
\* that has it changes the device.
LEMMA ControlStep == TypeOK /\ Controlled /\ [Next]_vars => Controlled'
<1> SUFFICES ASSUME TypeOK, Controlled, [Next]_vars,
                    NEW d \in Clients, session'[d] = "busy", op'[d] \in Mutating
             PROVE  controller' = d
  BY DEF Controlled
<1>1. CASE UNCHANGED << session, op, controller >>
  BY <1>1 DEF Controlled
<1>2. ASSUME NEW c \in Clients, Accept(c) PROVE controller' = d
  BY <1>2 DEF Accept, Controlled, TypeOK
<1>3. CASE AddSession
  BY <1>3 DEF AddSession, Controlled, TypeOK
<1>4. ASSUME NEW c \in Clients, SessionEnds(c) PROVE controller' = d
  BY <1>4 DEF SessionEnds, Forget, Controlled, TypeOK
<1>5. ASSUME NEW c \in Clients, NEW o \in Mutating \cup Hellos, Asks(c, o)
      PROVE  controller' = d
  BY <1>5 DEF Asks, MayRun, Controlled, TypeOK
<1>6. ASSUME NEW c \in Clients, Handler(c) PROVE controller' = d
  <2>1. CASE d = c
    <3>1. ~Done(c)
      BY <2>1 DEF Done, TypeOK, Mutating
    <3>2. RecordStop(c) /\ UNCHANGED << session, op, controller >>
      BY <1>6, <3>1 DEF Handler, Hello, Start, Stop, RecordStart, RecordStop
    <3> QED  BY <1>1, <3>2
  <2>2. CASE d # c
    <3>1. session[d] = "busy" /\ op[d] \in Mutating
      BY <1>6, <2>2
      DEF Handler, Hello, Start, Stop, RecordStart, RecordStop, Done, TypeOK
    <3>2. controller = d
      BY <3>1 DEF Controlled
    <3>3. controller' = controller
      BY <1>6, <2>2, <3>2, Names
      DEF Handler, Hello, Start, Stop, RecordStart, RecordStop
    <3> QED  BY <3>2, <3>3
  <2> QED  BY <2>1, <2>2
<1>7. ASSUME NEW t \in Threads, Finish(t) PROVE controller' = d
  BY <1>7 DEF Finish, Returns, Done, Controlled, TypeOK
<1>8. CASE UNCHANGED vars
  BY <1>1, <1>8 DEF vars, sessionVars
<1> QED
  BY <1>1, <1>2, <1>3, <1>4, <1>5, <1>6, <1>7, <1>8, SessionsStand DEF Next

\* Two operations that change the device never run at once, for any clients:
\* each runs for the one that has control (Session.handle, Server.forget).
THEOREM MutatorsTakeTurns == Spec => []OneMutator
<1>1. Init => Controlled
  BY DEF Init, Controlled
<1>2. Controlled => OneMutator
  BY DEF Controlled, OneMutator
<1> QED  BY <1>1, <1>2, TypeInit, TypeStep, ControlStep, PTL DEF Spec

----------------------------------------------------------------------------
(* A hole in a recording is told *)

\* A number past a sequence, appended to it.
LEMMA AppendedOver ==
  ASSUME NEW s \in Seq(Nat), NEW n \in Nat, AllUnder(s, n)
  PROVE  /\ Increasing(s) => Increasing(Append(s, n))
         /\ \A m \in Nat : n < m => AllUnder(Append(s, n), m)
         /\ \A m \in Nat : m < n /\ AllOver(s, m) => AllOver(Append(s, n), m)
         /\ Len(Append(s, n)) = Len(s) + 1
<1>1. /\ Append(s, n) \in Seq(Nat) /\ Len(Append(s, n)) = Len(s) + 1
      /\ \A i \in 1 .. Len(s) : Append(s, n)[i] = s[i] /\ s[i] \in Nat
      /\ Append(s, n)[Len(s) + 1] = n
  OBVIOUS
<1>2. PICK t \in Seq(Nat) : t = Append(s, n)
  BY <1>1
<1>3. /\ DOMAIN t = 1 .. Len(s) + 1 /\ DOMAIN s = 1 .. Len(s) /\ Len(s) \in Nat
      /\ \A i \in 1 .. Len(s) : t[i] = s[i] /\ s[i] \in Nat
      /\ t[Len(s) + 1] = n
  BY <1>1, <1>2
<1>4. \A i \in DOMAIN t : i \in DOMAIN s \/ i = Len(s) + 1
  BY <1>3
<1>5. Increasing(s) => Increasing(t)
  BY <1>3, <1>4, SMTT(40) DEF Increasing, AllUnder
<1>6. \A m \in Nat : n < m => AllUnder(t, m)
  BY <1>3, <1>4 DEF AllUnder
<1>7. \A m \in Nat : m < n /\ AllOver(s, m) => AllOver(t, m)
  BY <1>3, <1>4 DEF AllOver
<1> QED  BY <1>1, <1>2, <1>5, <1>6, <1>7

\* A sequence without its first number.
LEMMA WithoutFirst ==
  ASSUME NEW s \in Seq(Nat), s # << >>
  PROVE  /\ Head(s) \in Nat /\ Tail(s) \in Seq(Nat) /\ Len(Tail(s)) = Len(s) - 1
         /\ Increasing(s) => Increasing(Tail(s)) /\ AllOver(Tail(s), Head(s))
         /\ \A m \in Nat : AllUnder(s, m) => AllUnder(Tail(s), m) /\ Head(s) < m
         /\ \A m \in Nat : AllOver(s, m) => AllOver(Tail(s), m) /\ m < Head(s)
<1>1. PICK h, t, n : h = Head(s) /\ t = Tail(s) /\ n = Len(s)
  OBVIOUS
<1>2. /\ h \in Nat /\ t \in Seq(Nat) /\ n \in Nat /\ n >= 1 /\ Len(t) = n - 1
      /\ h = s[1] /\ \A i \in 1 .. n - 1 : t[i] = s[i + 1]
  BY <1>1, HeadTailProperties
<1>3. DOMAIN s = 1 .. n /\ DOMAIN t = 1 .. n - 1 /\ \A i \in 1 .. n : s[i] \in Nat
  BY <1>1, <1>2
<1>4. 1 \in DOMAIN s /\ \A i \in DOMAIN t : i + 1 \in DOMAIN s /\ t[i] = s[i + 1] /\
      1 < i + 1
  BY <1>2, <1>3, SMTT(40)
<1>5. \A i, j \in DOMAIN t : i < j => i + 1 < j + 1
  BY <1>3
<1>6. Increasing(s) => Increasing(t) /\ AllOver(t, h)
  BY <1>2, <1>4, <1>5 DEF Increasing, AllOver
<1>7. \A m \in Nat : AllUnder(s, m) => AllUnder(t, m) /\ h < m
  BY <1>2, <1>4 DEF AllUnder
<1>8. \A m \in Nat : AllOver(s, m) => AllOver(t, m) /\ m < h
  BY <1>2, <1>4 DEF AllOver
<1> QED  BY <1>1, <1>2, <1>6, <1>7, <1>8

\* The initial recordings are empty.
LEMMA RecordInit == Init => RecordInv
<1> SUFFICES ASSUME Init, NEW r \in Recordings PROVE InOrder(r) /\ Balanced(r) /\ Settled(r)
  BY DEF RecordInv
<1>1. DOMAIN << >> = {} /\ Len(<< >>) = 0
  OBVIOUS
<1>2. file[r] = << >> /\ queue[r] = << >> /\ writer[r] = "none" /\ sidecar[r] = << >>
      /\ dropped[r] = 0 /\ offered[r] = 0 /\ r \notin raised
  BY DEF Init
<1>3. InOrder(r)
  BY <1>1, <1>2 DEF InOrder, Increasing, AllUnder, AllOver
<1>4. Balanced(r) /\ Settled(r)
  BY <1>1, <1>2 DEF Balanced, Unsaved, Settled
<1> QED  BY <1>3, <1>4

\* What a step leaves alone, and a recording that ends, keep the recording's part;
\* the frame to come only moves on.
LEMMA RecordStands ==
  ASSUME TypeOK, NEW r \in Recordings, InOrder(r), Balanced(r), Settled(r),
         file'[r] = file[r], queue'[r] = queue[r], dropped'[r] = dropped[r],
         offered'[r] = offered[r], hand'[r] = hand[r], sidecar'[r] = sidecar[r],
         \/ writer'[r] = writer[r]
         \/ writer[r] = "none" /\ writer'[r] = "idle",
         r \in error' <=> r \in error, r \in raised' <=> r \in raised,
         r \in ended => r \in ended',
         Coming' \in Nat, Coming' >= Coming
  PROVE  InOrder(r)' /\ Balanced(r)' /\ Settled(r)'
<1>1. PICK n, m \in Nat : n = Coming /\ m = Coming' /\ n <= m
  <2>1. Coming \in Nat
    BY DEF Coming, TypeOK
  <2>2. PICK n, m : n = Coming /\ m = Coming'
    OBVIOUS
  <2>3. n \in Nat /\ m \in Nat /\ n <= m
    BY <2>1, <2>2
  <2> QED  BY <2>2, <2>3
<1>2. /\ \A i \in DOMAIN file[r] : file[r][i] \in Nat
      /\ \A i \in DOMAIN queue[r] : queue[r][i] \in Nat
      /\ hand[r] \in Nat
  <2>1. file[r] \in Seq(Nat) /\ queue[r] \in Seq(Nat) /\ hand[r] \in Nat
    BY DEF TypeOK
  <2>2. \A s \in Seq(Nat) : \A i \in DOMAIN s : s[i] \in Nat
    OBVIOUS
  <2> QED  BY <2>1, <2>2
<1>3. /\ AllUnder(file[r], n) => AllUnder(file[r], m)
      /\ AllUnder(queue[r], n) => AllUnder(queue[r], m)
      /\ hand[r] < n => hand[r] < m
  BY <1>1, <1>2 DEF AllUnder
<1>4. InOrder(r)'
  BY <1>1, <1>3 DEF InOrder
<1>5. Balanced(r)'
  BY DEF Balanced, Unsaved
<1>6. Settled(r)'
  BY DEF Settled
<1> QED  BY <1>4, <1>5, <1>6

\* put() appends a number past all of the recording's, and counts the one it
\* pushes out of a full queue.
LEMMA RecordPut ==
  ASSUME TypeOK, RecordInv, ReaderPuts, NEW r \in Recordings
  PROVE  InOrder(r)' /\ Balanced(r)' /\ Settled(r)'
<1>1. PICK q \in Recordings : target[1] = q /\ Put(q, frames)
  BY DEF ReaderPuts, TypeOK
<1>2. InOrder(r) /\ Balanced(r) /\ Settled(r)
  BY DEF RecordInv
<1>3. UNCHANGED << file, writer, hand, sidecar, raised, error, ended, frames >>
      /\ Coming = frames /\ Coming' = frames + 1 /\ frames \in Nat
  BY DEF ReaderPuts, Coming, TypeOK
<1>4. CASE r # q \/ r \in ended
  <2>1. queue'[r] = queue[r] /\ dropped'[r] = dropped[r] /\ offered'[r] = offered[r]
    BY <1>1, <1>4 DEF Put, TypeOK
  <2>2. Coming' \in Nat /\ Coming' >= Coming
    BY <1>3
  <2> QED  BY <1>2, <1>3, <2>1, <2>2, RecordStands
<1>5. CASE r = q /\ r \notin ended
  <2>1. PICK s \in Seq(Nat) :
          /\ s = IF Len(queue[r]) >= RecordQueue THEN Tail(queue[r]) ELSE queue[r]
          /\ queue'[r] = Append(s, frames)
          /\ Len(s) + Lost(r) = Len(queue[r])
          /\ Increasing(s) /\ AllUnder(s, frames)
          /\ \A m \in Nat : AllOver(queue[r], m) => AllOver(s, m)
    <3>1. queue[r] \in Seq(Nat) /\ Increasing(queue[r]) /\ AllUnder(queue[r], frames)
      BY <1>2, <1>3 DEF InOrder, TypeOK
    <3>2. queue' = [queue EXCEPT ![r] = Pushed(r, frames)]
      BY <1>1, <1>5 DEF Put, Pushed
    <3>3. queue'[r] = Pushed(r, frames)
      BY <3>2 DEF TypeOK
    <3>4. CASE Len(queue[r]) >= RecordQueue
      <4>1. queue[r] # << >>
        BY <3>1, <3>4, DaemonAssumption
      <4>2. /\ Tail(queue[r]) \in Seq(Nat) /\ Len(Tail(queue[r])) = Len(queue[r]) - 1
            /\ Increasing(Tail(queue[r])) /\ AllUnder(Tail(queue[r]), frames)
            /\ \A m \in Nat : AllOver(queue[r], m) => AllOver(Tail(queue[r]), m)
        BY <1>3, <3>1, <4>1, WithoutFirst
      <4>3. Lost(r) = 1 /\ Pushed(r, frames) = Append(Tail(queue[r]), frames)
        BY <3>4 DEF Lost, Pushed
      <4>4. Len(Tail(queue[r])) + 1 = Len(queue[r])
        BY <3>1, <4>2
      <4> QED  BY <3>3, <3>4, <4>2, <4>3, <4>4
    <3>5. CASE ~(Len(queue[r]) >= RecordQueue)
      <4>1. Lost(r) = 0 /\ Pushed(r, frames) = Append(queue[r], frames)
        BY <3>5 DEF Lost, Pushed
      <4>2. Len(queue[r]) + 0 = Len(queue[r])
        BY <3>1
      <4> QED  BY <3>1, <3>3, <3>5, <4>1, <4>2
    <3> QED  BY <3>4, <3>5
  <2>2. PICK t \in Seq(Nat) :
          /\ t = queue'[r] /\ Len(t) = Len(s) + 1
          /\ Increasing(t) /\ AllUnder(t, frames + 1)
          /\ \A m \in Nat : m < frames /\ AllOver(queue[r], m) => AllOver(t, m)
    <3>1. frames + 1 \in Nat /\ frames < frames + 1
      BY <1>3
    <3>2. Append(s, frames) \in Seq(Nat)
      BY <1>3
    <3> QED  BY <1>3, <2>1, <3>1, <3>2, AppendedOver
  <2>3. file[r] \in Seq(Nat) /\ queue[r] \in Seq(Nat) /\ hand[r] \in Nat
    BY DEF TypeOK
  <2>4. \A i \in DOMAIN file[r] : file[r][i] \in Nat
    BY <2>3
  <2>5. AllUnder(file[r], frames + 1)
    BY <1>2, <1>3, <2>4 DEF InOrder, AllUnder
  <2>6. \A i \in DOMAIN file[r] : AllOver(t, file[r][i])
    BY <1>2, <1>3, <2>2, <2>4 DEF InOrder, AllUnder
  <2>7. writer[r] = "writing" => AllOver(t, hand[r]) /\ hand[r] < frames + 1
    BY <1>2, <1>3, <2>2, <2>3 DEF InOrder
  <2>8. InOrder(r)'
    BY <1>2, <1>3, <2>2, <2>5, <2>6, <2>7 DEF InOrder
  <2>9. Balanced(r)'
    <3>1. /\ dropped'[r] = dropped[r] + Lost(r) /\ offered'[r] = offered[r] + 1
      BY <1>1, <1>5 DEF Put, TypeOK
    <3>2. PICK f, k, d, o, l, e \in Nat :
            /\ f = Len(file[r]) /\ k = Len(s) /\ d = dropped[r] /\ o = offered[r]
            /\ l = Lost(r) /\ e = Unsaved(r)
      <4>1. dropped[r] \in Nat /\ offered[r] \in Nat
        BY DEF TypeOK
      <4>2. Len(file[r]) \in Nat /\ Len(s) \in Nat
        BY <2>3
      <4>3. Lost(r) \in Nat /\ Unsaved(r) \in Nat
        BY DEF Lost, Unsaved
      <4> QED  BY <4>1, <4>2, <4>3
    <3>3. Unsaved(r)' = e /\ Len(file'[r]) = f /\ Len(queue'[r]) = k + 1
      BY <1>3, <2>2, <3>2 DEF Unsaved
    <3>4. r \notin error => o = f + (k + l) + d + e
      BY <1>2, <2>1, <3>2 DEF Balanced
    <3>5. r \notin error => o + 1 = f + (k + 1) + (d + l) + e
      BY <3>4
    <3> QED  BY <1>3, <3>1, <3>2, <3>3, <3>5 DEF Balanced
  <2>10. Settled(r)'
    BY <1>2, <1>3, <1>5 DEF Settled
  <2> QED  BY <2>8, <2>9, <2>10
<1> QED  BY <1>4, <1>5

\* The writer moves the first number of the queue behind the last of the file.
LEMMA RecordWriter ==
  ASSUME TypeOK, RecordInv, NEW r \in Recordings, Writer(r)
  PROVE  InOrder(r)' /\ Balanced(r)' /\ Settled(r)'
<1>1. InOrder(r) /\ Balanced(r) /\ Settled(r)
  BY DEF RecordInv
<1>2. /\ file[r] \in Seq(Nat) /\ queue[r] \in Seq(Nat) /\ hand[r] \in Nat
      /\ dropped[r] \in Nat /\ offered[r] \in Nat
  BY DEF TypeOK
<1>3. UNCHANGED << frames, target, dropped, offered, sidecar, raised, ended >>
  BY DEF Writer, WriterTakes, WriterWrites, WriteFails, WriterEnds, readVars
<1>4. PICK n \in Nat : n = Coming /\ n = Coming'
  BY <1>3, SMTT(40) DEF Coming, TypeOK
<1>5. PICK f, q, d, o \in Nat :
        f = Len(file[r]) /\ q = Len(queue[r]) /\ d = dropped[r] /\ o = offered[r]
  BY <1>2
<1>6. CASE WriterTakes(r)
  <2>1. /\ writer[r] = "idle" /\ writer'[r] = "writing" /\ queue[r] # << >>
        /\ hand'[r] = Head(queue[r]) /\ queue'[r] = Tail(queue[r])
        /\ UNCHANGED << file, error >>
    BY <1>6 DEF WriterTakes, TypeOK
  <2>2. PICK h \in Nat, t \in Seq(Nat) :
          /\ h = hand'[r] /\ t = queue'[r] /\ Len(t) = Len(queue[r]) - 1
          /\ Increasing(t) /\ AllOver(t, h)
          /\ \A m \in Nat : AllUnder(queue[r], m) => AllUnder(t, m) /\ h < m
          /\ \A m \in Nat : AllOver(queue[r], m) => AllOver(t, m) /\ m < h
    BY <1>1, <1>2, <2>1, WithoutFirst DEF InOrder
  <2>3. \A i \in DOMAIN file[r] : file[r][i] \in Nat
    BY <1>2
  <2>4. AllUnder(file[r], h)
    BY <1>1, <2>2, <2>3 DEF InOrder, AllUnder
  <2>5. InOrder(r)'
    BY <1>1, <1>4, <2>1, <2>2, <2>3, <2>4 DEF InOrder
  <2>6. r \notin error => o = f + q + d + 0
    BY <1>1, <1>5, <2>1 DEF Balanced, Unsaved
  <2>7. r \notin error => o = f + (q - 1) + d + 1
    BY <2>6
  <2>9. Balanced(r)'
    BY <1>3, <1>5, <2>1, <2>2, <2>7 DEF Balanced, Unsaved
  <2>8. Settled(r)'
    BY <1>1, <1>3, <2>1 DEF Settled
  <2> QED  BY <2>5, <2>8, <2>9
<1>7. CASE WriterWrites(r)
  <2>1. /\ writer[r] = "writing" /\ sidecar[r] = << >> /\ ~FileClosed(r)
        /\ UNCHANGED << queue, error, hand >>
    BY <1>1, <1>7 DEF WriterWrites, Settled, FileClosed
  <2>2. writer'[r] = "idle" /\ file'[r] = Append(file[r], hand[r])
    BY <1>7, <2>1 DEF WriterWrites, TypeOK
  <2>3. PICK t \in Seq(Nat) :
          /\ t = file'[r] /\ Len(t) = Len(file[r]) + 1
          /\ Increasing(t) /\ AllUnder(t, n)
    <3>1. Append(file[r], hand[r]) \in Seq(Nat)
      BY <1>2
    <3> QED  BY <1>1, <1>2, <1>4, <2>1, <2>2, <3>1, AppendedOver, ZenonT(60) DEF InOrder
  <2>4. \A i \in DOMAIN t : AllOver(queue[r], t[i])
    <3>1. ASSUME NEW i \in DOMAIN t
          PROVE  t[i] = hand[r] \/ (i \in DOMAIN file[r] /\ t[i] = file[r][i])
      BY <1>2, <2>2, <2>3
    <3> QED  BY <1>1, <2>1, <3>1 DEF InOrder
  <2>5. InOrder(r)'
    BY <1>1, <1>4, <2>1, <2>2, <2>3, <2>4 DEF InOrder
  <2>6. r \notin error => o = f + q + d + 1
    BY <1>1, <1>5, <2>1 DEF Balanced, Unsaved
  <2>7. r \notin error => o = (f + 1) + q + d + 0
    BY <2>6
  <2>9. Balanced(r)'
    BY <1>3, <1>5, <2>1, <2>2, <2>3, <2>7 DEF Balanced, Unsaved
  <2>8. Settled(r)'
    BY <1>1, <1>3, <2>1, <2>2 DEF Settled
  <2> QED  BY <2>5, <2>8, <2>9
<1>8. CASE WriteFails(r)
  <2>1. /\ sidecar[r] = << >> /\ r \notin raised /\ writer'[r] = "dead" /\ r \in error'
        /\ UNCHANGED << queue, file, hand >>
    BY <1>8 DEF WriteFails, FileClosed, TypeOK
  <2> QED  BY <1>1, <1>3, <1>4, <2>1 DEF InOrder, Balanced, Settled
<1>9. CASE WriterEnds(r)
  <2>1. /\ writer[r] = "idle" /\ r \in ended /\ queue[r] = << >> /\ writer'[r] = "dead"
        /\ UNCHANGED << queue, file, hand, error >>
    BY <1>9 DEF WriterEnds, MayEnd, TypeOK
  <2> QED  BY <1>1, <1>3, <1>4, <2>1 DEF InOrder, Balanced, Unsaved, Settled
<1> QED  BY <1>6, <1>7, <1>8, <1>9 DEF Writer

\* The end of a recording: the writer is done, and the sidecar says what is there.
LEMMA RecordFinish ==
  ASSUME ~WriterMayStall, TypeOK, RecordInv, NEW t \in Threads, Finish(t),
         NEW r \in Recordings
  PROVE  InOrder(r)' /\ Balanced(r)' /\ Settled(r)'
<1>1. InOrder(r) /\ Balanced(r) /\ Settled(r)
  BY DEF RecordInv
<1>2. UNCHANGED << file, queue, dropped, offered, hand, writer, error, ended, frames,
      target >>
  BY DEF Finish, readVars
<1>3. InOrder(r)' /\ Balanced(r)'
  BY <1>1, <1>2 DEF InOrder, Balanced, Unsaved, Coming
<1>4. CASE r = finishing[t]
  <2>1. r \in ended /\ writer[r] = "dead"
    BY <1>4 DEF Finish
  <2>2. PICK s : s = [frames |-> Len(file[r]), dropped |-> dropped[r],
        error |-> r \in error]
    OBVIOUS
  <2>3. CASE Reports(r)
    <3>1. sidecar' = [sidecar EXCEPT ![r] = << s >>] /\ raised' = raised
      BY <2>2, <2>3 DEF Reports
    <3>2. sidecar'[r] = << s >> /\ << s >>[1] = s
      BY <3>1 DEF TypeOK
    <3> QED  BY <1>1, <1>2, <1>3, <2>1, <2>2, <3>1, <3>2 DEF Settled
  <2>4. CASE Raises(r)
    BY <1>1, <1>2, <1>3, <2>1, <2>4 DEF Raises, Settled
  <2> QED  BY <1>4, <2>3, <2>4 DEF Finish
<1>5. CASE r # finishing[t]
  <2>1. sidecar'[r] = sidecar[r] /\ (r \in raised' <=> r \in raised)
    BY <1>5 DEF Finish, Reports, Raises, TypeOK
  <2> QED  BY <1>1, <1>2, <1>3, <2>1 DEF Settled
<1> QED  BY <1>4, <1>5

\* Every step keeps the account of every recording.
LEMMA RecordStep == ~WriterMayStall /\ TypeOK /\ RecordInv /\ [Next]_vars => RecordInv'
<1> SUFFICES ASSUME ~WriterMayStall, TypeOK, RecordInv, [Next]_vars, NEW r \in Recordings
             PROVE  InOrder(r)' /\ Balanced(r)' /\ Settled(r)'
  BY DEF RecordInv
<1> DEFINE Goal == InOrder(r)' /\ Balanced(r)' /\ Settled(r)'
<1>1. InOrder(r) /\ Balanced(r) /\ Settled(r)
  BY DEF RecordInv
<1>2. Coming \in Nat
  BY DEF Coming, TypeOK
<1>3. ASSUME UNCHANGED << queue, file, dropped, error, hand, sidecar, raised, offered,
                          frames, target >>,
             ended \subseteq ended',
             writer'[r] = writer[r] \/ (writer[r] = "none" /\ writer'[r] = "idle")
      PROVE  Goal
  <2>1. Coming' = Coming
    BY <1>3 DEF Coming
  <2>2. Coming' \in Nat /\ Coming' >= Coming
    BY <1>2, <2>1
  <2> QED  BY <1>1, <1>3, <2>2, RecordStands
<1> USE DEF sessionVars, recVars, readVars, stopVars
<1>4. CASE AddSession \/ StopLists \/ StopCloses \/ StopEnds
  <2>1. UNCHANGED << queue, file, dropped, error, hand, sidecar, raised, offered,
                     frames, target, writer >> /\ ended \subseteq ended'
    BY <1>4 DEF AddSession, StopLists, StopCloses, StopEnds
  <2> QED  BY <1>3, <2>1
<1>5. ASSUME NEW c \in Clients,
             \/ Accept(c) \/ HangUp(c) \/ SessionEnds(c)
             \/ \E o \in Mutating \cup Hellos : Asks(c, o)
      PROVE  Goal
  <2>1. UNCHANGED << queue, file, dropped, error, hand, sidecar, raised, offered,
                     frames, target, writer, ended >>
    BY <1>5 DEF Accept, HangUp, SessionEnds, Asks
  <2> QED  BY <1>3, <2>1
<1>6. ASSUME NEW c \in Clients, Handler(c) PROVE Goal
  <2>1. UNCHANGED << queue, file, dropped, error, hand, sidecar, raised, offered,
                     frames, target >>
        /\ ended \subseteq ended'
    BY <1>6 DEF Handler, Hello, Start, Stop, RecordStart, RecordStop
  <2>2. writer'[r] = writer[r] \/ (writer[r] = "none" /\ writer'[r] = "idle")
    <3>1. CASE RecordStart(c)
      BY <3>1, FirstUnused DEF RecordStart, Unused, TypeOK
    <3>2. CASE ~RecordStart(c)
      BY <1>6, <3>2 DEF Handler, Hello, Start, Stop, RecordStop
    <3> QED  BY <3>1, <3>2
  <2> QED  BY <1>3, <2>1, <2>2
<1>7. CASE ReaderTakes
  <2>1. UNCHANGED << queue, file, dropped, error, hand, sidecar, raised, offered,
                     writer, ended >>
        /\ target = << >> /\ frames' = frames + 1
    BY <1>7 DEF ReaderTakes
  <2>2. PICK n \in Nat : n = frames
    BY DEF TypeOK
  <2>3. Coming = n + 1 /\ Coming' \in {n + 1, (n + 1) + 1}
    BY <2>1, <2>2 DEF Coming
  <2>4. Coming' \in Nat /\ Coming' >= Coming
    BY <2>3
  <2> QED  BY <1>1, <2>1, <2>4, RecordStands
<1>8. CASE ReaderPuts
  BY <1>8, RecordPut
<1>9. ASSUME NEW q \in Recordings, Writer(q) PROVE Goal
  <2>1. CASE q = r
    BY <1>9, <2>1, RecordWriter
  <2>2. CASE q # r
    <3>1. /\ UNCHANGED << dropped, sidecar, raised, offered, ended, frames, target >>
          /\ file'[r] = file[r] /\ queue'[r] = queue[r] /\ hand'[r] = hand[r]
          /\ writer'[r] = writer[r] /\ (r \in error' <=> r \in error)
      BY <1>9, <2>2 DEF Writer, WriterTakes, WriterWrites, WriteFails, WriterEnds, TypeOK
    <3>2. Coming' = Coming
      BY <3>1 DEF Coming
    <3>3. Coming' \in Nat /\ Coming' >= Coming
      BY <1>2, <3>2
    <3> QED  BY <1>1, <3>1, <3>3, RecordStands
  <2> QED  BY <2>1, <2>2
<1>10. ASSUME NEW t \in Threads, Finish(t) PROVE Goal
  BY <1>10, RecordFinish
<1>11. CASE UNCHANGED vars
  BY <1>3, <1>11 DEF vars
<1> QED
  BY <1>4, <1>5, <1>6, <1>7, <1>8, <1>9, <1>10, <1>11 DEF Next

\* If a write to the disk ends within the five seconds stop() waits for it, every
\* frame put into a recording is in its file, in order and once, or in the count of
\* its sidecar, or the sidecar carries an error (_Recorder.put, _run, stop).
THEOREM HolesAreTold == ~WriterMayStall => (Spec => []HoleIsTold)
<1>1. RecordInv /\ TypeOK => HoleIsTold
  <2> SUFFICES ASSUME RecordInv, TypeOK, NEW r \in Recordings
               PROVE  /\ Increasing(file[r])
                      /\ sidecar[r] # << >> /\ ~sidecar[r][1].error =>
                           /\ offered[r] = sidecar[r][1].frames + sidecar[r][1].dropped
                           /\ sidecar[r][1].frames = Len(file[r])
    BY DEF HoleIsTold, Increasing
  <2>1. InOrder(r) /\ Balanced(r) /\ Settled(r)
    BY DEF RecordInv
  <2>2. ASSUME sidecar[r] # << >>, ~sidecar[r][1].error
        PROVE  /\ offered[r] = sidecar[r][1].frames + sidecar[r][1].dropped
               /\ sidecar[r][1].frames = Len(file[r])
    <3>1. /\ writer[r] = "dead" /\ r \notin error /\ queue[r] = << >>
          /\ sidecar[r][1].frames = Len(file[r]) /\ sidecar[r][1].dropped = dropped[r]
      <4>1. /\ writer[r] = "dead"
            /\ sidecar[r][1] = [frames |-> Len(file[r]), dropped |-> dropped[r],
                                error |-> r \in error]
        BY <2>1, <2>2 DEF Settled
      <4>2. sidecar[r][1].frames = Len(file[r]) /\ sidecar[r][1].dropped = dropped[r]
        BY <4>1
      <4>3. ASSUME r \in error PROVE FALSE
        <5>1. (r \in error) = TRUE
          BY <4>3
        <5>2. sidecar[r][1] = [frames |-> Len(file[r]), dropped |-> dropped[r],
              error |-> TRUE]
          BY <4>1, <5>1, Zenon
        <5> QED  BY <2>2, <5>2
      <4> QED  BY <2>1, <4>1, <4>2, <4>3 DEF Settled
    <3>2. offered[r] = Len(file[r]) + 0 + dropped[r] + 0
      BY <2>1, <3>1 DEF Balanced, Unsaved
    <3>3. file[r] \in Seq(Nat) /\ dropped[r] \in Nat
      BY DEF TypeOK
    <3>4. Len(file[r]) \in Nat
      BY <3>3
    <3> QED  BY <3>1, <3>2, <3>3, <3>4
  <2> QED  BY <2>1, <2>2 DEF InOrder
<1> SUFFICES ASSUME ~WriterMayStall PROVE Spec => []HoleIsTold
  OBVIOUS
<1>2. TypeOK /\ RecordInv /\ [Next]_vars => RecordInv'
  BY RecordStep
<1> QED  BY <1>1, <1>2, TypeInit, TypeStep, RecordInit, PTL DEF Spec

----------------------------------------------------------------------------
(* A stop leaves nothing *)

\* Every step keeps a recording under way with the one that will end it.
LEMMA KeptStep == TypeOK /\ Kept /\ [Next]_vars => Kept'
<1> SUFFICES ASSUME TypeOK, Kept, [Next]_vars PROVE Kept'
  OBVIOUS
<1> USE DEF sessionVars, recVars, readVars, stopVars
<1>1. ASSUME NEW c \in Clients, Accept(c) \/ HangUp(c) PROVE Kept'
  <2>1. CASE Accept(c)
    <3>1. /\ accepting = Nobody /\ session[c] = "absent" /\ accepting' = c
          /\ session' = [session EXCEPT ![c] = "accepted"]
          /\ UNCHANGED << op, finishing, writer, sidecar, raised, recorder, ended,
                          stage, straddled >>
      BY <2>1 DEF Accept
    <3>2. \A d \in Clients : session'[d] = "accepted" <=> accepting' = d
      BY <3>1, Names DEF Kept, TypeOK
    <3>3. \A d \in Clients : Runs(d, "record.stop") => Runs(d, "record.stop")'
      BY <3>1 DEF Runs, TypeOK
    <3> QED  BY <3>1, <3>2, <3>3 DEF Kept, Unused, Unfinished, FileClosed
  <2>2. CASE HangUp(c)
    BY <2>2 DEF HangUp, Kept, Runs, Unused, Unfinished, FileClosed
  <2> QED  BY <1>1, <2>1, <2>2
<1>2. CASE AddSession
  <2>1. accepting \in Clients /\ accepting # Nobody /\ session[accepting] = "accepted"
    BY <1>2 DEF AddSession, Kept, TypeOK
  <2> QED  BY <1>2, <2>1, Names DEF AddSession, Kept, Runs, Unused, Unfinished,
                                    FileClosed, TypeOK
<1>3. ASSUME NEW c \in Clients, SessionEnds(c) PROVE Kept'
  BY <1>3 DEF SessionEnds, Kept, Runs, Unused, Unfinished, FileClosed, TypeOK
<1>4. ASSUME NEW c \in Clients, NEW o \in Mutating \cup Hellos, Asks(c, o) PROVE Kept'
  BY <1>4 DEF Asks, Kept, Runs, Unused, Unfinished, FileClosed, TypeOK
<1>5. ASSUME NEW c \in Clients, Handler(c) PROVE Kept'
  <2>1. CASE \/ \E want \in Hellos : Hello(c, want)
             \/ Start(c) \/ Stop(c)
    <3>1. /\ Done(c) /\ ~Runs(c, "record.stop") /\ session[c] = "busy"
          /\ UNCHANGED << finishing, accepting, writer, sidecar, raised, recorder,
                          ended, stage, straddled >>
      BY <2>1 DEF Hello, Start, Stop, Runs, Hellos
    <3> QED  BY <3>1 DEF Kept, Done, Runs, Unused, Unfinished, FileClosed, TypeOK
  <2>2. CASE RecordStart(c)
    <3>1. /\ Done(c) /\ ~Runs(c, "record.stop") /\ session[c] = "busy"
          /\ UNCHANGED << finishing, accepting, sidecar, raised, ended, stage, straddled >>
      BY <2>2 DEF RecordStart, Runs
    <3>2. CASE UNCHANGED << recorder, writer >>
      BY <3>1, <3>2 DEF Kept, Done, Runs, Unused, Unfinished, FileClosed, TypeOK
    <3>3. CASE ~UNCHANGED << recorder, writer >>
      <4>1. PICK r \in Unused : recorder = NoRecorder /\ recorder' = r
                               /\ writer' = [writer EXCEPT ![r] = "idle"]
        BY <2>2, <3>3, FirstUnused DEF RecordStart
      <4>2. r \in Recordings /\ writer[r] = "none" /\ r \notin ended
            /\ Unused' \subseteq Unused /\ r \notin Unused'
        BY <4>1 DEF Kept, Unused, TypeOK
      <4>3. \A q \in Recordings : Unfinished(q)' => q = r \/ Unfinished(q)
        BY <3>1, <4>1, <4>2 DEF Unfinished, FileClosed, TypeOK
      <4>4. \A q \in Recordings : Unfinished(q)' =>
               q = recorder' \/ \E t \in Threads : finishing'[t] = q
        BY <3>1, <4>1, <4>3, Names DEF Kept
      <4>5. \A d \in Clients : /\ finishing'[d] # NoRecorder => Runs(d, "record.stop")'
                               /\ session'[d] = "accepted" <=> accepting' = d
        BY <3>1 DEF Kept, Done, Runs, TypeOK
      <4>6. \A q \in Unused' : q \notin ended' \cup {recorder'} /\
            \A t \in Threads : finishing'[t] # q
        BY <3>1, <4>1, <4>2 DEF Kept
      <4>7. \A t \in Threads : finishing'[t] # recorder'
        BY <3>1, <4>1 DEF Kept
      <4> QED  BY <3>1, <4>1, <4>2, <4>4, <4>5, <4>6, <4>7 DEF Kept
    <3> QED  BY <3>2, <3>3
  <2>3. CASE RecordStop(c)
    <3>1. /\ Runs(c, "record.stop") /\ finishing[c] = NoRecorder
          /\ UNCHANGED << accepting, writer, sidecar, raised, stage, straddled >>
      BY <2>3 DEF RecordStop
    <3>2. CASE recorder = NoRecorder
      <4>1. Done(c) /\ UNCHANGED << recorder, finishing, ended >>
        BY <2>3, <3>2 DEF RecordStop
      <4> QED  BY <3>1, <4>1 DEF Kept, Done, Runs, Unused, Unfinished, FileClosed, TypeOK
    <3>3. CASE recorder # NoRecorder
      <4>1. /\ recorder' = NoRecorder /\ finishing' = [finishing EXCEPT ![c] = recorder]
            /\ ended' = ended \cup {recorder} /\ UNCHANGED << session, op >>
        BY <2>3, <3>3 DEF RecordStop
      <4>2. /\ finishing'[c] = recorder /\ c \in Threads /\ c # Stopper
            /\ \A t \in Threads : t # c => finishing'[t] = finishing[t]
        BY <4>1, Names DEF TypeOK
      <4>3. recorder' \notin ended'
        BY <3>3, <4>1, Names DEF TypeOK
      <4>4. \A r \in Unused : r \notin ended' /\ r # recorder' /\
            \A t \in Threads : finishing'[t] # r
        BY <4>1, <4>2, Names DEF Kept, Unused
      <4>5. \A r \in Recordings : Unfinished(r) =>
               r = recorder' \/ \E t \in Threads : finishing'[t] = r
        BY <3>1, <4>2, Names DEF Kept
      <4>6. Stopper \in Threads
        BY Names
      <4> QED
        BY <3>1, <4>1, <4>2, <4>3, <4>4, <4>5, <4>6, Names DEF Kept, Runs, Unused,
              Unfinished, FileClosed
    <3> QED  BY <3>2, <3>3
  <2> QED  BY <1>5, <2>1, <2>2, <2>3 DEF Handler
<1>6. CASE ReaderTakes \/ ReaderPuts
  BY <1>6 DEF ReaderTakes, ReaderPuts, Kept, Runs, Unused, Unfinished, FileClosed
<1>7. ASSUME NEW q \in Recordings, Writer(q) PROVE Kept'
  <2>1. /\ writer[q] # "none" /\ \E w \in {"idle", "writing", "dead"} :
                                   writer' = [writer EXCEPT ![q] = w]
        /\ UNCHANGED << session, op, accepting, recorder, ended, finishing, sidecar, raised,
                        stage, straddled >>
    BY <1>7 DEF Writer, WriterTakes, WriterWrites, WriteFails, WriterEnds
  <2>2. \A r \in Recordings : writer'[r] = "none" <=> writer[r] = "none"
    BY <2>1 DEF TypeOK
  <2>3. Unused' = Unused /\ \A r \in Recordings : Unfinished(r)' <=> Unfinished(r)
    BY <2>1, <2>2 DEF Unused, Unfinished, FileClosed
  <2> QED  BY <2>1, <2>3 DEF Kept, Runs
<1>8. ASSUME NEW t \in Threads, Finish(t) PROVE Kept'
  <2>1. PICK r \in Recordings : r = finishing[t] /\ finishing[t] # NoRecorder
    BY <1>8, Names DEF Finish, TypeOK
  <2>2. /\ UNCHANGED << accepting, recorder, ended, writer, straddled >>
        /\ finishing' = [finishing EXCEPT ![t] = NoRecorder]
        /\ \/ (\E s : sidecar' = [sidecar EXCEPT ![r] = << s >>]) /\ raised' = raised
           \/ sidecar' = sidecar /\ raised' = raised \cup {r}
        /\ IF t = Stopper
           THEN stage' \in {"recorded", "raised"} /\ UNCHANGED << session, op >>
           ELSE Done(t) /\ UNCHANGED stage
    BY <1>8, <2>1 DEF Finish, Reports, Raises, Returns
  <2>3. /\ finishing'[t] = NoRecorder
        /\ \A u \in Threads : u # t => finishing'[u] = finishing[u]
    BY <2>2 DEF TypeOK
  <2>4. \A q \in Recordings : Unfinished(q)' => q # r /\ Unfinished(q)
    <3>1. CASE raised' = raised \cup {r} /\ sidecar' = sidecar
      BY <2>2, <3>1 DEF Unfinished, FileClosed
    <3>2. CASE raised' = raised /\ \E s : sidecar' = [sidecar EXCEPT ![r] = << s >>]
      <4>1. PICK s : sidecar' = [sidecar EXCEPT ![r] = << s >>]
        BY <3>2
      <4>2. << s >> # << >>
        OBVIOUS
      <4> QED  BY <2>2, <3>2, <4>1, <4>2 DEF Unfinished, FileClosed, TypeOK
    <3> QED  BY <2>2, <3>1, <3>2
  <2>5. \A q \in Recordings : Unfinished(q)' =>
           q = recorder' \/ \E u \in Threads : finishing'[u] = q
    BY <2>1, <2>2, <2>3, <2>4 DEF Kept
  <2>6. /\ recorder' \notin ended' /\ Unused' = Unused
        /\ \A q \in Unused : q \notin ended' \cup {recorder'} /\
             \A u \in Threads : finishing'[u] # q
    BY <2>2, <2>3, Names DEF Kept, Unused
  <2>7. /\ stage' = "serving" => ~straddled' /\ finishing'[Stopper] = NoRecorder
        /\ stage' \in {"recorded", "raised", "done"} => finishing'[Stopper] = NoRecorder
    BY <2>2, <2>3, Names DEF Kept
  <2>8. \A c \in Clients : /\ finishing'[c] # NoRecorder => Runs(c, "record.stop")'
                           /\ session'[c] = "accepted" <=> accepting' = c
    <3>1. CASE t = Stopper
      BY <2>2, <2>3, <3>1, Names DEF Kept, Runs
    <3>2. CASE t # Stopper
      <4>1. t \in Clients /\ Runs(t, "record.stop")
        BY <2>1, <3>2, Names DEF Kept
      <4> QED  BY <2>2, <2>3, <3>2, <4>1, Names DEF Kept, Runs, Done, TypeOK
    <3> QED  BY <3>1, <3>2
  <2>9. \A u \in Threads : finishing'[u] = recorder' => recorder' = NoRecorder
    BY <2>2, <2>3 DEF Kept
  <2> QED  BY <2>5, <2>6, <2>7, <2>8, <2>9 DEF Kept
<1>9. CASE StopLists
  <2>1. /\ stage' = "listed" /\ recorder' = NoRecorder
        /\ finishing' = [finishing EXCEPT ![Stopper] = recorder]
        /\ UNCHANGED << session, op, accepting, writer, sidecar, raised, ended >>
        /\ finishing[Stopper] = NoRecorder
    BY <1>9 DEF StopLists, RecorderAtStop, Kept
  <2>2. /\ finishing'[Stopper] = recorder /\ Stopper \in Threads
        /\ \A t \in Threads : t # Stopper => finishing'[t] = finishing[t]
    BY <2>1, Names DEF TypeOK
  <2>3. recorder' \notin ended'
    BY <2>1, Names DEF TypeOK
  <2>4. \A r \in Unused : r \notin ended' \cup {recorder'} /\
        \A t \in Threads : finishing'[t] # r
    BY <2>1, <2>2, Names DEF Kept, Unused
  <2>5. \A r \in Recordings : Unfinished(r) =>
           r = recorder' \/ \E t \in Threads : finishing'[t] = r
    BY <2>1, <2>2, Names DEF Kept
  <2> QED  BY <2>1, <2>2, <2>3, <2>4, <2>5, Names DEF Kept, Runs, Unused, Unfinished,
                                                      FileClosed
<1>10. CASE StopCloses
  <2>1. finishing[Stopper] \notin Unused
    BY Names DEF Kept
  <2>2. recorder # finishing[Stopper] \/ recorder = NoRecorder
    BY Names DEF Kept
  <2> QED  BY <1>10, <2>1, <2>2, Names DEF StopCloses, Kept, Runs, Unused, Unfinished,
                                           FileClosed, TypeOK
<1>11. CASE StopEnds
  BY <1>11 DEF StopEnds, Kept, Runs, Unused, Unfinished, FileClosed
<1>12. CASE UNCHANGED vars
  BY <1>12 DEF vars, Kept, Runs, Unused, Unfinished, FileClosed
<1> QED
  BY <1>1, <1>2, <1>3, <1>4, <1>5, <1>6, <1>7, <1>8, <1>9, <1>10, <1>11, <1>12 DEF Next

\* Once Server.stop has its list, and nothing was under way, nothing begins.
LEMMA QuietStep == TypeOK /\ Kept /\ Quiet /\ [Next]_vars => Quiet'
<1> SUFFICES ASSUME TypeOK, Kept, Quiet, [Next]_vars, stage' # "serving", ~straddled'
             PROVE  Quiet'
  BY DEF Quiet
<1> USE DEF sessionVars, recVars, readVars, stopVars
<1>1. CASE StopLists
  <2>1. /\ stage' = "listed" /\ recorder' = NoRecorder /\ toClose' = Alive
        /\ finishing'[Stopper] = recorder /\ UNCHANGED << session, accepting, ended >>
        /\ accepting = Nobody /\ \A c \in Clients : session[c] # "busy"
    BY <1>1, Names DEF StopLists, RecorderAtStop, TypeOK
  <2> QED  BY <2>1 DEF Kept, Quiet, Alive
<1>2. CASE stage = "serving" /\ ~StopLists
  <2>1. ASSUME NEW t \in Threads, Finish(t) PROVE FALSE
    BY <1>2, <2>1 DEF Finish, Returns, Kept
  <2>2. stage' = stage
    BY <1>2, <2>1 DEF Next, AddSession, ReaderTakes, ReaderPuts, StopCloses, StopEnds,
       Accept, HangUp, SessionEnds, Handler, Hello, Start, Stop, RecordStart, RecordStop,
       Asks, Writer, WriterTakes, WriterWrites, WriteFails, WriterEnds, vars
  <2> QED  BY <1>2, <2>2
<1>3. CASE stage # "serving" /\ straddled
  <2>1. straddled'
    BY <1>3 DEF Next, AddSession, ReaderTakes, ReaderPuts, StopLists, StopCloses, StopEnds,
       Accept, HangUp, SessionEnds, Handler, Hello, Start, Stop, RecordStart, RecordStop,
       Asks, Writer, WriterTakes, WriterWrites, WriteFails, WriterEnds, Finish, vars
  <2> QED  BY <2>1
<1>4. CASE stage # "serving" /\ ~straddled
  <2>1. /\ accepting = Nobody /\ recorder = NoRecorder
        /\ \A c \in Clients : session[c] # "busy"
        /\ Alive \subseteq toClose
        /\ stage # "listed" => toClose \subseteq closed
        /\ stage = "listed" => finishing[Stopper] \notin ended
        /\ stage = "done" => ~running
    BY <1>4 DEF Quiet
  <2>2. ASSUME NEW c \in Clients,
               \/ Accept(c) \/ Handler(c)
               \/ \E o \in Mutating \cup Hellos : Asks(c, o)
        PROVE  FALSE
    BY <1>4, <2>1, <2>2
    DEF Accept, Handler, Hello, Start, Stop, RecordStart, RecordStop, Runs, Asks
  <2>3. CASE AddSession \/ StopLists
    BY <1>4, <2>1, <2>3 DEF AddSession, StopLists
  <2>4. ASSUME NEW c \in Clients, HangUp(c) PROVE Quiet'
    BY <2>1, <2>4 DEF HangUp, Quiet, Alive
  <2>5. ASSUME NEW c \in Clients, SessionEnds(c) PROVE Quiet'
    <3>1. /\ session' = [session EXCEPT ![c] = "gone"] /\ closed' = closed \cup {c}
          /\ UNCHANGED << accepting, recorder, ended, finishing, stage, toClose, running >>
      BY <2>5 DEF SessionEnds
    <3>2. /\ \A d \in Clients : session'[d] # "busy"
          /\ Alive' \subseteq Alive
      BY <2>1, <3>1 DEF Alive, TypeOK
    <3> QED  BY <2>1, <3>1, <3>2 DEF Quiet
  <2>6. CASE ReaderTakes \/ ReaderPuts
    BY <2>1, <2>6 DEF ReaderTakes, ReaderPuts, Quiet, Alive
  <2>7. ASSUME NEW r \in Recordings, Writer(r) PROVE Quiet'
    BY <2>1, <2>7 DEF Writer, WriterTakes, WriterWrites, WriteFails, WriterEnds, Quiet,
                      Alive
  <2>8. ASSUME NEW t \in Threads, Finish(t) PROVE Quiet'
    <3>1. t = Stopper
      BY <2>1, <2>8, Names DEF Finish, Kept, Runs
    <3>2. /\ stage' \in {"recorded", "raised"}
          /\ finishing' = [finishing EXCEPT ![Stopper] = NoRecorder]
          /\ finishing[Stopper] # NoRecorder /\ finishing[Stopper] \in ended
          /\ UNCHANGED << session, accepting, recorder, ended, toClose, closed, running >>
      BY <2>8, <3>1 DEF Finish, Returns
    <3> QED  BY <2>1, <3>2 DEF Quiet, Alive
  <2>9. CASE StopCloses
    <3>1. /\ stage = "listed" /\ closed' = closed \cup toClose
          /\ stage' = IF finishing[Stopper] = NoRecorder THEN "recorded" ELSE "closed"
          /\ UNCHANGED << session, accepting, recorder, finishing, toClose, running >>
      BY <2>9 DEF StopCloses
    <3> QED  BY <2>1, <3>1 DEF Quiet, Alive
  <2>10. CASE StopEnds
    BY <2>1, <2>10 DEF StopEnds, Quiet, Alive
  <2>11. CASE UNCHANGED vars
    BY <2>1, <2>11 DEF vars, Quiet, Alive
  <2> QED
    BY <2>2, <2>3, <2>4, <2>5, <2>6, <2>7, <2>8, <2>9, <2>10, <2>11 DEF Next
<1> QED  BY <1>1, <1>2, <1>3, <1>4

\* When Server.stop has returned, a recording that has neither its sidecar nor an
\* exception for its stop() is in the hands of a record.stop, or was begun behind
\* the list; and if no session was being made and no operation running while it
\* stopped, no session and no run of the device is left (Server.stop).
THEOREM StopIsClean == Spec => []StopLeavesNothing
<1>1. Init => Kept /\ Quiet
  <2> SUFFICES ASSUME Init PROVE Kept /\ Quiet
    OBVIOUS
  <2>1. Kept
    BY Names DEF Init, Kept, Runs, Unused, Unfinished, FileClosed
  <2>2. Quiet
    BY DEF Init, Quiet
  <2> QED  BY <2>1, <2>2
<1>2. TypeOK /\ Kept /\ Quiet => StopLeavesNothing
  <2> SUFFICES ASSUME TypeOK, Kept, Quiet, stage = "done" PROVE StopLeavesNothing
    BY DEF StopLeavesNothing
  <2>1. ~straddled => ~running /\ Alive \subseteq closed
    BY DEF Quiet
  <2>2. ASSUME NEW r \in Recordings, Unfinished(r)
        PROVE  (\E c \in Clients : finishing[c] = r) \/ (straddled /\ recorder = r)
    <3>1. r = recorder \/ \E t \in Threads : finishing[t] = r
      BY <2>2 DEF Kept
    <3>2. finishing[Stopper] # r
      BY Names DEF Kept
    <3>3. r = recorder => straddled
      BY Names DEF Quiet
    <3> QED  BY <3>1, <3>2, <3>3, Names
  <2> QED  BY <2>1, <2>2 DEF StopLeavesNothing, Unfinished
<1> QED  BY <1>1, <1>2, TypeInit, TypeStep, KeptStep, QuietStep, PTL DEF Spec

----------------------------------------------------------------------------
(* FanOut: the frames and the replies of each client *)

\* The initial state is well typed.
LEMMA FanTypeInit == FanInit => FanTypeOK
  BY DEF FanInit, FanTypeOK, Items, Nothing, None, Stages, Requests

\* put_frame: the queue grows by one, or keeps its length and one is counted; it
\* stays within its capacity.
LEMMA QueuedLength ==
  ASSUME NEW c \in Subscribers, FanTypeOK, Len(toSend[c]) <= Capacity
  PROVE  /\ Queued(c) \in Seq(Nat)
         /\ Len(Queued(c)) + DropCount(c) = Len(toSend[c]) + 1
         /\ Len(Queued(c)) <= Capacity
<1>1. toSend[c] \in Seq(Nat) /\ read \in Nat /\ Capacity \in Nat \ {0}
  BY FanOutAssumption DEF FanTypeOK
<1>2. CASE Full(c)
  <2>1. toSend[c] # << >> /\ Len(toSend[c]) = Capacity
    BY <1>1, <1>2 DEF Full
  <2>2. Tail(toSend[c]) \in Seq(Nat) /\ Len(Tail(toSend[c])) = Len(toSend[c]) - 1
    BY <1>1, <2>1
  <2>3. Queued(c) = Append(Tail(toSend[c]), read) /\ DropCount(c) = 1
    BY <1>2 DEF Queued, DropCount
  <2> QED  BY <1>1, <2>1, <2>2, <2>3
<1>3. CASE ~Full(c)
  <2>1. Queued(c) = Append(toSend[c], read) /\ DropCount(c) = 0
    BY <1>3 DEF Queued, DropCount
  <2> QED  BY <1>1, <1>3, <2>1 DEF Full
<1> QED  BY <1>2, <1>3

\* Every step keeps the types, given the bound on the queues.
LEMMA FanTypeStep == FanTypeOK /\ CountTellsGap /\ [FanNext]_fanVars => FanTypeOK'
<1> SUFFICES ASSUME FanTypeOK, CountTellsGap, [FanNext]_fanVars PROVE FanTypeOK'
  OBVIOUS
<1> USE DEF FanTypeOK
<1>1. CASE FrameRead
  BY <1>1 DEF FrameRead, queueVars, pastVars
<1>2. CASE Broadcast
  <2>1. \A c \in Subscribers : Append(events[c], Message("event")) \in Seq(Kinds \X {0})
    BY DEF Message, Kinds
  <2> QED  BY <1>2, <2>1, SMTT(40) DEF Broadcast, pastVars
<1>3. ASSUME NEW c \in Subscribers, PutFrame(c) PROVE FanTypeOK'
  <2>1. Queued(c) \in Seq(Nat)
    BY QueuedLength DEF CountTellsGap
  <2>2. DropCount(c) \in Nat
    BY DEF DropCount
  <2>3. \A f \in [Subscribers -> Nat],
        n \in Nat : [f EXCEPT ![c] = f[c] + n] \in [Subscribers -> Nat]
    OBVIOUS
  <2>4. lost' \in [Subscribers -> Nat] /\ given' \in [Subscribers -> Nat]
    BY <1>3, <2>2, <2>3 DEF PutFrame
  <2>5. toSend' \in [Subscribers -> Seq(Nat)] /\ targets' \subseteq Subscribers
    BY <1>3, <2>1 DEF PutFrame
  <2>6. UNCHANGED << read, subscribed, events, taken, request, asked, told, arrived,
                     discarded, after >>
    BY <1>3 DEF PutFrame
  <2> QED  BY <2>4, <2>5, <2>6
<1>4. ASSUME NEW c \in Subscribers, Handle(c) PROVE FanTypeOK'
  <2>1. CASE Subscribe(c)
    <3>1. Append(events[c], Message("subscribe")) \in Seq(Kinds \X {0})
      BY DEF Message, Kinds
    <3> QED  BY <2>1, <3>1 DEF Subscribe, pastVars, Stages
  <2>2. CASE Unsubscribe(c)
    BY <2>2 DEF Unsubscribe, pastVars, Stages
  <2>3. CASE DiscardFrames(c)
    <3>1. << >> \in Seq(Nat) /\ Len(toSend[c]) \in Nat
      OBVIOUS
    <3>2. toSend' = [toSend EXCEPT ![c] = << >>] /\ "unsubscribed" \in Stages
      BY <2>3 DEF DiscardFrames, Discards, Stages
    <3>3. discarded' = [discarded EXCEPT ![c] = discarded[c] + Len(toSend[c])]
      BY <2>3 DEF DiscardFrames, Discards
    <3>4. discarded[c] + Len(toSend[c]) \in Nat
      BY <3>1
    <3>5. discarded' \in [Subscribers -> Nat] /\ toSend' \in [Subscribers -> Seq(Nat)]
      BY <3>1, <3>2, <3>3, <3>4
    <3>6. request' \in [Subscribers -> Stages]
      BY <2>3, <3>2 DEF DiscardFrames
    <3>7. UNCHANGED << read, targets, subscribed, events, lost, taken, asked, told,
                       arrived, given, after >>
      BY <2>3 DEF DiscardFrames
    <3> QED  BY <3>5, <3>6, <3>7
  <2>4. CASE Reply(c)
    <3>1. Append(events[c], Message(request[c])) \in Seq(Kinds \X {0})
      BY <2>4 DEF Reply, Message, Kinds
    <3> QED  BY <2>4, <3>1 DEF Reply, pastVars, Stages
  <2> QED  BY <1>4, <2>1, <2>2, <2>3, <2>4 DEF Handle
<1>5. ASSUME NEW c \in Subscribers, SenderTakes(c) PROVE FanTypeOK'
  <2>1. CASE FrameNext(c)
    <3>1. toSend[c] \in Seq(Nat) /\ toSend[c] # << >>
      BY <2>1 DEF FrameNext
    <3>2. FrameOf(Head(toSend[c])) \in Items
      BY <3>1 DEF FrameOf, Items
    <3>3. Tail(toSend[c]) \in Seq(Nat)
      BY <3>1
    <3> QED  BY <1>5, <2>1, <3>2, <3>3, ZenonT(60) DEF SenderTakes, pastVars
  <2>2. CASE ~FrameNext(c)
    <3>1. events[c] \in Seq(Kinds \X {0}) /\ events[c] # << >>
      BY <1>5, <2>2 DEF SenderTakes
    <3>2. Head(events[c]) \in Kinds \X {0} /\ Tail(events[c]) \in Seq(Kinds \X {0})
      BY <3>1
    <3>3. Head(events[c]) \in Items
      BY <3>2 DEF Items
    <3> QED  BY <1>5, <2>2, <3>2, <3>3 DEF SenderTakes, pastVars
  <2> QED  BY <2>1, <2>2
<1>6. ASSUME NEW c \in Subscribers, Receive(c) PROVE FanTypeOK'
  <2>0. Nothing \in Items
    BY DEF Items
  <2>1. CASE FrameArrives(c)
    <3>1. arrived[c] + 1 \in Nat
      OBVIOUS
    <3>2. arrived' \in [Subscribers -> Nat]
      BY <2>1, <3>1 DEF FrameArrives
    <3>3. taken' \in [Subscribers -> Items]
      BY <2>0, <2>1 DEF FrameArrives
    <3>4. UNCHANGED << read, targets, subscribed, toSend, events, lost, request,
                       asked, told, given, discarded >>
      BY <2>1 DEF FrameArrives
    <3>5. after' \in [Subscribers -> Nat \cup {-1}]
      BY <2>1 DEF FrameArrives
    <3> QED  BY <3>2, <3>3, <3>4, <3>5
  <2>2. CASE ReplyArrives(c)
    BY <2>0, <2>2 DEF ReplyArrives, Stages, None
  <2> QED  BY <1>6, <2>1, <2>2 DEF Receive
<1>7. ASSUME NEW c \in Subscribers, NEW r \in Requests, Ask(c, r) PROVE FanTypeOK'
  <2>1. asked' \in [Subscribers -> Nat] /\ after' \in [Subscribers -> Nat \cup {-1}]
    BY <1>7, SMTT(40) DEF Ask
  <2>2. request' \in [Subscribers -> Stages]
    BY <1>7 DEF Ask, Stages
  <2> QED  BY <1>7, <2>1, <2>2 DEF Ask, queueVars
<1>8. CASE UNCHANGED fanVars
  BY <1>8 DEF fanVars, queueVars, pastVars
<1> QED  BY <1>1, <1>2, <1>3, <1>4, <1>5, <1>6, <1>7, <1>8 DEF FanNext

\* Nothing is offered at the start.
LEMMA CountInit == FanInit => CountTellsGap
  BY FanOutAssumption DEF FanInit, CountTellsGap, InHand, Nothing, None

\* Every step of the reader, a command or a sender moves a frame from one place
\* of the sum to another, or into the sum and the count together.
LEMMA CountStep == FanTypeOK /\ CountTellsGap /\ [FanNext]_fanVars => CountTellsGap'
<1> SUFFICES ASSUME FanTypeOK, CountTellsGap, [FanNext]_fanVars, NEW d \in Subscribers
             PROVE  /\ given'[d] = arrived'[d] + InHand(d)' + Len(toSend'[d])
                                       + discarded'[d] + lost'[d]
                    /\ Len(toSend'[d]) <= Capacity
  BY DEF CountTellsGap
<1>a. /\ given[d] = arrived[d] + InHand(d) + Len(toSend[d])
                        + discarded[d] + lost[d]
      /\ Len(toSend[d]) <= Capacity
  BY DEF CountTellsGap
<1>b. /\ toSend[d] \in Seq(Nat) /\ Len(toSend[d]) \in Nat
      /\ given[d] \in Nat /\ arrived[d] \in Nat
      /\ discarded[d] \in Nat /\ lost[d] \in Nat
      /\ InHand(d) \in {0, 1} /\ Capacity \in Nat
  BY FanOutAssumption DEF FanTypeOK, InHand
<1>c. ASSUME UNCHANGED << given, arrived, taken, toSend, discarded, lost >>
      PROVE  /\ given'[d] = arrived'[d] + InHand(d)' + Len(toSend'[d])
                                + discarded'[d] + lost'[d]
             /\ Len(toSend'[d]) <= Capacity
  BY <1>a, <1>c DEF InHand
<1>1. CASE FrameRead
  BY <1>1, <1>c DEF FrameRead, queueVars, pastVars
<1>2. CASE Broadcast
  BY <1>2, <1>c DEF Broadcast, pastVars
<1>3. ASSUME NEW c \in Subscribers, PutFrame(c)
      PROVE  /\ given'[d] = arrived'[d] + InHand(d)' + Len(toSend'[d])
                                + discarded'[d] + lost'[d]
             /\ Len(toSend'[d]) <= Capacity
  <2>1. /\ InHand(d)' = InHand(d)
        /\ arrived'[d] = arrived[d] /\ discarded'[d] = discarded[d]
    BY <1>3 DEF PutFrame, InHand
  <2>2. CASE c = d
    <3>1. /\ toSend'[d] = Queued(d) /\ given'[d] = given[d] + 1
          /\ lost'[d] = lost[d] + DropCount(d)
      BY <1>3, <2>2 DEF PutFrame, FanTypeOK
    <3>2. /\ Len(Queued(d)) + DropCount(d) = Len(toSend[d]) + 1
          /\ Len(Queued(d)) <= Capacity /\ Queued(d) \in Seq(Nat)
      BY <1>a, QueuedLength
    <3>3. Len(Queued(d)) \in Nat /\ DropCount(d) \in Nat
      BY <3>2 DEF DropCount
    <3> DEFINE q == Len(Queued(d))
               n == DropCount(d)
               l == Len(toSend[d])
    <3>4. /\ given[d] = arrived[d] + InHand(d) + l + discarded[d] + lost[d]
          /\ q + n = l + 1 /\ q \in Nat /\ n \in Nat /\ l \in Nat
          /\ InHand(d) \in Nat /\ given[d] \in Nat /\ arrived[d] \in Nat
          /\ discarded[d] \in Nat /\ lost[d] \in Nat
      BY <1>a, <1>b, <3>2, <3>3
    <3>5. given[d] + 1 = arrived[d] + InHand(d) + q + discarded[d] + (lost[d] + n)
      <4> HIDE DEF q, n, l
      <4>1. l = q + n - 1
        BY <3>4
      <4>2. given[d] = arrived[d] + InHand(d) + (q + n - 1) + discarded[d] + lost[d]
        BY <3>4, <4>1
      <4> QED  BY <3>4, <4>2
    <3> QED  BY <2>1, <3>1, <3>2, <3>5
  <2>3. CASE c # d
    <3>1. /\ toSend'[d] = toSend[d] /\ given'[d] = given[d]
          /\ lost'[d] = lost[d]
      BY <1>3, <2>3 DEF PutFrame, FanTypeOK
    <3> QED  BY <1>a, <1>b, <2>1, <3>1
  <2> QED  BY <2>2, <2>3
<1>4. ASSUME NEW c \in Subscribers, Handle(c)
      PROVE  /\ given'[d] = arrived'[d] + InHand(d)' + Len(toSend'[d])
                                + discarded'[d] + lost'[d]
             /\ Len(toSend'[d]) <= Capacity
  <2>1. CASE Subscribe(c)
    BY <2>1, <1>c DEF Subscribe, pastVars
  <2>2. CASE Unsubscribe(c)
    BY <2>2, <1>c DEF Unsubscribe, pastVars
  <2>3. CASE DiscardFrames(c)
    <3>1. /\ InHand(d)' = InHand(d)
          /\ given'[d] = given[d] /\ arrived'[d] = arrived[d]
          /\ lost'[d] = lost[d]
      BY <2>3 DEF DiscardFrames, InHand
    <3>2. CASE c = d
      <4>1. /\ toSend'[d] = << >>
            /\ discarded'[d] = discarded[d] + Len(toSend[d])
        BY <2>3, <3>2 DEF DiscardFrames, Discards, FanTypeOK
      <4>2. Len(toSend'[d]) = 0
        BY <4>1
      <4> QED  BY <1>a, <1>b, <3>1, <4>1, <4>2
    <3>3. CASE c # d
      <4>1. toSend'[d] = toSend[d] /\ discarded'[d] = discarded[d]
        BY <2>3, <3>3 DEF DiscardFrames, FanTypeOK
      <4> QED  BY <1>a, <1>b, <3>1, <4>1
    <3> QED  BY <3>2, <3>3
  <2>4. CASE Reply(c)
    BY <2>4, <1>c DEF Reply, pastVars
  <2> QED  BY <1>4, <2>1, <2>2, <2>3, <2>4 DEF Handle
<1>5. ASSUME NEW c \in Subscribers, SenderTakes(c)
      PROVE  /\ given'[d] = arrived'[d] + InHand(d)' + Len(toSend'[d])
                                + discarded'[d] + lost'[d]
             /\ Len(toSend'[d]) <= Capacity
  <2>1. /\ given'[d] = given[d] /\ arrived'[d] = arrived[d]
        /\ discarded'[d] = discarded[d] /\ lost'[d] = lost[d]
    BY <1>5 DEF SenderTakes, pastVars
  <2>2. CASE c # d
    <3>1. toSend'[d] = toSend[d] /\ taken'[d] = taken[d]
      BY <1>5, <2>2 DEF SenderTakes, FanTypeOK
    <3> QED  BY <1>a, <1>b, <2>1, <3>1 DEF InHand
  <2>3. CASE c = d /\ FrameNext(c)
    <3>1. /\ taken[d] = Nothing /\ toSend[d] # << >>
          /\ taken'[d] = FrameOf(Head(toSend[d])) /\ toSend'[d] = Tail(toSend[d])
      BY <1>5, <2>3 DEF SenderTakes, FrameNext, FanTypeOK
    <3>2. InHand(d) = 0 /\ InHand(d)' = 1
      BY <3>1 DEF InHand, Nothing, None, FrameOf
    <3>3. Len(toSend'[d]) = Len(toSend[d]) - 1
      BY <1>b, <3>1
    <3>4. given[d] = arrived[d] + Len(toSend[d]) + discarded[d] + lost[d]
      BY <1>a, <1>b, <3>2
    <3>5. /\ given'[d] = arrived'[d] + Len(toSend[d]) + discarded'[d] + lost'[d]
          /\ Len(toSend'[d]) <= Capacity
      BY <1>a, <1>b, <2>1, <3>3, <3>4
    <3>6. Len(toSend[d]) = InHand(d)' + Len(toSend'[d])
      BY <1>b, <3>2, <3>3
    <3>7. /\ arrived'[d] \in Nat /\ Len(toSend'[d]) \in Int /\ InHand(d)' \in Nat
          /\ discarded'[d] \in Nat /\ lost'[d] \in Nat
      BY <1>b, <2>1, <3>2, <3>3
    <3> QED  BY <3>5, <3>6, <3>7
  <2>4. CASE c = d /\ ~FrameNext(c)
    <3>1. /\ taken[d] = Nothing /\ events[d] # << >>
          /\ taken'[d] = Head(events[d]) /\ toSend'[d] = toSend[d]
      BY <1>5, <2>4 DEF SenderTakes, FanTypeOK
    <3>2. Head(events[d]) \in Kinds \X {0}
      BY <3>1, SMTT(40) DEF FanTypeOK
    <3>3. taken'[d][1] # "frame"
      BY <3>1, <3>2 DEF Kinds
    <3>4. InHand(d) = 0 /\ InHand(d)' = 0
      BY <3>1, <3>3 DEF InHand, Nothing, None
    <3> QED  BY <1>a, <1>b, <2>1, <3>1, <3>4
  <2> QED  BY <2>2, <2>3, <2>4
<1>6. ASSUME NEW c \in Subscribers, Receive(c)
      PROVE  /\ given'[d] = arrived'[d] + InHand(d)' + Len(toSend'[d])
                                + discarded'[d] + lost'[d]
             /\ Len(toSend'[d]) <= Capacity
  <2>1. /\ given'[d] = given[d] /\ toSend'[d] = toSend[d]
        /\ discarded'[d] = discarded[d] /\ lost'[d] = lost[d]
    BY <1>6 DEF Receive, FrameArrives, ReplyArrives
  <2>2. CASE c # d
    <3>1. arrived'[d] = arrived[d] /\ taken'[d] = taken[d]
      BY <1>6, <2>2 DEF Receive, FrameArrives, ReplyArrives, FanTypeOK
    <3> QED  BY <1>a, <1>b, <2>1, <3>1 DEF InHand
  <2>3. CASE c = d /\ FrameArrives(c)
    <3>1. /\ taken[d][1] = "frame" /\ taken'[d] = Nothing
          /\ arrived'[d] = arrived[d] + 1
      BY <2>3 DEF FrameArrives, FanTypeOK
    <3>2. InHand(d) = 1 /\ InHand(d)' = 0
      BY <3>1 DEF InHand, Nothing, None
    <3> QED  BY <1>a, <1>b, <2>1, <3>1, <3>2
  <2>4. CASE c = d /\ ReplyArrives(c)
    <3>1. /\ taken[d][1] # "frame" /\ taken'[d] = Nothing
          /\ arrived'[d] = arrived[d]
      BY <2>4 DEF ReplyArrives, FanTypeOK
    <3>2. InHand(d) = 0 /\ InHand(d)' = 0
      BY <3>1 DEF InHand, Nothing, None
    <3> QED  BY <1>a, <1>b, <2>1, <3>1, <3>2
  <2> QED  BY <1>6, <2>2, <2>3, <2>4 DEF Receive
<1>7. ASSUME NEW c \in Subscribers, NEW r \in Requests, Ask(c, r)
      PROVE  /\ given'[d] = arrived'[d] + InHand(d)' + Len(toSend'[d])
                                + discarded'[d] + lost'[d]
             /\ Len(toSend'[d]) <= Capacity
  BY <1>7, <1>c DEF Ask, queueVars
<1>8. CASE UNCHANGED fanVars
  BY <1>8, <1>c DEF fanVars, queueVars, pastVars
<1> QED  BY <1>1, <1>2, <1>3, <1>4, <1>5, <1>6, <1>7, <1>8 DEF FanNext

\* The drop count a client reads in `status` is exact, however many clients
\* there are, however long their queues, and however the reader, the senders and
\* the unsubscribing sessions interleave.
THEOREM DropCountExact == FanSpec => []CountTellsGap
<1>1. FanInit => FanTypeOK /\ CountTellsGap
  BY FanTypeInit, CountInit
<1>2. FanTypeOK /\ CountTellsGap /\ [FanNext]_fanVars => FanTypeOK' /\ CountTellsGap'
  BY FanTypeStep, CountStep
<1> QED  BY <1>1, <1>2, PTL DEF FanSpec

----------------------------------------------------------------------------
(* What can still reach a client that unsubscribes. *)

IsReply(m) == m[1] \in Kinds \ {"event"}

\* A client has one request outstanding (client.py: call), so at most one reply
\* is on its way to it, and none unless the request has been answered.
OneReply(c) ==
  /\ request[c] # "replying" =>
       /\ ~IsReply(taken[c])
       /\ \A i \in 1 .. Len(events[c]) : ~IsReply(events[c][i])
  /\ IsReply(taken[c]) => \A i \in 1 .. Len(events[c]) : ~IsReply(events[c][i])
  /\ \A i, j \in 1 .. Len(events[c]) :
       IsReply(events[c][i]) /\ IsReply(events[c][j]) => i = j

\* The reply to an unsubscribe is about to be queued, is queued, or is with the
\* sender.
Leaving(c) ==
  \/ request[c] = "unsubscribed" \/ taken[c][1] = "unsubscribed"
  \/ \E i \in 1 .. Len(events[c]) : events[c][i][1] = "unsubscribed"

\* Frames queued for the client, with the one the reader still has to queue.
Owed(c)   == IF c \in targets THEN 1 ELSE 0
ToCome(c) == Len(toSend[c]) + Owed(c)

\* From the moment the queue has been emptied the client is owed one frame at
\* most, the reader's last list having been taken before it unsubscribed.
OwedOneAtMost(c) ==
  /\ request[c] = "discarding" => ~subscribed[c]
  /\ Leaving(c) => ~subscribed[c] /\ ToCome(c) <= 1
  /\ after[c] # -1 => /\ ~subscribed[c] /\ request[c] # "subscribe"
                      /\ after[c] + InHand(c) + ToCome(c) <= 1

UnsubscribeInv == \A c \in Subscribers : OneReply(c) /\ OwedOneAtMost(c)

\* Nothing is on its way at the start.
LEMMA UnsubscribeInit == FanInit => UnsubscribeInv
<1> SUFFICES ASSUME FanInit, NEW c \in Subscribers PROVE OneReply(c) /\ OwedOneAtMost(c)
  BY DEF UnsubscribeInv
<1>1. /\ request[c] = "none" /\ taken[c] = << "none", 0 >> /\ events[c] = << >>
      /\ after[c] = -1
  BY DEF FanInit, Nothing, None
<1> QED  BY <1>1 DEF OneReply, OwedOneAtMost, Leaving, IsReply, Kinds

\* Every step keeps the reply alone and the client's due to one frame.
LEMMA UnsubscribeStep ==
  FanTypeOK /\ CountTellsGap /\ UnsubscribeInv /\ [FanNext]_fanVars => UnsubscribeInv'
<1> SUFFICES ASSUME FanTypeOK, CountTellsGap, UnsubscribeInv, [FanNext]_fanVars,
                    NEW d \in Subscribers
             PROVE  OneReply(d)' /\ OwedOneAtMost(d)'
  BY DEF UnsubscribeInv
<1>a. OneReply(d) /\ OwedOneAtMost(d)
  BY DEF UnsubscribeInv
<1>b. /\ toSend[d] \in Seq(Nat) /\ Len(toSend[d]) \in Nat
      /\ events[d] \in Seq(Kinds \X {0}) /\ Len(events[d]) \in Nat
      /\ taken[d] \in Items
      /\ request[d] \in Stages /\ subscribed[d] \in BOOLEAN
      /\ Owed(d) \in {0, 1} /\ ToCome(d) \in Nat /\ InHand(d) \in {0, 1}
      /\ after[d] \in Nat \cup {-1}
  BY DEF FanTypeOK, Owed, ToCome, InHand
<1>c. ASSUME taken'[d] = taken[d], events'[d] = events[d], request'[d] = request[d]
      PROVE  OneReply(d)' /\ (Leaving(d)' <=> Leaving(d))
  BY <1>a, <1>c DEF OneReply, IsReply, Leaving
<1>d. ASSUME taken'[d] = taken[d], events'[d] = events[d], request'[d] = request[d],
             subscribed'[d] = subscribed[d], after'[d] = after[d],
             toSend'[d] = toSend[d], Owed(d)' = Owed(d)
      PROVE  OneReply(d)' /\ OwedOneAtMost(d)'
  BY <1>a, <1>c, <1>d DEF OwedOneAtMost, ToCome, InHand
<1>1. CASE FrameRead
  <2>1. /\ UNCHANGED << subscribed, toSend, events, taken, request, after >>
        /\ targets = {} /\ targets' = {c \in Subscribers : subscribed[c]}
    BY <1>1 DEF FrameRead, queueVars, pastVars
  <2>2. CASE subscribed[d]
    <3>1. ~Leaving(d) /\ request[d] # "discarding" /\ after[d] = -1
      BY <1>a, <2>2 DEF OwedOneAtMost
    <3> QED  BY <1>a, <1>c, <2>1, <3>1 DEF OwedOneAtMost
  <2>3. CASE ~subscribed[d]
    <3>1. Owed(d)' = Owed(d)
      BY <2>1, <2>3 DEF Owed
    <3> QED  BY <1>d, <2>1, <3>1
  <2> QED  BY <2>2, <2>3
<1>2. CASE Broadcast
  <2>1. /\ events'[d] = Append(events[d], << "event", 0 >>)
        /\ UNCHANGED << targets, subscribed, toSend, taken, request, after >>
    BY <1>2 DEF Broadcast, Message, pastVars
  <2>2. /\ Len(events'[d]) = Len(events[d]) + 1
        /\ \A i \in 1 .. Len(events[d]) : events'[d][i] = events[d][i]
        /\ events'[d][Len(events[d]) + 1] = << "event", 0 >>
    BY <1>b, <2>1
  <2>3. \A i \in 1 .. Len(events'[d]) :
           i = Len(events[d]) + 1 \/ i \in 1 .. Len(events[d])
    BY <1>b, <2>2
  <2>4. \A i \in 1 .. Len(events'[d]) : IsReply(events'[d][i]) =>
           i \in 1 .. Len(events[d]) /\ events'[d][i] = events[d][i]
    BY <2>2, <2>3 DEF IsReply
  <2>5. OneReply(d)'
    BY <1>a, <2>1, <2>4 DEF OneReply, IsReply
  <2>6. Leaving(d)' => Leaving(d)
    BY <2>1, <2>2, <2>3 DEF Leaving
  <2>7. ToCome(d)' = ToCome(d) /\ InHand(d)' = InHand(d)
    BY <2>1 DEF ToCome, Owed, InHand
  <2> QED  BY <1>a, <2>1, <2>5, <2>6, <2>7 DEF OwedOneAtMost
<1>3. ASSUME NEW c \in Subscribers, PutFrame(c) PROVE OneReply(d)' /\ OwedOneAtMost(d)'
  <2>1. UNCHANGED << subscribed, events, taken, request, after >>
    BY <1>3 DEF PutFrame
  <2>2. CASE c = d
    <3>1. toSend'[d] = Queued(d) /\ Owed(d) = 1 /\ Owed(d)' = 0
      BY <1>3, <2>2 DEF PutFrame, FanTypeOK, Owed
    <3>2. Queued(d) \in Seq(Nat) /\ Len(Queued(d)) + DropCount(d) = Len(toSend[d]) + 1
      BY QueuedLength DEF CountTellsGap
    <3>3. DropCount(d) \in Nat /\ Len(Queued(d)) \in Nat
      BY <3>2 DEF DropCount
    <3>4. Len(toSend'[d]) \in Nat /\ Len(toSend'[d]) <= Len(toSend[d]) + 1
      BY <1>b, <3>1, <3>2, <3>3
    <3>5. ToCome(d)' <= ToCome(d) /\ ToCome(d)' \in Nat
      BY <1>b, <3>1, <3>4 DEF ToCome
    <3>6. InHand(d)' = InHand(d)
      BY <2>1 DEF InHand
    <3> QED  BY <1>a, <1>b, <1>c, <2>1, <3>5, <3>6 DEF OwedOneAtMost
  <2>3. CASE c # d
    <3>1. toSend'[d] = toSend[d] /\ Owed(d)' = Owed(d)
      BY <1>3, <2>3 DEF PutFrame, FanTypeOK, Owed
    <3> QED  BY <1>d, <2>1, <3>1
  <2> QED  BY <2>2, <2>3
<1>4. ASSUME NEW c \in Subscribers, c # d,
             Handle(c) \/ SenderTakes(c) \/ Receive(c)
               \/ \E r \in Requests : Ask(c, r)
      PROVE  OneReply(d)' /\ OwedOneAtMost(d)'
  <2>1. /\ taken'[d] = taken[d] /\ events'[d] = events[d] /\ request'[d] = request[d]
        /\ subscribed'[d] = subscribed[d] /\ after'[d] = after[d]
        /\ toSend'[d] = toSend[d] /\ targets' = targets
    <3>1. CASE Handle(c)
      BY <1>4, <3>1 DEF Handle, Subscribe, Unsubscribe, DiscardFrames, Reply,
                        queueVars, pastVars, FanTypeOK
    <3>2. CASE SenderTakes(c)
      BY <1>4, <3>2 DEF SenderTakes, queueVars, pastVars, FanTypeOK
    <3>3. CASE Receive(c)
      BY <1>4, <3>3 DEF Receive, FrameArrives, ReplyArrives, queueVars, pastVars,
                        FanTypeOK
    <3>4. CASE \E r \in Requests : Ask(c, r)
      BY <1>4, <3>4 DEF Ask, queueVars, pastVars, FanTypeOK
    <3> QED  BY <1>4, <3>1, <3>2, <3>3, <3>4
  <2> QED  BY <1>d, <2>1 DEF Owed
<1>5. ASSUME NEW r \in Requests, Ask(d, r) PROVE OneReply(d)' /\ OwedOneAtMost(d)'
  <2>1. /\ request[d] = "none" /\ request'[d] = r
        /\ r \in {"subscribe", "unsubscribe", "status"}
        /\ UNCHANGED << targets, subscribed, toSend, events, taken >>
    BY <1>5 DEF Ask, None, queueVars, FanTypeOK, Requests
  <2>2. after'[d] = IF r = "subscribe" THEN -1 ELSE after[d]
    <3> USE DEF Ask
    <3>1. after' = [after EXCEPT ![d] = IF r = "subscribe" THEN -1 ELSE @]
      BY <1>5
    <3>2. DOMAIN after = Subscribers
      BY DEF FanTypeOK
    <3> QED  BY <3>1, <3>2
  <2>3. OneReply(d)' /\ ~Leaving(d)'
    BY <1>a, <2>1 DEF OneReply, IsReply, Leaving, Kinds
  <2>4. ToCome(d)' = ToCome(d) /\ InHand(d)' = InHand(d)
    BY <2>1 DEF ToCome, Owed, InHand
  <2> QED  BY <1>a, <2>1, <2>2, <2>3, <2>4 DEF OwedOneAtMost
<1>6. CASE Subscribe(d)
  <2>1. /\ request[d] = "subscribe" /\ request'[d] = "replying"
        /\ events'[d] = Append(events[d], << "subscribe", 0 >>)
        /\ UNCHANGED << targets, toSend, taken, after >>
    BY <1>6 DEF Subscribe, Message, pastVars, FanTypeOK
  <2>2. OneReply(d)' /\ ~Leaving(d)'
    <3>1. ~IsReply(taken[d]) /\ \A i \in 1 .. Len(events[d]) : ~IsReply(events[d][i])
      BY <1>a, <2>1 DEF OneReply
    <3>2. \A i \in 1 .. Len(events'[d]) :
            IF i = Len(events[d]) + 1 THEN events'[d][i] = << "subscribe", 0 >>
                                      ELSE ~IsReply(events'[d][i])
      BY <1>b, <2>1, <3>1
    <3>3. OneReply(d)'
      BY <2>1, <3>1, <3>2 DEF OneReply, IsReply
    <3> QED  BY <2>1, <3>1, <3>2, <3>3 DEF Leaving, IsReply, Kinds
  <2>3. after'[d] = -1
    BY <1>a, <2>1 DEF OwedOneAtMost
  <2> QED  BY <2>1, <2>2, <2>3 DEF OwedOneAtMost
<1>7. CASE Unsubscribe(d)
  <2>1. /\ request[d] = "unsubscribe" /\ request'[d] = "discarding"
        /\ subscribed'[d] = FALSE
        /\ UNCHANGED << targets, toSend, events, taken, after >>
    BY <1>7 DEF Unsubscribe, pastVars, FanTypeOK
  <2>2. OneReply(d)' /\ ~Leaving(d)'
    BY <1>a, <2>1 DEF OneReply, IsReply, Leaving, Kinds
  <2>3. ToCome(d)' = ToCome(d) /\ InHand(d)' = InHand(d)
    BY <2>1 DEF ToCome, Owed, InHand
  <2> QED  BY <1>a, <2>1, <2>2, <2>3 DEF OwedOneAtMost
<1>8. CASE DiscardFrames(d)
  <2>1. /\ request[d] = "discarding" /\ request'[d] = "unsubscribed"
        /\ toSend'[d] = << >>
        /\ UNCHANGED << targets, subscribed, events, taken, after >>
    BY <1>8 DEF DiscardFrames, Discards, FanTypeOK
  <2>2. OneReply(d)'
    BY <1>a, <2>1 DEF OneReply, IsReply
  <2>3. InHand(d)' = InHand(d) /\ Owed(d)' = Owed(d) /\ ToCome(d)' = Owed(d)
    BY <1>b, <2>1 DEF ToCome, Owed, InHand
  <2>4. ToCome(d)' <= 1 /\ ToCome(d)' <= ToCome(d) /\ ToCome(d)' \in Nat
    BY <1>b, <2>3 DEF ToCome
  <2>5. ~subscribed'[d]
    BY <1>a, <2>1 DEF OwedOneAtMost
  <2> QED  BY <1>a, <1>b, <2>1, <2>2, <2>3, <2>4, <2>5 DEF OwedOneAtMost
<1>9. CASE Reply(d)
  <2>1. /\ request[d] \in {"unsubscribed", "status"} /\ request'[d] = "replying"
        /\ events'[d] = Append(events[d], << request[d], 0 >>)
        /\ UNCHANGED << targets, subscribed, toSend, taken, after >>
    BY <1>9 DEF Reply, Message, pastVars, FanTypeOK
  <2>2. ~IsReply(taken[d]) /\ \A i \in 1 .. Len(events[d]) : ~IsReply(events[d][i])
    BY <1>a, <2>1 DEF OneReply
  <2>3. \A i \in 1 .. Len(events'[d]) :
          IF i = Len(events[d]) + 1 THEN events'[d][i] = << request[d], 0 >>
                                    ELSE ~IsReply(events'[d][i])
    <3> DEFINE m == << request[d], 0 >>
    <3>1. m \in Kinds \X {0} /\ events'[d] = Append(events[d], m)
      BY <2>1 DEF Kinds
    <3> HIDE DEF m
    <3>2. /\ Len(events'[d]) = Len(events[d]) + 1
          /\ events'[d][Len(events[d]) + 1] = m
          /\ \A i \in 1 .. Len(events[d]) : events'[d][i] = events[d][i]
      BY <1>b, <3>1
    <3>3. \A i \in 1 .. Len(events[d]) : ~IsReply(events'[d][i])
      BY <2>2, <3>2
    <3> QED  BY <1>b, <3>2, <3>3 DEF m
  <2>4. OneReply(d)'
    BY <2>1, <2>2, <2>3 DEF OneReply, IsReply
  <2>5. Leaving(d)' => request[d] = "unsubscribed"
    BY <2>1, <2>2, <2>3 DEF Leaving, IsReply, Kinds
  <2>6. ToCome(d)' = ToCome(d) /\ InHand(d)' = InHand(d)
    BY <2>1 DEF ToCome, Owed, InHand
  <2> QED  BY <1>a, <2>1, <2>4, <2>5, <2>6 DEF OwedOneAtMost, Leaving
<1>10. CASE SenderTakes(d)
  <2>1. /\ taken[d] = << "none", 0 >>
        /\ UNCHANGED << targets, subscribed, request, after >>
    BY <1>10 DEF SenderTakes, Nothing, None, pastVars
  <2>2. InHand(d) = 0 /\ Owed(d)' = Owed(d) /\ ~IsReply(taken[d])
    BY <2>1 DEF InHand, Owed, IsReply, Kinds
  <2>3. CASE FrameNext(d)
    <3>1. /\ toSend[d] # << >> /\ events'[d] = events[d]
          /\ taken'[d] = << "frame", Head(toSend[d]) >> /\ toSend'[d] = Tail(toSend[d])
      BY <1>10, <2>3 DEF SenderTakes, FrameNext, FrameOf, FanTypeOK
    <3>2. Len(toSend'[d]) = Len(toSend[d]) - 1 /\ Len(toSend'[d]) \in Nat
      BY <1>b, <3>1
    <3>3. ToCome(d)' = ToCome(d) - 1 /\ InHand(d)' = 1
      BY <1>b, <2>2, <3>1, <3>2 DEF ToCome, InHand
    <3>4. ~IsReply(taken'[d])
      BY <3>1 DEF IsReply, Kinds
    <3>5. OneReply(d)'
      BY <1>a, <2>1, <3>1, <3>4 DEF OneReply, IsReply
    <3>6. Leaving(d)' => Leaving(d)
      BY <2>1, <3>1 DEF Leaving
    <3> QED  BY <1>a, <1>b, <2>1, <2>2, <3>3, <3>5, <3>6 DEF OwedOneAtMost
  <2>4. CASE ~FrameNext(d)
    <3>1. /\ events[d] # << >> /\ toSend'[d] = toSend[d]
          /\ taken'[d] = Head(events[d]) /\ events'[d] = Tail(events[d])
      BY <1>10, <2>4 DEF SenderTakes, FanTypeOK
    <3>2. /\ 1 \in 1 .. Len(events[d]) /\ taken'[d] = events[d][1]
          /\ Len(events'[d]) = Len(events[d]) - 1
          /\ \A i \in 1 .. Len(events'[d]) :
               i + 1 \in 1 .. Len(events[d]) /\ events'[d][i] = events[d][i + 1]
      BY <1>b, <3>1
    <3>3. OneReply(d)'
      <4>1. request'[d] # "replying" =>
              /\ ~IsReply(taken'[d])
              /\ \A i \in 1 .. Len(events'[d]) : ~IsReply(events'[d][i])
        BY <1>a, <2>1, <3>2 DEF OneReply
      <4>2. IsReply(taken'[d]) => \A i \in 1 .. Len(events'[d]) : ~IsReply(events'[d][i])
        <5> SUFFICES ASSUME IsReply(taken'[d]), NEW i \in 1 .. Len(events'[d]),
                            IsReply(events'[d][i])
                     PROVE  FALSE
          OBVIOUS
        <5>1. IsReply(events[d][1]) /\ IsReply(events[d][i + 1]) /\ 1 # i + 1
          BY <3>2
        <5> QED  BY <1>a, <3>2, <5>1 DEF OneReply
      <4>3. ASSUME NEW i \in 1 .. Len(events'[d]), NEW j \in 1 .. Len(events'[d]),
                   IsReply(events'[d][i]), IsReply(events'[d][j])
            PROVE  i = j
        <5>1. i + 1 = j + 1
          BY <1>a, <3>2, <4>3 DEF OneReply
        <5> QED  BY <5>1
      <4> QED  BY <4>1, <4>2, <4>3 DEF OneReply, IsReply
    <3>4. Leaving(d)' => Leaving(d)
      BY <2>1, <3>2 DEF Leaving
    <3>5. InHand(d)' = 0 /\ ToCome(d)' = ToCome(d)
      <4>1. taken'[d] \in Kinds \X {0}
        BY <1>b, <3>2
      <4>2. taken'[d][1] # "frame"
        BY <4>1 DEF Kinds
      <4> QED  BY <2>2, <3>1, <4>2 DEF InHand, ToCome
    <3> QED  BY <1>a, <2>1, <2>2, <3>3, <3>4, <3>5 DEF OwedOneAtMost
  <2> QED  BY <2>3, <2>4
<1>11. CASE FrameArrives(d)
  <2>1. /\ taken[d][1] = "frame" /\ taken'[d] = << "none", 0 >>
        /\ after'[d] = IF after[d] < 0 THEN after[d] ELSE after[d] + 1
        /\ UNCHANGED << targets, subscribed, toSend, events, request >>
    BY <1>11 DEF FrameArrives, Nothing, None, FanTypeOK
  <2>2. InHand(d) = 1 /\ InHand(d)' = 0 /\ ToCome(d)' = ToCome(d)
    BY <2>1 DEF InHand, ToCome, Owed
  <2>3. OneReply(d)'
    BY <1>a, <2>1 DEF OneReply, IsReply, Kinds
  <2>4. Leaving(d)' => Leaving(d)
    BY <2>1 DEF Leaving
  <2> QED  BY <1>a, <1>b, <2>1, <2>2, <2>3, <2>4 DEF OwedOneAtMost
<1>12. CASE ReplyArrives(d)
  <2>1. /\ taken[d][1] # "frame" /\ taken[d] # << "none", 0 >> /\ taken'[d] = << "none", 0 >>
        /\ request'[d] = IF taken[d][1] = "event" THEN request[d] ELSE "none"
        /\ after'[d] = IF taken[d][1] = "unsubscribed" THEN 0 ELSE after[d]
        /\ UNCHANGED << targets, subscribed, toSend, events >>
    BY <1>12 DEF ReplyArrives, Nothing, None, FanTypeOK
  <2>2. InHand(d) = 0 /\ InHand(d)' = 0 /\ ToCome(d)' = ToCome(d)
    BY <2>1 DEF InHand, ToCome, Owed
  <2>3. CASE taken[d][1] = "event"
    <3>1. OneReply(d)' /\ (Leaving(d)' => Leaving(d))
      BY <1>a, <2>1, <2>3 DEF OneReply, Leaving, IsReply, Kinds
    <3> QED  BY <1>a, <2>1, <2>2, <2>3, <3>1 DEF OwedOneAtMost
  <2>4. CASE IsReply(taken[d])
    <3>1. \A i \in 1 .. Len(events[d]) : ~IsReply(events[d][i])
      BY <1>a, <2>4 DEF OneReply
    <3>2. OneReply(d)' /\ ~Leaving(d)' /\ request'[d] = "none"
      BY <2>1, <2>4, <3>1 DEF OneReply, Leaving, IsReply, Kinds
    <3>3. taken[d][1] = "unsubscribed" => ~subscribed[d] /\ ToCome(d) <= 1
      BY <1>a DEF OwedOneAtMost, Leaving
    <3> QED  BY <1>a, <1>b, <2>1, <2>2, <3>2, <3>3 DEF OwedOneAtMost
  <2>5. taken[d] \in Kinds \X {0}
    BY <1>b, <2>1 DEF Items, Nothing, None
  <2> QED  BY <2>3, <2>4, <2>5 DEF IsReply, Kinds
<1>13. CASE UNCHANGED fanVars
  BY <1>13, <1>d DEF fanVars, queueVars, pastVars, Owed
<1> QED
  BY <1>1, <1>2, <1>3, <1>4, <1>5, <1>6, <1>7, <1>8, <1>9, <1>10, <1>11, <1>12,
     <1>13 DEF FanNext, Handle, Receive

\* After the reply to an unsubscribe a client receives one more frame at most,
\* however many clients and requests there are, wherever the reader, the sender
\* and the session's command thread were when it unsubscribed.
THEOREM UnsubscribeIsQuiet == FanSpec => []AtMostOneAfter
<1>1. FanInit => FanTypeOK /\ CountTellsGap /\ UnsubscribeInv
  BY FanTypeInit, CountInit, UnsubscribeInit
<1>2. FanTypeOK /\ CountTellsGap /\ UnsubscribeInv /\ [FanNext]_fanVars
        => FanTypeOK' /\ CountTellsGap' /\ UnsubscribeInv'
  BY FanTypeStep, CountStep, UnsubscribeStep
<1>3. FanTypeOK /\ UnsubscribeInv => AtMostOneAfter
  <2> SUFFICES ASSUME FanTypeOK, UnsubscribeInv, NEW c \in Subscribers PROVE after[c] <= 1
    BY DEF AtMostOneAfter
  <2>1. OwedOneAtMost(c) /\ after[c] \in Nat \cup {-1} /\ toSend[c] \in Seq(Nat)
    BY DEF UnsubscribeInv, FanTypeOK
  <2>2. InHand(c) \in Nat /\ Owed(c) \in Nat /\ Len(toSend[c]) \in Nat
    BY <2>1 DEF InHand, Owed
  <2>3. ToCome(c) \in Nat
    BY <2>2 DEF ToCome
  <2> QED  BY <2>1, <2>2, <2>3 DEF OwedOneAtMost
<1> QED  BY <1>1, <1>2, <1>3, PTL DEF FanSpec
=============================================================================
