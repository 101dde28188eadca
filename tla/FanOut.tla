-------------------------------- MODULE FanOut --------------------------------
(***************************************************************************)
(* How the daemon hands frames and replies to its clients: the reader's    *)
(* loop over the subscribed sessions, and each _Session's two queues, its  *)
(* sender thread and its command thread (host/daemon/server.py), with the  *)
(* receiving side of host/daemon/client.py.                                *)
(*                                                                         *)
(* The reader takes the list of subscribed sessions under the server's     *)
(* lock and queues the frame afterwards, under each session's own lock, so *)
(* a session may unsubscribe in between.  A session's sender takes one     *)
(* item out of the queues and may then be held up in the socket for any    *)
(* time; a client that does not read holds it up for ever.                 *)
(***************************************************************************)
EXTENDS Integers, Sequences, FiniteSets

CONSTANTS
  Subscribers,   \* connected clients
  Capacity,      \* client_queue_frames
  MaxDelivered,  \* bound: frames the device delivers
  MaxRequests,   \* bound: requests of each client
  MaxEvents      \* bound: events broadcast

ASSUME FanOutAssumption ==
  /\ Capacity \in Nat \ {0}
  /\ {MaxDelivered, MaxRequests, MaxEvents} \subseteq Nat

Requests == {"subscribe", "unsubscribe", "status"}
None     == "none"
Stages   == Requests \cup {None, "discarding", "unsubscribed", "replying"}
Kinds    == {"subscribe", "unsubscribed", "status", "event"}

VARIABLES
  \* Server._read_loop
  read,        \* the number of the last frame the splitter gave
  targets,     \* the sessions it still has to be queued for
  \* _Session
  subscribed, toSend, events, lost,
  taken,       \* what the sender took and has not sent yet
  \* commands
  request,     \* the request on its way to the session, or none
  asked, told, \* requests made, events broadcast so far
  \* the client
  arrived,     \* the frames it received
  \* what happened, for the properties
  given,       \* frames the reader queued for the client
  discarded,   \* frames thrown away with a subscription
  after        \* frames received since the reply to an unsubscribe, or -1

queueVars == << subscribed, toSend, events, lost, taken >>
pastVars == << given, discarded, after >>
fanVars == << read, targets, queueVars, request, asked, told, arrived, pastVars >>

Message(r)  == << r, 0 >>
FrameOf(n)  == << "frame", n >>
Nothing     == << None, 0 >>

----------------------------------------------------------------------------
(* The reader *)

FrameRead ==
  /\ targets = {} /\ read < MaxDelivered
  /\ read' = read + 1
  /\ targets' = {c \in Subscribers : subscribed[c]}
  /\ UNCHANGED << queueVars, request, asked, told, arrived, pastVars >>

\* put_frame: the oldest goes when the queue is full, and is counted.
Full(c) == Len(toSend[c]) >= Capacity
Fault_DropCount(c) == 0
DropCount(c) == IF Full(c) THEN 1 ELSE 0
Queued(c)    == Append(IF Full(c) THEN Tail(toSend[c]) ELSE toSend[c], read)

PutFrame(c) ==
  /\ c \in targets /\ targets' = targets \ {c}
  /\ given' = [given EXCEPT ![c] = @ + 1]
  /\ toSend' = [toSend EXCEPT ![c] = Queued(c)]
  /\ lost' = [lost EXCEPT ![c] = @ + DropCount(c)]
  /\ UNCHANGED << read, subscribed, events, taken, request, asked, told, arrived,
                  discarded, after >>

----------------------------------------------------------------------------
(* The session's command thread *)

\* Client.call: one request at a time.
Ask(c, r) ==
  /\ request[c] = None /\ asked[c] < MaxRequests
  /\ request' = [request EXCEPT ![c] = r]
  /\ asked' = [asked EXCEPT ![c] = @ + 1]
  /\ after' = [after EXCEPT ![c] = IF r = "subscribe" THEN -1 ELSE @]
  /\ UNCHANGED << read, targets, queueVars, told, arrived, given,
                  discarded >>

Fault_Discards(c, r) == FALSE
Discards(c, r) == r = "unsubscribe"

\* _op_subscribe sets the flag first, and then empties the queue.
Subscribe(c) ==
  /\ request[c] = "subscribe"
  /\ subscribed' = [subscribed EXCEPT ![c] = TRUE]
  /\ request' = [request EXCEPT ![c] = "replying"]
  /\ events' = [events EXCEPT ![c] = Append(@, Message("subscribe"))]
  /\ UNCHANGED << read, targets, toSend, lost, taken, asked, told, arrived,
                  pastVars >>

Unsubscribe(c) ==
  /\ request[c] = "unsubscribe"
  /\ subscribed' = [subscribed EXCEPT ![c] = FALSE]
  /\ request' = [request EXCEPT ![c] = "discarding"]
  /\ UNCHANGED << read, targets, toSend, events, lost, taken, asked, told,
                  arrived, pastVars >>

DiscardFrames(c) ==
  /\ request[c] = "discarding"
  /\ IF Discards(c, "unsubscribe")
     THEN /\ toSend' = [toSend EXCEPT ![c] = << >>]
          /\ discarded' = [discarded EXCEPT ![c] = @ + Len(toSend[c])]
     ELSE UNCHANGED << toSend, discarded >>
  /\ request' = [request EXCEPT ![c] = "unsubscribed"]
  /\ UNCHANGED << read, targets, subscribed, events, lost, taken, asked, told,
                  arrived, given, after >>

\* Anything else leaves the queues of frames alone.
Reply(c) ==
  /\ request[c] \in {"unsubscribed", "status"}
  /\ request' = [request EXCEPT ![c] = "replying"]
  /\ events' = [events EXCEPT ![c] = Append(@, Message(request[c]))]
  /\ UNCHANGED << read, targets, subscribed, toSend, lost, taken, asked, told,
                  arrived, pastVars >>

\* broadcast_event: a beat, a start or a stop goes to every session.
Broadcast ==
  /\ told < MaxEvents /\ told' = told + 1
  /\ events' = [c \in Subscribers |-> Append(events[c], Message("event"))]
  /\ UNCHANGED << read, targets, subscribed, toSend, lost, taken, request,
                  asked, arrived, pastVars >>

----------------------------------------------------------------------------
(* The session's sender thread *)

\* Events first, then frames.
FrameNext(c) == events[c] = << >> /\ toSend[c] # << >>

SenderTakes(c) ==
  /\ taken[c] = Nothing
  /\ IF FrameNext(c)
     THEN /\ taken' = [taken EXCEPT ![c] = FrameOf(Head(toSend[c]))]
          /\ toSend' = [toSend EXCEPT ![c] = Tail(@)]
          /\ UNCHANGED events
     ELSE /\ events[c] # << >>
          /\ taken' = [taken EXCEPT ![c] = Head(events[c])]
          /\ events' = [events EXCEPT ![c] = Tail(@)]
          /\ UNCHANGED toSend
  /\ UNCHANGED << read, targets, subscribed, lost, request, asked, told,
                  arrived, pastVars >>

\* The socket takes what the sender holds and the client reads it: frames and
\* events are kept, and a reply ends the call.
FrameArrives(c) ==
  /\ taken[c] # Nothing /\ taken[c][1] = "frame"
  /\ taken' = [taken EXCEPT ![c] = Nothing]
  /\ arrived' = [arrived EXCEPT ![c] = @ + 1]
  /\ after' = [after EXCEPT ![c] = IF @ < 0 THEN @ ELSE @ + 1]
  /\ UNCHANGED << read, targets, subscribed, toSend, events, lost, request,
                  asked, told, given, discarded >>

ReplyArrives(c) ==
  /\ taken[c] # Nothing /\ taken[c][1] # "frame"
  /\ taken' = [taken EXCEPT ![c] = Nothing]
  /\ request' = [request EXCEPT ![c] = IF taken[c][1] = "event" THEN @ ELSE None]
  /\ after' = [after EXCEPT ![c] = IF taken[c][1] = "unsubscribed" THEN 0 ELSE @]
  /\ UNCHANGED << read, targets, subscribed, toSend, events, lost, asked, told,
                  arrived, given, discarded >>

----------------------------------------------------------------------------
FanInit ==
  /\ read = 0 /\ targets = {}
  /\ subscribed = [c \in Subscribers |-> FALSE]
  /\ toSend = [c \in Subscribers |-> << >>] /\ events = [c \in Subscribers |-> << >>]
  /\ lost = [c \in Subscribers |-> 0] /\ taken = [c \in Subscribers |-> Nothing]
  /\ request = [c \in Subscribers |-> None] /\ asked = [c \in Subscribers |-> 0]
  /\ told = 0
  /\ arrived = [c \in Subscribers |-> 0]
  /\ given = [c \in Subscribers |-> 0] /\ discarded = [c \in Subscribers |-> 0]
  /\ after = [c \in Subscribers |-> -1]

Handle(c) == Subscribe(c) \/ Unsubscribe(c) \/ DiscardFrames(c) \/ Reply(c)
Receive(c) == FrameArrives(c) \/ ReplyArrives(c)

FanNext == \/ FrameRead \/ Broadcast
           \/ \E c \in Subscribers : \/ PutFrame(c) \/ Handle(c)
                                     \/ SenderTakes(c) \/ Receive(c)
                                     \/ \E r \in Requests : Ask(c, r)

FanSpec == FanInit /\ [][FanNext]_fanVars

----------------------------------------------------------------------------
(* Properties *)

Items == Kinds \X {0} \cup {"frame"} \X Nat \cup {Nothing}

FanTypeOK ==
  /\ read \in Nat /\ targets \subseteq Subscribers
  /\ subscribed \in [Subscribers -> BOOLEAN]
  /\ toSend \in [Subscribers -> Seq(Nat)]
  /\ events \in [Subscribers -> Seq(Kinds \X {0})]
  /\ taken \in [Subscribers -> Items]
  /\ request \in [Subscribers -> Stages]
  /\ lost \in [Subscribers -> Nat] /\ arrived \in [Subscribers -> Nat]
  /\ given \in [Subscribers -> Nat] /\ discarded \in [Subscribers -> Nat]
  /\ asked \in [Subscribers -> Nat] /\ told \in Nat
  /\ after \in [Subscribers -> Nat \cup {-1}]

InHand(c) == IF taken[c][1] = "frame" THEN 1 ELSE 0

\* "The drop count is the client's proof that a gap exists" (docs/daemon-api.md,
\* Backpressure): every frame queued for a client arrived, is still on its way,
\* was thrown away at its own request, or is in the count; none is in two places,
\* and a queue never outgrows its capacity.
CountTellsGap ==
  \A c \in Subscribers :
    /\ given[c] = arrived[c] + InHand(c) + Len(toSend[c])
                    + discarded[c] + lost[c]
    /\ Len(toSend[c]) <= Capacity

\* After the reply to an unsubscribe "at most one further frame can arrive"
\* (docs/daemon-api.md, Commands), although the reader may be about to queue one
\* for a list of sessions it took earlier.
AtMostOneAfter == \A c \in Subscribers : after[c] <= 1

==============================================================================
