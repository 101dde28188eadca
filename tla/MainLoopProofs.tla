--------------------------- MODULE MainLoopProofs ---------------------------
(***************************************************************************)
(* The main loop's two specifications.                                     *)
(*                                                                         *)
(* Ownership, for either track: no two modes mix, a transfer belongs to a  *)
(* mode, a stop is complete and the loop starts clean.  What a command has *)
(* still to do is a sequence of names; all that the proofs need of it is   *)
(* which names are left, and, for each of them, which names come after it. *)
(* `Facts` collects that for one name, `Ordered` for a whole sequence, and *)
(* each invariant relates what is still to be done to what is set now.     *)
(*                                                                         *)
(* ClockRef, for any frame, widths and stall: its pair is true.  A number  *)
(* is told apart from the host's by when it was read, in which frame and   *)
(* how far into it.                                                        *)
(***************************************************************************)
EXTENDS Ownership, ClockRef, RingArithmetic

UsbCaptures == {"stream", "loop", "mimic", "crosscheck"}
Captures    == UsbCaptures \cup {"uart"}
Players     == {"play", "loop"}
Stoppers    == Benches \cup {"stop"}
InDma       == {"flood_dma", "duplex_dma"}
OutDma      == {"sink_dma", "duplex_dma"}

StepNames ==
  {"core_on", "core_off", "framer_reset", "tx_dma_on", "tx_dma_off",
   "in_dma_on", "in_dma_off_if_tx_dma", "adc_on", "adc_off",
   "bench_modes_off", "bench_modes_on", "bench_off", "bench_on",
   "out_dma_off_if_playing", "out_dma_on", "play_off", "play_on",
   "play_unprime", "play_reset", "gen_init", "gen_stop", "gen_start",
   "gen_prepare", "gen_go", "dacc_off", "dacc_play", "tc1_off"}

Names(s) == {s[i] : i \in DOMAIN s}
Left     == Names(todo)

\* What the order of the stores in the code comes to: step n of command c,
\* with the steps in `after` still to be done when it has been.
CaptureFacts(c, n, after) ==
  /\ n = "core_on" => c \in Captures /\ "play_reset" \notin after
  /\ n = "core_off" => c \in Stoppers /\
       {"in_dma_off_if_tx_dma", "tx_dma_off"} \subseteq after
  /\ n = "in_dma_off_if_tx_dma" => c \in Stoppers
  /\ n = "tx_dma_off" => /\ c \in Stoppers \cup {"uart"}
                         /\ after \cap {"in_dma_off_if_tx_dma", "in_dma_on"} = {}
  /\ n = "tx_dma_on" => c \in UsbCaptures /\ "core_on" \in after
  /\ n = "in_dma_on" =>
       /\ c \in UsbCaptures
       /\ after \cap {"in_dma_off_if_tx_dma", "tx_dma_off", "tx_dma_on"} = {}
  /\ n = "adc_on" => c \in Captures
BenchFacts(c, n, after) ==
  /\ n \in {"bench_modes_off", "bench_off"} => c \in Stoppers
  /\ n = "bench_off" => "bench_modes_off" \notin after
  /\ n = "bench_modes_on" =>
       c \in Benches /\ "bench_on" \in after /\ "bench_modes_on" \notin after
  /\ n = "bench_on" => c \in Benches /\ "bench_off" \notin after
PlayFacts(c, n, after) ==
  /\ n \in {"play_reset", "out_dma_on", "dacc_play", "play_on"} => c \in Players
  /\ n \in {"out_dma_on", "dacc_play"} => "play_on" \in after
  /\ n = "out_dma_on" => "out_dma_on" \notin after
  /\ n = "play_on" => /\ after \cap {"play_on", "dacc_play"} = {}
                      /\ "dacc_off" \in after => "play_off" \in after
                      /\ "play_off" \in after => "out_dma_off_if_playing" \in after
  /\ n = "play_off" => /\ "dacc_off" \in after
                       /\ "out_dma_off_if_playing" \in after => "play_on" \in after
  /\ n = "dacc_off" => /\ "play_off" \in after => "play_on" \in after
                       /\ "play_on" \in after => "dacc_play" \in after
  /\ n \in {"gen_init", "gen_start", "gen_prepare", "gen_go"} =>
       c \in Captures \ {"loop"}
  /\ n = "gen_stop" => c \notin Players /\ (c = "stop" => "play_off" \in after)
Facts(c, n, after) ==
  CaptureFacts(c, n, after) /\ BenchFacts(c, n, after) /\ PlayFacts(c, n, after)

Ordered(c, s, rest) ==
  \A i \in DOMAIN s : Facts(c, s[i], {s[j] : j \in {k \in DOMAIN s : k > i}} \cup rest)

\* s as a part of command c: its names, and what may come after it.
Part(c, s, rest, names) ==
  s \in Seq(StepNames) /\ Ordered(c, s, rest) /\ Names(s) = names

----------------------------------------------------------------------------
(* The inductive invariant *)

\* When a pass may fall inside a command.
Interlock ==
  /\ todo \in Seq(StepNames) /\ Ordered(cmd, todo, {})
  /\ track \in Tracks /\ cmd \in Commands[track] \cup {"stop"}
  /\ svc # "idle" => Preemptive \/ todo = << >>
  /\ todo # << >> => console_busy

\* Which command can have which flag up.
CommandFlags ==
  /\ active => cmd \in Captures \cup {"stop"}
  /\ tx_dma => cmd \in UsbCaptures \cup {"stop"}
  /\ playing => cmd \in Players \cup {"stop"}
  /\ bench # "off" => cmd \in {bench, "stop"} /\ ~active /\ ~tx_dma /\ ~playing
  /\ bench \in Benches \cup {"off"}
  /\ Preemptive => bench \notin DmaBenches

\* A stop that has done its step has its effect.
StopSoFar ==
  cmd = "stop" =>
    /\ active => "core_off" \in Left
    /\ tx_dma => "tx_dma_off" \in Left
    /\ adcOn => "adc_off" \in Left
    /\ bench # "off" => "bench_off" \in Left
    /\ playing => "play_off" \in Left
    /\ dacOn => "dacc_off" \in Left
    /\ tc1On /\ ~Preemptive => "tc1_off" \in Left

\* Bulk IN: who has it in DMA mode and whose transfer runs; whoever has it will
\* give it back before the flag by which he would know goes down.
CoreHasIn == tx_dma /\ ("tx_dma_off" \in Left => "in_dma_off_if_tx_dma" \in Left)
BenchHas(ends) ==
  bench \in ends /\ ("bench_off" \in Left => "bench_modes_off" \in Left)
BenchWillHave(ends) ==
  cmd \in ends /\ "bench_on" \in Left /\ "bench_modes_on" \notin Left
InSide ==
  /\ tx_dma => active \/ Left \cap {"core_on", "tx_dma_off"} # {}
  /\ "in_dma_on" \in Left => tx_dma \/ "tx_dma_on" \in Left
  /\ dma_mode_in => CoreHasIn \/ BenchHas(InDma) \/ BenchWillHave(InDma)
  /\ inDma = "core" => CoreHasIn /\ (active \/ "in_dma_off_if_tx_dma" \in Left)
  /\ inDma = "bench" => BenchHas(InDma)
  /\ inDma \in {"none", "core", "bench"}

\* Bulk OUT, on bare metal.
PlayHasOut == playing /\ ("play_off" \in Left => "out_dma_off_if_playing" \in Left)
PlayWillHaveOut == "play_on" \in Left /\ "out_dma_on" \notin Left
OutSide ==
  ~Preemptive =>
    /\ dma_mode_out => \/ PlayHasOut \/ PlayWillHaveOut
                       \/ BenchHas(OutDma) \/ BenchWillHave(OutDma)
    /\ outDma = "play" => PlayHasOut
    /\ outDma = "bench" => BenchHas(OutDma)
    /\ outDma \in {"none", "play", "bench"}

\* The converter: what has still to be done whenever the flag and the table
\* disagree.
PlayHasDac == dacOn /\ dacFrom = "play"
DacSide ==
  /\ "play_on" \in Left => ~playing /\ ("dacc_play" \in Left \/ PlayHasDac)
  /\ PlayHasDac /\ ~playing => Left \cap {"play_on", "dacc_off"} # {}
  /\ playing /\ ~PlayHasDac => "play_off" \in Left
  /\ playing /\ "dacc_off" \in Left => "play_off" \in Left

\* The record flag of a loop, from its play_start on.
LoopSide ==
  cmd = "loop" /\ todo # << >> /\ record => "play_reset" \in Left

IInv == Interlock /\ CommandFlags /\ StopSoFar /\ InSide /\ OutSide /\ DacSide
        /\ LoopSide /\ NoMixing

\* On the RTOS track the DMA benches are left out (README section 3.2).
NoDmaBenchesOnRtos ==
  "rtos" \in Tracks => Commands["rtos"] \cap DmaBenches = {}

----------------------------------------------------------------------------
(* Sequences of steps *)

LEMMA NamesOf ==
  ASSUME NEW s \in Seq(StepNames), NEW i \in 1 .. Len(s)
  PROVE  s[i] \in Names(s)
BY DEF Names

\* A step taken: its facts hold of what is left, which is as ordered as before.
LEMMA TakesOne ==
  ASSUME NEW c, NEW s \in Seq(StepNames), s # << >>, Ordered(c, s, {})
  PROVE  /\ Tail(s) \in Seq(StepNames)
         /\ Names(s) = {Head(s)} \cup Names(Tail(s))
         /\ Facts(c, Head(s), Names(Tail(s)))
         /\ Ordered(c, Tail(s), {})
<1>1. /\ Tail(s) \in Seq(StepNames) /\ Len(s) \in Nat /\ Len(s) >= 1
      /\ Len(Tail(s)) = Len(s) - 1 /\ Head(s) = s[1]
      /\ DOMAIN s = 1 .. Len(s) /\ DOMAIN Tail(s) = 1 .. Len(s) - 1
      /\ \A i \in 1 .. Len(s) - 1 : Tail(s)[i] = s[i + 1]
  OBVIOUS
<1>2. ASSUME NEW i \in 0 .. Len(s) - 1
      PROVE  {s[j] : j \in {k \in DOMAIN s : k > i + 1}}
             = {Tail(s)[j] : j \in {k \in DOMAIN Tail(s) : k > i}}
  <2> DEFINE A == {s[j] : j \in {k \in DOMAIN s : k > i + 1}}
             B == {Tail(s)[j] : j \in {k \in DOMAIN Tail(s) : k > i}}
  <2>1. ASSUME NEW x \in A PROVE x \in B
    <3>1. PICK j \in {k \in DOMAIN s : k > i + 1} : x = s[j] OBVIOUS
    <3>2. j - 1 \in {k \in DOMAIN Tail(s) : k > i} /\ x = Tail(s)[j - 1]
      BY <1>1, <3>1
    <3> QED BY <3>2
  <2>2. ASSUME NEW x \in B PROVE x \in A
    <3>1. PICK j \in {k \in DOMAIN Tail(s) : k > i} : x = Tail(s)[j] OBVIOUS
    <3>2. j + 1 \in {k \in DOMAIN s : k > i + 1} /\ x = s[j + 1]
      BY <1>1, <3>1
    <3> QED BY <3>2
  <2> QED BY <2>1, <2>2
<1>3. Names(Tail(s)) = {s[j] : j \in {k \in DOMAIN s : k > 1}}
  <2>1. {k \in DOMAIN Tail(s) : k > 0} = DOMAIN Tail(s) BY <1>1
  <2>2. {s[j] : j \in {k \in DOMAIN s : k > 0 + 1}}
        = {Tail(s)[j] : j \in {k \in DOMAIN Tail(s) : k > 0}}
    <3>1. 0 \in 0 .. Len(s) - 1 BY <1>1
    <3> QED BY <3>1, <1>2
  <2>3. {s[j] : j \in {k \in DOMAIN s : k > 0 + 1}}
        = {s[j] : j \in {k \in DOMAIN s : k > 1}}
    OBVIOUS
  <2> QED BY <2>1, <2>2, <2>3 DEF Names
<1>4. Names(s) = {Head(s)} \cup Names(Tail(s))
  <2>1. Names(s) = {s[1]} \cup {s[j] : j \in {k \in DOMAIN s : k > 1}}
    BY <1>1 DEF Names
  <2> QED BY <2>1, <1>1, <1>3
<1>5. Facts(c, Head(s), Names(Tail(s)))
  <2>1. Facts(c, s[1], {s[j] : j \in {k \in DOMAIN s : k > 1}} \cup {})
    BY <1>1 DEF Ordered
  <2>2. {s[j] : j \in {k \in DOMAIN s : k > 1}} \cup {} = Names(Tail(s))
    BY <1>3
  <2> QED BY <2>1, <2>2, <1>1
<1>6. ASSUME NEW i \in DOMAIN Tail(s)
      PROVE  Facts(c, Tail(s)[i],
                   {Tail(s)[j] : j \in {k \in DOMAIN Tail(s) : k > i}} \cup {})
  <2>1. i + 1 \in DOMAIN s /\ Tail(s)[i] = s[i + 1] /\ i \in 0 .. Len(s) - 1
    BY <1>1
  <2>2. Facts(c, s[i + 1], {s[j] : j \in {k \in DOMAIN s : k > i + 1}} \cup {})
    BY <2>1 DEF Ordered
  <2> QED BY <2>1, <2>2, <1>2
<1> QED BY <1>1, <1>4, <1>5, <1>6 DEF Ordered

\* A step still to be taken has its facts of some of the others.
LEMMA StillToCome ==
  ASSUME NEW c, NEW s \in Seq(StepNames), Ordered(c, s, {}), NEW n \in Names(s)
  PROVE  \E after \in SUBSET Names(s) : Facts(c, n, after)
<1>1. PICK i \in DOMAIN s : n = s[i] BY DEF Names
<1> DEFINE R == {s[j] : j \in {k \in DOMAIN s : k > i}} \cup {}
<1>2. Facts(c, n, R) BY <1>1 DEF Ordered
<1>3. R \in SUBSET Names(s) BY DEF Names
<1> QED BY <1>2, <1>3

\* One sequence after another.
LEMMA NamesJoined ==
  ASSUME NEW s \in Seq(StepNames), NEW t \in Seq(StepNames)
  PROVE  Names(s \o t) = Names(s) \cup Names(t)
<1> DEFINE u == s \o t
<1>1. /\ u \in Seq(StepNames) /\ Len(s) \in Nat /\ Len(t) \in Nat
      /\ DOMAIN u = 1 .. Len(s) + Len(t)
      /\ DOMAIN s = 1 .. Len(s) /\ DOMAIN t = 1 .. Len(t)
      /\ \A i \in 1 .. Len(s) : u[i] = s[i]
      /\ \A i \in Len(s) + 1 .. Len(s) + Len(t) : u[i] = t[i - Len(s)]
  OBVIOUS
<1> HIDE DEF u
<1>2. Names(u) = Names(s) \cup Names(t)
  <2>1. ASSUME NEW i \in DOMAIN s PROVE s[i] \in Names(u)
    <3>1. i \in DOMAIN u /\ u[i] = s[i] BY <1>1
    <3> QED BY <3>1 DEF Names
  <2>2. ASSUME NEW i \in DOMAIN t PROVE t[i] \in Names(u)
    <3>1. /\ i + Len(s) \in Len(s) + 1 .. Len(s) + Len(t)
          /\ i + Len(s) - Len(s) = i /\ i + Len(s) \in DOMAIN u
      BY <1>1
    <3>2. u[i + Len(s)] = t[i] BY <1>1, <3>1
    <3> QED BY <3>1, <3>2 DEF Names
  <2>3. ASSUME NEW i \in DOMAIN u PROVE u[i] \in Names(s) \cup Names(t)
    <3>1. CASE i \in DOMAIN s BY <3>1, <1>1 DEF Names
    <3>2. CASE i \notin DOMAIN s
      <4>1. i - Len(s) \in DOMAIN t /\ u[i] = t[i - Len(s)] BY <3>2, <1>1
      <4> QED BY <4>1 DEF Names
    <3> QED BY <3>1, <3>2
  <2> QED BY <2>1, <2>2, <2>3 DEF Names
<1> QED BY <1>2 DEF u

LEMMA Joined ==
  ASSUME NEW c, NEW rest, NEW s \in Seq(StepNames), NEW t \in Seq(StepNames),
         Ordered(c, s, Names(t) \cup rest), Ordered(c, t, rest)
  PROVE  s \o t \in Seq(StepNames) /\ Ordered(c, s \o t, rest)
<1> DEFINE u == s \o t
<1>1. /\ u \in Seq(StepNames) /\ Len(s) \in Nat /\ Len(t) \in Nat
      /\ DOMAIN u = 1 .. Len(s) + Len(t)
      /\ DOMAIN s = 1 .. Len(s) /\ DOMAIN t = 1 .. Len(t)
      /\ \A i \in 1 .. Len(s) : u[i] = s[i]
      /\ \A i \in Len(s) + 1 .. Len(s) + Len(t) : u[i] = t[i - Len(s)]
  OBVIOUS
<1> HIDE DEF u
<1>2. ASSUME NEW i \in DOMAIN u
      PROVE  Facts(c, u[i], {u[j] : j \in {k \in DOMAIN u : k > i}} \cup rest)
  <2> DEFINE U == {u[j] : j \in {k \in DOMAIN u : k > i}}
  <2>1. CASE i \in DOMAIN s
    <3> DEFINE S == {s[j] : j \in {k \in DOMAIN s : k > i}}
    <3>1. ASSUME NEW x \in U PROVE x \in S \cup Names(t)
      <4>1. PICK j \in {k \in DOMAIN u : k > i} : x = u[j] OBVIOUS
      <4>2. CASE j \in DOMAIN s BY <4>1, <4>2, <1>1
      <4>3. CASE j \notin DOMAIN s
        <5>1. j - Len(s) \in DOMAIN t /\ x = t[j - Len(s)] BY <4>1, <4>3, <1>1
        <5> QED BY <5>1 DEF Names
      <4> QED BY <4>2, <4>3
    <3>2. ASSUME NEW x \in S PROVE x \in U
      <4>1. PICK j \in {k \in DOMAIN s : k > i} : x = s[j] OBVIOUS
      <4>2. j \in {k \in DOMAIN u : k > i} /\ x = u[j] BY <4>1, <1>1
      <4> QED BY <4>2
    <3>3. ASSUME NEW x \in Names(t) PROVE x \in U
      <4>1. PICK j \in DOMAIN t : x = t[j] BY DEF Names
      <4>2. /\ j + Len(s) \in Len(s) + 1 .. Len(s) + Len(t)
            /\ j + Len(s) - Len(s) = j /\ j + Len(s) \in {k \in DOMAIN u : k > i}
        BY <4>1, <2>1, <1>1
      <4>3. x = u[j + Len(s)] BY <4>1, <4>2, <1>1
      <4> QED BY <4>2, <4>3
    <3>4. U \cup rest = S \cup (Names(t) \cup rest) BY <3>1, <3>2, <3>3
    <3>5. Facts(c, s[i], S \cup (Names(t) \cup rest)) BY <2>1 DEF Ordered
    <3> QED BY <3>4, <3>5, <2>1, <1>1
  <2>2. CASE i \notin DOMAIN s
    <3> DEFINE m == i - Len(s)
               T == {t[j] : j \in {k \in DOMAIN t : k > m}}
    <3>1. m \in DOMAIN t /\ u[i] = t[m] BY <2>2, <1>1
    <3>2. ASSUME NEW x \in U PROVE x \in T
      <4>1. PICK j \in {k \in DOMAIN u : k > i} : x = u[j] OBVIOUS
      <4>2. j - Len(s) \in {k \in DOMAIN t : k > m} /\ x = t[j - Len(s)]
        BY <4>1, <2>2, <1>1
      <4> QED BY <4>2
    <3>3. ASSUME NEW x \in T PROVE x \in U
      <4>1. PICK j \in {k \in DOMAIN t : k > m} : x = t[j] OBVIOUS
      <4>2. /\ j + Len(s) \in Len(s) + 1 .. Len(s) + Len(t)
            /\ j + Len(s) - Len(s) = j /\ j + Len(s) \in {k \in DOMAIN u : k > i}
        BY <4>1, <2>2, <1>1
      <4>3. x = u[j + Len(s)] BY <4>1, <4>2, <1>1
      <4> QED BY <4>2, <4>3
    <3>4. U = T BY <3>2, <3>3
    <3>5. Facts(c, t[m], T \cup rest) BY <3>1 DEF Ordered
    <3> QED BY <3>4, <3>5, <3>1
  <2> QED BY <2>1, <2>2
<1> QED BY <1>1, <1>2 DEF Ordered, u

LEMMA JoinedParts ==
  ASSUME NEW c, NEW rest, NEW s, NEW t, NEW M, NEW N,
         Part(c, s, N \cup rest, M), Part(c, t, rest, N)
  PROVE  Part(c, s \o t, rest, M \cup N)
<1>1. N = Names(t) /\ M = Names(s) BY DEF Part
<1>2. /\ s \in Seq(StepNames) /\ t \in Seq(StepNames)
      /\ Ordered(c, s, Names(t) \cup rest) /\ Ordered(c, t, rest)
  BY <1>1 DEF Part
<1>3. s \o t \in Seq(StepNames) /\ Ordered(c, s \o t, rest)
  BY <1>2, Joined
<1>4. Names(s \o t) = Names(s) \cup Names(t) BY <1>2, NamesJoined
<1> QED BY <1>1, <1>3, <1>4 DEF Part

\* The sequences that the programs are put together from.
LEMMA Literal0 ==
  ASSUME NEW c, NEW rest
  PROVE  Part(c, << >>, rest, {})
BY DEF Part, Ordered, Names

LEMMA Literal1 ==
  ASSUME NEW c, NEW rest, NEW u \in StepNames,
         Facts(c, u, {} \cup rest)
  PROVE  Part(c, << u >>, rest, {u})
<1> DEFINE s == << u >>
<1>1. s \in Seq(StepNames) /\ DOMAIN s = 1 .. 1 OBVIOUS
<1>2. s[1] = u OBVIOUS
<1> HIDE DEF s
<1>3. Names(s) = {u}
  <2>1. DOMAIN s = {1} BY <1>1
  <2> QED BY <2>1, <1>2 DEF Names
<1>4. {s[j] : j \in {k \in DOMAIN s : k > 1}} = {}
  <2>1. {k \in DOMAIN s : k > 1} = {} BY <1>1
  <2> QED BY <2>1, <1>2
<1>5. ASSUME NEW i \in DOMAIN s
      PROVE  Facts(c, s[i], {s[j] : j \in {k \in DOMAIN s : k > i}} \cup rest)
  <2>1. CASE i = 1 BY <2>1, <1>2, <1>4
  <2> QED BY <1>1, <2>1
<1> QED BY <1>1, <1>3, <1>5 DEF Part, Ordered, s

LEMMA Literal2 ==
  ASSUME NEW c, NEW rest, NEW u \in StepNames, NEW v \in StepNames,
         Facts(c, u, {v} \cup rest),
         Facts(c, v, {} \cup rest)
  PROVE  Part(c, << u, v >>, rest, {u, v})
<1> DEFINE s == << u, v >>
<1>1. s \in Seq(StepNames) /\ DOMAIN s = 1 .. 2 OBVIOUS
<1>2. s[1] = u /\ s[2] = v OBVIOUS
<1> HIDE DEF s
<1>3. Names(s) = {u, v}
  <2>1. DOMAIN s = {1, 2} BY <1>1
  <2> QED BY <2>1, <1>2 DEF Names
<1>4. {s[j] : j \in {k \in DOMAIN s : k > 1}} = {v}
  <2>1. {k \in DOMAIN s : k > 1} = {2} BY <1>1
  <2> QED BY <2>1, <1>2
<1>5. {s[j] : j \in {k \in DOMAIN s : k > 2}} = {}
  <2>1. {k \in DOMAIN s : k > 2} = {} BY <1>1
  <2> QED BY <2>1, <1>2
<1>6. ASSUME NEW i \in DOMAIN s
      PROVE  Facts(c, s[i], {s[j] : j \in {k \in DOMAIN s : k > i}} \cup rest)
  <2>1. CASE i = 1 BY <2>1, <1>2, <1>4
  <2>2. CASE i = 2 BY <2>2, <1>2, <1>5
  <2> QED BY <1>1, <2>1, <2>2
<1> QED BY <1>1, <1>3, <1>6 DEF Part, Ordered, s

LEMMA Literal3 ==
  ASSUME NEW c, NEW rest, NEW u \in StepNames, NEW v \in StepNames, NEW w \in StepNames,
         Facts(c, u, {v, w} \cup rest),
         Facts(c, v, {w} \cup rest),
         Facts(c, w, {} \cup rest)
  PROVE  Part(c, << u, v, w >>, rest, {u, v, w})
<1> DEFINE s == << u, v, w >>
<1>1. s \in Seq(StepNames) /\ DOMAIN s = 1 .. 3 OBVIOUS
<1>2. s[1] = u /\ s[2] = v /\ s[3] = w OBVIOUS
<1> HIDE DEF s
<1>3. Names(s) = {u, v, w}
  <2>1. DOMAIN s = {1, 2, 3} BY <1>1
  <2> QED BY <2>1, <1>2 DEF Names
<1>4. {s[j] : j \in {k \in DOMAIN s : k > 1}} = {v, w}
  <2>1. {k \in DOMAIN s : k > 1} = {2, 3} BY <1>1
  <2> QED BY <2>1, <1>2
<1>5. {s[j] : j \in {k \in DOMAIN s : k > 2}} = {w}
  <2>1. {k \in DOMAIN s : k > 2} = {3} BY <1>1
  <2> QED BY <2>1, <1>2
<1>6. {s[j] : j \in {k \in DOMAIN s : k > 3}} = {}
  <2>1. {k \in DOMAIN s : k > 3} = {} BY <1>1
  <2> QED BY <2>1, <1>2
<1>7. ASSUME NEW i \in DOMAIN s
      PROVE  Facts(c, s[i], {s[j] : j \in {k \in DOMAIN s : k > i}} \cup rest)
  <2>1. CASE i = 1 BY <2>1, <1>2, <1>4
  <2>2. CASE i = 2 BY <2>2, <1>2, <1>5
  <2>3. CASE i = 3 BY <2>3, <1>2, <1>6
  <2> QED BY <1>1, <2>1, <2>2, <2>3
<1> QED BY <1>1, <1>3, <1>7 DEF Part, Ordered, s

LEMMA Literal4 ==
  ASSUME NEW c, NEW rest, NEW u \in StepNames, NEW v \in StepNames, NEW w \in StepNames,
         NEW x \in StepNames,
         Facts(c, u, {v, w, x} \cup rest),
         Facts(c, v, {w, x} \cup rest),
         Facts(c, w, {x} \cup rest),
         Facts(c, x, {} \cup rest)
  PROVE  Part(c, << u, v, w, x >>, rest, {u, v, w, x})
<1> DEFINE s == << u, v, w, x >>
<1>1. s \in Seq(StepNames) /\ DOMAIN s = 1 .. 4 OBVIOUS
<1>2. s[1] = u /\ s[2] = v /\ s[3] = w /\ s[4] = x OBVIOUS
<1> HIDE DEF s
<1>3. Names(s) = {u, v, w, x}
  <2>1. DOMAIN s = {1, 2, 3, 4} BY <1>1
  <2> QED BY <2>1, <1>2 DEF Names
<1>4. {s[j] : j \in {k \in DOMAIN s : k > 1}} = {v, w, x}
  <2>1. {k \in DOMAIN s : k > 1} = {2, 3, 4} BY <1>1
  <2> QED BY <2>1, <1>2
<1>5. {s[j] : j \in {k \in DOMAIN s : k > 2}} = {w, x}
  <2>1. {k \in DOMAIN s : k > 2} = {3, 4} BY <1>1
  <2> QED BY <2>1, <1>2
<1>6. {s[j] : j \in {k \in DOMAIN s : k > 3}} = {x}
  <2>1. {k \in DOMAIN s : k > 3} = {4} BY <1>1
  <2> QED BY <2>1, <1>2
<1>7. {s[j] : j \in {k \in DOMAIN s : k > 4}} = {}
  <2>1. {k \in DOMAIN s : k > 4} = {} BY <1>1
  <2> QED BY <2>1, <1>2
<1>8. ASSUME NEW i \in DOMAIN s
      PROVE  Facts(c, s[i], {s[j] : j \in {k \in DOMAIN s : k > i}} \cup rest)
  <2>1. CASE i = 1 BY <2>1, <1>2, <1>4
  <2>2. CASE i = 2 BY <2>2, <1>2, <1>5
  <2>3. CASE i = 3 BY <2>3, <1>2, <1>6
  <2>4. CASE i = 4 BY <2>4, <1>2, <1>7
  <2> QED BY <1>1, <2>1, <2>2, <2>3, <2>4
<1> QED BY <1>1, <1>3, <1>8 DEF Part, Ordered, s

LEMMA Literal5 ==
  ASSUME NEW c, NEW rest, NEW u \in StepNames, NEW v \in StepNames, NEW w \in StepNames,
         NEW x \in StepNames, NEW y \in StepNames,
         Facts(c, u, {v, w, x, y} \cup rest),
         Facts(c, v, {w, x, y} \cup rest),
         Facts(c, w, {x, y} \cup rest),
         Facts(c, x, {y} \cup rest),
         Facts(c, y, {} \cup rest)
  PROVE  Part(c, << u, v, w, x, y >>, rest, {u, v, w, x, y})
<1> DEFINE s == << u, v, w, x, y >>
<1>1. s \in Seq(StepNames) /\ DOMAIN s = 1 .. 5 OBVIOUS
<1>2. s[1] = u /\ s[2] = v /\ s[3] = w /\ s[4] = x /\ s[5] = y OBVIOUS
<1> HIDE DEF s
<1>3. Names(s) = {u, v, w, x, y}
  <2>1. DOMAIN s = {1, 2, 3, 4, 5} BY <1>1
  <2> QED BY <2>1, <1>2 DEF Names
<1>4. {s[j] : j \in {k \in DOMAIN s : k > 1}} = {v, w, x, y}
  <2>1. {k \in DOMAIN s : k > 1} = {2, 3, 4, 5} BY <1>1
  <2> QED BY <2>1, <1>2
<1>5. {s[j] : j \in {k \in DOMAIN s : k > 2}} = {w, x, y}
  <2>1. {k \in DOMAIN s : k > 2} = {3, 4, 5} BY <1>1
  <2> QED BY <2>1, <1>2
<1>6. {s[j] : j \in {k \in DOMAIN s : k > 3}} = {x, y}
  <2>1. {k \in DOMAIN s : k > 3} = {4, 5} BY <1>1
  <2> QED BY <2>1, <1>2
<1>7. {s[j] : j \in {k \in DOMAIN s : k > 4}} = {y}
  <2>1. {k \in DOMAIN s : k > 4} = {5} BY <1>1
  <2> QED BY <2>1, <1>2
<1>8. {s[j] : j \in {k \in DOMAIN s : k > 5}} = {}
  <2>1. {k \in DOMAIN s : k > 5} = {} BY <1>1
  <2> QED BY <2>1, <1>2
<1>9. ASSUME NEW i \in DOMAIN s
      PROVE  Facts(c, s[i], {s[j] : j \in {k \in DOMAIN s : k > i}} \cup rest)
  <2>1. CASE i = 1 BY <2>1, <1>2, <1>4
  <2>2. CASE i = 2 BY <2>2, <1>2, <1>5
  <2>3. CASE i = 3 BY <2>3, <1>2, <1>6
  <2>4. CASE i = 4 BY <2>4, <1>2, <1>7
  <2>5. CASE i = 5 BY <2>5, <1>2, <1>8
  <2> QED BY <1>1, <2>1, <2>2, <2>3, <2>4, <2>5
<1> QED BY <1>1, <1>3, <1>9 DEF Part, Ordered, s

LEMMA Literal6 ==
  ASSUME NEW c, NEW rest, NEW u \in StepNames, NEW v \in StepNames, NEW w \in StepNames,
         NEW x \in StepNames, NEW y \in StepNames, NEW z \in StepNames,
         Facts(c, u, {v, w, x, y, z} \cup rest),
         Facts(c, v, {w, x, y, z} \cup rest),
         Facts(c, w, {x, y, z} \cup rest),
         Facts(c, x, {y, z} \cup rest),
         Facts(c, y, {z} \cup rest),
         Facts(c, z, {} \cup rest)
  PROVE  Part(c, << u, v, w, x, y, z >>, rest, {u, v, w, x, y, z})
<1> DEFINE s == << u, v, w, x, y, z >>
<1>1. s \in Seq(StepNames) /\ DOMAIN s = 1 .. 6 OBVIOUS
<1>2. s[1] = u /\ s[2] = v /\ s[3] = w /\ s[4] = x /\ s[5] = y /\ s[6] = z OBVIOUS
<1> HIDE DEF s
<1>3. Names(s) = {u, v, w, x, y, z}
  <2>1. DOMAIN s = {1, 2, 3, 4, 5, 6} BY <1>1
  <2> QED BY <2>1, <1>2 DEF Names
<1>4. {s[j] : j \in {k \in DOMAIN s : k > 1}} = {v, w, x, y, z}
  <2>1. {k \in DOMAIN s : k > 1} = {2, 3, 4, 5, 6} BY <1>1
  <2> QED BY <2>1, <1>2
<1>5. {s[j] : j \in {k \in DOMAIN s : k > 2}} = {w, x, y, z}
  <2>1. {k \in DOMAIN s : k > 2} = {3, 4, 5, 6} BY <1>1
  <2> QED BY <2>1, <1>2
<1>6. {s[j] : j \in {k \in DOMAIN s : k > 3}} = {x, y, z}
  <2>1. {k \in DOMAIN s : k > 3} = {4, 5, 6} BY <1>1
  <2> QED BY <2>1, <1>2
<1>7. {s[j] : j \in {k \in DOMAIN s : k > 4}} = {y, z}
  <2>1. {k \in DOMAIN s : k > 4} = {5, 6} BY <1>1
  <2> QED BY <2>1, <1>2
<1>8. {s[j] : j \in {k \in DOMAIN s : k > 5}} = {z}
  <2>1. {k \in DOMAIN s : k > 5} = {6} BY <1>1
  <2> QED BY <2>1, <1>2
<1>9. {s[j] : j \in {k \in DOMAIN s : k > 6}} = {}
  <2>1. {k \in DOMAIN s : k > 6} = {} BY <1>1
  <2> QED BY <2>1, <1>2
<1>10. ASSUME NEW i \in DOMAIN s
      PROVE  Facts(c, s[i], {s[j] : j \in {k \in DOMAIN s : k > i}} \cup rest)
  <2>1. CASE i = 1 BY <2>1, <1>2, <1>4
  <2>2. CASE i = 2 BY <2>2, <1>2, <1>5
  <2>3. CASE i = 3 BY <2>3, <1>2, <1>6
  <2>4. CASE i = 4 BY <2>4, <1>2, <1>7
  <2>5. CASE i = 5 BY <2>5, <1>2, <1>8
  <2>6. CASE i = 6 BY <2>6, <1>2, <1>9
  <2> QED BY <1>1, <2>1, <2>2, <2>3, <2>4, <2>5, <2>6
<1> QED BY <1>1, <1>3, <1>10 DEF Part, Ordered, s

\* Short sequences put together.
LEMMA Glued10 ==
  ASSUME NEW u \in StepNames
  PROVE  << u >> \o << >> = << u >>
<1> DEFINE l == << u >> \o << >>
<1>1. /\ l \in Seq(StepNames) /\ Len(l) = 1
      /\ l[1] = u
  OBVIOUS
<1>2. DOMAIN l = 1 .. 1 BY <1>1
<1> HIDE DEF l
<1>3. l = << u >> BY <1>1, <1>2
<1> QED BY <1>3 DEF l

LEMMA Glued11 ==
  ASSUME NEW u \in StepNames, NEW v \in StepNames
  PROVE  << u >> \o << v >> = << u, v >>
<1> DEFINE l == << u >> \o << v >>
<1>1. /\ l \in Seq(StepNames) /\ Len(l) = 2
      /\ l[1] = u /\ l[2] = v
  OBVIOUS
<1>2. DOMAIN l = 1 .. 2 BY <1>1
<1> HIDE DEF l
<1>3. l = << u, v >> BY <1>1, <1>2
<1> QED BY <1>3 DEF l

LEMMA Glued21 ==
  ASSUME NEW u \in StepNames, NEW v \in StepNames, NEW w \in StepNames
  PROVE  << u, v >> \o << w >> = << u, v, w >>
<1> DEFINE l == << u, v >> \o << w >>
<1>1. /\ l \in Seq(StepNames) /\ Len(l) = 3
      /\ l[1] = u /\ l[2] = v /\ l[3] = w
  OBVIOUS
<1>2. DOMAIN l = 1 .. 3 BY <1>1
<1> HIDE DEF l
<1>3. l = << u, v, w >> BY <1>1, <1>2
<1> QED BY <1>3 DEF l

LEMMA Glued12 ==
  ASSUME NEW u \in StepNames, NEW v \in StepNames, NEW w \in StepNames
  PROVE  << u >> \o << v, w >> = << u, v, w >>
<1> DEFINE l == << u >> \o << v, w >>
<1>1. /\ l \in Seq(StepNames) /\ Len(l) = 3
      /\ l[1] = u /\ l[2] = v /\ l[3] = w
  OBVIOUS
<1>2. DOMAIN l = 1 .. 3 BY <1>1
<1> HIDE DEF l
<1>3. l = << u, v, w >> BY <1>1, <1>2
<1> QED BY <1>3 DEF l

LEMMA Glued22 ==
  ASSUME NEW u \in StepNames, NEW v \in StepNames, NEW w \in StepNames,
         NEW x \in StepNames
  PROVE  << u, v >> \o << w, x >> = << u, v, w, x >>
<1> DEFINE l == << u, v >> \o << w, x >>
<1>1. /\ l \in Seq(StepNames) /\ Len(l) = 4
      /\ l[1] = u /\ l[2] = v /\ l[3] = w /\ l[4] = x
  OBVIOUS
<1>2. DOMAIN l = 1 .. 4 BY <1>1
<1> HIDE DEF l
<1>3. l = << u, v, w, x >> BY <1>1, <1>2
<1> QED BY <1>3 DEF l

LEMMA Glued31 ==
  ASSUME NEW u \in StepNames, NEW v \in StepNames, NEW w \in StepNames,
         NEW x \in StepNames
  PROVE  << u, v, w >> \o << x >> = << u, v, w, x >>
<1> DEFINE l == << u, v, w >> \o << x >>
<1>1. /\ l \in Seq(StepNames) /\ Len(l) = 4
      /\ l[1] = u /\ l[2] = v /\ l[3] = w /\ l[4] = x
  OBVIOUS
<1>2. DOMAIN l = 1 .. 4 BY <1>1
<1> HIDE DEF l
<1>3. l = << u, v, w, x >> BY <1>1, <1>2
<1> QED BY <1>3 DEF l

LEMMA Glued41 ==
  ASSUME NEW u \in StepNames, NEW v \in StepNames, NEW w \in StepNames,
         NEW x \in StepNames, NEW y \in StepNames
  PROVE  << u, v, w, x >> \o << y >> = << u, v, w, x, y >>
<1> DEFINE l == << u, v, w, x >> \o << y >>
<1>1. /\ l \in Seq(StepNames) /\ Len(l) = 5
      /\ l[1] = u /\ l[2] = v /\ l[3] = w /\ l[4] = x /\ l[5] = y
  OBVIOUS
<1>2. DOMAIN l = 1 .. 5 BY <1>1
<1> HIDE DEF l
<1>3. l = << u, v, w, x, y >> BY <1>1, <1>2
<1> QED BY <1>3 DEF l

----------------------------------------------------------------------------
(* The functions of the code, as parts of a command *)

CoreStopNames ==
  {"core_off", "in_dma_off_if_tx_dma", "tx_dma_off", "framer_reset",
   "adc_off", "gen_stop"}

LEMMA CoreStopOrdered ==
  ASSUME NEW c \in Stoppers,
         NEW rest,
         rest \cap {"in_dma_off_if_tx_dma", "in_dma_on"} = {},
         c = "stop" => "play_off" \in rest
  PROVE  Part(c, CoreStop, rest, CoreStopNames)
<1>1. /\ Facts(c, "core_off",
               {"in_dma_off_if_tx_dma", "tx_dma_off",
                "framer_reset", "adc_off", "gen_stop"} \cup rest)
      /\ Facts(c, "in_dma_off_if_tx_dma",
               {"tx_dma_off", "framer_reset", "adc_off",
                "gen_stop"} \cup rest)
      /\ Facts(c, "tx_dma_off",
               {"framer_reset", "adc_off", "gen_stop"} \cup rest)
      /\ Facts(c, "framer_reset", {"adc_off", "gen_stop"} \cup rest)
      /\ Facts(c, "adc_off", {"gen_stop"} \cup rest)
      /\ Facts(c, "gen_stop", {} \cup rest)
  BY DEF Facts, CaptureFacts, BenchFacts, PlayFacts, UsbCaptures, Captures,
         Players, Stoppers, Benches, FifoBenches, DmaBenches
<1>2. /\ "core_off" \in StepNames /\ "in_dma_off_if_tx_dma" \in StepNames
      /\ "tx_dma_off" \in StepNames
      /\ "framer_reset" \in StepNames /\ "adc_off" \in StepNames /\ "gen_stop" \in StepNames
  BY DEF StepNames
<1>3. CoreStop = << "core_off", "in_dma_off_if_tx_dma", "tx_dma_off",
                    "framer_reset", "adc_off", "gen_stop" >> BY DEF CoreStop
<1> DEFINE t == << "core_off", "in_dma_off_if_tx_dma", "tx_dma_off", "framer_reset",
                    "adc_off", "gen_stop" >>
<1>4. Part(c, t, rest, {"core_off", "in_dma_off_if_tx_dma", "tx_dma_off",
                        "framer_reset", "adc_off", "gen_stop"})
  BY <1>1, <1>2, Literal6, Zenon
<1> QED BY <1>3, <1>4 DEF CoreStopNames

BenchStopNames ==
  {"bench_modes_off", "bench_off"}

LEMMA BenchStopOrdered ==
  ASSUME NEW c \in Stoppers,
         NEW rest,
         "bench_modes_off" \notin rest
  PROVE  Part(c, BenchStop, rest, BenchStopNames)
<1>1. /\ Facts(c, "bench_modes_off", {"bench_off"} \cup rest)
      /\ Facts(c, "bench_off", {} \cup rest)
  BY DEF Facts, CaptureFacts, BenchFacts, PlayFacts, UsbCaptures, Captures,
         Players, Stoppers, Benches, FifoBenches, DmaBenches
<1>2. /\ "bench_modes_off" \in StepNames /\ "bench_off" \in StepNames
  BY DEF StepNames
<1>3. BenchStop = << "bench_modes_off", "bench_off" >> BY DEF BenchStop
<1> DEFINE t == << "bench_modes_off", "bench_off" >>
<1>4. Part(c, t, rest, {"bench_modes_off", "bench_off"})
  BY <1>1, <1>2, Literal2, Zenon
<1> QED BY <1>3, <1>4 DEF BenchStopNames

PlayStopNames ==
  {"out_dma_off_if_playing", "play_off", "tc1_off", "dacc_off"}

LEMMA PlayStopOrdered ==
  ASSUME NEW c,
         NEW rest,
         "out_dma_off_if_playing" \in rest => "play_on" \in rest,
         "play_off" \in rest => "play_on" \in rest,
         "play_on" \in rest => "dacc_play" \in rest
  PROVE  Part(c, PlayStop, rest, PlayStopNames)
<1>1. /\ Facts(c, "out_dma_off_if_playing",
               {"play_off", "tc1_off", "dacc_off"} \cup rest)
      /\ Facts(c, "play_off", {"tc1_off", "dacc_off"} \cup rest)
      /\ Facts(c, "tc1_off", {"dacc_off"} \cup rest)
      /\ Facts(c, "dacc_off", {} \cup rest)
  BY DEF Facts, CaptureFacts, BenchFacts, PlayFacts, UsbCaptures, Captures,
         Players, Stoppers, Benches, FifoBenches, DmaBenches
<1>2. /\ "out_dma_off_if_playing" \in StepNames /\ "play_off" \in StepNames
      /\ "tc1_off" \in StepNames
      /\ "dacc_off" \in StepNames
  BY DEF StepNames
<1>3. PlayStop = << "out_dma_off_if_playing", "play_off", "tc1_off",
                    "dacc_off" >> BY DEF PlayStop
<1> DEFINE t == << "out_dma_off_if_playing", "play_off", "tc1_off", "dacc_off" >>
<1>4. Part(c, t, rest, {"out_dma_off_if_playing", "play_off", "tc1_off",
                        "dacc_off"})
  BY <1>1, <1>2, Literal4, Zenon
<1> QED BY <1>3, <1>4 DEF PlayStopNames

PlayRestNames ==
  {"play_reset", "out_dma_on", "dacc_play", "play_on", "play_unprime"}

PlayRest ==
  << "play_reset", "out_dma_on", "dacc_play", "play_on", "play_unprime" >>

LEMMA PlayRestOrdered ==
  ASSUME NEW c \in Players,
         NEW rest,
         rest \cap {"out_dma_on", "play_on", "dacc_play"} = {},
         "dacc_off" \in rest => "play_off" \in rest,
         "play_off" \in rest => "out_dma_off_if_playing" \in rest
  PROVE  Part(c, PlayRest, rest, PlayRestNames)
<1>1. /\ Facts(c, "play_reset",
               {"out_dma_on", "dacc_play", "play_on",
                "play_unprime"} \cup rest)
      /\ Facts(c, "out_dma_on",
               {"dacc_play", "play_on", "play_unprime"} \cup rest)
      /\ Facts(c, "dacc_play", {"play_on", "play_unprime"} \cup rest)
      /\ Facts(c, "play_on", {"play_unprime"} \cup rest)
      /\ Facts(c, "play_unprime", {} \cup rest)
  BY DEF Facts, CaptureFacts, BenchFacts, PlayFacts, UsbCaptures, Captures,
         Players, Stoppers, Benches, FifoBenches, DmaBenches
<1>2. /\ "play_reset" \in StepNames /\ "out_dma_on" \in StepNames
      /\ "dacc_play" \in StepNames
      /\ "play_on" \in StepNames /\ "play_unprime" \in StepNames
  BY DEF StepNames
<1>3. PlayRest = << "play_reset", "out_dma_on", "dacc_play", "play_on",
                    "play_unprime" >> BY DEF PlayRest
<1> DEFINE t == << "play_reset", "out_dma_on", "dacc_play", "play_on", "play_unprime" >>
<1>4. Part(c, t, rest, {"play_reset", "out_dma_on", "dacc_play", "play_on",
                        "play_unprime"})
  BY <1>1, <1>2, Literal5, Zenon
<1> QED BY <1>3, <1>4 DEF PlayRestNames

GenBeginNames ==
  {"gen_init", "gen_prepare"}

GenBegin == << "gen_init", "gen_prepare" >>

LEMMA GenBeginOrdered ==
  ASSUME NEW c \in Captures \ {"loop"},
         NEW rest
  PROVE  Part(c, GenBegin, rest, GenBeginNames)
<1>1. /\ Facts(c, "gen_init", {"gen_prepare"} \cup rest)
      /\ Facts(c, "gen_prepare", {} \cup rest)
  BY DEF Facts, CaptureFacts, BenchFacts, PlayFacts, UsbCaptures, Captures,
         Players, Stoppers, Benches, FifoBenches, DmaBenches
<1>2. /\ "gen_init" \in StepNames /\ "gen_prepare" \in StepNames
  BY DEF StepNames
<1>3. GenBegin = << "gen_init", "gen_prepare" >> BY DEF GenBegin
<1> DEFINE t == << "gen_init", "gen_prepare" >>
<1>4. Part(c, t, rest, {"gen_init", "gen_prepare"})
  BY <1>1, <1>2, Literal2, Zenon
<1> QED BY <1>3, <1>4 DEF GenBeginNames

GenGoNames ==
  {"gen_go"}

GenGo == << "gen_go" >>

LEMMA GenGoOrdered ==
  ASSUME NEW c \in Captures \ {"loop"},
         NEW rest
  PROVE  Part(c, GenGo, rest, GenGoNames)
<1>1. /\ Facts(c, "gen_go", {} \cup rest)
  BY DEF Facts, CaptureFacts, BenchFacts, PlayFacts, UsbCaptures, Captures,
         Players, Stoppers, Benches, FifoBenches, DmaBenches
<1>2. /\ "gen_go" \in StepNames
  BY DEF StepNames
<1>3. GenGo = << "gen_go" >> BY DEF GenGo
<1> DEFINE t == << "gen_go" >>
<1>4. Part(c, t, rest, {"gen_go"})
  BY <1>1, <1>2, Literal1, Zenon
<1> QED BY <1>3, <1>4 DEF GenGoNames

GenAllNames ==
  {"gen_init", "gen_prepare", "gen_go"}

GenAll == << "gen_init", "gen_prepare", "gen_go" >>

LEMMA GenAllOrdered ==
  ASSUME NEW c \in Captures \ {"loop"},
         NEW rest
  PROVE  Part(c, GenAll, rest, GenAllNames)
<1>1. /\ Facts(c, "gen_init", {"gen_prepare", "gen_go"} \cup rest)
      /\ Facts(c, "gen_prepare", {"gen_go"} \cup rest)
      /\ Facts(c, "gen_go", {} \cup rest)
  BY DEF Facts, CaptureFacts, BenchFacts, PlayFacts, UsbCaptures, Captures,
         Players, Stoppers, Benches, FifoBenches, DmaBenches
<1>2. /\ "gen_init" \in StepNames /\ "gen_prepare" \in StepNames /\ "gen_go" \in StepNames
  BY DEF StepNames
<1>3. GenAll = << "gen_init", "gen_prepare", "gen_go" >> BY DEF GenAll
<1> DEFINE t == << "gen_init", "gen_prepare", "gen_go" >>
<1>4. Part(c, t, rest, {"gen_init", "gen_prepare", "gen_go"})
  BY <1>1, <1>2, Literal3, Zenon
<1> QED BY <1>3, <1>4 DEF GenAllNames

GenStopNames ==
  {"gen_stop"}

GenStop == << "gen_stop" >>

LEMMA GenStopOrdered ==
  ASSUME NEW c \in Captures \ {"loop"},
         NEW rest
  PROVE  Part(c, GenStop, rest, GenStopNames)
<1>1. /\ Facts(c, "gen_stop", {} \cup rest)
  BY DEF Facts, CaptureFacts, BenchFacts, PlayFacts, UsbCaptures, Captures,
         Players, Stoppers, Benches, FifoBenches, DmaBenches
<1>2. /\ "gen_stop" \in StepNames
  BY DEF StepNames
<1>3. GenStop = << "gen_stop" >> BY DEF GenStop
<1> DEFINE t == << "gen_stop" >>
<1>4. Part(c, t, rest, {"gen_stop"})
  BY <1>1, <1>2, Literal1, Zenon
<1> QED BY <1>3, <1>4 DEF GenStopNames

BenchBeginNames ==
  {"bench_modes_on", "bench_on"}

BenchBegin == << "bench_modes_on", "bench_on" >>

LEMMA BenchBeginOrdered ==
  ASSUME NEW c \in Benches,
         NEW rest,
         "bench_modes_on" \notin rest,
         "bench_off" \notin rest
  PROVE  Part(c, BenchBegin, rest, BenchBeginNames)
<1>1. /\ Facts(c, "bench_modes_on", {"bench_on"} \cup rest)
      /\ Facts(c, "bench_on", {} \cup rest)
  BY DEF Facts, CaptureFacts, BenchFacts, PlayFacts, UsbCaptures, Captures,
         Players, Stoppers, Benches, FifoBenches, DmaBenches
<1>2. /\ "bench_modes_on" \in StepNames /\ "bench_on" \in StepNames
  BY DEF StepNames
<1>3. BenchBegin = << "bench_modes_on", "bench_on" >> BY DEF BenchBegin
<1> DEFINE t == << "bench_modes_on", "bench_on" >>
<1>4. Part(c, t, rest, {"bench_modes_on", "bench_on"})
  BY <1>1, <1>2, Literal2, Zenon
<1> QED BY <1>3, <1>4 DEF BenchBeginNames

BeginGenNames ==
  {"adc_off", "gen_init", "framer_reset"}

LEMMA BeginGenOrdered ==
  ASSUME NEW c \in Captures \ {"loop"},
         NEW rest
  PROVE  Part(c, CaptureBegin(TRUE), rest, BeginGenNames)
<1>1. /\ Facts(c, "adc_off", {"gen_init", "framer_reset"} \cup rest)
      /\ Facts(c, "gen_init", {"framer_reset"} \cup rest)
      /\ Facts(c, "framer_reset", {} \cup rest)
  BY DEF Facts, CaptureFacts, BenchFacts, PlayFacts, UsbCaptures, Captures,
         Players, Stoppers, Benches, FifoBenches, DmaBenches
<1>2. /\ "adc_off" \in StepNames /\ "gen_init" \in StepNames /\ "framer_reset" \in StepNames
  BY DEF StepNames
<1>3. << "adc_off" >> \o << "gen_init" >>
      = << "adc_off", "gen_init" >>
  BY <1>2, Glued11, Zenon
<1>4. << "adc_off", "gen_init" >> \o << "framer_reset" >>
      = << "adc_off", "gen_init", "framer_reset" >>
  BY <1>2, Glued21, Zenon
<1>5. CaptureBegin(TRUE)
      = (<< "adc_off" >> \o << "gen_init" >>) \o << "framer_reset" >>
  BY DEF CaptureBegin, CaptureEnd
<1>6. CaptureBegin(TRUE) = << "adc_off", "gen_init", "framer_reset" >>
  BY <1>3, <1>4, <1>5
<1> DEFINE t == << "adc_off", "gen_init", "framer_reset" >>
<1>7. Part(c, t, rest, {"adc_off", "gen_init", "framer_reset"})
  BY <1>1, <1>2, Literal3, Zenon
<1> QED BY <1>6, <1>7 DEF BeginGenNames

BeginNames ==
  {"adc_off", "framer_reset"}

LEMMA BeginOrdered ==
  ASSUME NEW c \in Captures,
         NEW rest
  PROVE  Part(c, CaptureBegin(FALSE), rest, BeginNames)
<1>1. /\ Facts(c, "adc_off", {"framer_reset"} \cup rest)
      /\ Facts(c, "framer_reset", {} \cup rest)
  BY DEF Facts, CaptureFacts, BenchFacts, PlayFacts, UsbCaptures, Captures,
         Players, Stoppers, Benches, FifoBenches, DmaBenches
<1>2. /\ "adc_off" \in StepNames /\ "framer_reset" \in StepNames
  BY DEF StepNames
<1>3. << "adc_off" >> \o << >>
      = << "adc_off" >>
  BY <1>2, Glued10, Zenon
<1>4. << "adc_off" >> \o << "framer_reset" >>
      = << "adc_off", "framer_reset" >>
  BY <1>2, Glued11, Zenon
<1>5. CaptureBegin(FALSE)
      = (<< "adc_off" >> \o << >>) \o << "framer_reset" >>
  BY DEF CaptureBegin, CaptureEnd
<1>6. CaptureBegin(FALSE) = << "adc_off", "framer_reset" >>
  BY <1>3, <1>4, <1>5
<1> DEFINE t == << "adc_off", "framer_reset" >>
<1>7. Part(c, t, rest, {"adc_off", "framer_reset"})
  BY <1>1, <1>2, Literal2, Zenon
<1> QED BY <1>6, <1>7 DEF BeginNames

EndStreamNames ==
  {"adc_on", "gen_start", "tx_dma_on", "in_dma_on", "core_on"}

LEMMA EndStreamOrdered ==
  ASSUME NEW c \in UsbCaptures \ {"loop"},
         NEW rest,
         "play_reset" \notin rest,
         rest \cap {"in_dma_off_if_tx_dma", "tx_dma_off", "tx_dma_on"} = {}
  PROVE  Part(c, CaptureEnd(TRUE, TRUE), rest, EndStreamNames)
<1>1. /\ Facts(c, "adc_on",
               {"gen_start", "tx_dma_on", "in_dma_on", "core_on"} \cup rest)
      /\ Facts(c, "gen_start", {"tx_dma_on", "in_dma_on", "core_on"} \cup rest)
      /\ Facts(c, "tx_dma_on", {"in_dma_on", "core_on"} \cup rest)
      /\ Facts(c, "in_dma_on", {"core_on"} \cup rest)
      /\ Facts(c, "core_on", {} \cup rest)
  BY DEF Facts, CaptureFacts, BenchFacts, PlayFacts, UsbCaptures, Captures,
         Players, Stoppers, Benches, FifoBenches, DmaBenches
<1>2. /\ "adc_on" \in StepNames /\ "gen_start" \in StepNames /\ "tx_dma_on" \in StepNames
      /\ "in_dma_on" \in StepNames /\ "core_on" \in StepNames
  BY DEF StepNames
<1>3. << "adc_on" >> \o << "gen_start" >>
      = << "adc_on", "gen_start" >>
  BY <1>2, Glued11, Zenon
<1>4. << "adc_on", "gen_start" >> \o << "tx_dma_on", "in_dma_on" >>
      = << "adc_on", "gen_start", "tx_dma_on", "in_dma_on" >>
  BY <1>2, Glued22, Zenon
<1>5. << "adc_on", "gen_start", "tx_dma_on", "in_dma_on" >> \o << "core_on" >>
      = << "adc_on", "gen_start", "tx_dma_on", "in_dma_on", "core_on" >>
  BY <1>2, Glued41
<1>6. CaptureEnd(TRUE, TRUE)
      = ((<< "adc_on" >> \o << "gen_start" >>)
         \o << "tx_dma_on", "in_dma_on" >>) \o << "core_on" >>
  BY DEF CaptureBegin, CaptureEnd
<1>7. CaptureEnd(TRUE, TRUE) = << "adc_on", "gen_start", "tx_dma_on",
                                  "in_dma_on", "core_on" >>
  BY <1>3, <1>4, <1>5, <1>6
<1> DEFINE t == << "adc_on", "gen_start", "tx_dma_on", "in_dma_on", "core_on" >>
<1>8. Part(c, t, rest, {"adc_on", "gen_start", "tx_dma_on", "in_dma_on",
                        "core_on"})
  BY <1>1, <1>2, Literal5, Zenon
<1> QED BY <1>7, <1>8 DEF EndStreamNames

EndUartNames ==
  {"adc_on", "gen_start", "tx_dma_off", "core_on"}

LEMMA EndUartOrdered ==
  ASSUME NEW c \in {"uart"},
         NEW rest,
         "play_reset" \notin rest, rest \cap {"in_dma_off_if_tx_dma", "in_dma_on"} = {}
  PROVE  Part(c, CaptureEnd(TRUE, FALSE), rest, EndUartNames)
<1>1. /\ Facts(c, "adc_on", {"gen_start", "tx_dma_off", "core_on"} \cup rest)
      /\ Facts(c, "gen_start", {"tx_dma_off", "core_on"} \cup rest)
      /\ Facts(c, "tx_dma_off", {"core_on"} \cup rest)
      /\ Facts(c, "core_on", {} \cup rest)
  BY DEF Facts, CaptureFacts, BenchFacts, PlayFacts, UsbCaptures, Captures,
         Players, Stoppers, Benches, FifoBenches, DmaBenches
<1>2. /\ "adc_on" \in StepNames /\ "gen_start" \in StepNames /\ "tx_dma_off" \in StepNames
      /\ "core_on" \in StepNames
  BY DEF StepNames
<1>3. << "adc_on" >> \o << "gen_start" >>
      = << "adc_on", "gen_start" >>
  BY <1>2, Glued11, Zenon
<1>4. << "adc_on", "gen_start" >> \o << "tx_dma_off" >>
      = << "adc_on", "gen_start", "tx_dma_off" >>
  BY <1>2, Glued21, Zenon
<1>5. << "adc_on", "gen_start", "tx_dma_off" >> \o << "core_on" >>
      = << "adc_on", "gen_start", "tx_dma_off", "core_on" >>
  BY <1>2, Glued31, Zenon
<1>6. CaptureEnd(TRUE, FALSE)
      = ((<< "adc_on" >> \o << "gen_start" >>) \o << "tx_dma_off" >>)
         \o << "core_on" >>
  BY DEF CaptureBegin, CaptureEnd
<1>7. CaptureEnd(TRUE, FALSE) = << "adc_on", "gen_start", "tx_dma_off",
                                   "core_on" >>
  BY <1>3, <1>4, <1>5, <1>6
<1> DEFINE t == << "adc_on", "gen_start", "tx_dma_off", "core_on" >>
<1>8. Part(c, t, rest, {"adc_on", "gen_start", "tx_dma_off", "core_on"})
  BY <1>1, <1>2, Literal4, Zenon
<1> QED BY <1>7, <1>8 DEF EndUartNames

EndUsbNames ==
  {"adc_on", "tx_dma_on", "in_dma_on", "core_on"}

LEMMA EndUsbOrdered ==
  ASSUME NEW c \in UsbCaptures,
         NEW rest,
         "play_reset" \notin rest,
         rest \cap {"in_dma_off_if_tx_dma", "tx_dma_off", "tx_dma_on"} = {}
  PROVE  Part(c, CaptureEnd(FALSE, TRUE), rest, EndUsbNames)
<1>1. /\ Facts(c, "adc_on", {"tx_dma_on", "in_dma_on", "core_on"} \cup rest)
      /\ Facts(c, "tx_dma_on", {"in_dma_on", "core_on"} \cup rest)
      /\ Facts(c, "in_dma_on", {"core_on"} \cup rest)
      /\ Facts(c, "core_on", {} \cup rest)
  BY DEF Facts, CaptureFacts, BenchFacts, PlayFacts, UsbCaptures, Captures,
         Players, Stoppers, Benches, FifoBenches, DmaBenches
<1>2. /\ "adc_on" \in StepNames /\ "tx_dma_on" \in StepNames /\ "in_dma_on" \in StepNames
      /\ "core_on" \in StepNames
  BY DEF StepNames
<1>3. << "adc_on" >> \o << >>
      = << "adc_on" >>
  BY <1>2, Glued10, Zenon
<1>4. << "adc_on" >> \o << "tx_dma_on", "in_dma_on" >>
      = << "adc_on", "tx_dma_on", "in_dma_on" >>
  BY <1>2, Glued12, Zenon
<1>5. << "adc_on", "tx_dma_on", "in_dma_on" >> \o << "core_on" >>
      = << "adc_on", "tx_dma_on", "in_dma_on", "core_on" >>
  BY <1>2, Glued31, Zenon
<1>6. CaptureEnd(FALSE, TRUE)
      = ((<< "adc_on" >> \o << >>) \o << "tx_dma_on", "in_dma_on" >>)
         \o << "core_on" >>
  BY DEF CaptureBegin, CaptureEnd
<1>7. CaptureEnd(FALSE, TRUE) = << "adc_on", "tx_dma_on", "in_dma_on",
                                   "core_on" >>
  BY <1>3, <1>4, <1>5, <1>6
<1> DEFINE t == << "adc_on", "tx_dma_on", "in_dma_on", "core_on" >>
<1>8. Part(c, t, rest, {"adc_on", "tx_dma_on", "in_dma_on", "core_on"})
  BY <1>1, <1>2, Literal4, Zenon
<1> QED BY <1>7, <1>8 DEF EndUsbNames

----------------------------------------------------------------------------
(* The commands *)

\* Where a command must still do one thing, if it has another to do.
Begins(c, names) ==
  /\ c = "stop" =>
       {"core_off", "in_dma_off_if_tx_dma", "tx_dma_off", "adc_off",
        "bench_modes_off", "bench_off", "out_dma_off_if_playing", "play_off",
        "dacc_off", "tc1_off"} \subseteq names
  /\ c = "loop" => "play_reset" \in names
  /\ "in_dma_on" \in names => "tx_dma_on" \in names
  /\ "play_on" \in names => "dacc_play" \in names

LEMMA StreamProgram ==
  ASSUME NEW c \in {"stream"}
  PROVE  \E names : Part(c, Program(c), {}, names) /\ Begins(c, names)
<1>1. Part(c, CaptureEnd(TRUE, TRUE), {}, EndStreamNames)
  BY EndStreamOrdered DEF Players, Stoppers, Captures, UsbCaptures, Benches,
         FifoBenches, DmaBenches, EndStreamNames
<1>2. Part(c, CaptureBegin(TRUE), EndStreamNames \cup {}, BeginGenNames)
  BY BeginGenOrdered DEF Players, Stoppers, Captures, UsbCaptures, Benches,
         FifoBenches, DmaBenches, BeginGenNames, EndStreamNames
<1>3. Part(c, CaptureBegin(TRUE) \o CaptureEnd(TRUE, TRUE),
           {}, BeginGenNames \cup EndStreamNames)
  BY <1>2, <1>1, JoinedParts, Zenon
<1>4. Begins(c, BeginGenNames \cup EndStreamNames)
  BY DEF Begins, BeginGenNames, EndStreamNames
<1>5. Program(c) = CaptureBegin(TRUE) \o CaptureEnd(TRUE, TRUE)
  BY DEF Program, Capture
<1> QED BY <1>3, <1>4, <1>5

LEMMA UartProgram ==
  ASSUME NEW c \in {"uart"}
  PROVE  \E names : Part(c, Program(c), {}, names) /\ Begins(c, names)
<1>1. Part(c, CaptureEnd(TRUE, FALSE), {}, EndUartNames)
  BY EndUartOrdered DEF Players, Stoppers, Captures, UsbCaptures, Benches,
         FifoBenches, DmaBenches, EndUartNames
<1>2. Part(c, CaptureBegin(TRUE), EndUartNames \cup {}, BeginGenNames)
  BY BeginGenOrdered DEF Players, Stoppers, Captures, UsbCaptures, Benches,
         FifoBenches, DmaBenches, BeginGenNames, EndUartNames
<1>3. Part(c, CaptureBegin(TRUE) \o CaptureEnd(TRUE, FALSE),
           {}, BeginGenNames \cup EndUartNames)
  BY <1>2, <1>1, JoinedParts, Zenon
<1>4. Begins(c, BeginGenNames \cup EndUartNames)
  BY DEF Begins, BeginGenNames, EndUartNames
<1>5. Program(c) = CaptureBegin(TRUE) \o CaptureEnd(TRUE, FALSE)
  BY DEF Program, Capture
<1> QED BY <1>3, <1>4, <1>5

LEMMA PlayProgram ==
  ASSUME NEW c \in {"play"}
  PROVE  \E names : Part(c, Program(c), {}, names) /\ Begins(c, names)
<1>1. Part(c, PlayRest, {}, PlayRestNames)
  BY PlayRestOrdered DEF Players, Stoppers, Captures, UsbCaptures, Benches,
         FifoBenches, DmaBenches, PlayRestNames
<1>2. Part(c, PlayStop, PlayRestNames \cup {}, PlayStopNames)
  BY PlayStopOrdered DEF Players, Stoppers, Captures, UsbCaptures, Benches,
         FifoBenches, DmaBenches, PlayStopNames, PlayRestNames
<1>3. Part(c, PlayStop \o PlayRest, {}, PlayStopNames \cup PlayRestNames)
  BY <1>2, <1>1, JoinedParts, Zenon
<1>4. Begins(c, PlayStopNames \cup PlayRestNames)
  BY DEF Begins, PlayStopNames, PlayRestNames
<1>5. Program(c) = PlayStop \o PlayRest
  BY DEF Program, PlayStart, PlayRest
<1> QED BY <1>3, <1>4, <1>5

LEMMA LoopProgram ==
  ASSUME NEW c \in {"loop"}
  PROVE  \E names : Part(c, Program(c), {}, names) /\ Begins(c, names)
<1>1. Part(c, CaptureEnd(FALSE, TRUE), {}, EndUsbNames)
  BY EndUsbOrdered DEF Players, Stoppers, Captures, UsbCaptures, Benches,
         FifoBenches, DmaBenches, EndUsbNames
<1>2. Part(c, CaptureBegin(FALSE), EndUsbNames \cup {}, BeginNames)
  BY BeginOrdered DEF Players, Stoppers, Captures, UsbCaptures, Benches,
         FifoBenches, DmaBenches, BeginNames, EndUsbNames
<1>3. Part(c, CaptureBegin(FALSE) \o CaptureEnd(FALSE, TRUE),
           {}, BeginNames \cup EndUsbNames)
  BY <1>2, <1>1, JoinedParts, Zenon
<1>4. Part(c, PlayRest, BeginNames \cup EndUsbNames \cup {}, PlayRestNames)
  BY PlayRestOrdered DEF Players, Stoppers, Captures, UsbCaptures, Benches,
         FifoBenches, DmaBenches, PlayRestNames, BeginNames, EndUsbNames
<1>5. Part(c, PlayStop, PlayRestNames \cup (BeginNames \cup EndUsbNames \cup {}),
      PlayStopNames)
  BY PlayStopOrdered DEF Players, Stoppers, Captures, UsbCaptures, Benches,
         FifoBenches, DmaBenches, PlayStopNames, PlayRestNames, BeginNames,
                                  EndUsbNames
<1>6. Part(c, PlayStop \o PlayRest,
           BeginNames \cup EndUsbNames \cup {}, PlayStopNames \cup PlayRestNames)
  BY <1>5, <1>4, JoinedParts, Zenon
<1>7. Part(c, (PlayStop \o PlayRest) \o (CaptureBegin(FALSE) \o CaptureEnd(FALSE, TRUE)),
           {}, (PlayStopNames \cup PlayRestNames) \cup (BeginNames \cup EndUsbNames))
  BY <1>6, <1>3, JoinedParts, Zenon
<1>8. Begins(c, (PlayStopNames \cup PlayRestNames) \cup (BeginNames \cup EndUsbNames))
  BY DEF Begins, PlayStopNames, PlayRestNames, BeginNames, EndUsbNames
<1>9. Program(c) = (PlayStop \o PlayRest) \o (CaptureBegin(FALSE) \o CaptureEnd(FALSE, TRUE))
  BY DEF Program, PlayStart, PlayRest, Capture
<1> QED BY <1>7, <1>8, <1>9

LEMMA MimicProgram ==
  ASSUME NEW c \in {"mimic"}
  PROVE  \E names : Part(c, Program(c), {}, names) /\ Begins(c, names)
<1>1. Part(c, GenGo, {}, GenGoNames)
  BY GenGoOrdered DEF Players, Stoppers, Captures, UsbCaptures, Benches,
         FifoBenches, DmaBenches, GenGoNames
<1>2. Part(c, CaptureEnd(FALSE, TRUE), GenGoNames \cup {}, EndUsbNames)
  BY EndUsbOrdered DEF Players, Stoppers, Captures, UsbCaptures, Benches,
         FifoBenches, DmaBenches, EndUsbNames, GenGoNames
<1>3. Part(c, CaptureBegin(FALSE), EndUsbNames \cup (GenGoNames \cup {}), BeginNames)
  BY BeginOrdered DEF Players, Stoppers, Captures, UsbCaptures, Benches,
         FifoBenches, DmaBenches, BeginNames, EndUsbNames, GenGoNames
<1>4. Part(c, CaptureBegin(FALSE) \o CaptureEnd(FALSE, TRUE),
           GenGoNames \cup {}, BeginNames \cup EndUsbNames)
  BY <1>3, <1>2, JoinedParts, Zenon
<1>5. Part(c, GenBegin, BeginNames \cup EndUsbNames \cup (GenGoNames \cup {}), GenBeginNames)
  BY GenBeginOrdered DEF Players, Stoppers, Captures, UsbCaptures, Benches,
         FifoBenches, DmaBenches, GenBeginNames, BeginNames, EndUsbNames,
                                  GenGoNames
<1>6. Part(c, PlayStop, GenBeginNames \cup (BeginNames \cup EndUsbNames \cup
      (GenGoNames \cup {})), PlayStopNames)
  BY PlayStopOrdered DEF Players, Stoppers, Captures, UsbCaptures, Benches,
         FifoBenches, DmaBenches, PlayStopNames, GenBeginNames, BeginNames,
                                  EndUsbNames, GenGoNames
<1>7. Part(c, PlayStop \o GenBegin,
           BeginNames \cup EndUsbNames \cup (GenGoNames \cup {}), PlayStopNames \cup
           GenBeginNames)
  BY <1>6, <1>5, JoinedParts, Zenon
<1>8. Part(c, (PlayStop \o GenBegin) \o (CaptureBegin(FALSE) \o CaptureEnd(FALSE, TRUE)),
           GenGoNames \cup {}, (PlayStopNames \cup GenBeginNames) \cup
           (BeginNames \cup EndUsbNames))
  BY <1>7, <1>4, JoinedParts, Zenon
<1>9. Part(c, ((PlayStop \o GenBegin) \o (CaptureBegin(FALSE) \o CaptureEnd(FALSE,
      TRUE))) \o GenGo,
           {},
           ((PlayStopNames \cup GenBeginNames) \cup (BeginNames \cup EndUsbNames)) \cup
           GenGoNames)
  BY <1>8, <1>1, JoinedParts, Zenon
<1>10. Begins(c, ((PlayStopNames \cup GenBeginNames) \cup (BeginNames \cup
       EndUsbNames)) \cup GenGoNames)
  BY DEF Begins, PlayStopNames, GenBeginNames, BeginNames, EndUsbNames,
                 GenGoNames
<1>11. Program(c) = ((PlayStop \o GenBegin) \o (CaptureBegin(FALSE) \o CaptureEnd(FALSE,
       TRUE))) \o GenGo
  BY DEF Program, GenBegin, GenGo, Capture
<1> QED BY <1>9, <1>10, <1>11

LEMMA CrosscheckProgram ==
  ASSUME NEW c \in {"crosscheck"}
  PROVE  \E names : Part(c, Program(c), {}, names) /\ Begins(c, names)
<1>1. Part(c, CaptureEnd(FALSE, TRUE), {}, EndUsbNames)
  BY EndUsbOrdered DEF Players, Stoppers, Captures, UsbCaptures, Benches,
         FifoBenches, DmaBenches, EndUsbNames
<1>2. Part(c, CaptureBegin(FALSE), EndUsbNames \cup {}, BeginNames)
  BY BeginOrdered DEF Players, Stoppers, Captures, UsbCaptures, Benches,
         FifoBenches, DmaBenches, BeginNames, EndUsbNames
<1>3. Part(c, CaptureBegin(FALSE) \o CaptureEnd(FALSE, TRUE),
           {}, BeginNames \cup EndUsbNames)
  BY <1>2, <1>1, JoinedParts, Zenon
<1>4. Part(c, GenAll, BeginNames \cup EndUsbNames \cup {}, GenAllNames)
  BY GenAllOrdered DEF Players, Stoppers, Captures, UsbCaptures, Benches,
         FifoBenches, DmaBenches, GenAllNames, BeginNames, EndUsbNames
<1>5. Part(c, GenAll \o (CaptureBegin(FALSE) \o CaptureEnd(FALSE, TRUE)),
           {}, GenAllNames \cup (BeginNames \cup EndUsbNames))
  BY <1>4, <1>3, JoinedParts, Zenon
<1>6. Begins(c, GenAllNames \cup (BeginNames \cup EndUsbNames))
  BY DEF Begins, GenAllNames, BeginNames, EndUsbNames
<1>7. Program(c) = GenAll \o (CaptureBegin(FALSE) \o CaptureEnd(FALSE, TRUE))
  BY DEF Program, GenAll, Capture
<1> QED BY <1>5, <1>6, <1>7

LEMMA StopProgram ==
  ASSUME NEW c \in {"stop"}
  PROVE  \E names : Part(c, Program(c), {}, names) /\ Begins(c, names)
<1>1. Part(c, PlayStop, {}, PlayStopNames)
  BY PlayStopOrdered DEF Players, Stoppers, Captures, UsbCaptures, Benches,
         FifoBenches, DmaBenches, PlayStopNames
<1>2. Part(c, BenchStop, PlayStopNames \cup {}, BenchStopNames)
  BY BenchStopOrdered DEF Players, Stoppers, Captures, UsbCaptures, Benches,
         FifoBenches, DmaBenches, BenchStopNames, PlayStopNames
<1>3. Part(c, CoreStop, BenchStopNames \cup (PlayStopNames \cup {}), CoreStopNames)
  BY CoreStopOrdered DEF Players, Stoppers, Captures, UsbCaptures, Benches,
         FifoBenches, DmaBenches, CoreStopNames, BenchStopNames,
                                  PlayStopNames
<1>4. Part(c, CoreStop \o BenchStop,
           PlayStopNames \cup {}, CoreStopNames \cup BenchStopNames)
  BY <1>3, <1>2, JoinedParts, Zenon
<1>5. Part(c, (CoreStop \o BenchStop) \o PlayStop,
           {}, (CoreStopNames \cup BenchStopNames) \cup PlayStopNames)
  BY <1>4, <1>1, JoinedParts, Zenon
<1>6. Begins(c, (CoreStopNames \cup BenchStopNames) \cup PlayStopNames)
  BY DEF Begins, CoreStopNames, BenchStopNames, PlayStopNames
<1>7. Program(c) = (CoreStop \o BenchStop) \o PlayStop
  BY DEF Program, Stop
<1> QED BY <1>5, <1>6, <1>7

LEMMA BenchProgramOrdered ==
  ASSUME NEW c \in Benches
  PROVE  \E names : Part(c, Program(c), {}, names) /\ Begins(c, names)
<1>1. Part(c, BenchBegin, {}, BenchBeginNames)
  BY BenchBeginOrdered DEF Players, Stoppers, Captures, UsbCaptures, Benches,
         FifoBenches, DmaBenches, BenchBeginNames
<1>2. Part(c, BenchStop, BenchBeginNames \cup {}, BenchStopNames)
  BY BenchStopOrdered DEF Players, Stoppers, Captures, UsbCaptures, Benches,
         FifoBenches, DmaBenches, BenchStopNames, BenchBeginNames
<1>3. Part(c, CoreStop, BenchStopNames \cup (BenchBeginNames \cup {}), CoreStopNames)
  BY CoreStopOrdered DEF Players, Stoppers, Captures, UsbCaptures, Benches,
         FifoBenches, DmaBenches, CoreStopNames, BenchStopNames,
                                  BenchBeginNames
<1>4. Part(c, CoreStop \o BenchStop,
           BenchBeginNames \cup {}, CoreStopNames \cup BenchStopNames)
  BY <1>3, <1>2, JoinedParts, Zenon
<1>5. Part(c, (CoreStop \o BenchStop) \o BenchBegin,
           {}, (CoreStopNames \cup BenchStopNames) \cup BenchBeginNames)
  BY <1>4, <1>1, JoinedParts, Zenon
<1>6. Begins(c, (CoreStopNames \cup BenchStopNames) \cup BenchBeginNames)
  BY DEF Begins, CoreStopNames, BenchStopNames, BenchBeginNames, Benches,
                 FifoBenches, DmaBenches
<1>7. Program(c) = (CoreStop \o BenchStop) \o BenchBegin
  BY DEF Program, BenchProgram, BenchBegin, Benches, FifoBenches, DmaBenches
<1> QED BY <1>5, <1>6, <1>7

LEMMA RefusedStart ==
  ASSUME NEW c \in {"stream", "uart"}
  PROVE  \E names : Part(c, RefusedProgram(c), {}, names) /\ Begins(c, names)
<1>1. Part(c, CaptureBegin(TRUE), {}, BeginGenNames)
  BY BeginGenOrdered DEF Players, Stoppers, Captures, UsbCaptures, Benches,
         FifoBenches, DmaBenches, BeginGenNames
<1>2. Begins(c, BeginGenNames)
  BY DEF Begins, BeginGenNames
<1>3. RefusedProgram(c) = CaptureBegin(TRUE)
  BY DEF RefusedProgram
<1> QED BY <1>1, <1>2, <1>3

LEMMA RefusedLoop ==
  ASSUME NEW c \in {"loop"}
  PROVE  \E names : Part(c, RefusedProgram(c), {}, names) /\ Begins(c, names)
<1>1. Part(c, PlayStop, {}, PlayStopNames)
  BY PlayStopOrdered DEF Players, Stoppers, Captures, UsbCaptures, Benches,
         FifoBenches, DmaBenches, PlayStopNames
<1>2. Part(c, CaptureBegin(FALSE), PlayStopNames \cup {}, BeginNames)
  BY BeginOrdered DEF Players, Stoppers, Captures, UsbCaptures, Benches,
         FifoBenches, DmaBenches, BeginNames, PlayStopNames
<1>3. Part(c, PlayRest, BeginNames \cup (PlayStopNames \cup {}), PlayRestNames)
  BY PlayRestOrdered DEF Players, Stoppers, Captures, UsbCaptures, Benches,
         FifoBenches, DmaBenches, PlayRestNames, BeginNames, PlayStopNames
<1>4. Part(c, PlayStop, PlayRestNames \cup (BeginNames \cup (PlayStopNames \cup {})),
      PlayStopNames)
  BY PlayStopOrdered DEF Players, Stoppers, Captures, UsbCaptures, Benches,
         FifoBenches, DmaBenches, PlayStopNames, PlayRestNames, BeginNames
<1>5. Part(c, PlayStop \o PlayRest,
           BeginNames \cup (PlayStopNames \cup {}), PlayStopNames \cup PlayRestNames)
  BY <1>4, <1>3, JoinedParts, Zenon
<1>6. Part(c, (PlayStop \o PlayRest) \o CaptureBegin(FALSE),
           PlayStopNames \cup {}, (PlayStopNames \cup PlayRestNames) \cup BeginNames)
  BY <1>5, <1>2, JoinedParts, Zenon
<1>7. Part(c, ((PlayStop \o PlayRest) \o CaptureBegin(FALSE)) \o PlayStop,
           {}, ((PlayStopNames \cup PlayRestNames) \cup BeginNames) \cup PlayStopNames)
  BY <1>6, <1>1, JoinedParts, Zenon
<1>8. Begins(c, ((PlayStopNames \cup PlayRestNames) \cup BeginNames) \cup PlayStopNames)
  BY DEF Begins, PlayStopNames, PlayRestNames, BeginNames
<1>9. RefusedProgram(c) = ((PlayStop \o PlayRest) \o CaptureBegin(FALSE)) \o PlayStop
  BY DEF RefusedProgram, PlayStart, PlayRest
<1> QED BY <1>7, <1>8, <1>9

LEMMA RefusedMimic ==
  ASSUME NEW c \in {"mimic"}
  PROVE  \E names : Part(c, RefusedProgram(c), {}, names) /\ Begins(c, names)
<1>1. Part(c, CaptureBegin(FALSE), {}, BeginNames)
  BY BeginOrdered DEF Players, Stoppers, Captures, UsbCaptures, Benches,
         FifoBenches, DmaBenches, BeginNames
<1>2. Part(c, GenBegin, BeginNames \cup {}, GenBeginNames)
  BY GenBeginOrdered DEF Players, Stoppers, Captures, UsbCaptures, Benches,
         FifoBenches, DmaBenches, GenBeginNames, BeginNames
<1>3. Part(c, PlayStop, GenBeginNames \cup (BeginNames \cup {}), PlayStopNames)
  BY PlayStopOrdered DEF Players, Stoppers, Captures, UsbCaptures, Benches,
         FifoBenches, DmaBenches, PlayStopNames, GenBeginNames, BeginNames
<1>4. Part(c, PlayStop \o GenBegin,
           BeginNames \cup {}, PlayStopNames \cup GenBeginNames)
  BY <1>3, <1>2, JoinedParts, Zenon
<1>5. Part(c, (PlayStop \o GenBegin) \o CaptureBegin(FALSE),
           {}, (PlayStopNames \cup GenBeginNames) \cup BeginNames)
  BY <1>4, <1>1, JoinedParts, Zenon
<1>6. Begins(c, (PlayStopNames \cup GenBeginNames) \cup BeginNames)
  BY DEF Begins, PlayStopNames, GenBeginNames, BeginNames
<1>7. RefusedProgram(c) = (PlayStop \o GenBegin) \o CaptureBegin(FALSE)
  BY DEF RefusedProgram, GenBegin
<1> QED BY <1>5, <1>6, <1>7

LEMMA RefusedCrosscheck ==
  ASSUME NEW c \in {"crosscheck"}
  PROVE  \E names : Part(c, RefusedProgram(c), {}, names) /\ Begins(c, names)
<1>1. Part(c, GenStop, {}, GenStopNames)
  BY GenStopOrdered DEF Players, Stoppers, Captures, UsbCaptures, Benches,
         FifoBenches, DmaBenches, GenStopNames
<1>2. Part(c, CaptureBegin(FALSE), GenStopNames \cup {}, BeginNames)
  BY BeginOrdered DEF Players, Stoppers, Captures, UsbCaptures, Benches,
         FifoBenches, DmaBenches, BeginNames, GenStopNames
<1>3. Part(c, GenAll, BeginNames \cup (GenStopNames \cup {}), GenAllNames)
  BY GenAllOrdered DEF Players, Stoppers, Captures, UsbCaptures, Benches,
         FifoBenches, DmaBenches, GenAllNames, BeginNames, GenStopNames
<1>4. Part(c, GenAll \o CaptureBegin(FALSE),
           GenStopNames \cup {}, GenAllNames \cup BeginNames)
  BY <1>3, <1>2, JoinedParts, Zenon
<1>5. Part(c, (GenAll \o CaptureBegin(FALSE)) \o GenStop,
           {}, (GenAllNames \cup BeginNames) \cup GenStopNames)
  BY <1>4, <1>1, JoinedParts, Zenon
<1>6. Begins(c, (GenAllNames \cup BeginNames) \cup GenStopNames)
  BY DEF Begins, GenAllNames, BeginNames, GenStopNames
<1>7. RefusedProgram(c) = (GenAll \o CaptureBegin(FALSE)) \o GenStop
  BY DEF RefusedProgram, GenAll, GenStop
<1> QED BY <1>5, <1>6, <1>7

\* Whatever is issued is ordered, and begins where its effects need it to.
LEMMA Issued ==
  ASSUME NEW c \in Starts \cup Benches \cup {"stop"}, NEW s,
         s \in {Program(c)} \cup (IF c \in Refusable THEN {RefusedProgram(c)}
                                                 ELSE {})
  PROVE  /\ s \in Seq(StepNames)
         /\ Ordered(c, s, {})
         /\ Begins(c, Names(s))
<1>1. \E names : Part(c, s, {}, names) /\ Begins(c, names)
  <2>1. CASE s = Program(c)
    <3>1. c \in {"stream"} \/ c \in {"uart"} \/ c \in {"play"} \/ c \in {"loop"}
          \/ c \in {"mimic"} \/ c \in {"crosscheck"} \/ c \in {"stop"}
          \/ c \in Benches
      BY DEF Starts
    <3> QED
      BY <2>1, <3>1, StreamProgram, UartProgram, PlayProgram, LoopProgram,
         MimicProgram, CrosscheckProgram, StopProgram, BenchProgramOrdered
  <2>2. CASE c \in Refusable /\ s = RefusedProgram(c)
    <3>1. c \in {"stream", "uart"} \/ c \in {"loop"} \/ c \in {"mimic"}
          \/ c \in {"crosscheck"}
      BY <2>2 DEF Refusable
    <3> QED BY <2>2, <3>1, RefusedStart, RefusedLoop, RefusedMimic,
               RefusedCrosscheck
  <2> QED BY <2>1, <2>2
<1> QED BY <1>1 DEF Part

----------------------------------------------------------------------------
(* The invariant is inductive *)

\* What is known of a step of a command, and of what is left of it.
After(n) ==
  /\ Left = {n} \cup Left'
  /\ Facts(cmd, n, Left')
  /\ Interlock'
  /\ cmd' = cmd /\ track' = track

LEMMA StepTaken ==
  ASSUME Interlock, NEW n, Step(n)
  PROVE  After(n)
<1>1. /\ todo \in Seq(StepNames) /\ todo # << >> /\ Ordered(cmd, todo, {})
      /\ Head(todo) = n /\ todo' = Tail(todo) /\ svc = "idle"
      /\ UNCHANGED << track, cmd, console_busy, issued, svc >>
  BY DEF Interlock, Step, ConsoleRuns
<1>2. /\ todo' \in Seq(StepNames)
      /\ Names(todo) = {n} \cup Names(todo')
      /\ Facts(cmd, n, Names(todo'))
      /\ Ordered(cmd, todo', {})
  BY <1>1, TakesOne
<1>3. Interlock' BY <1>1, <1>2 DEF Interlock, Preemptive
<1> QED BY <1>1, <1>2, <1>3 DEF After, Left

\* What a step still to come says of the command c, with s left of it.
ComingFrom(c, s, names) ==
  /\ "core_on" \in names => c \in Captures
  /\ "core_off" \in names => c \in Stoppers /\ "in_dma_off_if_tx_dma" \in names
  /\ "tx_dma_off" \in names => c \in Stoppers \cup {"uart"}
  /\ "tx_dma_on" \in names => c \in UsbCaptures
  /\ "in_dma_on" \in names => c \in UsbCaptures
  /\ "bench_on" \in names => c \in Benches
  /\ "bench_off" \in names => c \in Stoppers
  /\ "play_on" \in names => c \in Players
  /\ s = << >> <=> names = {}
Coming == ComingFrom(cmd, todo, Left)

LEMMA OrderTells ==
  ASSUME NEW c, NEW s \in Seq(StepNames), Ordered(c, s, {})
  PROVE  ComingFrom(c, s, Names(s))
<1> DEFINE names == Names(s)
<1>1. ASSUME NEW n \in names
      PROVE  \E after \in SUBSET names : Facts(c, n, after)
  BY <1>1, StillToCome
<1>2. s = << >> <=> names = {}
  <2>1. s = << >> => names = {} BY DEF Names
  <2>2. s # << >> => s[1] \in names
    <3>1. s # << >> => 1 \in DOMAIN s OBVIOUS
    <3> QED BY <3>1 DEF Names
  <2> QED BY <2>1, <2>2
<1> HIDE DEF names
<1>3. /\ "core_on" \in names => c \in Captures
      /\ "core_off" \in names => c \in Stoppers /\ "in_dma_off_if_tx_dma" \in names
      /\ "tx_dma_off" \in names => c \in Stoppers \cup {"uart"}
      /\ "tx_dma_on" \in names => c \in UsbCaptures
      /\ "in_dma_on" \in names => c \in UsbCaptures
  BY <1>1 DEF Facts, CaptureFacts
<1>4. /\ "bench_on" \in names => c \in Benches
      /\ "bench_off" \in names => c \in Stoppers
  BY <1>1 DEF Facts, BenchFacts
<1>5. "play_on" \in names => c \in Players
  BY <1>1 DEF Facts, PlayFacts
<1> QED BY <1>2, <1>3, <1>4, <1>5 DEF ComingFrom, names

LEMMA WhatIsComing ==
  ASSUME Interlock
  PROVE  Coming
BY OrderTells DEF Interlock, Coming, ComingFrom, Left

\* Each step by its effect.
CoreEffect(n) ==
  /\ active' = IF n = "core_on" THEN TRUE
               ELSE IF n = "core_off" THEN FALSE ELSE active
  /\ tx_dma' = IF n = "tx_dma_on" THEN TRUE
               ELSE IF n = "tx_dma_off" THEN FALSE ELSE tx_dma
  /\ adcOn' = IF n = "adc_on" THEN TRUE
              ELSE IF n = "adc_off" THEN FALSE ELSE adcOn
  /\ IF n = "in_dma_on" THEN inDma' = "none" /\ dma_mode_in' = TRUE
     ELSE IF n = "in_dma_off_if_tx_dma" /\ tx_dma
     THEN inDma' = "none" /\ dma_mode_in' = FALSE
     ELSE UNCHANGED << inDma, dma_mode_in >>

LEMMA CoreTaken ==
  ASSUME Interlock, ConsoleCore
  PROVE  \E n \in {"core_on", "core_off", "framer_reset", "tx_dma_on",
                   "tx_dma_off", "in_dma_on", "in_dma_off_if_tx_dma",
                   "adc_on", "adc_off"} :
           After(n) /\ CoreEffect(n)
<1>1. ASSUME NEW n, Step(n) PROVE After(n) BY <1>1, StepTaken
<1>2. CoreStep BY DEF ConsoleCore
<1>3. CASE Step("core_on") /\ active' = TRUE
           /\ UNCHANGED << tx_dma, inDma, dma_mode_in, adcOn >>
  BY <1>1, <1>3 DEF CoreEffect
<1>4. CASE Step("core_off") /\ active' = FALSE
           /\ UNCHANGED << tx_dma, inDma, dma_mode_in, adcOn >>
  BY <1>1, <1>4 DEF CoreEffect
<1>5. CASE Step("framer_reset") /\ UNCHANGED active
           /\ UNCHANGED << tx_dma, inDma, dma_mode_in, adcOn >>
  BY <1>1, <1>5 DEF CoreEffect
<1>6. CASE Step("tx_dma_on") /\ tx_dma' = TRUE
           /\ UNCHANGED << active, inDma, dma_mode_in, adcOn >>
  BY <1>1, <1>6 DEF CoreEffect
<1>7. CASE Step("tx_dma_off") /\ tx_dma' = FALSE
           /\ UNCHANGED << active, inDma, dma_mode_in, adcOn >>
  BY <1>1, <1>7 DEF CoreEffect
<1>8. CASE Step("in_dma_on") /\ ModeIn(TRUE) /\ UNCHANGED << active, tx_dma, adcOn >>
  BY <1>1, <1>8 DEF CoreEffect, ModeIn
<1>9. CASE Step("in_dma_off_if_tx_dma")
           /\ (IF tx_dma THEN ModeIn(FALSE) ELSE UNCHANGED << inDma, dma_mode_in >>)
           /\ UNCHANGED << active, tx_dma, adcOn >>
  BY <1>1, <1>9 DEF CoreEffect, ModeIn
<1>10. CASE Step("adc_on") /\ adcOn' = TRUE
            /\ UNCHANGED << active, tx_dma, inDma, dma_mode_in >>
  BY <1>1, <1>10 DEF CoreEffect
<1>11. CASE Step("adc_off") /\ adcOn' = FALSE
            /\ UNCHANGED << active, tx_dma, inDma, dma_mode_in >>
  BY <1>1, <1>11 DEF CoreEffect
<1> QED
  BY <1>2, <1>3, <1>4, <1>5, <1>6, <1>7, <1>8, <1>9, <1>10, <1>11 DEF CoreStep

LEMMA CoreKeeps ==
  ASSUME IInv, ConsoleCore
  PROVE  IInv'
<1> USE DEF IInv
<1>1. PICK n \in {"core_on", "core_off", "framer_reset", "tx_dma_on",
                  "tx_dma_off", "in_dma_on", "in_dma_off_if_tx_dma",
                  "adc_on", "adc_off"} :
             After(n) /\ CoreEffect(n)
  BY CoreTaken
<1>2. UNCHANGED << bench, playVars, dma_mode_out, outDma, dacVars, pastVars >>
  BY DEF ConsoleCore
<1>3. Coming BY WhatIsComing
<1>4. /\ Left = {n} \cup Left' /\ CaptureFacts(cmd, n, Left') /\ Interlock'
      /\ UNCHANGED << cmd, track >>
  BY <1>1 DEF After, Facts
<1> USE DEF Captures, UsbCaptures, Stoppers, Players, Benches, FifoBenches,
            DmaBenches, Preemptive
<1>5. CommandFlags'
  BY <1>1, <1>2, <1>3, <1>4 DEF CommandFlags, CoreEffect, CaptureFacts, playVars
<1>6. StopSoFar'
  BY <1>1, <1>2, <1>3, <1>4
  DEF StopSoFar, CoreEffect, CaptureFacts, playVars, dacVars
<1>7. InSide'
  BY <1>1, <1>2, <1>3, <1>4
  DEF InSide, CoreEffect, CaptureFacts, Coming, ComingFrom, CommandFlags, CoreHasIn,
      BenchHas,
      BenchWillHave, InDma
<1>8. OutSide'
  BY <1>1, <1>2, <1>3, <1>4
  DEF OutSide, PlayHasOut, PlayWillHaveOut, BenchHas, BenchWillHave, playVars
<1>9. DacSide'
  BY <1>1, <1>2, <1>3, <1>4 DEF DacSide, PlayHasDac, playVars, dacVars
<1>10. LoopSide'
  BY <1>1, <1>2, <1>3, <1>4 DEF LoopSide, pastVars, Coming, ComingFrom
<1>11. NoMixing' BY <1>2, <1>4 DEF NoMixing, pastVars
<1> QED BY <1>4, <1>5, <1>6, <1>7, <1>8, <1>9, <1>10, <1>11

BenchEffect(n) ==
  /\ bench' = IF n = "bench_off" THEN "off"
              ELSE IF n = "bench_on" THEN cmd ELSE bench
  /\ IF n = "bench_modes_off" /\ bench \in DmaBenches
     THEN /\ inDma' = "none" /\ dma_mode_in' = FALSE
          /\ outDma' = "none" /\ dma_mode_out' = FALSE
     ELSE IF n = "bench_modes_on" /\ cmd \in DmaBenches
     THEN /\ inDma' = "none" /\ dma_mode_in' = (cmd # "sink_dma")
          /\ outDma' = "none" /\ dma_mode_out' = (cmd # "flood_dma")
     ELSE UNCHANGED << modeVars, dmaVars >>

LEMMA BenchTaken ==
  ASSUME Interlock, ConsoleBench
  PROVE  \E n \in {"bench_modes_off", "bench_modes_on", "bench_off", "bench_on"} :
           After(n) /\ BenchEffect(n)
<1>1. ASSUME NEW n, Step(n) PROVE After(n) BY <1>1, StepTaken
<1>2. BenchStep BY DEF ConsoleBench
<1> USE DEF BenchEffect, ModeIn, ModeOut, modeVars, dmaVars
<1>3. CASE /\ Step("bench_modes_off")
           /\ IF bench \in DmaBenches THEN ModeIn(FALSE) /\ ModeOut(FALSE)
              ELSE UNCHANGED << modeVars, dmaVars >>
           /\ UNCHANGED bench
  BY <1>1, <1>3
<1>4. CASE /\ Step("bench_modes_on")
           /\ IF cmd \in DmaBenches
              THEN ModeIn(cmd # "sink_dma") /\ ModeOut(cmd # "flood_dma")
              ELSE UNCHANGED << modeVars, dmaVars >>
           /\ UNCHANGED bench
  BY <1>1, <1>4
<1>5. CASE Step("bench_off") /\ bench' = "off" /\ UNCHANGED << modeVars, dmaVars >>
  BY <1>1, <1>5
<1>6. CASE Step("bench_on") /\ bench' = cmd /\ UNCHANGED << modeVars, dmaVars >>
  BY <1>1, <1>6
<1> QED BY <1>2, <1>3, <1>4, <1>5, <1>6 DEF BenchStep

LEMMA BenchKeeps ==
  ASSUME IInv, ConsoleBench, NoDmaBenchesOnRtos
  PROVE  IInv'
<1> USE DEF IInv
<1>1. PICK n \in {"bench_modes_off", "bench_modes_on", "bench_off", "bench_on"} :
             After(n) /\ BenchEffect(n)
  BY BenchTaken
<1>2. UNCHANGED << coreVars, playVars, adcOn, dacVars, pastVars >>
  BY DEF ConsoleBench
<1>3. Coming BY WhatIsComing
<1>4. /\ Left = {n} \cup Left' /\ BenchFacts(cmd, n, Left') /\ Interlock'
      /\ UNCHANGED << cmd, track >>
  BY <1>1 DEF After, Facts
<1>5. Preemptive => cmd \notin DmaBenches
  BY OwnershipAssumption
  DEF Interlock, Preemptive, NoDmaBenchesOnRtos, DmaBenches
<1> USE DEF Captures, UsbCaptures, Stoppers, Players, Benches, FifoBenches,
            DmaBenches, Preemptive
<1>6. CommandFlags'
  BY <1>1, <1>2, <1>3, <1>4, <1>5
  DEF CommandFlags, BenchEffect, BenchFacts, playVars, coreVars
<1>7. StopSoFar'
  BY <1>1, <1>2, <1>3, <1>4
  DEF StopSoFar, BenchEffect, BenchFacts, playVars, dacVars, coreVars
<1>8. InSide'
  BY <1>1, <1>2, <1>3, <1>4
  DEF InSide, BenchEffect, BenchFacts, Coming, ComingFrom, CommandFlags, CoreHasIn, BenchHas,
      BenchWillHave, InDma, coreVars, modeVars, dmaVars
<1>9. OutSide'
  BY <1>1, <1>2, <1>3, <1>4
  DEF OutSide, BenchEffect, BenchFacts, Coming, ComingFrom, CommandFlags, PlayHasOut,
      PlayWillHaveOut, BenchHas, BenchWillHave, OutDma, playVars, modeVars, dmaVars
<1>10. DacSide'
  BY <1>1, <1>2, <1>3, <1>4 DEF DacSide, PlayHasDac, playVars, dacVars
<1>11. LoopSide'
  BY <1>1, <1>2, <1>3, <1>4 DEF LoopSide, pastVars, Coming, ComingFrom
<1>12. NoMixing' BY <1>2, <1>4 DEF NoMixing, pastVars
<1> QED BY <1>4, <1>6, <1>7, <1>8, <1>9, <1>10, <1>11, <1>12

PlayEffect(n) ==
  /\ playing' = IF n = "play_on" THEN TRUE
                ELSE IF n = "play_off" THEN FALSE ELSE playing
  /\ IF n = "out_dma_on" THEN outDma' = "none" /\ dma_mode_out' = TRUE
     ELSE IF n = "out_dma_off_if_playing" /\ playing
     THEN outDma' = "none" /\ dma_mode_out' = FALSE
     ELSE UNCHANGED << outDma, dma_mode_out >>
  /\ record' = IF n = "play_reset" THEN FALSE ELSE record

LEMMA PlayTaken ==
  ASSUME Interlock, ConsolePlay
  PROVE  \E n \in {"out_dma_off_if_playing", "out_dma_on", "play_off", "play_on",
                   "play_unprime", "play_reset"} :
           After(n) /\ PlayEffect(n)
<1>1. ASSUME NEW n, Step(n) PROVE After(n) BY <1>1, StepTaken
<1>2. PlayStep BY DEF ConsolePlay
<1> USE DEF PlayEffect, ModeOut, playVars
<1>3. CASE /\ Step("out_dma_off_if_playing")
           /\ IF playing THEN ModeOut(FALSE) ELSE UNCHANGED << outDma, dma_mode_out >>
           /\ UNCHANGED << playVars, record >>
  BY <1>1, <1>3
<1>4. CASE Step("out_dma_on") /\ ModeOut(TRUE) /\ UNCHANGED << playVars, record >>
  BY <1>1, <1>4
<1>5. CASE /\ Step("play_off") /\ playing' = FALSE
           /\ UNCHANGED << outDma, dma_mode_out, record >>
  BY <1>1, <1>5
<1>6. CASE /\ Step("play_on") /\ playing' = TRUE
           /\ UNCHANGED << outDma, dma_mode_out, record >>
  BY <1>1, <1>6
<1>7. CASE /\ Step("play_unprime")
           /\ UNCHANGED << playing, outDma, dma_mode_out, record >>
  BY <1>1, <1>7
<1>8. CASE /\ Step("play_reset") /\ record' = FALSE
           /\ UNCHANGED << playing, outDma, dma_mode_out >>
  BY <1>1, <1>8
<1> QED BY <1>2, <1>3, <1>4, <1>5, <1>6, <1>7, <1>8 DEF PlayStep

LEMMA PlayKeeps ==
  ASSUME IInv, ConsolePlay
  PROVE  IInv'
<1> USE DEF IInv
<1>1. PICK n \in {"out_dma_off_if_playing", "out_dma_on", "play_off", "play_on",
                  "play_unprime", "play_reset"} :
             After(n) /\ PlayEffect(n)
  BY PlayTaken
<1>2. UNCHANGED << coreVars, bench, dma_mode_in, inDma, adcOn, dacVars, mixed >>
  BY DEF ConsolePlay
<1>3. Coming BY WhatIsComing
<1>4. /\ Left = {n} \cup Left' /\ PlayFacts(cmd, n, Left') /\ Interlock'
      /\ UNCHANGED << cmd, track >>
  BY <1>1 DEF After, Facts
<1> USE DEF Captures, UsbCaptures, Stoppers, Players, Benches, FifoBenches,
            DmaBenches, Preemptive
<1>5. CommandFlags'
  BY <1>1, <1>2, <1>3, <1>4 DEF CommandFlags, PlayEffect, PlayFacts, coreVars, StopSoFar
<1>6. StopSoFar'
  BY <1>1, <1>2, <1>3, <1>4
  DEF StopSoFar, PlayEffect, PlayFacts, dacVars, coreVars
<1>7. InSide'
  BY <1>1, <1>2, <1>3, <1>4
  DEF InSide, CoreHasIn, BenchHas, BenchWillHave, coreVars
<1>8. OutSide'
  BY <1>1, <1>2, <1>3, <1>4
  DEF OutSide, PlayEffect, PlayFacts, Coming, ComingFrom, CommandFlags, PlayHasOut,
      PlayWillHaveOut, BenchHas, BenchWillHave, OutDma, DacSide
<1>9. DacSide'
  BY <1>1, <1>2, <1>3, <1>4
  DEF DacSide, PlayEffect, PlayFacts, PlayHasDac, dacVars
<1>10. LoopSide'
  BY <1>1, <1>2, <1>3, <1>4 DEF LoopSide, PlayEffect, Coming, ComingFrom
<1>11. NoMixing' BY <1>2, <1>4 DEF NoMixing
<1> QED BY <1>4, <1>5, <1>6, <1>7, <1>8, <1>9, <1>10, <1>11

DaccEffect(n) ==
  /\ dacOn' = IF n \in {"gen_init", "gen_stop", "dacc_off"} THEN FALSE
              ELSE IF n \in {"gen_start", "gen_prepare", "dacc_play"} THEN TRUE
              ELSE dacOn
  /\ dacFrom' = IF n \in {"gen_start", "gen_prepare"} THEN "gen"
                ELSE IF n = "dacc_play" THEN "play" ELSE dacFrom
  /\ tc1On' = IF n \in {"gen_prepare", "dacc_play", "tc1_off"} THEN FALSE
              ELSE IF n = "gen_go" THEN TRUE ELSE tc1On

LEMMA DaccTaken ==
  ASSUME Interlock, ConsoleDacc
  PROVE  \E n \in {"gen_init", "gen_stop", "dacc_off", "gen_start", "gen_prepare",
                   "dacc_play", "gen_go", "tc1_off"} :
           After(n) /\ DaccEffect(n)
<1>1. ASSUME NEW n, Step(n) PROVE After(n) BY <1>1, StepTaken
<1>2. DaccStep BY DEF ConsoleDacc
<1> USE DEF DaccEffect
<1>3. CASE /\ Step("gen_init") \/ Step("gen_stop") \/ Step("dacc_off")
           /\ dacOn' = FALSE /\ UNCHANGED << dacFrom, tc1On >>
  BY <1>1, <1>3
<1>4. CASE /\ Step("gen_start") /\ dacOn' = TRUE /\ dacFrom' = "gen"
           /\ UNCHANGED tc1On
  BY <1>1, <1>4
<1>5. CASE /\ Step("gen_prepare") /\ dacFrom' = "gen" /\ dacOn' = TRUE
           /\ tc1On' = FALSE
  BY <1>1, <1>5
<1>6. CASE /\ Step("dacc_play") /\ dacFrom' = "play" /\ dacOn' = TRUE
           /\ tc1On' = FALSE
  BY <1>1, <1>6
<1>7. CASE Step("gen_go") /\ tc1On' = TRUE /\ UNCHANGED << dacFrom, dacOn >>
  BY <1>1, <1>7
<1>8. CASE Step("tc1_off") /\ tc1On' = FALSE /\ UNCHANGED << dacFrom, dacOn >>
  BY <1>1, <1>8
<1> QED BY <1>2, <1>3, <1>4, <1>5, <1>6, <1>7, <1>8 DEF DaccStep

LEMMA DaccKeeps ==
  ASSUME IInv, ConsoleDacc
  PROVE  IInv'
<1> USE DEF IInv
<1>1. PICK n \in {"gen_init", "gen_stop", "dacc_off", "gen_start", "gen_prepare",
                  "dacc_play", "gen_go", "tc1_off"} :
             After(n) /\ DaccEffect(n)
  BY DaccTaken
<1>2. UNCHANGED << coreVars, bench, playVars, modeVars, dmaVars, adcOn, pastVars >>
  BY DEF ConsoleDacc
<1>3. Coming BY WhatIsComing
<1>4. /\ Left = {n} \cup Left' /\ PlayFacts(cmd, n, Left') /\ Interlock'
      /\ UNCHANGED << cmd, track >>
  BY <1>1 DEF After, Facts
<1> USE DEF Captures, UsbCaptures, Stoppers, Players, Benches, FifoBenches,
            DmaBenches, Preemptive
<1>5. CommandFlags'
  BY <1>1, <1>2, <1>3, <1>4 DEF CommandFlags, playVars, coreVars
<1>6. StopSoFar'
  BY <1>1, <1>2, <1>3, <1>4
  DEF StopSoFar, DaccEffect, PlayFacts, playVars, coreVars
<1>7. InSide'
  BY <1>1, <1>2, <1>3, <1>4
  DEF InSide, CoreHasIn, BenchHas, BenchWillHave, coreVars, modeVars, dmaVars
<1>8. OutSide'
  BY <1>1, <1>2, <1>3, <1>4
  DEF OutSide, PlayHasOut, PlayWillHaveOut, BenchHas, BenchWillHave, playVars,
      modeVars, dmaVars
<1>9. DacSide'
  BY <1>1, <1>2, <1>3, <1>4
  DEF DacSide, DaccEffect, PlayFacts, PlayHasDac, Coming, ComingFrom, CommandFlags, playVars
<1>10. LoopSide'
  BY <1>1, <1>2, <1>3, <1>4 DEF LoopSide, Coming, ComingFrom, pastVars
<1>11. NoMixing' BY <1>2, <1>4 DEF NoMixing, pastVars
<1> QED BY <1>4, <1>5, <1>6, <1>7, <1>8, <1>9, <1>10, <1>11

\* A command is issued: a stop after anything, anything else after a stop.
LEMMA IssueKeeps ==
  ASSUME IInv, StopsFirst, NEW c \in Commands[track], Issue(c)
  PROVE  IInv'
<1> USE DEF IInv
<1>1. /\ todo = << >> /\ cmd' = c /\ console_busy' = TRUE /\ svc = "idle"
      /\ c # "stop" => cmd = "stop"
      /\ todo' \in {Program(c)} \cup (IF c \in Refusable THEN {RefusedProgram(c)}
                                                        ELSE {})
      /\ UNCHANGED << track, svc, coreVars, bench, playVars, modeVars, dmaVars,
                      adcOn, dacVars, pastVars >>
  BY DEF Issue, ConsoleRuns
<1>2. c \in Starts \cup Benches \cup {"stop"}
  BY OwnershipAssumption DEF Interlock
<1>3. todo' \in Seq(StepNames) /\ Ordered(c, todo', {}) /\ Begins(c, Left')
  BY <1>1, <1>2, Issued DEF Left
<1>4. Left = {} BY <1>1, WhatIsComing DEF Coming, ComingFrom
<1>5. Interlock'
  BY <1>1, <1>3 DEF Interlock, Preemptive
<1>6. Coming' BY <1>1, <1>3, OrderTells DEF Coming, Left
<1> USE DEF Begins, Captures, UsbCaptures, Stoppers, Players, Benches,
            FifoBenches, DmaBenches, Preemptive
<1>7. c # "stop" => ~active /\ ~tx_dma /\ ~playing /\ bench = "off" /\ ~dacOn
  BY <1>1, <1>4 DEF StopSoFar
<1>8. c # "stop" =>
        /\ ~dma_mode_in /\ inDma = "none"
        /\ ~Preemptive => ~dma_mode_out /\ outDma = "none"
  BY <1>1, <1>4, <1>7
  DEF InSide, OutSide, CoreHasIn, BenchHas, BenchWillHave, PlayHasOut,
      PlayWillHaveOut, InDma, OutDma
<1>9. CommandFlags'
  BY <1>1, <1>7 DEF CommandFlags, coreVars, playVars
<1>10. StopSoFar'
  BY <1>1, <1>3, <1>7 DEF StopSoFar, coreVars, playVars, dacVars
<1>11. InSide'
  BY <1>1, <1>3, <1>4, <1>6, <1>7, <1>8
  DEF InSide, Coming, ComingFrom, CoreHasIn, BenchHas, BenchWillHave, InDma, coreVars,
      modeVars, dmaVars
<1>12. OutSide'
  BY <1>1, <1>3, <1>4, <1>6, <1>7, <1>8
  DEF OutSide, Coming, ComingFrom, PlayHasOut, PlayWillHaveOut, BenchHas, BenchWillHave,
      OutDma, playVars, modeVars, dmaVars
<1>13. DacSide'
  BY <1>1, <1>3, <1>4, <1>6, <1>7
  DEF DacSide, Coming, ComingFrom, PlayHasDac, playVars, dacVars
<1>14. LoopSide' BY <1>1, <1>3 DEF LoopSide
<1>15. NoMixing' BY <1>1 DEF NoMixing, pastVars
<1> QED BY <1>5, <1>9, <1>10, <1>11, <1>12, <1>13, <1>14, <1>15

LEMMA DrainedKeeps ==
  ASSUME IInv, ConsoleDrained
  PROVE  IInv'
<1>1. /\ todo = << >> /\ UNCHANGED << track, cmd, todo, svc >>
      /\ UNCHANGED << coreVars, bench, playVars, modeVars, dmaVars, adcOn,
                      dacVars, pastVars >>
  BY DEF ConsoleDrained
<1>2. Interlock' BY <1>1 DEF IInv, Interlock, Preemptive
<1>3. CommandFlags' /\ StopSoFar' /\ LoopSide' /\ NoMixing'
  BY <1>1 DEF IInv, CommandFlags, StopSoFar, LoopSide, NoMixing, Preemptive,
     Left, coreVars, playVars, dacVars, pastVars
<1>4. InSide' /\ OutSide' /\ DacSide'
  BY <1>1 DEF IInv, InSide, OutSide, DacSide, CoreHasIn, BenchHas, BenchWillHave,
     PlayHasOut, PlayWillHaveOut, PlayHasDac, Preemptive, Left, coreVars,
     playVars, modeVars, dmaVars, dacVars
<1> QED BY <1>2, <1>3, <1>4 DEF IInv

----------------------------------------------------------------------------
(* The service pass *)

\* A pass moves on: the console is where it was.
LEMMA PassKeepsInterlock ==
  ASSUME Interlock, NEW from, from # "idle", NEW to, PassMoves(from, to)
  PROVE  /\ Interlock'
         /\ Preemptive \/ todo = << >>
         /\ Left' = Left /\ Preemptive' = Preemptive
         /\ UNCHANGED << track, cmd, todo, console_busy, active, tx_dma, adcOn,
                         dacFrom >>
BY DEF Interlock, PassMoves, consoleVars, coreVars, Left, Preemptive

\* The FIFO path touches no endpoint in DMA mode: nothing is noted for IN if IN
\* is not in DMA mode, and on bare metal nothing for OUT if OUT is not.
LEMMA FifoPathKeeps ==
  ASSUME NoMixing, NEW ends, FifoPath(ends), Preemptive' = Preemptive,
         "IN" \in ends => ~InTouched,
         "OUT" \in ends => Preemptive \/ ~OutTouched
  PROVE  NoMixing'
BY DEF NoMixing, FifoPath

LEMMA BeginsKeeps ==
  ASSUME IInv, PassBegins
  PROVE  IInv'
<1>1. /\ Preemptive \/ todo = << >>
      /\ UNCHANGED << consoleVars, coreVars, bench, playVars, modeVars, dmaVars,
                      adcOn, dacVars, pastVars >>
  BY DEF PassBegins
<1>2. Interlock' BY <1>1 DEF IInv, Interlock, Preemptive, consoleVars
<1>3. CommandFlags' /\ StopSoFar' /\ LoopSide' /\ NoMixing'
  BY <1>1 DEF IInv, CommandFlags, StopSoFar, LoopSide, NoMixing, Preemptive,
     Left, consoleVars, coreVars, playVars, dacVars, pastVars
<1>4. InSide' /\ OutSide' /\ DacSide'
  BY <1>1 DEF IInv, InSide, OutSide, DacSide, CoreHasIn, BenchHas, BenchWillHave,
     PlayHasOut, PlayWillHaveOut, PlayHasDac, Preemptive, Left, consoleVars,
     coreVars, playVars, modeVars, dmaVars, dacVars
<1> QED BY <1>2, <1>3, <1>4 DEF IInv

LEMMA AbandonsKeeps ==
  ASSUME IInv, PlayAbandons
  PROVE  IInv'
<1> USE DEF IInv
<1>1. /\ Interlock' /\ Left' = Left /\ Preemptive' = Preemptive
      /\ Preemptive \/ todo = << >>
      /\ UNCHANGED << track, cmd, todo, active, tx_dma, adcOn, dacFrom >>
  BY PassKeepsInterlock DEF PlayAbandons
<1>2. /\ playing /\ outDma' = "none" /\ dma_mode_out' = FALSE /\ playing' = FALSE
      /\ tc1On' = FALSE /\ dacOn' = FALSE
      /\ UNCHANGED << bench, dma_mode_in, inDma, mixed, record >>
  BY DEF PlayAbandons, ModeOut, pastVars
<1>3. CommandFlags' /\ StopSoFar' /\ LoopSide'
  BY <1>1, <1>2 DEF CommandFlags, StopSoFar, LoopSide
<1>4. InSide'
  BY <1>1, <1>2 DEF InSide, CoreHasIn, BenchHas, BenchWillHave
<1>5. OutSide' BY <1>1, <1>2 DEF OutSide
<1>6. DacSide' BY <1>1, <1>2 DEF DacSide, PlayHasDac
<1>7. NoMixing' BY <1>1, <1>2 DEF NoMixing
<1> QED BY <1>1, <1>3, <1>4, <1>5, <1>6, <1>7

LEMMA PlayServesKeeps ==
  ASSUME IInv, PlayServes
  PROVE  IInv'
<1> USE DEF IInv
<1>1. /\ Interlock' /\ Left' = Left /\ Preemptive' = Preemptive
      /\ Preemptive \/ todo = << >>
      /\ UNCHANGED << track, cmd, todo, active, tx_dma, adcOn, dacFrom >>
  BY PassKeepsInterlock DEF PlayServes
<1>2. /\ playing /\ outDma' \in {outDma, "play"}
      /\ UNCHANGED << bench, playing, dma_mode_in, dma_mode_out, inDma, dacOn,
                      mixed, record >>
  BY DEF PlayServes, modeVars
<1>3. Coming BY WhatIsComing
<1>4. CommandFlags' BY <1>1, <1>2 DEF CommandFlags
<1>5. StopSoFar' BY <1>1, <1>2, <1>3 DEF StopSoFar, Coming, ComingFrom
<1>6. InSide'
  BY <1>1, <1>2 DEF InSide, CoreHasIn, BenchHas, BenchWillHave
<1>7. OutSide'
  BY <1>1, <1>2, <1>3
  DEF OutSide, Coming, ComingFrom, PlayHasOut, PlayWillHaveOut, BenchHas, BenchWillHave
<1>8. DacSide' /\ LoopSide' BY <1>1, <1>2 DEF DacSide, PlayHasDac, LoopSide
<1>9. NoMixing' BY <1>1, <1>2 DEF NoMixing
<1> QED BY <1>1, <1>4, <1>5, <1>6, <1>7, <1>8, <1>9

LEMMA BenchServesKeeps ==
  ASSUME IInv, BenchServes
  PROVE  IInv'
<1> USE DEF IInv
<1> DEFINE ends == CASE bench = "flood"  -> {"IN"}
                     [] bench = "sink"   -> {"OUT"}
                     [] bench = "duplex" -> {"IN", "OUT"}
                     [] OTHER            -> {}
<1>1. /\ Interlock' /\ Left' = Left /\ Preemptive' = Preemptive
      /\ Preemptive \/ todo = << >>
      /\ UNCHANGED << track, cmd, todo, active, tx_dma, adcOn, dacFrom >>
  BY PassKeepsInterlock DEF BenchServes
<1>2. /\ FifoPath(ends)
      /\ inDma' = inDma \/ (bench \in InDma /\ inDma' = "bench")
      /\ outDma' = outDma \/ (bench \in OutDma /\ outDma' = "bench")
      /\ UNCHANGED << bench, playing, dma_mode_in, dma_mode_out, dacOn, tc1On,
                      record >>
  BY DEF BenchServes, playVars, modeVars, InDma, OutDma
<1>3. Coming BY WhatIsComing
<1> HIDE DEF ends
<1>4. CommandFlags' /\ StopSoFar' /\ DacSide' /\ LoopSide'
  BY <1>1, <1>2 DEF CommandFlags, StopSoFar, DacSide, PlayHasDac, LoopSide
<1>5. InSide'
  BY <1>1, <1>2, <1>3
  DEF InSide, Coming, ComingFrom, CommandFlags, CoreHasIn, BenchHas, BenchWillHave, InDma,
      DmaBenches
<1>6. OutSide'
  BY <1>1, <1>2, <1>3
  DEF OutSide, Coming, ComingFrom, PlayHasOut, PlayWillHaveOut, BenchHas, BenchWillHave
<1>7. "IN" \in ends => ~InTouched
  BY DEF ends, InTouched, InSide, CommandFlags, CoreHasIn, BenchHas,
     BenchWillHave, InDma
<1>8. "OUT" \in ends => Preemptive \/ ~OutTouched
  BY <1>1, <1>3
  DEF ends, OutTouched, OutSide, CommandFlags, Coming, ComingFrom, PlayHasOut,
      PlayWillHaveOut, BenchHas, BenchWillHave, OutDma
<1>9. NoMixing' BY <1>1, <1>2, <1>7, <1>8, FifoPathKeeps
<1> QED BY <1>1, <1>4, <1>5, <1>6, <1>9

LEMMA CoreServesKeeps ==
  ASSUME IInv, CoreServes
  PROVE  IInv'
<1> USE DEF IInv
<1>1. /\ Interlock' /\ Left' = Left /\ Preemptive' = Preemptive
      /\ UNCHANGED << track, cmd, todo, active, tx_dma, adcOn, dacFrom >>
  BY PassKeepsInterlock DEF CoreServes
<1>2. /\ inDma' = inDma \/ (active /\ tx_dma /\ inDma' = "core")
      /\ UNCHANGED << bench, playing, dma_mode_in, dma_mode_out, outDma, dacOn,
                      tc1On, mixed, record >>
  BY DEF CoreServes, playVars, modeVars, pastVars
<1>3. Coming BY WhatIsComing
<1>4. CommandFlags' /\ StopSoFar' /\ DacSide' /\ LoopSide' /\ NoMixing'
  BY <1>1, <1>2
  DEF CommandFlags, StopSoFar, DacSide, PlayHasDac, LoopSide, NoMixing
<1>5. InSide'
  BY <1>1, <1>2, <1>3
  DEF InSide, Coming, ComingFrom, CommandFlags, StopSoFar, CoreHasIn, BenchHas,
      BenchWillHave,
      UsbCaptures, Stoppers, Benches, FifoBenches, DmaBenches
<1>6. OutSide'
  BY <1>1, <1>2
  DEF OutSide, PlayHasOut, PlayWillHaveOut, BenchHas, BenchWillHave
<1> QED BY <1>1, <1>4, <1>5, <1>6

\* The parts of the invariant that do not look at what the FIFO path notes.
LEMMA QuietPassKeeps ==
  ASSUME IInv, NEW from, from # "idle", NEW to, PassMoves(from, to),
         UNCHANGED << bench, playVars, modeVars, dmaVars, dacOn, tc1On >>,
         record' => record \/ todo = << >>, NoMixing'
  PROVE  IInv'
<1> USE DEF IInv
<1>1. /\ Interlock' /\ Left' = Left /\ Preemptive' = Preemptive
      /\ UNCHANGED << track, cmd, todo, active, tx_dma, adcOn, dacFrom >>
  BY PassKeepsInterlock
<1>2. CommandFlags' /\ StopSoFar' /\ DacSide' /\ LoopSide'
  BY <1>1 DEF CommandFlags, StopSoFar, DacSide, PlayHasDac, LoopSide, playVars
<1>3. InSide'
  BY <1>1 DEF InSide, CoreHasIn, BenchHas, BenchWillHave, modeVars, dmaVars
<1>4. OutSide'
  BY <1>1 DEF OutSide, PlayHasOut, PlayWillHaveOut, BenchHas, BenchWillHave,
     playVars, modeVars, dmaVars
<1> QED BY <1>1, <1>2, <1>3, <1>4

LEMMA PlayIdleKeeps ==
  ASSUME IInv, PlayIdle
  PROVE  IInv'
<1>1. NoMixing'
  BY PassKeepsInterlock DEF IInv, PlayIdle, NoMixing, pastVars
<1> QED BY <1>1, QuietPassKeeps DEF PlayIdle, pastVars

LEMMA DrainKeeps ==
  ASSUME IInv, Drain
  PROVE  IInv'
<1> USE DEF IInv
<1>1. /\ Left' = Left /\ Preemptive' = Preemptive
      /\ Preemptive \/ todo = << >>
  BY PassKeepsInterlock DEF Drain
<1>2. Coming BY WhatIsComing
<1>3. CASE ~playing /\ ~StreamOutInUse
  <2>1. Preemptive \/ ~OutTouched
    BY <1>1, <1>2, <1>3
    DEF OutTouched, OutSide, StreamOutInUse, Coming, ComingFrom, PlayHasOut, PlayWillHaveOut,
        BenchHas, BenchWillHave, OutDma
  <2>2. NoMixing' BY <1>1, <1>3, <2>1, FifoPathKeeps DEF Drain
  <2> QED BY <2>2, QuietPassKeeps DEF Drain
<1>4. CASE ~(~playing /\ ~StreamOutInUse)
  <2>1. NoMixing' BY <1>1, <1>4 DEF Drain, NoMixing
  <2> QED BY <2>1, QuietPassKeeps DEF Drain
<1> QED BY <1>3, <1>4

LEMMA ReportKeeps ==
  ASSUME IInv, Report
  PROVE  IInv'
<1> USE DEF IInv
<1>1. /\ Left' = Left /\ Preemptive' = Preemptive
      /\ Preemptive \/ todo = << >>
  BY PassKeepsInterlock DEF Report
<1>2. Coming BY WhatIsComing
<1>3. CASE MayReport /\ FifoPath({"IN"}) /\ record' = TRUE
  <2>1. todo = << >> BY <1>1, <1>3 DEF MayReport, Interlock
  <2>2. ~InTouched
    BY <1>2, <1>3, <2>1
    DEF InTouched, InSide, MayReport, StreamInInUse, Coming, ComingFrom, CoreHasIn, BenchHas,
        BenchWillHave, InDma
  <2>3. NoMixing' BY <1>1, <1>3, <2>2, FifoPathKeeps
  <2> QED BY <2>1, <2>3, QuietPassKeeps DEF Report
<1>4. CASE UNCHANGED << mixed, record >>
  <2>1. NoMixing' BY <1>1, <1>4 DEF NoMixing
  <2> QED BY <1>4, <2>1, QuietPassKeeps DEF Report
<1> QED BY <1>3, <1>4 DEF Report

LEMMA TransferEndsKeeps ==
  ASSUME IInv, TransferEnds
  PROVE  IInv'
<1>1. /\ inDma' \in {inDma, "none"} /\ outDma' \in {outDma, "none"}
      /\ UNCHANGED << consoleVars, svc, coreVars, bench, playVars, modeVars, adcOn,
                      dacVars, pastVars >>
  BY DEF TransferEnds
<1>2. Interlock' BY <1>1 DEF IInv, Interlock, Preemptive, consoleVars
<1>3. CommandFlags' /\ StopSoFar' /\ LoopSide' /\ NoMixing'
  BY <1>1 DEF IInv, CommandFlags, StopSoFar, LoopSide, NoMixing, Preemptive,
     Left, consoleVars, coreVars, playVars, dacVars, pastVars
<1>4. InSide' /\ OutSide' /\ DacSide'
  BY <1>1 DEF IInv, InSide, OutSide, DacSide, CoreHasIn, BenchHas, BenchWillHave,
     PlayHasOut, PlayWillHaveOut, PlayHasDac, Preemptive, Left, consoleVars,
     coreVars, playVars, modeVars, dacVars
<1> QED BY <1>2, <1>3, <1>4 DEF IInv

LEMMA StutterKeeps ==
  ASSUME IInv, UNCHANGED vars
  PROVE  IInv'
<1>1. Interlock' BY DEF vars, IInv, Interlock, Preemptive, consoleVars
<1>2. CommandFlags' /\ StopSoFar' /\ LoopSide' /\ NoMixing'
  BY DEF vars, IInv, CommandFlags, StopSoFar, LoopSide, NoMixing, Preemptive,
     Left, consoleVars, coreVars, playVars, dacVars, pastVars
<1>3. InSide' /\ OutSide' /\ DacSide'
  BY DEF vars, IInv, InSide, OutSide, DacSide, CoreHasIn, BenchHas,
     BenchWillHave, PlayHasOut, PlayWillHaveOut, PlayHasDac, Preemptive, Left,
     consoleVars, coreVars, playVars, modeVars, dmaVars, dacVars
<1> QED BY <1>1, <1>2, <1>3 DEF IInv

\* With a stop before every start, and on the RTOS track no DMA bench, the
\* invariant holds of every reachable state, for any commands, on any track.
THEOREM Ownership_Inductive ==
  ASSUME StopsFirst, NoDmaBenchesOnRtos
  PROVE  Spec => []IInv
<1>1. Init => IInv
  <2> SUFFICES ASSUME Init PROVE IInv OBVIOUS
  <2>1. Part(cmd, todo, {}, {}) BY Literal0 DEF Init
  <2>2. Left = {} BY <2>1 DEF Left, Part
  <2>3. Interlock BY <2>1 DEF Init, Interlock, Part
  <2>4. CommandFlags /\ StopSoFar /\ LoopSide /\ NoMixing
    BY DEF Init, CommandFlags, StopSoFar, LoopSide, NoMixing, Benches,
       FifoBenches, DmaBenches
  <2>5. InSide /\ OutSide /\ DacSide
    BY <2>2 DEF Init, InSide, OutSide, DacSide, PlayHasDac
  <2> QED BY <2>3, <2>4, <2>5 DEF IInv
<1>2. IInv /\ [Next]_vars => IInv'
  <2> SUFFICES ASSUME IInv, [Next]_vars PROVE IInv' OBVIOUS
  <2>1. CASE Console
    BY <2>1, IssueKeeps, DrainedKeeps, CoreKeeps, BenchKeeps, PlayKeeps, DaccKeeps
    DEF Console
  <2>2. CASE Pass
    BY <2>2, BeginsKeeps, PlayIdleKeeps, AbandonsKeeps, PlayServesKeeps,
       BenchServesKeeps, CoreServesKeeps, DrainKeeps, ReportKeeps
    DEF Pass
  <2>3. CASE TransferEnds BY <2>3, TransferEndsKeeps
  <2>4. CASE UNCHANGED vars BY <2>4, StutterKeeps
  <2> QED BY <2>1, <2>2, <2>3, <2>4 DEF Next
<1> QED BY <1>1, <1>2, PTL DEF Spec

----------------------------------------------------------------------------
(* What follows *)

\* The FIFO path and DMA never meet on an endpoint: on bare metal on neither,
\* on the RTOS track not on bulk IN, wherever the service task preempts.
THEOREM Ownership_NoMixing ==
  ASSUME StopsFirst, NoDmaBenchesOnRtos
  PROVE  Spec => []NoMixing
<1>1. IInv => NoMixing BY DEF IInv
<1> QED BY <1>1, Ownership_Inductive, PTL

\* Between commands every transfer belongs to the mode that is active, and the
\* converter to playback exactly while playback is.
THEOREM Ownership_TransfersAreOwned ==
  ASSUME StopsFirst, NoDmaBenchesOnRtos
  PROVE  Spec => []TransfersAreOwned
<1>1. IInv => TransfersAreOwned
  <2> SUFFICES ASSUME IInv, todo = << >>
               PROVE  InOwned /\ DacOwned /\ (Preemptive \/ OutOwned)
    BY DEF TransfersAreOwned
  <2>1. Left = {} BY WhatIsComing DEF IInv, Coming, ComingFrom
  <2>2. InOwned
    BY <2>1 DEF IInv, InSide, CoreHasIn, BenchHas, InDma, InOwned
  <2>3. DacOwned BY <2>1 DEF IInv, DacSide, PlayHasDac, DacOwned
  <2>4. Preemptive \/ OutOwned
    BY <2>1 DEF IInv, OutSide, PlayHasOut, BenchHas, OutDma, OutOwned
  <2> QED BY <2>2, <2>3, <2>4
<1> QED BY <1>1, Ownership_Inductive, PTL

\* A stop leaves nothing behind, whatever was running and however it had begun.
THEOREM Ownership_StopIsComplete ==
  ASSUME StopsFirst, NoDmaBenchesOnRtos
  PROVE  Spec => []StopIsComplete
<1>1. IInv => StopIsComplete
  <2> SUFFICES ASSUME IInv, cmd = "stop", todo = << >>
               PROVE  IF Preemptive THEN CaptureQuiet ELSE Quiet
    BY DEF StopIsComplete
  <2>1. Left = {} BY WhatIsComing DEF IInv, Coming, ComingFrom
  <2>2. /\ ~active /\ ~tx_dma /\ ~adcOn /\ bench = "off" /\ ~playing /\ ~dacOn
        /\ Preemptive \/ ~tc1On
    BY <2>1 DEF IInv, StopSoFar
  <2>3. CaptureQuiet
    BY <2>1, <2>2
    DEF IInv, InSide, CoreHasIn, BenchHas, BenchWillHave, InDma, CaptureQuiet
  <2>4. Preemptive \/ Quiet
    BY <2>1, <2>2, <2>3
    DEF IInv, OutSide, PlayHasOut, PlayWillHaveOut, BenchHas, BenchWillHave,
        OutDma, Quiet
  <2> QED BY <2>3, <2>4
<1> QED BY <1>1, Ownership_Inductive, PTL

\* A loop's capture begins with no status record in the endpoint.
THEOREM Ownership_LoopStartsClean ==
  ASSUME StopsFirst, NoDmaBenchesOnRtos
  PROVE  Spec => LoopStartsClean
<1>1. IInv /\ [Next]_vars => [cmd = "loop" /\ ~active /\ active' => ~record]_vars
  <2> SUFFICES ASSUME IInv, Next, cmd = "loop", ~active, active' PROVE ~record
    BY DEF vars, coreVars
  <2>1. ConsoleCore
    BY DEF Next, Console, Issue, ConsoleDrained, ConsoleBench, ConsolePlay,
       ConsoleDacc, Pass, PassBegins, PlayIdle, PlayAbandons, PlayServes,
       BenchServes, CoreServes, Drain, Report, PassMoves, TransferEnds, coreVars
  <2>2. PICK n \in {"core_on", "core_off", "framer_reset", "tx_dma_on",
                    "tx_dma_off", "in_dma_on", "in_dma_off_if_tx_dma",
                    "adc_on", "adc_off"} :
               After(n) /\ CoreEffect(n)
    BY <2>1, CoreTaken DEF IInv
  <2>3. n = "core_on" BY <2>2 DEF CoreEffect
  <2>4. "play_reset" \notin Left
    BY <2>2, <2>3 DEF After, Facts, CaptureFacts
  <2>5. todo # << >> BY <2>2, WhatIsComing DEF IInv, Coming, ComingFrom, After
  <2> QED BY <2>4, <2>5 DEF IInv, LoopSide
<1> QED BY <1>1, Ownership_Inductive, PTL DEF Spec, LoopStartsClean

----------------------------------------------------------------------------
(* ClockRef: the bus and the polls *)

\* The number that the loop may see is the host's, or the one it has seen; the
\* loop hears of a reset or a detach before it can be configured again.
BusInv ==
  /\ time \in Nat /\ phase \in 0 .. FRAME - 1
  /\ host \in Numbers /\ fnum \in Numbers /\ last_fnum \in Numbers
  /\ link \in {"off", "up", "silent"}
  /\ configured \in BOOLEAN /\ eorst \in BOOLEAN /\ started \in BOOLEAN
  /\ Attending => /\ link # "off"
                  /\ fnum = host \/ fnum = last_fnum
                  /\ link = "silent" => fnum = last_fnum
  /\ started /\ ~configured => eorst \/ link = "off"

Err      == elapsed_us - FRAME * frames
PairErr  == edge_elapsed - FRAME * edge_frames
Slack(n) == (FRAME - 1) * n

\* Between epochs each of them has cost less than a frame, in what was counted
\* and in the pair.
SumInv ==
  /\ frames \in Nat /\ elapsed_us \in Nat /\ epochs \in Nat
  /\ edge_frames \in Nat /\ edge_elapsed \in Nat
  /\ -Slack(epochs) <= Err /\ Err <= Slack(epochs)
  /\ -Slack(epochs) <= PairErr /\ PairErr <= Slack(epochs)

\* The last number was read q ticks into frame k, and now is phase ticks into
\* frame e: the host is as many numbers further, and what the epoch under way
\* has cost so far is told by q alone.
Since(e, k, q) ==
  /\ FRAME * k + q <= time /\ time < FRAME * k + q + CLOCK
  /\ last_us = (FRAME * k + q) % CLOCK
  /\ Attending => host = (last_fnum + (e - k)) % WRAP
  /\ q - Slack(epochs) <= Err /\ Err <= q + Slack(epochs) - (FRAME - 1)
SpanInv ==
  \E e \in Nat :
    /\ time = FRAME * e + phase
    /\ started => \E k \in Nat, q \in 0 .. FRAME - 1 : Since(e, k, q)

ClockInv == BusInv /\ SumInv /\ SpanInv

----------------------------------------------------------------------------
(* The numbers *)

LEMMA ModBack ==
  ASSUME NEW N \in Nat \ {0}, NEW i \in Int, NEW k \in Int
  PROVE  ((i % N) - k) % N = (i - k) % N
<1> DEFINE m == -k
           x == i % N
<1>1. m \in Int /\ x \in Int /\ x + m = x - k /\ i + m = i - k
  BY DivMod
<1>2. (x + m) % N = (i + m) % N
  <2> HIDE DEF m
  <2> QED
    BY <1>1, ModShift
<1> HIDE DEF m, x
<1>3. (x - k) % N = (i - k) % N
  BY <1>1, <1>2
<1> QED
  BY <1>3 DEF x

\* Less than a turn apart, two readings of micros() tell the time between them.
LEMMA GapIsTrue ==
  ASSUME NEW C \in Nat \ {0}, NEW s \in Nat, NEW t \in Nat, s <= t, t < s + C
  PROVE  ((t % C) - (s % C)) % C = t - s
<1> DEFINE b == s \div C
           r == s % C
<1>1. b \in Int /\ r \in 0 .. C - 1 /\ s = C * b + r
  BY DivMod
<1> HIDE DEF b, r
<1>2. ((t % C) - r) % C = (t - r) % C
  <2>1. C \in Nat \ {0} /\ t \in Int /\ r \in Int
    BY <1>1
  <2> QED
    BY <2>1, ModBack, Zenon
<1>3. t - r = b * C + (t - s)
  BY <1>1
<1>4. (b * C + (t - s)) % C = t - s
  <2>1. t - s \in 0 .. C - 1
    OBVIOUS
  <2> QED
    BY <1>1, <2>1, UnitOf
<1> QED
  BY <1>2, <1>3, <1>4 DEF r

\* No more than a turn on, a number that has changed tells how far it is.
LEMMA StepsAreTrue ==
  ASSUME NEW W \in Nat \ {0}, NEW l \in 0 .. W - 1, NEW d \in 0 .. W,
         (l + d) % W # l
  PROVE  (((l + d) % W) - l) % W = d
<1> DEFINE x == l + d
<1>1. x \in Int /\ x - l = d
  OBVIOUS
<1>2. ((x % W) - l) % W = (x - l) % W
  <2> HIDE DEF x
  <2> QED
    <3>1. W \in Nat \ {0} /\ l \in Int
      OBVIOUS
    <3> QED
      BY <1>1, <3>1, ModBack, Zenon
<1>3. d # 0 /\ d # W
  <2>1. l % W = l
    BY ModSmall
  <2>2. (l + W) % W = l % W
    <3>1. W \in Nat \ {0} /\ l \in Int
      OBVIOUS
    <3> QED
      BY <3>1, ModTurn, Zenon
  <2> QED
    BY <2>1, <2>2
<1>4. d % W = d
  BY <1>3, ModSmall
<1> QED
  BY <1>1, <1>2, <1>4

LEMMA SlackStep ==
  ASSUME NEW n \in Nat
  PROVE  /\ Slack(n) \in Nat /\ Slack(n + 1) = Slack(n) + (FRAME - 1)
         /\ Slack(1) = FRAME - 1
<1>1. FRAME - 1 \in Nat
  BY ClockRefAssumption
<1>2. \A a \in Nat : a * n \in Nat /\ a * (n + 1) = a * n + a /\ a * 1 = a
  OBVIOUS
<1> QED
  BY <1>1, <1>2 DEF Slack

----------------------------------------------------------------------------
(* The bus and the polls *)

LEMMA BusStep ==
  ASSUME BusInv, [ClockNext]_clockVars
  PROVE  BusInv'
<1> USE DEF BusInv, Attending, totals, pair, seen, busVars
<1>0. FRAME \in Nat \ {0} /\ WRAP \in Nat \ {0}
  BY ClockRefAssumption
<1>1. CASE Tick
  <2>1. phase' \in 0 .. FRAME - 1
    BY <1>0, <1>1, DivMod DEF Tick
  <2>2. host' \in Numbers
    <3>1. host' = host \/ host' = (host + 1) % WRAP
      BY <1>1 DEF Tick
    <3>2. host + 1 \in Int /\ host \in Numbers
      BY DEF Numbers
    <3>3. (host + 1) % WRAP \in Numbers
      BY <1>0, <3>2, DivMod DEF Numbers
    <3> QED
      BY <3>1, <3>2, <3>3
  <2>3. fnum' \in Numbers /\
        (fnum' = host' \/ (fnum' = fnum /\ (link = "up" => host' = host)))
    BY <1>1, <2>2 DEF Tick
  <2>4. /\ time' \in Nat
        /\ UNCHANGED << link, eorst, configured, started, last_fnum >>
    BY <1>1 DEF Tick
  <2>5. Attending' => /\ link' # "off"
                      /\ fnum' = host' \/ fnum' = last_fnum'
                      /\ link' = "silent" => fnum' = last_fnum'
    <3>1. CASE link = "up"
      BY <1>1, <2>4, <3>1 DEF Tick
    <3>2. CASE link # "up"
      <4>1. fnum' = fnum
        BY <1>1, <3>2 DEF Tick
      <4> QED
        BY <2>4, <3>2, <4>1
    <3> QED
      BY <3>1, <3>2
  <2> HIDE DEF Attending
  <2> QED
    BY <2>1, <2>2, <2>3, <2>4, <2>5
<1>2. CASE FallsSilent
  BY <1>2 DEF FallsSilent
<1>3. CASE Resumes
  BY <1>3 DEF Resumes
<1>4. CASE ResetEnds
  BY <1>0, <1>4 DEF ResetEnds, Numbers
<1>5. CASE Configure
  BY <1>5 DEF Configure
<1>6. CASE Detach
  BY <1>6 DEF Detach
<1>7. CASE PollUnconfigured
  BY <1>7 DEF PollUnconfigured
<1>8. CASE SeesEdge /\ started' = TRUE
  BY <1>8 DEF SeesEdge
<1>9. CASE UNCHANGED clockVars
  BY <1>9 DEF clockVars
<1> QED
  BY <1>1, <1>2, <1>3, <1>4, <1>5, <1>6, <1>7, <1>8, <1>9
     DEF ClockNext, Poll, PollStarts, PollRestarts, PollCounts

\* The loop counts as many frames as there were, and its microseconds are off by
\* where in its frame either number was read.
LEMMA CountIsTrue ==
  ASSUME BusInv, SumInv, PollCounts,
         NEW e \in Nat, time = FRAME * e + phase,
         NEW k \in Nat, NEW q \in 0 .. FRAME - 1, Since(e, k, q)
  PROVE  Steps \in Nat /\ Gap \in Nat /\ Err' = Err + phase - q
<1>0. /\ FRAME \in Nat \ {0} /\ WRAP \in Nat \ {0} /\ CLOCK \in Nat \ {0} /\ STALL \in Nat
      /\ STALL < FRAME * WRAP
  BY ClockRefAssumption
<1> DEFINE T == FRAME * k + q
<1>1. /\ time \in Nat /\ phase \in 0 .. FRAME - 1 /\ T \in Nat
      /\ FRAME * k \in Nat /\ FRAME * e \in Nat /\ T <= time /\ time < T + CLOCK
  BY <1>0 DEF BusInv, Since
<1>2. Gap = time - T
  <2>1. ((time % CLOCK) - (T % CLOCK)) % CLOCK = time - T
    BY <1>0, <1>1, GapIsTrue
  <2> QED
    BY <2>1 DEF Gap, Now, Since
<1>3. Gap <= STALL
  BY <1>0, <1>1, <1>2 DEF PollCounts, Stalled
<1>4. e - k \in 0 .. WRAP
  <2>1. e >= k
    <3> SUFFICES ASSUME e < k PROVE FALSE
      OBVIOUS
    <3>1. FRAME * k >= FRAME * e + FRAME
      BY <1>0, MulGap
    <3> QED
      BY <1>0, <1>1, <3>1
  <2>2. e <= k + WRAP
    <3> SUFFICES ASSUME k + WRAP < e PROVE FALSE
      BY <1>0
    <3>1. FRAME * e >= FRAME * (k + WRAP) + FRAME
      BY <1>0, MulGap
    <3>2. FRAME * (k + WRAP) = FRAME * k + FRAME * WRAP /\ FRAME * WRAP \in Nat
      BY <1>0
    <3> HIDE DEF T
    <3>3. FRAME * e - FRAME * k <= STALL + FRAME - 1
      BY <1>0, <1>1, <1>2, <1>3 DEF T
    <3> QED
      BY <1>0, <1>1, <3>1, <3>2, <3>3
  <2> QED
    BY <1>0, <2>1, <2>2
<1>5. fnum = (last_fnum + (e - k)) % WRAP /\ fnum # last_fnum
  BY DEF PollCounts, SeesEdge, BusInv, Since
<1>6. Steps = e - k
  BY <1>0, <1>4, <1>5, StepsAreTrue DEF Steps, BusInv, Numbers
<1>7. Err' = (elapsed_us + Gap) - FRAME * (frames + Steps)
  BY DEF Err, PollCounts
<1>8. FRAME * (frames + Steps) = FRAME * frames + FRAME * e - FRAME * k
  BY <1>0, <1>4, <1>6 DEF SumInv
<1>9. FRAME * frames \in Nat /\ elapsed_us \in Nat
  BY <1>0 DEF SumInv
<1> QED
  BY <1>0, <1>1, <1>2, <1>4, <1>6, <1>7, <1>8, <1>9 DEF Err

\* At an edge the number is the host's own.
LEMMA EdgeIsNow ==
  ASSUME BusInv, SeesEdge, NEW e \in Nat
  PROVE  /\ last_us' = time % CLOCK /\ last_fnum' = host
         /\ host = (host + (e - e)) % WRAP
<1>1. fnum = host
  BY DEF SeesEdge, BusInv
<1>2. host % WRAP = host
  BY ClockRefAssumption, ModSmall DEF BusInv, Numbers
<1>3. host + (e - e) = host
  BY ClockRefAssumption DEF BusInv, Numbers
<1> QED
  BY <1>1, <1>2, <1>3 DEF SeesEdge, Now

\* An epoch begins, or another edge is counted: the reading is now.
LEMMA SpanAtEdge ==
  ASSUME BusInv, SeesEdge,
         NEW e \in Nat, time = FRAME * e + phase,
         phase - Slack(epochs)' <= Err', Err' <= phase + Slack(epochs)' - (FRAME - 1)
  PROVE  SpanInv'
<1>1. UNCHANGED << time, phase, host, configured, eorst >>
  BY DEF SeesEdge, busVars
<1>2. phase \in 0 .. FRAME - 1 /\ time \in Nat /\ CLOCK \in Nat \ {0}
  BY ClockRefAssumption DEF BusInv
<1>3. Since(e, e, phase)'
  <2>1. /\ FRAME * e + phase <= time' /\ time' < FRAME * e + phase + CLOCK
        /\ last_us' = (FRAME * e + phase) % CLOCK
    BY <1>1, <1>2, EdgeIsNow
  <2>2. host' = (last_fnum' + (e - e)) % WRAP
    BY <1>1, EdgeIsNow
  <2> QED
    BY <1>1, <2>1, <2>2 DEF Since, Slack
<1> QED
  BY <1>1, <1>2, <1>3 DEF SpanInv

LEMMA SumIsUnchanged ==
  ASSUME SumInv, UNCHANGED totals
  PROVE  SumInv'
BY DEF SumInv, totals, pair, Slack, Err, PairErr

LEMMA SpanIsUnchanged ==
  ASSUME SpanInv, UNCHANGED << totals, seen, time, phase, host >>,
         started' => started /\ (Attending' => Attending)
  PROVE  SpanInv'
<1>1. \A e, k, q : Since(e, k, q) /\ (Attending' => Attending) => Since(e, k, q)'
  BY DEF Since, totals, pair, seen, Slack, Err
<1> QED
  BY <1>1 DEF SpanInv

\* A tick: the frame goes on, or the host's number and the frame's together.
LEMMA TickSpan ==
  ASSUME BusInv, SpanInv, Tick
  PROVE  SpanInv'
<1>0. FRAME \in Nat \ {0} /\ WRAP \in Nat \ {0} /\ CLOCK \in Nat \ {0}
  BY ClockRefAssumption
<1>1. /\ time \in Nat /\ phase \in 0 .. FRAME - 1 /\ time' = time + 1
      /\ host \in Numbers /\ last_fnum \in Numbers
      /\ UNCHANGED << last_fnum, last_us, started, epochs, frames, elapsed_us,
                      configured, eorst >>
  BY DEF BusInv, Tick, seen, totals
<1>2. PICK e \in Nat : /\ time = FRAME * e + phase
                       /\ started => \E k \in Nat, q \in 0 .. FRAME - 1 : Since(e, k, q)
  BY DEF SpanInv
<1>3. PICK n \in {e, e + 1} : /\ time' = FRAME * n + phase'
                              /\ n = e => host' = host
                              /\ n = e + 1 => host' = (host + 1) % WRAP
  <2>1. CASE phase + 1 = FRAME
    <3>1. phase' = 0
      <4>1. FRAME % FRAME = 0
        BY <1>0, UnitOf, DivMod, ModSmall
      <4> QED
        BY <2>1, <4>1 DEF Tick
    <3>2. FRAME * (e + 1) = FRAME * e + FRAME
      BY <1>0
    <3>3. time' = FRAME * (e + 1) + phase'
      BY <1>0, <1>1, <1>2, <2>1, <3>1, <3>2
    <3> QED
      BY <3>1, <3>3 DEF Tick
  <2>2. CASE phase + 1 # FRAME
    <3>1. phase' = phase + 1
      BY <1>0, <1>1, <2>2, ModSmall DEF Tick
    <3>2. host' = host
      BY <1>1, <3>1 DEF Tick
    <3> QED
      BY <1>0, <1>1, <1>2, <3>1, <3>2
  <2> QED
    BY <2>1, <2>2
<1>4. ASSUME started
      PROVE  \E k \in Nat, q \in 0 .. FRAME - 1 : Since(n, k, q)'
  <2>1. PICK k \in Nat, q \in 0 .. FRAME - 1 : Since(e, k, q)
    BY <1>2, <1>4
  <2> DEFINE T == FRAME * k + q
  <2>2. T \in Nat /\ T <= time /\ time < T + CLOCK /\ last_us = T % CLOCK
    BY <1>0, <2>1 DEF Since
  <2>3. time + 1 # T + CLOCK
    <3>1. (T + CLOCK) % CLOCK = T % CLOCK
      <4> HIDE DEF T
      <4>1. T \in Int
        BY <2>2
      <4> QED
        BY <1>0, <4>1, ModTurn
    <3> QED
      BY <1>4, <2>2, <3>1 DEF Tick
  <2>4. Attending' => host' = (last_fnum' + (n - k)) % WRAP
    <3>1. Attending' => host = (last_fnum + (e - k)) % WRAP
      BY <1>1, <2>1 DEF Since, Attending
    <3>2. CASE n = e
      BY <1>1, <1>3, <3>1, <3>2
    <3>3. CASE n = e + 1
      <4>1. (((last_fnum + (e - k)) % WRAP) + 1) % WRAP
              = ((last_fnum + (e - k)) + 1) % WRAP
        <5>1. last_fnum + (e - k) \in Int
          BY <1>0, <1>1 DEF Numbers
        <5> QED
          BY <1>0, <5>1, SlotAfter
      <4>2. (last_fnum + (e - k)) + 1 = last_fnum + ((e + 1) - k)
        BY <1>0, <1>1 DEF Numbers
      <4> QED
        BY <1>1, <1>3, <3>1, <3>3, <4>1, <4>2
    <3> QED
      BY <3>2, <3>3
  <2>5. Since(n, k, q)'
    <3>1. T <= time' /\ time' < T + CLOCK
      BY <1>0, <1>1, <2>2, <2>3
    <3>2. Slack(epochs)' = Slack(epochs) /\ Err' = Err
      BY <1>1 DEF Slack, Err
    <3> QED
      BY <1>1, <2>1, <2>2, <2>4, <3>1, <3>2 DEF Since
  <2> QED
    BY <2>5
<1>5. n \in Nat
  OBVIOUS
<1> QED
  BY <1>1, <1>3, <1>4, <1>5 DEF SpanInv

----------------------------------------------------------------------------
(* What is counted *)

LEMMA PollStep ==
  ASSUME ClockInv, PollStarts \/ PollRestarts \/ PollCounts
  PROVE  SumInv' /\ SpanInv'
<1>0. /\ FRAME \in Nat \ {0} /\ SeesEdge /\ phase \in 0 .. FRAME - 1
      /\ frames \in Nat /\ elapsed_us \in Nat /\ epochs \in Nat
      /\ edge_frames \in Nat /\ edge_elapsed \in Nat
  BY ClockRefAssumption DEF ClockInv, BusInv, SumInv, PollStarts, PollRestarts, PollCounts
<1>1. PICK e \in Nat : /\ time = FRAME * e + phase
                       /\ started => \E k \in Nat, q \in 0 .. FRAME - 1 : Since(e, k, q)
  BY DEF ClockInv, SpanInv
<1>2. /\ Slack(epochs) \in Nat /\ Slack(1) = FRAME - 1
      /\ Slack(epochs + 1) = Slack(epochs) + (FRAME - 1)
  BY <1>0, SlackStep
<1>3. /\ Err \in Int /\ PairErr \in Int
      /\ -Slack(epochs) <= Err /\ Err <= Slack(epochs)
      /\ -Slack(epochs) <= PairErr /\ PairErr <= Slack(epochs)
  BY <1>0 DEF ClockInv, SumInv, Err, PairErr
<1>4. CASE PollStarts
  <2>1. /\ epochs' = epochs + 1 /\ frames' = frames /\ elapsed_us' = elapsed_us
        /\ edge_frames' = edge_frames /\ edge_elapsed' = edge_elapsed
    BY <1>4 DEF PollStarts, pair
  <2>2. Slack(epochs)' = Slack(epochs) + (FRAME - 1) /\ Err' = Err /\ PairErr' = PairErr
    BY <1>2, <2>1 DEF Slack, Err, PairErr
  <2>3. SumInv'
    BY <1>0, <1>2, <1>3, <2>1, <2>2 DEF SumInv
  <2>4. SpanInv'
    <3>1. /\ phase - Slack(epochs)' <= Err'
          /\ Err' <= phase + Slack(epochs)' - (FRAME - 1)
      BY <1>0, <1>2, <1>3, <2>2
    <3> QED
      BY <1>0, <1>1, <3>1, SpanAtEdge DEF ClockInv
  <2> QED
    BY <2>3, <2>4
<1>5. CASE PollRestarts
  <2>1. /\ epochs' = 1 /\ frames' = 0 /\ elapsed_us' = 0
        /\ edge_frames' = 0 /\ edge_elapsed' = 0
    BY <1>5 DEF PollRestarts
  <2>2. Slack(epochs)' = FRAME - 1 /\ Err' = 0 /\ PairErr' = 0
    BY <1>0, <1>2, <2>1 DEF Slack, Err, PairErr
  <2>3. SumInv'
    BY <1>0, <2>1, <2>2 DEF SumInv
  <2>4. SpanInv'
    BY <1>0, <1>1, <2>2, SpanAtEdge DEF ClockInv
  <2> QED
    BY <2>3, <2>4
<1>6. CASE PollCounts
  <2>1. PICK k \in Nat, q \in 0 .. FRAME - 1 : Since(e, k, q)
    BY <1>1, <1>6 DEF PollCounts
  <2>2. Steps \in Nat /\ Gap \in Nat /\ Err' = Err + phase - q
    BY <1>1, <1>6, <2>1, CountIsTrue DEF ClockInv
  <2>3. q - Slack(epochs) <= Err /\ Err <= q + Slack(epochs) - (FRAME - 1)
    BY <2>1 DEF Since
  <2>4. epochs' = epochs /\ frames' = frames + Steps /\ elapsed_us' = elapsed_us + Gap
    BY <1>6 DEF PollCounts
  <2>5. Slack(epochs)' = Slack(epochs)
    BY <2>4 DEF Slack
  <2>6. phase - Slack(epochs) <= Err' /\ Err' <= phase + Slack(epochs) - (FRAME - 1)
    BY <1>0, <1>2, <1>3, <2>2, <2>3
  <2>7. -Slack(epochs) <= Err' /\ Err' <= Slack(epochs)
    BY <1>0, <1>2, <1>3, <2>2, <2>6
  <2>8. SpanInv'
    BY <1>0, <1>1, <2>5, <2>6, SpanAtEdge DEF ClockInv
  <2>9. \/ edge_frames' = frames' /\ edge_elapsed' = elapsed_us'
        \/ edge_frames' = edge_frames /\ edge_elapsed' = edge_elapsed
    BY <1>6 DEF PollCounts, pair
  <2>10. PairErr' = Err' \/ PairErr' = PairErr
    BY <2>9 DEF PairErr, Err
  <2>11. /\ frames' \in Nat /\ elapsed_us' \in Nat
         /\ edge_frames' \in Nat /\ edge_elapsed' \in Nat
    BY <1>0, <2>2, <2>4, <2>9
  <2>12. SumInv'
    BY <1>0, <1>3, <2>4, <2>5, <2>7, <2>10, <2>11 DEF SumInv
  <2> QED
    BY <2>8, <2>12
<1> QED
  BY <1>4, <1>5, <1>6

LEMMA ClockStep ==
  ASSUME ClockInv, [ClockNext]_clockVars
  PROVE  ClockInv'
<1>1. BusInv'
  BY BusStep DEF ClockInv
<1>2. CASE Tick
  <2>1. SumInv'
    BY <1>2, SumIsUnchanged DEF ClockInv, Tick
  <2>2. SpanInv'
    BY <1>2, TickSpan DEF ClockInv
  <2> QED
    BY <1>1, <2>1, <2>2 DEF ClockInv
<1>3. CASE FallsSilent \/ Resumes \/ ResetEnds \/ Detach
  <2>1. UNCHANGED << totals, seen, time, phase, started >> /\ (Attending' => Attending)
    BY <1>3 DEF FallsSilent, Resumes, ResetEnds, Detach, Attending, busVars
  <2>2. SumInv'
    BY <2>1, SumIsUnchanged DEF ClockInv
  <2>3. ~Attending' \/ host' = host
    BY <1>3 DEF FallsSilent, Resumes, ResetEnds, Detach, Attending, busVars
  <2>4. SpanInv'
    <3>1. \A e, k, q : Since(e, k, q) => Since(e, k, q)'
      BY <2>1, <2>3 DEF Since, totals, pair, seen, Slack, Err
    <3> QED
      BY <2>1, <3>1 DEF ClockInv, SpanInv
  <2> QED
    BY <1>1, <2>2, <2>4 DEF ClockInv
<1>4. CASE Configure \/ PollUnconfigured
  <2>1. UNCHANGED << totals, seen, time, phase, host >> /\ ~started'
    BY <1>4 DEF Configure, PollUnconfigured, ClockInv, BusInv, busVars
  <2>2. SumInv'
    BY <2>1, SumIsUnchanged DEF ClockInv
  <2>3. SpanInv'
    BY <2>1, SpanIsUnchanged DEF ClockInv
  <2> QED
    BY <1>1, <2>2, <2>3 DEF ClockInv
<1>5. CASE PollStarts \/ PollRestarts \/ PollCounts
  BY <1>1, <1>5, PollStep DEF ClockInv
<1>6. CASE UNCHANGED clockVars
  BY <1>1, <1>6, SumIsUnchanged, SpanIsUnchanged
     DEF ClockInv, clockVars, busVars, Attending
<1> QED
  BY <1>2, <1>3, <1>4, <1>5, <1>6 DEF ClockNext, Poll

\* The microseconds of the pair that clockref_read hands out are those of its
\* frames, but for less than a frame for each epoch, for any length of a frame,
\* any width of the frame number and of micros(), and any stall that is shorter
\* than a turn of either.
THEOREM PairHolds == ClockSpec => []PairIsTrue
<1>1. ClockInit => ClockInv
  <2> SUFFICES ASSUME ClockInit PROVE ClockInv
    OBVIOUS
  <2>0. FRAME \in Nat \ {0} /\ WRAP \in Nat \ {0} /\ FRAME * 0 = 0
    BY ClockRefAssumption
  <2>1. BusInv
    <3>1. 0 \in 0 .. FRAME - 1 /\ 0 \in Numbers
      BY <2>0 DEF Numbers
    <3> QED
      BY <3>1 DEF ClockInit, BusInv, Attending
  <2>2. SumInv
    BY <2>0, SlackStep DEF ClockInit, SumInv, Err, PairErr, Slack
  <2>3. SpanInv
    <3>1. time = FRAME * 0 + phase /\ ~started
      BY <2>0 DEF ClockInit
    <3> QED
      BY <3>1 DEF SpanInv
  <2> QED
    BY <2>1, <2>2, <2>3 DEF ClockInv
<1>2. ClockInv /\ [ClockNext]_clockVars => ClockInv'
  BY ClockStep
<1>3. ClockInv => PairIsTrue
  BY DEF ClockInv, SumInv, PairIsTrue, PairErr, Slack
<1> QED
  BY <1>1, <1>2, <1>3, PTL DEF ClockSpec
=============================================================================
