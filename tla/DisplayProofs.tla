---------------------------- MODULE DisplayProofs ----------------------------
(***************************************************************************)
(* For any rates, ring sizes, frame sizes and screens: the window Display  *)
(* shows is the log of the newest samples, nothing in it is joined that    *)
(* was not, and a held sweep stays as it was drawn.                        *)
(***************************************************************************)
EXTENDS Display, RingArithmetic, SequenceTheorems, WellFoundedInduction

\* A set of numbers with a bound has a largest member: what select() takes with
\* idx[-1] is there.
LEMMA LargestMember ==
  ASSUME NEW S, NEW n \in Nat, S \subseteq 1 .. n, S # {}
  PROVE  \E m \in S : \A j \in S : j <= m
<1> DEFINE T == {n - i : i \in S}
<1>1. T \subseteq Nat /\ T # {}
  <2>1. \A i \in S : n - i \in Nat
    OBVIOUS
  <2> QED  BY <2>1
<1>2. \E x \in T : \A y \in T : ~(<< y, x >> \in OpToRel(<, Nat))
  BY <1>1, NatLessThanWellFounded, WFMin
<1>3. PICK x \in T : \A y \in T : ~(y < x)
  BY <1>1, <1>2 DEF OpToRel
<1>4. PICK m \in S : x = n - m
  OBVIOUS
<1>5. ASSUME NEW j \in S PROVE j <= m
  <2>1. n - j \in T
    OBVIOUS
  <2> QED  BY <1>3, <1>4, <2>1
<1> QED  BY <1>5

\* Sequences one behind the other, cell by cell.
LEMMA Joined ==
  ASSUME NEW S, NEW m \in Nat, NEW k \in Nat, NEW f \in [1 .. m -> S],
         NEW g \in [1 .. k -> S], NEW e \in [1 .. m + k -> S],
         \A i \in 1 .. m + k : e[i] = IF i <= m THEN f[i] ELSE g[i - m]
  PROVE  e = f \o g
<1>1. f \in Seq(S) /\ g \in Seq(S) /\ Len(f) = m /\ Len(g) = k
  OBVIOUS
<1>2. f \o g \in Seq(S) /\ Len(f \o g) = m + k
  BY <1>1, ConcatProperties
<1>3. \A i \in 1 .. m + k : (f \o g)[i] = IF i <= m THEN f[i] ELSE g[i - m]
  BY <1>1, ConcatProperties
<1>4. e \in Seq(S) /\ Len(e) = m + k
  OBVIOUS
<1> QED  BY <1>2, <1>3, <1>4, SeqEqual

----------------------------------------------------------------------------
(* The ring of one channel *)

\* After an append every cell of the window, oldest first, is either a sample that
\* arrived, in its place behind the others and with the mark on the first, or the
\* cell it was in the window before.
LEMMA AppendCell ==
  ASSUME NEW c \in Nat \ {0}, NEW p \in 0 .. c - 1, NEW had \in 0 .. c,
         NEW s \in Seq(Sample), s # << >>, NEW b, NEW bb, NEW broken \in BOOLEAN,
         NEW k, k = Least(Len(s), c), NEW n, n = Least(had + Len(s), c),
         NEW i \in 1 .. n, NEW x, x = (PosAfter(p, c, Len(s)) - n + i - 1) % c
  PROVE  /\ x \in 0 .. c - 1 /\ k \in 1 .. n /\ n \in 1 .. c
         /\ IF i > n - k
            THEN /\ Appended(b, s, p, c)[x] = s[Len(s) - n + i]
                 /\ AppendedBreaks(bb, broken, Len(s), p, c)[x]
                      = (broken /\ i = n - k + 1)
            ELSE /\ had - (n - k) + i \in 1 .. had
                 /\ Appended(b, s, p, c)[x] = b[(p - had + (had - (n - k) + i) - 1) % c]
                 /\ AppendedBreaks(bb, broken, Len(s), p, c)[x]
                      = bb[(p - had + (had - (n - k) + i) - 1) % c]
<1> DEFINE m == Len(s)
<1>1. m \in Nat \ {0}
  OBVIOUS
<1> HIDE DEF m
<1>2. k \in 1 .. n /\ n \in 1 .. c /\ n <= had + m
  BY <1>1 DEF Least, m
<1>3. CASE m >= c
  <2>1. k = c /\ n = c /\ PosAfter(p, c, m) = 0
    BY <1>1, <1>3 DEF Least, PosAfter, m
  <2>2. x = i - 1
    <3>1. x = (i - 1 - c) % c
      BY <2>1, SMTT(40) DEF m
    <3> DEFINE y == i - 1 - c
    <3>2. y \in Int /\ y + c = i - 1 /\ y + c \in 0 .. c - 1
      BY <2>1
    <3>3. x = y % c
      BY <3>1
    <3> HIDE DEF y
    <3>4. y % c = y + c
      BY <3>2, ModSmall
    <3> QED  BY <3>2, <3>3, <3>4
  <2>3. x \in 0 .. c - 1
    BY <2>1, <2>2
  <2>4. Appended(b, s, p, c)[x] = s[m - c + i]
    <3>1. Appended(b, s, p, c)[x] = s[m - c + x + 1]
      BY <1>1, <1>3, <2>3 DEF Appended, m
    <3>2. m - c + x + 1 = m - c + i
      BY <1>1, <2>2
    <3> QED  BY <3>1, <3>2
  <2>5. \A y : AppendedBreaks(y, broken, m, p, c)[x] = (broken /\ i = 1)
    BY <1>1, <1>3, <2>2, <2>3 DEF AppendedBreaks
  <2>6. n - k = 0 /\ i > n - k /\ (i = 1 <=> i = n - k + 1) /\ m - n + i = m - c + i
    BY <2>1
  <2>7. Appended(b, s, p, c)[x] = s[m - n + i]
    BY <2>1, <2>4
  <2>8. AppendedBreaks(bb, broken, m, p, c)[x] = (broken /\ i = n - k + 1)
    BY <2>5, <2>6
  <2> QED  BY <1>2, <2>3, <2>6, <2>7, <2>8 DEF m
<1>4. CASE m < c
  <2>1. k = m /\ PosAfter(p, c, m) = (p + m) % c
    BY <1>1, <1>4 DEF Least, PosAfter, m
  <2>2. x = (p + m - n + i - 1) % c
    <3>1. x = (((p + m) % c) + (i - 1 - n)) % c
      <4>0. p + m \in Int
        BY <1>1
      <4>1. (p + m) % c \in 0 .. c - 1
        BY <4>0, DivMod
      <4> DEFINE q == (p + m) % c
      <4>2. x = (q - n + i - 1) % c /\ q \in Int
        BY <2>1, <4>1 DEF m
      <4> HIDE DEF q
      <4>3. q - n + i - 1 = q + (i - 1 - n)
        BY <1>2, <4>2
      <4> QED  BY <4>2, <4>3 DEF q
    <3>2. p + m \in Int /\ i - 1 - n \in Int
      BY <1>1, <1>2
    <3>3. x = ((p + m) + (i - 1 - n)) % c
      BY <3>1, <3>2, ModShift
    <3>4. (p + m) + (i - 1 - n) = p + m - n + i - 1
      BY <1>1, <1>2, SMTT(40)
    <3> QED  BY <3>3, <3>4
  <2>3. x \in 0 .. c - 1
    <3>1. p + m - n + i - 1 \in Int
      BY <1>1, <1>2, SMTT(40)
    <3> QED  BY <2>2, <3>1, DivMod
  <2>4. Offset(x, p, c) = (m - n + i - 1) % c
    <3>1. p + m - n + i - 1 \in Int /\ -p \in Int
      BY <1>1, <1>2, SMTT(40)
    <3>2. (((p + m - n + i - 1) % c) + (-p)) % c = ((p + m - n + i - 1) + (-p)) % c
      BY <3>1, ModShift
    <3>3. x - p = x + (-p) /\ (p + m - n + i - 1) + (-p) = m - n + i - 1
      BY <1>1, <1>2, <2>3, SMTT(40)
    <3> QED  BY <2>2, <3>2, <3>3 DEF Offset
  <2>5. m - n + i - 1 \in Int
    BY <1>1, <1>2
  <2>6. CASE i > n - k
    <3>1. m - n + i - 1 \in 0 .. m - 1
      BY <1>1, <1>2, <2>1, <2>6, SMTT(40)
    <3>2. m - n + i - 1 \in 0 .. c - 1
      BY <1>1, <1>4, <3>1
    <3>3. Offset(x, p, c) = m - n + i - 1
      BY <2>4, <2>5, <3>2, ModSmall
    <3>4. Appended(b, s, p, c)[x] = s[m - n + i]
      <4>1. Offset(x, p, c) < m /\ Offset(x, p, c) + 1 = m - n + i
        BY <1>1, <1>2, <3>1, <3>3, SMTT(40)
      <4>2. Appended(b, s, p, c)[x] = s[Offset(x, p, c) + 1]
        BY <1>1, <1>4, <2>3, <4>1 DEF Appended, m
      <4> QED  BY <4>1, <4>2
    <3>5. (x = p) <=> (i = n - k + 1)
      <4>1. x = p => Offset(x, p, c) = 0
        BY ModSmall DEF Offset
      <4>2. Offset(x, p, c) = 0 => x = p
        <5> SUFFICES ASSUME (x - p) % c = 0 PROVE x = p
          BY DEF Offset
        <5>1. x - p \in Int
          BY <2>3
        <5>2. CASE x < p
          <6>1. (x - p) + c \in 0 .. c - 1
            BY <2>3, <5>2, SMTT(40)
          <6>2. (x - p) + c = 0
            BY <5>1, <6>1, ModSmall
          <6> QED  BY <2>3, <6>2
        <5>3. CASE x >= p
          <6>1. x - p \in 0 .. c - 1
            BY <2>3, <5>3
          <6> QED  BY <2>3, <5>1, <6>1, ModSmall, SMTT(40)
        <5> QED  BY <2>3, <5>2, <5>3
      <4>3. (m - n + i - 1 = 0) <=> (i = n - k + 1)
        <5>1. \A M, N, I \in Int : (M - N + I - 1 = 0) <=> (I = N - M + 1)
          OBVIOUS
        <5>2. m \in Int /\ n \in Int /\ i \in Int /\ k = m
          BY <1>1, <1>2, <2>1
        <5> QED  BY <5>1, <5>2, SMTT(40)
      <4> QED  BY <3>3, <4>1, <4>2, <4>3
    <3>6. \A y : AppendedBreaks(y, broken, m, p, c)[x] = (broken /\ i = n - k + 1)
      <4>1. Offset(x, p, c) < m
        BY <1>1, <3>1, <3>3
      <4>2. \A y : AppendedBreaks(y, broken, m, p, c)[x] = (broken /\ x = p)
        BY <1>1, <1>4, <2>3, <4>1 DEF AppendedBreaks
      <4> QED  BY <3>5, <4>2
    <3> QED  BY <1>2, <2>3, <2>6, <3>4, <3>6 DEF m
  <2>7. CASE ~(i > n - k)
    <3>1. (m - n + i - 1) + c \in m .. c - 1
      BY <1>1, <1>2, <1>4, <2>1, <2>7, SMTT(40)
    <3>2. (m - n + i - 1) + c \in 0 .. c - 1
      BY <1>1, <3>1
    <3>3. Offset(x, p, c) = (m - n + i - 1) + c
      BY <2>4, <2>5, <3>2, ModSmall
    <3>4. ~(Offset(x, p, c) < m)
      BY <1>1, <3>1, <3>3
    <3>5. Appended(b, s, p, c)[x] = b[x]
      BY <1>1, <1>4, <2>3, <3>4 DEF Appended, m
    <3>6. AppendedBreaks(bb, broken, m, p, c)[x] = bb[x]
      BY <1>1, <1>4, <2>3, <3>4 DEF AppendedBreaks
    <3>7. p - had + (had - (n - k) + i) - 1 = p + m - n + i - 1
      <4>1. n \in Int /\ m \in Int /\ k = m
        BY <1>1, <1>2, <2>1
      <4> HIDE DEF m
      <4>2. \A N, K \in Int : p - had + (had - (N - K) + i) - 1 = p + K - N + i - 1
        OBVIOUS
      <4> QED  BY <4>1, <4>2
    <3>8. had - (n - k) + i \in 1 .. had
      BY <1>1, <1>2, <2>1, <2>7, SMTT(40)
    <3> QED  BY <1>2, <2>2, <2>3, <2>7, <3>5, <3>6, <3>7, <3>8 DEF m
  <2> QED  BY <2>6, <2>7
<1> QED  BY <1>1, <1>3, <1>4

----------------------------------------------------------------------------
(* One frame ingested *)

Codes(f) == [i \in 1 .. f.size |-> [run |-> f.run, at |-> f.at + i - 1]]

\* Frame f goes into a ring of c cells, `had` of them in use, with position p,
\* samples b and marks bb.
IngestInto(f, c, p, had, b, bb) ==
  /\ frames # << >> /\ f = Head(frames) /\ frames' = Tail(frames)
  /\ rate' = f.rate /\ lastSeq' = f.seq /\ cap' = c
  /\ buf' = Appended(b, Codes(f), p, c)
  /\ breaks' = AppendedBreaks(bb, Broken(f), f.size, p, c)
  /\ pos' = PosAfter(p, c, f.size)
  /\ filled' = Least(had + f.size, c)
  /\ arrived' = [codes |-> Codes(f), broken |-> Broken(f)]
  /\ got' = got + 1 /\ UNCHANGED << deviceVars, gui >>

\* The ring is the one there was, or a new one.
Continues(f, c, p, had, b, bb) ==
  /\ cap # 0 /\ c = cap /\ p = pos /\ had = filled /\ b = buf /\ bb = breaks
  /\ sweep' = Aged(sweep, f.size)
Begins(had, p) == had = 0 /\ p = 0 /\ sweep' = Frozen(sweep)

\* A frame carries as many samples as it says, and one at least.
LEMMA CodesType ==
  ASSUME NEW f \in Frame
  PROVE  /\ Codes(f) \in Seq(Sample) /\ Len(Codes(f)) = f.size
         /\ f.size \in Nat \ {0} /\ Codes(f) # << >>
<1>1. f.size \in Nat \ {0} /\ f.run \in Nat /\ f.at \in Nat
  BY DisplayAssumption DEF Frame
<1>2. Codes(f) \in [1 .. f.size -> Sample]
  BY <1>1 DEF Codes, Sample
<1>3. Codes(f) \in Seq(Sample) /\ Len(Codes(f)) = f.size
  BY <1>1, <1>2
<1> QED  BY <1>1, <1>3

\* What ingest makes of the frame at the head of the deque.
LEMMA IngestCases ==
  ASSUME TypeOK, Ingest
  PROVE  \E f \in Frame, c \in Nat \ {0} :
           \E p \in 0 .. c - 1, had \in 0 .. c,
              b \in [0 .. c - 1 -> Sample], bb \in [0 .. c - 1 -> BOOLEAN] :
             /\ IngestInto(f, c, p, had, b, bb)
             /\ Continues(f, c, p, had, b, bb) \/ Begins(had, p)
<1> DEFINE f == Head(frames)
<1>1. frames # << >> /\ f \in Frame
  BY DEF TypeOK, DeviceOK, Ingest
<1>2. CASE cap = 0 \/ f.rate # rate
  <2> DEFINE c == CapOf(f.rate)
             b == [i \in 0 .. c - 1 |-> [run |-> 0, at |-> 0]]
             bb == [i \in 0 .. c - 1 |-> FALSE]
  <2>1. c \in Nat \ {0}
    BY <1>1, DisplayAssumption DEF Frame
  <2>2. 0 \in 0 .. c - 1 /\ 0 \in 0 .. c
    BY <2>1
  <2>3. b \in [0 .. c - 1 -> Sample] /\ bb \in [0 .. c - 1 -> BOOLEAN]
    BY DEF Sample
  <2>4. IngestInto(f, c, 0, 0, b, bb)
    BY <1>2 DEF Ingest, IngestInto, Codes, Broken
  <2>5. Begins(0, 0)
    BY <1>2 DEF Ingest, Begins
  <2> HIDE DEF f, c, b, bb
  <2> QED  BY <1>1, <2>1, <2>2, <2>3, <2>4, <2>5
<1>3. CASE cap # 0 /\ f.rate = rate
  <2>1. /\ cap \in Nat \ {0} /\ pos \in 0 .. cap - 1 /\ filled \in 0 .. cap
        /\ buf \in [0 .. cap - 1 -> Sample] /\ breaks \in [0 .. cap - 1 -> BOOLEAN]
    BY <1>3 DEF TypeOK, RingOK
  <2>2. IngestInto(f, cap, pos, filled, buf, breaks)
    BY <1>3 DEF Ingest, IngestInto, Codes, Broken
  <2>3. Continues(f, cap, pos, filled, buf, breaks)
    BY <1>3 DEF Ingest, Continues
  <2> HIDE DEF f
  <2> QED  BY <1>1, <2>1, <2>2, <2>3
<1> QED  BY <1>2, <1>3

Shown == [code: Sample, break: BOOLEAN]

\* The window holds samples with their marks.
LEMMA WindowType ==
  RingOK => Window \in [1 .. filled -> Shown] /\ Len(Window) = filled
<1> SUFFICES ASSUME RingOK
             PROVE  Window \in [1 .. filled -> Shown] /\ Len(Window) = filled
  OBVIOUS
<1>1. filled \in Nat
  BY DEF RingOK
<1>2. ASSUME NEW i \in 1 .. filled
      PROVE  [code |-> buf[Cells(filled)[i]], break |-> breaks[Cells(filled)[i]]] \in Shown
  <2>1. cap \in Nat \ {0} /\ pos \in Nat
    BY <1>1 DEF RingOK
  <2>2. pos - filled + i - 1 \in Int
    BY <1>1, <2>1
  <2>3. (pos - filled + i - 1) % cap \in 0 .. cap - 1
    BY <2>1, <2>2, DivMod
  <2>4. Cells(filled)[i] \in 0 .. cap - 1
    BY <2>3 DEF Cells
  <2> QED  BY <2>4 DEF RingOK, Shown
<1>3. Window \in [1 .. filled -> Shown]
  BY <1>2 DEF Window
<1> QED  BY <1>1, <1>3

\* The same after a step.
LEMMA WindowTypeNext == (RingOK => Window \in [1 .. filled -> Shown])'
<1>1. RingOK => Window \in [1 .. filled -> Shown]
  BY WindowType
<1> QED  BY <1>1, PTL

\* How many of the samples shown before are still shown.
Kept(f, c) == filled' - Least(f.size, c)

\* `kept` is the window a ring of c cells shows, `had` of them in use.
Shows(kept, c, p, had, b, bb) ==
  /\ kept \in [1 .. had -> Shown]
  /\ \A j \in 1 .. had : kept[j] = [code  |-> b[(p - had + j - 1) % c],
                                   break |-> bb[(p - had + j - 1) % c]]

\* The window after the frame: samples of it behind samples that were shown.
ShowsBehind(f, c, p, had, b, bb) ==
  \A i \in 1 .. filled' :
    IF i > Kept(f, c)
    THEN Window'[i] = [code  |-> Codes(f)[f.size - filled' + i],
                       break |-> Broken(f) /\ i = Kept(f, c) + 1]
    ELSE /\ had - Kept(f, c) + i \in 1 .. had
         /\ Window'[i] = [code  |-> b[(p - had + (had - Kept(f, c) + i) - 1) % c],
                          break |-> bb[(p - had + (had - Kept(f, c) + i) - 1) % c]]

\* The window after a frame, sample by sample.
LEMMA WindowAfter ==
  ASSUME TypeOK, NEW f \in Frame, NEW c \in Nat \ {0}, NEW p \in 0 .. c - 1,
         NEW had \in 0 .. c, NEW b \in [0 .. c - 1 -> Sample],
         NEW bb \in [0 .. c - 1 -> BOOLEAN],
         IngestInto(f, c, p, had, b, bb)
  PROVE  /\ filled' \in 1 .. c /\ Kept(f, c) \in 0 .. had /\ Kept(f, c) < filled'
         /\ Least(f.size, c) = filled' - Kept(f, c)
         /\ ShowsBehind(f, c, p, had, b, bb)
<1>0. PICK k, n : k = Least(f.size, c) /\ n = filled'
  OBVIOUS
<1>1. /\ Codes(f) \in Seq(Sample) /\ Len(Codes(f)) = f.size
      /\ f.size \in Nat \ {0} /\ Codes(f) # << >> /\ Broken(f) \in BOOLEAN
  BY CodesType DEF Broken, Frame, Gap
<1>2. n = Least(had + Len(Codes(f)), c) /\ k = Least(Len(Codes(f)), c)
  BY <1>0, <1>1 DEF IngestInto
<1>k. Kept(f, c) = n - k
  BY <1>0 DEF Kept
<1>3. k \in 1 .. n /\ n \in 1 .. c /\ n - k <= had
  BY <1>1, <1>2 DEF Least
<1>4. ASSUME NEW i \in 1 .. n
      PROVE  Window'[i] = [code  |-> buf'[(pos' - n + i - 1) % c],
                           break |-> breaks'[(pos' - n + i - 1) % c]]
  BY <1>0, <1>4 DEF Window, Cells, IngestInto
<1>5. ASSUME NEW i \in 1 .. n
      PROVE  IF i > n - k
             THEN Window'[i] = [code  |-> Codes(f)[f.size - n + i],
                                break |-> Broken(f) /\ i = n - k + 1]
             ELSE /\ had - (n - k) + i \in 1 .. had
                  /\ Window'[i] =
                       [code  |-> b[(p - had + (had - (n - k) + i) - 1) % c],
                        break |-> bb[(p - had + (had - (n - k) + i) - 1) % c]]
  <2> DEFINE x == (pos' - n + i - 1) % c
  <2>1. x = (PosAfter(p, c, Len(Codes(f))) - n + i - 1) % c
    BY <1>1 DEF IngestInto
  <2>2. Window'[i] = [code |-> buf'[x], break |-> breaks'[x]]
    BY <1>4
  <2>3. /\ buf'[x] = Appended(b, Codes(f), p, c)[x]
        /\ breaks'[x] = AppendedBreaks(bb, Broken(f), Len(Codes(f)), p, c)[x]
    BY <1>1 DEF IngestInto
  <2> HIDE DEF x
  <2>4. IF i > n - k
        THEN /\ Appended(b, Codes(f), p, c)[x] = Codes(f)[Len(Codes(f)) - n + i]
             /\ AppendedBreaks(bb, Broken(f), Len(Codes(f)), p, c)[x]
                  = (Broken(f) /\ i = n - k + 1)
        ELSE /\ had - (n - k) + i \in 1 .. had
             /\ Appended(b, Codes(f), p, c)[x]
                  = b[(p - had + (had - (n - k) + i) - 1) % c]
             /\ AppendedBreaks(bb, Broken(f), Len(Codes(f)), p, c)[x]
                  = bb[(p - had + (had - (n - k) + i) - 1) % c]
    <3> DEFINE s == Codes(f)
               q == Broken(f)
    <3>1. s \in Seq(Sample) /\ s # << >> /\ q \in BOOLEAN
      BY <1>1
    <3>2. /\ k = Least(Len(s), c) /\ n = Least(had + Len(s), c)
          /\ x = (PosAfter(p, c, Len(s)) - n + i - 1) % c
      BY <1>2, <2>1
    <3> HIDE DEF s, q
    <3>3. IF i > n - k
          THEN /\ Appended(b, s, p, c)[x] = s[Len(s) - n + i]
               /\ AppendedBreaks(bb, q, Len(s), p, c)[x] = (q /\ i = n - k + 1)
          ELSE /\ had - (n - k) + i \in 1 .. had
               /\ Appended(b, s, p, c)[x] = b[(p - had + (had - (n - k) + i) - 1) % c]
               /\ AppendedBreaks(bb, q, Len(s), p, c)[x]
                    = bb[(p - had + (had - (n - k) + i) - 1) % c]
      BY <3>1, <3>2, AppendCell, SMTT(90)
    <3> QED  BY <3>3 DEF s, q
  <2> QED  BY <1>1, <2>2, <2>3, <2>4
<1>6. n - k \in 0 .. had /\ n - k < n /\ k = n - (n - k)
  BY <1>3
<1>7. PICK m : m = n - k
  OBVIOUS
<1>8. \A i \in 1 .. n :
        IF i > m
        THEN Window'[i] = [code  |-> Codes(f)[f.size - n + i],
                           break |-> Broken(f) /\ i = m + 1]
        ELSE /\ had - m + i \in 1 .. had
             /\ Window'[i] = [code  |-> b[(p - had + (had - m + i) - 1) % c],
                              break |-> bb[(p - had + (had - m + i) - 1) % c]]
  BY <1>5, <1>7
<1>9. Kept(f, c) = m /\ filled' = n /\ Least(f.size, c) = k
  BY <1>0, <1>7, <1>k
<1>10. ShowsBehind(f, c, p, had, b, bb)
  BY <1>8, <1>9 DEF ShowsBehind
<1> QED  BY <1>3, <1>6, <1>7, <1>9, <1>10

----------------------------------------------------------------------------
(* Types *)

Sweeps == [cells: Seq(Nat), live: BOOLEAN, kept: Seq(Sample), drawn: Seq(Sample),
           at: Nat, since: Nat, room: Int]

\* A frozen sweep is what it showed, and no longer a view.
LEMMA FrozenSweep ==
  ASSUME TypeOK
  PROVE  /\ Frozen(sweep) \in Sweeps /\ ~Frozen(sweep).live
         /\ Frozen(sweep).kept = Content(sweep)
         /\ Frozen(sweep).drawn = sweep.drawn /\ Frozen(sweep).at = sweep.at
         /\ Frozen(sweep).since = sweep.since /\ Frozen(sweep).room = sweep.room
<1>1. sweep \in Sweeps /\ (sweep.live => sweep.cells \in Seq(0 .. cap - 1))
  BY DEF TypeOK, SweepOK, Sweeps
<1>2. Content(sweep) \in Seq(Sample)
  <2>1. CASE ~sweep.live
    BY <1>1, <2>1 DEF Content, Sweeps
  <2>2. CASE sweep.live
    <3>1. /\ DOMAIN sweep.cells = 1 .. Len(sweep.cells)
          /\ \A i \in 1 .. Len(sweep.cells) : sweep.cells[i] \in 0 .. cap - 1
          /\ Len(sweep.cells) \in Nat
      <4>1. \A S : \A s \in Seq(S) : /\ DOMAIN s = 1 .. Len(s) /\ Len(s) \in Nat
                                    /\ \A i \in 1 .. Len(s) : s[i] \in S
        BY ElementOfSeq, LenProperties
      <4> QED  BY <1>1, <2>2, <4>1
    <3>2. \A i \in 1 .. Len(sweep.cells) : buf[sweep.cells[i]] \in Sample
      BY <3>1 DEF TypeOK, RingOK
    <3>3. Content(sweep) = [i \in 1 .. Len(sweep.cells) |-> buf[sweep.cells[i]]]
      BY <2>2, <3>1 DEF Content
    <3>4. Content(sweep) \in [1 .. Len(sweep.cells) -> Sample]
      BY <3>2, <3>3
    <3> QED  BY <3>1, <3>4
  <2> QED  BY <2>1, <2>2
<1> QED  BY <1>1, <1>2 DEF Frozen, Sweeps

\* The cells of a window are cells of the ring.
LEMMA CellsType ==
  ASSUME RingOK, cap # 0, NEW n \in 1 .. filled
  PROVE  \A i \in 1 .. n : Cells(n)[i] = (pos - n + i - 1) % cap
                           /\ Cells(n)[i] \in 0 .. cap - 1
<1> SUFFICES ASSUME NEW i \in 1 .. n
             PROVE  Cells(n)[i] = (pos - n + i - 1) % cap /\ Cells(n)[i] \in 0 .. cap - 1
  OBVIOUS
<1>1. cap \in Nat \ {0} /\ pos \in Nat /\ n \in Nat /\ filled \in Nat
  BY DEF RingOK
<1>2. pos - n + i - 1 \in Int
  BY <1>1
<1>3. (pos - n + i - 1) % cap \in 0 .. cap - 1
  BY <1>1, <1>2, DivMod
<1> QED  BY <1>3 DEF Cells

\* s is a sweep cut from a window of n: a screen of consecutive cells.
IsCut(s, n, len, back, trig) ==
  /\ s \in Sweeps /\ s.cells \in Seq(0 .. cap - 1) /\ Len(s.cells) = len
  /\ \A i \in 1 .. len : /\ s.cells[i] = (pos - back - len + i - 1) % cap
                         /\ s.drawn[i] = buf[(pos - back - len + i - 1) % cap]
  /\ s.drawn = [i \in 1 .. len |-> buf[s.cells[i]]]
  /\ s.kept = IF IsView(n) THEN << >> ELSE s.drawn
  /\ s.live = IsView(n) /\ s.at = trig /\ s.since = 0 /\ s.room = cap - len - back

\* A cut is one.
LEMMA CutSweep ==
  ASSUME RingOK, cap # 0, NEW n \in 1 .. filled, NEW len \in 1 .. n,
         NEW back \in 0 .. n - len, NEW trig \in Nat
  PROVE  IsCut(Cut(n, len, back, trig), n, len, back, trig)
<1>1. /\ cap \in Nat \ {0} /\ pos \in Nat /\ filled \in Nat
      /\ n \in Nat /\ len \in Nat /\ back \in Nat
      /\ buf \in [0 .. cap - 1 -> Sample]
  BY DEF RingOK
<1> DEFINE cells == [i \in 1 .. len |-> Cells(n)[n - back - len + i]]
           now   == [i \in 1 .. len |-> buf[cells[i]]]
<1>2. Cut(n, len, back, trig) =
        [cells |-> cells, live |-> IsView(n), kept |-> IF IsView(n) THEN << >> ELSE now,
         drawn |-> now, at |-> trig, since |-> 0, room |-> cap - len - back]
  BY DEF Cut
<1>3. ASSUME NEW i \in 1 .. len
      PROVE  cells[i] = (pos - back - len + i - 1) % cap /\ cells[i] \in 0 .. cap - 1
  <2>1. n - back - len + i \in 1 .. n
    BY <1>1
  <2>2. pos - n + (n - back - len + i) - 1 = pos - back - len + i - 1
    BY <1>1
  <2> QED  BY <2>1, <2>2, CellsType
<1>4. cells \in Seq(0 .. cap - 1) /\ Len(cells) = len
  <2>1. cells \in [1 .. len -> 0 .. cap - 1]
    BY <1>3
  <2> HIDE DEF cells
  <2> QED  BY <1>1, <2>1
<1>5. cells \in [1 .. len -> Nat] /\ now \in [1 .. len -> Sample]
  <2>1. \A i \in 1 .. len : cells[i] \in Nat /\ now[i] \in Sample
    BY <1>1, <1>3
  <2> QED  BY <2>1
<1>6. cells \in Seq(Nat) /\ now \in Seq(Sample)
  <2> HIDE DEF cells, now
  <2> QED  BY <1>1, <1>5
<1>7. \A i \in 1 .. len : now[i] = buf[(pos - back - len + i - 1) % cap]
  BY <1>3
<1>8. IsView(n) \in BOOLEAN
  BY DEF IsView
<1>9. cap - len - back \in Int
  BY <1>1
<1> HIDE DEF cells, now
<1>10. Cut(n, len, back, trig) \in Sweeps
  <2>1. << >> \in Seq(Sample)
    OBVIOUS
  <2> QED  BY <1>2, <1>6, <1>8, <1>9, <2>1 DEF Sweeps
<1>11. now = [i \in 1 .. len |-> buf[cells[i]]]
  BY DEF now
<1> QED
  <2>1. PICK s : s = Cut(n, len, back, trig)
    OBVIOUS
  <2>2. /\ s.cells = cells /\ s.drawn = now /\ s.kept = IF IsView(n) THEN << >> ELSE now
        /\ s.live = IsView(n) /\ s.at = trig /\ s.since = 0 /\ s.room = cap - len - back
    BY <1>2, <2>1
  <2> QED  BY <1>3, <1>4, <1>7, <1>10, <1>11, <2>1, <2>2 DEF IsCut

\* What draw() does: nothing, or a sweep of one screen at most, free-running or
\* around the newest usable edge.
LEMMA DrawCases ==
  ASSUME TypeOK, NEW mode, Draw(mode)
  PROVE  \/ sweep' = sweep
         \/ /\ cap # 0
            /\ \E n \in 1 .. filled : \E len \in 1 .. n : \E back \in 0 .. n - len,
                  trig \in Nat :
                 /\ sweep' = Cut(n, len, back, trig)
                 /\ trig > 1 =>
                      /\ trig \in 2 .. len /\ n - back - len + trig \in 2 .. n
                      /\ ~breaks[Cells(n)[n - back - len + trig]]
<1> DEFINE span == Least(filled, Screen * SearchSpan)
           newest == CHOOSE i \in Usable(span) : \A j \in Usable(span) : j <= i
<1>0. /\ Screen \in Nat \ {0} /\ SearchSpan \in Nat \ {0} /\ Screen * SearchSpan \in Nat \ {0}
      /\ Pre \in 0 .. Screen - 1
  BY DisplayAssumption
<1>1. CASE cap = 0
  BY <1>1 DEF Draw
<1>2. CASE cap # 0 /\ sweep' = Free
  <2>1. filled \in Nat /\ filled >= 1
    BY <1>2 DEF TypeOK, RingOK
  <2> DEFINE n == Least(Screen, filled)
  <2>2. n \in 1 .. filled
    BY <1>0, <2>1 DEF Least
  <2>3. sweep' = Cut(n, n, 0, 0)
    BY <1>2 DEF Free
  <2> HIDE DEF n
  <2>4. n \in 1 .. n /\ 0 \in 0 .. n - n /\ 0 \in Nat /\ ~(0 > 1)
    BY <2>1, <2>2
  <2> QED  BY <1>2, <2>2, <2>3, <2>4
<1>3. CASE /\ cap # 0 /\ ~(span < Screen) /\ Usable(span) # {}
           /\ sweep' = Cut(span, Screen, span - (newest - 1 + Screen - Pre), Pre + 1)
  <2>1. filled \in Nat /\ filled >= 1
    BY <1>3 DEF TypeOK, RingOK
  <2>2. span \in 1 .. filled /\ Screen <= span
    <3>1. \A m \in Nat \ {0} : Least(filled, m) \in 1 .. filled
      BY <2>1 DEF Least
    <3>2. span \in 1 .. filled
      BY <1>0, <3>1
    <3> QED  BY <1>0, <1>3, <2>1, <3>2
  <2> HIDE DEF span
  <2>3. span \in Nat /\ Len(Cells(span)) = span
    <3>1. span \in Nat
      BY <2>1, <2>2
    <3>2. \A i \in 1 .. span : Cells(span)[i] \in 0 .. cap - 1
      BY <1>3, <2>2, CellsType DEF TypeOK
    <3>3. Cells(span) \in [1 .. span -> 0 .. cap - 1]
      BY <3>2 DEF Cells
    <3> QED  BY <3>1, <3>3
  <2>4. \A i \in Usable(span) :
           /\ i \in 2 .. span /\ ~breaks[Cells(span)[i]]
           /\ i - 1 >= Pre /\ i - 1 + Screen - Pre <= span
    BY <2>3 DEF Usable, Edges
  <2>5. newest \in Usable(span)
    <3>1. Usable(span) \subseteq 1 .. span
      BY <2>3, <2>4
    <3>2. \E m \in Usable(span) : \A j \in Usable(span) : j <= m
      BY <1>3, <2>3, <3>1, LargestMember
    <3> QED  BY <3>2
  <2> HIDE DEF newest
  <2> DEFINE back == span - (newest - 1 + Screen - Pre)
  <2>6. newest \in 2 .. span /\ newest - 1 >= Pre /\ newest - 1 + Screen - Pre <= span
    BY <2>4, <2>5
  <2>7. /\ back \in 0 .. span - Screen /\ Screen \in 1 .. span /\ Pre + 1 \in Nat
        /\ span - back - Screen + (Pre + 1) = newest
    BY <1>0, <2>2, <2>3, <2>6
  <2>8. ~breaks[Cells(span)[newest]]
    BY <2>4, <2>5
  <2>9. Pre + 1 > 1 => Pre + 1 \in 2 .. Screen
    BY <1>0
  <2>10. sweep' = Cut(span, Screen, back, Pre + 1)
    BY <1>3
  <2> HIDE DEF back
  <2> QED  BY <1>3, <2>2, <2>6, <2>7, <2>8, <2>9, <2>10
<1>4. CASE sweep' = sweep
  BY <1>4
<1> QED
  <2> HIDE DEF newest, span
  <2>1. \/ cap = 0
        \/ cap # 0 /\ sweep' = Free
        \/ /\ cap # 0 /\ ~(span < Screen) /\ Usable(span) # {}
           /\ sweep' = Cut(span, Screen, span - (newest - 1 + Screen - Pre), Pre + 1)
        \/ sweep' = sweep
    BY DEF Draw, span, newest
  <2> QED  BY <1>1, <1>2, <1>3, <1>4, <2>1

\* The smaller of two.
LEMMA LeastIn ==
  ASSUME NEW m \in Int, NEW n \in Int, 0 <= m, 0 <= n PROVE Least(m, n) \in 0 .. n
<1>1. CASE m < n
  BY <1>1 DEF Least
<1>2. CASE ~(m < n)
  BY <1>2 DEF Least
<1> QED  BY <1>1, <1>2

\* How early a flag may be is a number.
LEMMA EarlyNat == Early \in Nat /\ 0 \in 0 .. Early + 1 /\ Early + 1 \in 0 .. Early + 1
BY DisplayAssumption

\* The initial state is well typed.
LEMMA TypeInit == Init => TypeOK
<1> SUFFICES ASSUME Init PROVE TypeOK
  OBVIOUS
<1>1. DeviceOK
  <2>1. frames \in Seq(Frame)
    BY DEF Init
  <2>2. {run, seq, place, made, lost, flags, got} \subseteq Nat
    BY DEF Init
  <2>3. running \in BOOLEAN /\ deviceRate \in Rates /\ gui \in {"idle", "draining"}
    BY DEF Init
  <2>4. quiet \in 0 .. Early + 1 /\ holes \subseteq Sample
    BY EarlyNat DEF Init
  <2> QED  BY <2>1, <2>2, <2>3, <2>4 DEF DeviceOK
<1>2. RingOK
  <2>1. cap = 0 /\ buf = << >> /\ breaks = << >> /\ pos = 0 /\ filled = 0
    BY DEF Init
  <2>2. 0 .. cap - 1 = {}
    BY <2>1
  <2>3. buf \in [0 .. cap - 1 -> Sample] /\ breaks \in [0 .. cap - 1 -> BOOLEAN]
    BY <2>1, <2>2
  <2>4. lastSeq \in Nat \cup {NoSeq} /\ rate \in Rates
    BY DEF Init
  <2>5. arrived \in [codes: Seq(Sample), broken: BOOLEAN]
    BY DEF Init
  <2> QED  BY <2>1, <2>3, <2>4, <2>5 DEF RingOK
<1>3. SweepOK
  BY DEF Init, SweepOK
<1> QED  BY <1>1, <1>2, <1>3 DEF TypeOK

\* The deque holds frames after the receive thread has put one.
LEMMA PutType ==
  ASSUME TypeOK, NEW f \in Frame, Put(f)
  PROVE  frames' \in Seq(Frame)
<1>1. frames \in Seq(Frame) /\ FrameCapacity \in Nat \ {0}
  BY DisplayAssumption DEF TypeOK, DeviceOK
<1>2. CASE Len(frames) = FrameCapacity
  <2>1. frames # << >>
    BY <1>1, <1>2
  <2>2. Tail(frames) \in Seq(Frame)
    BY <1>1, <2>1
  <2> QED  BY <1>2, <2>2 DEF Put
<1>3. CASE Len(frames) # FrameCapacity
  BY <1>1, <1>3 DEF Put
<1> QED  BY <1>2, <1>3

\* The ring after an append is a ring of the same size.
LEMMA AppendedType ==
  ASSUME NEW c \in Nat \ {0}, NEW p \in 0 .. c - 1, NEW s \in Seq(Sample), s # << >>,
         NEW b \in [0 .. c - 1 -> Sample], NEW bb \in [0 .. c - 1 -> BOOLEAN],
         NEW broken \in BOOLEAN
  PROVE  /\ Appended(b, s, p, c) \in [0 .. c - 1 -> Sample]
         /\ AppendedBreaks(bb, broken, Len(s), p, c) \in [0 .. c - 1 -> BOOLEAN]
         /\ PosAfter(p, c, Len(s)) \in 0 .. c - 1
<1> DEFINE k == Len(s)
<1>1. k \in Nat \ {0} /\ \A j \in 1 .. k : s[j] \in Sample
  OBVIOUS
<1> HIDE DEF k
<1>2. ASSUME NEW i \in 0 .. c - 1
      PROVE  /\ (IF k >= c THEN s[k - c + i + 1]
                 ELSE IF Offset(i, p, c) < k THEN s[Offset(i, p, c) + 1] ELSE b[i])
                   \in Sample
             /\ (IF k >= c THEN broken /\ i = 0
                 ELSE IF Offset(i, p, c) < k THEN broken /\ i = p ELSE bb[i])
                   \in BOOLEAN
  <2>1. Offset(i, p, c) \in 0 .. c - 1
    <3>1. i - p \in Int
      OBVIOUS
    <3> QED  BY <3>1, DivMod DEF Offset
  <2>2. k >= c => k - c + i + 1 \in 1 .. k
    BY <1>1
  <2>3. Offset(i, p, c) < k => Offset(i, p, c) + 1 \in 1 .. k
    BY <1>1, <2>1
  <2>4. b[i] \in Sample /\ bb[i] \in BOOLEAN
    OBVIOUS
  <2>5. k >= c => s[k - c + i + 1] \in Sample
    BY <1>1, <2>2
  <2>6. Offset(i, p, c) < k => s[Offset(i, p, c) + 1] \in Sample
    BY <1>1, <2>3
  <2> QED  BY <2>4, <2>5, <2>6
<1>3. Appended(b, s, p, c) \in [0 .. c - 1 -> Sample]
  BY <1>2 DEF Appended, k
<1>4. AppendedBreaks(bb, broken, k, p, c) \in [0 .. c - 1 -> BOOLEAN]
  BY <1>2 DEF AppendedBreaks
<1>5. PosAfter(p, c, k) \in 0 .. c - 1
  <2>1. p + k \in Int
    BY <1>1
  <2>2. (p + k) % c \in 0 .. c - 1
    BY <2>1, DivMod
  <2> QED  BY <2>2 DEF PosAfter
<1> QED  BY <1>3, <1>4, <1>5 DEF k

\* Every step keeps the types.
LEMMA TypeStep == TypeOK /\ [Next]_vars => TypeOK'
<1> SUFFICES ASSUME TypeOK, [Next]_vars PROVE TypeOK'
  OBVIOUS
<1>a. DeviceOK /\ RingOK /\ SweepOK
  BY DEF TypeOK
<1>b. ASSUME UNCHANGED << acqVars, sweep >>
      PROVE  RingOK' /\ SweepOK'
  BY <1>a, <1>b DEF RingOK, SweepOK, acqVars, ringVars
<1>1. CASE Produce
  <2>1. PICK k \in Sizes, flag \in BOOLEAN :
          /\ place' = place + Skip(flag) + k /\ seq' = seq + 1 /\ made' = made + 1
          /\ flags' = flags + Skip(flag)
          /\ quiet' = IF flag THEN 0 ELSE Least(quiet + 1, Early + 1)
          /\ \/ UNCHANGED holes
             \/ \E i \in 0 .. k - 1 :
                  holes' = holes \cup {[run |-> run, at |-> place + Skip(flag) + i]}
          /\ \/ Put([run |-> run, seq |-> seq, flag |-> flag,
                     rate |-> deviceRate, at |-> place + Skip(flag), size |-> k])
                /\ UNCHANGED lost
             \/ lost < MaxLost /\ lost' = lost + 1 /\ UNCHANGED frames
    BY <1>1 DEF Produce
  <2>2. k \in Nat /\ Skip(flag) \in Nat
    BY DisplayAssumption DEF Skip
  <2> DEFINE f == [run |-> run, seq |-> seq, flag |-> flag,
                   rate |-> deviceRate, at |-> place + Skip(flag), size |-> k]
  <2>3. f \in Frame
    BY <1>a, <2>2 DEF DeviceOK, Frame
  <2>4. frames' \in Seq(Frame)
    <3>1. CASE Put(f)
      <4> HIDE DEF f
      <4> QED  BY <2>3, <3>1, PutType
    <3> QED  BY <1>a, <2>1, <3>1 DEF DeviceOK
  <2>5. {seq', place', made', lost', flags'} \subseteq Nat
    BY <1>a, <2>1, <2>2, SMTT(40) DEF DeviceOK
  <2>6. UNCHANGED << run, running, deviceRate, gui, got >>
    BY <1>1 DEF Produce
  <2>7. quiet' \in 0 .. Early + 1
    <3>1. quiet \in 0 .. Early + 1 /\ Early \in Nat
      BY <1>a, EarlyNat DEF DeviceOK
    <3>2. Least(quiet + 1, Early + 1) \in 0 .. Early + 1
      BY <3>1, LeastIn
    <3> QED  BY <2>1, <3>2, EarlyNat
  <2>8. holes' \subseteq Sample
    <3>1. ASSUME NEW i \in 0 .. k - 1
          PROVE  [run |-> run, at |-> place + Skip(flag) + i] \in Sample
      BY <1>a, <2>2 DEF DeviceOK, Sample
    <3> QED  BY <1>a, <2>1, <3>1 DEF DeviceOK
  <2>9. DeviceOK'
    BY <1>a, <2>4, <2>5, <2>6, <2>7, <2>8 DEF DeviceOK
  <2> QED  BY <1>1, <1>b, <2>9 DEF Produce, TypeOK
<1>2. CASE DeviceStops
  <2>1. DeviceOK'
    BY <1>2, <1>a DEF DeviceStops, DeviceOK
  <2> QED  BY <1>2, <1>b, <2>1 DEF DeviceStops, TypeOK
<1>3. CASE StartCapture
  <2>1. DeviceOK'
    <3>1. UNCHANGED << made, lost, flags, holes, frames, gui, got >>
      BY <1>3 DEF StartCapture
    <3>2. {run', seq', place'} \subseteq Nat /\ running' \in BOOLEAN
          /\ deviceRate' \in Rates /\ quiet' \in 0 .. Early + 1
      <4>1. CASE running
        BY <1>3, <1>a, <4>1 DEF StartCapture, DeviceOK
      <4>2. CASE ~running
        <5>1. run' = run + 1 /\ running' = TRUE /\ seq' = 0 /\ place' = 0
              /\ deviceRate' \in Rates /\ quiet' = Early + 1
          BY <1>3, <4>2 DEF StartCapture
        <5>2. quiet' \in 0 .. Early + 1
          BY <5>1, EarlyNat
        <5> QED  BY <1>a, <5>1, <5>2 DEF DeviceOK
      <4> QED  BY <4>1, <4>2
    <3> QED  BY <1>a, <3>1, <3>2 DEF DeviceOK
  <2>2. RingOK'
    <3>1. cap' = 0 /\ buf' = << >> /\ breaks' = << >> /\ pos' = 0 /\ filled' = 0
      BY <1>3 DEF StartCapture
    <3>2. 0 .. cap' - 1 = {}
      BY <3>1
    <3>3. buf' \in [0 .. cap' - 1 -> Sample] /\ breaks' \in [0 .. cap' - 1 -> BOOLEAN]
      BY <3>1, <3>2
    <3>4. lastSeq' \in Nat \cup {NoSeq} /\ rate' \in Rates
          /\ arrived' \in [codes: Seq(Sample), broken: BOOLEAN]
      BY <1>3, <1>a DEF StartCapture, RingOK
    <3> QED  BY <3>1, <3>3, <3>4 DEF RingOK
  <2>3. sweep' \in Sweeps /\ ~sweep'.live
    BY <1>3, FrozenSweep DEF StartCapture
  <2> QED  BY <2>1, <2>2, <2>3 DEF SweepOK, Sweeps, TypeOK
<1>4. CASE Tick
  <2>1. DeviceOK'
    BY <1>4, <1>a DEF Tick, DeviceOK, deviceVars
  <2> QED  BY <1>4, <1>b, <2>1 DEF Tick, TypeOK
<1>5. CASE Ingest
  <2>1. PICK f \in Frame, c \in Nat \ {0} :
           \E p \in 0 .. c - 1, had \in 0 .. c,
              b \in [0 .. c - 1 -> Sample], bb \in [0 .. c - 1 -> BOOLEAN] :
             /\ IngestInto(f, c, p, had, b, bb)
             /\ Continues(f, c, p, had, b, bb) \/ Begins(had, p)
    BY <1>5, IngestCases
  <2>2. PICK p \in 0 .. c - 1, had \in 0 .. c,
             b \in [0 .. c - 1 -> Sample], bb \in [0 .. c - 1 -> BOOLEAN] :
             /\ IngestInto(f, c, p, had, b, bb)
             /\ Continues(f, c, p, had, b, bb) \/ Begins(had, p)
    BY <2>1
  <2>3. /\ Codes(f) \in Seq(Sample) /\ Len(Codes(f)) = f.size
        /\ f.size \in Nat \ {0} /\ Codes(f) # << >> /\ Broken(f) \in BOOLEAN
    BY CodesType DEF Broken, Frame, Gap
  <2>4. RingOK'
    <3>1. /\ Appended(b, Codes(f), p, c) \in [0 .. c - 1 -> Sample]
          /\ AppendedBreaks(bb, Broken(f), f.size, p, c) \in [0 .. c - 1 -> BOOLEAN]
          /\ PosAfter(p, c, f.size) \in 0 .. c - 1
      BY <2>3, AppendedType
    <3>2. cap' = c /\ buf' \in [0 .. c - 1 -> Sample] /\ breaks' \in [0 .. c - 1 -> BOOLEAN]
          /\ pos' \in 0 .. c - 1
      BY <2>2, <3>1 DEF IngestInto
    <3>3. filled' \in 1 .. c
      BY <2>2, <2>3 DEF IngestInto, Least
    <3>4. lastSeq' \in Nat \cup {NoSeq} /\ rate' \in Rates
      BY <2>2 DEF IngestInto, Frame
    <3>5. arrived' \in [codes: Seq(Sample), broken: BOOLEAN]
      BY <2>2, <2>3 DEF IngestInto
    <3> QED  BY <3>2, <3>3, <3>4, <3>5 DEF RingOK
  <2>5. DeviceOK'
    <3>1. frames' \in Seq(Frame)
      BY <1>a, <2>2 DEF IngestInto, DeviceOK
    <3>2. got' \in Nat
      BY <1>a, <2>2, SMTT(40) DEF IngestInto, DeviceOK
    <3> QED  BY <1>a, <2>2, <3>1, <3>2 DEF IngestInto, DeviceOK, deviceVars
  <2>6. SweepOK'
    <3>1. CASE Begins(had, p)
      BY <3>1, FrozenSweep DEF Begins, SweepOK, Sweeps
    <3>2. CASE Continues(f, c, p, had, b, bb)
      <4>1. cap' = cap /\ sweep' = Aged(sweep, f.size)
        BY <2>2, <3>2 DEF Continues, IngestInto
      <4>2. sweep.since + f.size \in Nat
        BY <1>a, <2>3 DEF SweepOK
      <4> QED  BY <1>a, <4>1, <4>2 DEF SweepOK, Aged
    <3> QED  BY <2>2, <3>1, <3>2
  <2> QED  BY <2>4, <2>5, <2>6 DEF TypeOK
<1>6. ASSUME NEW m, Draw(m) PROVE TypeOK'
  <2>1. DeviceOK' /\ RingOK' /\ cap' = cap
    BY <1>6, <1>a DEF Draw, DeviceOK, RingOK, deviceVars, acqVars, ringVars
  <2>2. SweepOK'
    <3>1. CASE sweep' = sweep
      BY <1>a, <2>1, <3>1 DEF SweepOK
    <3>2. CASE sweep' # sweep
      <4>1. PICK n \in 1 .. filled : cap # 0 /\
               \E len \in 1 .. n : \E back \in 0 .. n - len, trig \in Nat :
                  sweep' = Cut(n, len, back, trig)
        BY <1>6, <3>2, DrawCases
      <4>2. PICK len \in 1 .. n : \E back \in 0 .. n - len, trig \in Nat :
                  sweep' = Cut(n, len, back, trig)
        BY <4>1
      <4>3. PICK back \in 0 .. n - len, trig \in Nat : sweep' = Cut(n, len, back, trig)
        BY <4>2
      <4>4. sweep' \in Sweeps /\ sweep'.cells \in Seq(0 .. cap - 1)
        BY <1>a, <4>1, <4>3, CutSweep DEF IsCut
      <4> QED  BY <2>1, <4>4 DEF SweepOK, Sweeps
    <3> QED  BY <3>1, <3>2
  <2> QED  BY <2>1, <2>2 DEF TypeOK
<1>7. CASE UNCHANGED vars
  <2>1. DeviceOK'
    BY <1>7, <1>a DEF vars, DeviceOK, deviceVars
  <2> QED  BY <1>7, <1>b, <2>1 DEF vars, TypeOK
<1> QED  BY <1>1, <1>2, <1>3, <1>4, <1>5, <1>6, <1>7 DEF Next

\* Every variable keeps its type, for every rate, ring and frame size.
THEOREM TypeCorrect == Spec => []TypeOK
<1> QED  BY TypeInit, TypeStep, PTL DEF Spec

----------------------------------------------------------------------------
(* The window is the log *)

\* A sequence of the window's kind put together from the newest of the old and
\* what arrived, as the log says, is the window after the frame.
LEMMA ExtendsWindow ==
  ASSUME TypeOK, NEW f \in Frame, NEW c \in Nat \ {0}, NEW p \in 0 .. c - 1,
         NEW had \in 0 .. c, NEW b \in [0 .. c - 1 -> Sample],
         NEW bb \in [0 .. c - 1 -> BOOLEAN],
         IngestInto(f, c, p, had, b, bb), RingOK',
         NEW kept, Shows(kept, c, p, had, b, bb)
  PROVE  Log!Extends(kept)
<1>0. PICK k, n, m : k = Least(f.size, c) /\ n = filled' /\ m = Kept(f, c)
  OBVIOUS
<1>1. /\ n \in 1 .. c /\ m \in 0 .. had /\ m < n /\ k = n - m
      /\ \A i \in 1 .. n :
           IF i > m
           THEN Window'[i] = [code  |-> Codes(f)[f.size - n + i],
                              break |-> Broken(f) /\ i = m + 1]
           ELSE /\ had - m + i \in 1 .. had
                /\ Window'[i] =
                     [code  |-> b[(p - had + (had - m + i) - 1) % c],
                      break |-> bb[(p - had + (had - m + i) - 1) % c]]
  <2>1. /\ filled' \in 1 .. c /\ Kept(f, c) \in 0 .. had /\ Kept(f, c) < filled'
        /\ Least(f.size, c) = filled' - Kept(f, c)
        /\ ShowsBehind(f, c, p, had, b, bb)
    BY WindowAfter
  <2> QED  BY <1>0, <2>1 DEF ShowsBehind
<1>s. /\ kept \in [1 .. had -> Shown]
      /\ \A j \in 1 .. had : kept[j] = [code  |-> b[(p - had + j - 1) % c],
                                       break |-> bb[(p - had + j - 1) % c]]
  BY DEF Shows
<1>2. /\ Codes(f) \in Seq(Sample) /\ Len(Codes(f)) = f.size
      /\ f.size \in Nat \ {0} /\ Broken(f) \in BOOLEAN
  BY CodesType DEF Broken, Frame, Gap
<1>3. /\ arrived'.codes = Codes(f) /\ arrived'.broken = Broken(f) /\ cap' = c
      /\ filled' = Least(had + f.size, c)
  BY DEF IngestInto
<1>4. Len(kept) = had
  <2>1. had \in Nat /\ \A q \in [1 .. had -> Shown] : Len(q) = had
    OBVIOUS
  <2> QED  BY <1>s, <2>1
<1>5. Log!Least(f.size, c) = k /\ n = Log!Least(had + k, c)
  BY <1>0, <1>2, <1>3 DEF Log!Least, Least
<1>6. m \in 0 .. had /\ m \in Nat /\ n \in Nat /\ k \in Nat /\ m + k = n /\ k <= f.size
  BY <1>0, <1>1, <1>2, SMTT(40) DEF Least
<1> DEFINE old == Log!Newest(kept, m)
           new == [i \in 1 .. k |-> [code  |-> Codes(f)[f.size - k + i],
                                     break |-> Broken(f) /\ i = 1]]
<1>7. old \in [1 .. m -> Shown] /\ \A i \in 1 .. m : old[i] = kept[had - m + i]
  <2>1. \A i \in 1 .. m : had - m + i \in 1 .. had
    BY <1>6
  <2> QED  BY <1>4, <1>s, <2>1 DEF Log!Newest
<1>8. new \in [1 .. k -> Shown]
  <2>1. \A i \in 1 .. k : f.size - k + i \in 1 .. f.size
    BY <1>2, <1>6
  <2>2. \A i \in 1 .. f.size : Codes(f)[i] \in Sample
    BY <1>2
  <2> QED  BY <1>2, <2>1, <2>2 DEF Shown
<1>10. Window' \in [1 .. n -> Shown]
  BY <1>0, WindowTypeNext
<1>11. ASSUME NEW i \in 1 .. n
       PROVE  Window'[i] = IF i <= m THEN old[i] ELSE new[i - m]
  <2>1. CASE i > m
    <3>1. i - m \in 1 .. k /\ ~(i <= m) /\ (i - m = 1 <=> i = m + 1)
          /\ f.size - k + (i - m) = f.size - n + i
      <4>1. \A N, M, I, F \in Int : M <= N /\ I \in 1 .. N /\ I > M =>
              /\ I - M \in 1 .. N - M /\ ~(I <= M) /\ (I - M = 1 <=> I = M + 1)
              /\ F - (N - M) + (I - M) = F - N + I
        OBVIOUS
      <4>2. n \in Int /\ m \in Int /\ m <= n /\ k = n - m /\ f.size \in Int /\ i \in Int
        BY <1>2, <1>6
      <4> QED  BY <2>1, <4>1, <4>2
    <3>2. new[i - m] = [code  |-> Codes(f)[f.size - k + (i - m)],
                        break |-> Broken(f) /\ i - m = 1]
      BY <3>1
    <3>3. Window'[i] = [code  |-> Codes(f)[f.size - n + i],
                        break |-> Broken(f) /\ i = m + 1]
      BY <1>1, <2>1
    <3> HIDE DEF new, old
    <3>4. Window'[i] = new[i - m]
      BY <3>1, <3>2, <3>3
    <3> QED  BY <3>1, <3>4
  <2>2. CASE ~(i > m)
    <3> DEFINE j == had - m + i
    <3>1. i \in 1 .. m /\ i <= m
      BY <1>6, <2>2
    <3>2. /\ j \in 1 .. had
          /\ Window'[i] = [code  |-> b[(p - had + j - 1) % c],
                           break |-> bb[(p - had + j - 1) % c]]
      BY <1>1, <2>2
    <3>3. old[i] = kept[j]
      BY <1>7, <3>1
    <3> HIDE DEF j, old, new
    <3>4. Window'[i] = old[i]
      BY <1>s, <3>2, <3>3
    <3> QED  BY <3>1, <3>4
  <2> QED  BY <2>1, <2>2
<1>12. Window' = old \o new
  <2>1. PICK g, h, e : g = old /\ h = new /\ e = Window'
    OBVIOUS
  <2> HIDE DEF old, new
  <2>2. /\ g \in [1 .. m -> Shown] /\ h \in [1 .. k -> Shown] /\ e \in [1 .. m + k -> Shown]
        /\ m \in Nat /\ k \in Nat
    BY <1>6, <1>7, <1>8, <1>10, <2>1
  <2>3. \A i \in 1 .. m + k : e[i] = IF i <= m THEN g[i] ELSE h[i - m]
    BY <1>6, <1>11, <2>1
  <2>4. e = g \o h
    BY ONLY <2>2, <2>3, Joined
  <2> QED  BY <2>1, <2>4
<1> QED
  <2>1. m = n - k
    BY <1>6
  <2>2. Log!Extends(kept) <=> Window' = old \o new
    BY <1>0, <1>2, <1>3, <1>4, <1>5, <2>1 DEF Log!Extends
  <2> QED  BY <1>12, <2>2

\* At the start nothing is shown and no window has been sized.
LEMMA LogInit == Init => Log!Init
<1> SUFFICES ASSUME Init PROVE Window = << >> /\ cap = 0
  BY DEF Log!Init
<1>1. filled = 0 /\ cap = 0
  BY DEF Init
<1>2. 1 .. filled = {}
  BY <1>1
<1>3. Window = [i \in {} |-> [code |-> buf[Cells(filled)[i]],
                             break |-> breaks[Cells(filled)[i]]]]
  BY <1>2 DEF Window
<1> QED  BY <1>1, <1>3

\* A frame ingested is an arrival, or the first one in a window of another size;
\* a new capture clears the window; nothing else shows.
LEMMA LogStep ==
  TypeOK /\ TypeOK' /\ [Next]_vars => [Log!Next]_<< Window, cap >>
<1> SUFFICES ASSUME TypeOK, TypeOK', [Next]_vars
             PROVE  Log!Next \/ UNCHANGED << Window, cap >>
  OBVIOUS
<1>a. ASSUME UNCHANGED acqVars PROVE UNCHANGED << Window, cap >>
  BY <1>a DEF acqVars, ringVars, Window, Cells
<1>1. CASE Produce
  BY <1>1, <1>a DEF Produce
<1>2. CASE DeviceStops
  BY <1>2, <1>a DEF DeviceStops
<1>3. CASE StartCapture
  <2>1. cap' = 0 /\ filled' = 0 /\ arrived' = arrived
    BY <1>3 DEF StartCapture
  <2>2. 1 .. filled' = {}
    BY <2>1
  <2>3. Window' = << >>
    BY <2>2 DEF Window
  <2> QED  BY <2>1, <2>3 DEF Log!Next, Log!Clear
<1>4. CASE Tick
  BY <1>4, <1>a DEF Tick
<1>5. CASE Ingest
  <2>1. PICK f \in Frame, c \in Nat \ {0} :
           \E p \in 0 .. c - 1, had \in 0 .. c,
              b \in [0 .. c - 1 -> Sample], bb \in [0 .. c - 1 -> BOOLEAN] :
             /\ IngestInto(f, c, p, had, b, bb)
             /\ Continues(f, c, p, had, b, bb) \/ Begins(had, p)
    BY <1>5, IngestCases
  <2>2. PICK p \in 0 .. c - 1, had \in 0 .. c,
             b \in [0 .. c - 1 -> Sample], bb \in [0 .. c - 1 -> BOOLEAN] :
             /\ IngestInto(f, c, p, had, b, bb)
             /\ Continues(f, c, p, had, b, bb) \/ Begins(had, p)
    BY <2>1
  <2>3. RingOK /\ RingOK' /\ IngestInto(f, c, p, had, b, bb)
    BY <2>2 DEF TypeOK
  <2>4. CASE Continues(f, c, p, had, b, bb)
    <3>1. cap' = cap /\ c = cap /\ p = pos /\ had = filled /\ b = buf /\ bb = breaks
      BY <2>2, <2>4 DEF Continues, IngestInto
    <3>2. Window \in [1 .. had -> Shown]
      BY <2>3, <3>1, WindowType
    <3>3. \A j \in 1 .. had : Window[j] = [code  |-> b[(p - had + j - 1) % c],
                                         break |-> bb[(p - had + j - 1) % c]]
      BY <3>1 DEF Window, Cells
    <3>4. Shows(Window, c, p, had, b, bb)
      BY <3>2, <3>3 DEF Shows
    <3>5. Log!Extends(Window)
      BY <2>3, <3>4, ExtendsWindow
    <3> QED  BY <3>1, <3>5 DEF Log!Next, Log!Arrive
  <2>5. CASE Begins(had, p)
    <3>1. had = 0 /\ cap' = c
      BY <2>2, <2>5 DEF Begins, IngestInto
    <3>2. 1 .. had = {}
      BY <3>1
    <3>3. Shows(<< >>, c, p, had, b, bb)
      BY <3>2 DEF Shows
    <3>4. Log!Extends(<< >>)
      BY <2>3, <3>3, ExtendsWindow
    <3> QED  BY <3>1, <3>4 DEF Log!Next, Log!Restart
  <2> QED  BY <2>2, <2>4, <2>5
<1>6. ASSUME NEW m, Draw(m) PROVE UNCHANGED << Window, cap >>
  BY <1>6, <1>a DEF Draw
<1>7. CASE UNCHANGED vars
  BY <1>7, <1>a DEF vars
<1> QED  BY <1>1, <1>2, <1>3, <1>4, <1>5, <1>6, <1>7 DEF Next

\* Whatever the rates, the ring's size, the sizes of the frames and where the
\* writes wrap, the ring shows exactly the newest samples with their marks: the
\* detailed ring implements the log.
THEOREM ImplementsLog == Spec => ShowsTheNewest
<1>1. Init => TypeOK
  BY TypeInit
<1>2. TypeOK /\ [Next]_vars => TypeOK'
  BY TypeStep
<1> QED  BY <1>1, <1>2, LogInit, LogStep, PTL DEF Spec, ShowsTheNewest, Log!Spec

----------------------------------------------------------------------------
(* The sweep that is held *)

\* A live view of a screen: its cells, counted from the write position of the
\* moment it was cut, still hold what was drawn.  `room` is the number of samples
\* the ring takes before it comes round to the oldest of them.
ViewHeld ==
  LET len == Len(sweep.cells)
  IN /\ cap # 0 /\ len \in Nat \ {0} /\ sweep.room + len <= cap
     /\ DOMAIN sweep.drawn = 1 .. len
     /\ \A j \in 1 .. len :
          /\ sweep.cells[j] = (pos - sweep.since + sweep.room + j - 1) % cap
          /\ buf[sweep.cells[j]] = sweep.drawn[j]

HeldInv == sweep.since <= sweep.room =>
             IF sweep.live THEN ViewHeld ELSE sweep.kept = sweep.drawn

\* A view that is held shows what was drawn.
LEMMA HeldShows ==
  ASSUME TypeOK, HeldInv PROVE HeldUntilOverwritten
<1> SUFFICES ASSUME sweep.since <= sweep.room PROVE Content(sweep) = sweep.drawn
  BY DEF HeldUntilOverwritten
<1>1. CASE ~sweep.live
  BY <1>1 DEF HeldInv, Content
<1>2. CASE sweep.live
  <2>1. /\ DOMAIN sweep.drawn = 1 .. Len(sweep.cells)
        /\ \A j \in 1 .. Len(sweep.cells) : buf[sweep.cells[j]] = sweep.drawn[j]
    BY <1>2 DEF HeldInv, ViewHeld
  <2>2. sweep.cells \in Seq(Nat) /\ sweep.drawn \in Seq(Sample)
    BY DEF TypeOK, SweepOK
  <2>3. DOMAIN sweep.cells = 1 .. Len(sweep.cells)
    BY <2>2, LenProperties
  <2>4. Content(sweep) = [i \in 1 .. Len(sweep.cells) |-> buf[sweep.cells[i]]]
    BY <1>2, <2>3 DEF Content
  <2>5. Content(sweep) = [i \in 1 .. Len(sweep.cells) |-> sweep.drawn[i]]
    BY <2>1, <2>4
  <2>6. sweep.drawn = [i \in DOMAIN sweep.drawn |-> sweep.drawn[i]]
    BY <2>2
  <2> QED  BY <2>1, <2>5, <2>6
<1> QED  BY <1>1, <1>2

\* A sweep that is frozen is held as it was.
LEMMA FrozenHeld ==
  ASSUME TypeOK, HeldInv, sweep' = Frozen(sweep) PROVE HeldInv'
<1>1. Content(sweep) = sweep.drawn \/ ~(sweep.since <= sweep.room)
  BY HeldShows DEF HeldUntilOverwritten
<1> QED  BY <1>1, FrozenSweep DEF HeldInv

\* A sweep that has just been cut shows what was drawn.
LEMMA CutHeld ==
  ASSUME TypeOK, cap # 0, NEW n \in 1 .. filled, NEW len \in 1 .. n,
         NEW back \in 0 .. n - len, NEW trig \in Nat,
         sweep' = Cut(n, len, back, trig), UNCHANGED << buf, pos, cap >>
  PROVE  HeldInv'
<1>1. cap \in Nat \ {0} /\ pos \in Nat /\ n <= cap /\ n \in Nat /\ len \in Nat
      /\ back \in Nat /\ len >= 1 /\ len + back <= n
  BY DEF TypeOK, RingOK
<1> DEFINE s == Cut(n, len, back, trig)
<1>s. IsCut(s, n, len, back, trig)
  <2>1. RingOK
    BY DEF TypeOK
  <2> QED  BY <2>1, CutSweep
<1> HIDE DEF s
<1>2. /\ s.cells \in Seq(0 .. cap - 1) /\ Len(s.cells) = len
      /\ \A i \in 1 .. len : /\ s.cells[i] = (pos - back - len + i - 1) % cap
                             /\ s.drawn[i] = buf[(pos - back - len + i - 1) % cap]
      /\ s.drawn = [i \in 1 .. len |-> buf[s.cells[i]]]
      /\ s.kept = IF IsView(n) THEN << >> ELSE s.drawn
      /\ s.live = IsView(n) /\ s.since = 0 /\ s.room = cap - len - back
  BY <1>s DEF IsCut
<1>3. sweep' = s
  BY DEF s
<1>4. CASE ~IsView(n)
  BY <1>2, <1>3, <1>4 DEF HeldInv
<1>5. ASSUME NEW j \in 1 .. len
      PROVE  s.cells[j] = (pos - s.since + s.room + j - 1) % cap
  <2> DEFINE x == pos - back - len + j - 1
  <2>1. x \in Int /\ pos - 0 + (cap - len - back) + j - 1 = x + cap
    BY <1>1
  <2>2. s.cells[j] = x % cap
    BY <1>2
  <2> HIDE DEF x
  <2>3. (x + cap) % cap = x % cap
    BY <1>1, <2>1, ModTurn
  <2> QED  BY <1>2, <2>1, <2>2, <2>3
<1>6. CASE IsView(n)
  <2>1. DOMAIN s.drawn = 1 .. len
    BY <1>2
  <2>2. \A j \in 1 .. len : buf[s.cells[j]] = s.drawn[j]
    BY <1>2
  <2>3. s.room + len <= cap
    BY <1>1, <1>2
  <2>4. sweep'.cells = s.cells /\ sweep'.drawn = s.drawn /\ sweep'.since = s.since
        /\ sweep'.room = s.room /\ buf' = buf /\ pos' = pos /\ cap' = cap
        /\ Len(sweep'.cells) = len
    BY <1>2, <1>3
  <2>5. ViewHeld'
    BY <1>1, <1>5, <2>1, <2>2, <2>3, <2>4 DEF ViewHeld
  <2> QED  BY <1>2, <1>3, <1>6, <2>5 DEF HeldInv
<1> QED  BY <1>4, <1>6

\* As long as what arrives fits in front of a view, the view is not touched.
LEMMA AppendHeld ==
  ASSUME TypeOK, HeldInv, NEW f \in Frame, NEW c \in Nat \ {0}, NEW p \in 0 .. c - 1,
         NEW had \in 0 .. c, NEW b \in [0 .. c - 1 -> Sample],
         NEW bb \in [0 .. c - 1 -> BOOLEAN],
         IngestInto(f, c, p, had, b, bb), Continues(f, c, p, had, b, bb)
  PROVE  HeldInv'
<1>1. /\ Codes(f) \in Seq(Sample) /\ Len(Codes(f)) = f.size /\ f.size \in Nat \ {0}
  BY CodesType
<1>2. PICK k, since, room : k = f.size /\ since = sweep.since /\ room = sweep.room
  OBVIOUS
<1>3. k \in Nat \ {0} /\ since \in Nat /\ room \in Int
  BY <1>1, <1>2 DEF TypeOK, SweepOK
<1>4. /\ cap' = c /\ cap = c /\ pos = p /\ buf = b /\ buf' = Appended(b, Codes(f), p, c)
      /\ pos' = PosAfter(p, c, k)
      /\ sweep' = Aged(sweep, k)
  BY <1>2 DEF IngestInto, Continues
<1>5. /\ sweep'.since = (IF since > room THEN since ELSE since + k) /\ sweep'.room = room
      /\ sweep'.live = sweep.live /\ sweep'.kept = sweep.kept
      /\ sweep'.drawn = sweep.drawn /\ sweep'.cells = sweep.cells
  BY <1>2, <1>4 DEF TypeOK, SweepOK, Aged
<1> SUFFICES ASSUME sweep'.since <= sweep'.room
             PROVE  IF sweep.live THEN ViewHeld' ELSE sweep.kept = sweep.drawn
  BY <1>5 DEF HeldInv
<1>7. since <= room /\ since + k <= room /\ sweep'.since = since + k
  BY <1>3, <1>5
<1>8. CASE ~sweep.live
  BY <1>2, <1>7, <1>8 DEF HeldInv
<1>9. CASE sweep.live
  <2>1. PICK len : len = Len(sweep.cells)
    OBVIOUS
  <2>2. /\ len \in Nat \ {0} /\ room + len <= c /\ DOMAIN sweep.drawn = 1 .. len
        /\ \A j \in 1 .. len : /\ sweep.cells[j] = (p - since + room + j - 1) % c
                               /\ b[sweep.cells[j]] = sweep.drawn[j]
    BY <1>2, <1>4, <1>7, <1>9, <2>1 DEF HeldInv, ViewHeld
  <2>3. since + k <= room /\ sweep'.since = since + k /\ k < c
    BY <1>3, <1>7, <2>2
  <2>4. pos' = (p + k) % c /\ pos' \in Int
    <3>1. pos' = (p + k) % c
      BY <1>3, <1>4, <2>3 DEF PosAfter
    <3>2. p + k \in Int
      BY <1>3
    <3> QED  BY <3>1, <3>2, DivMod
  <2>5. ASSUME NEW j \in 1 .. len
        PROVE  /\ sweep.cells[j] = (pos' - (since + k) + room + j - 1) % c
               /\ buf'[sweep.cells[j]] = sweep.drawn[j]
    <3> DEFINE x == sweep.cells[j]
               d == room - since + j - 1
    <3>0. d \in 0 .. c - 1 /\ k <= d /\ d \in Int
      <4>1. \A R, S, J, K, L, C \in Int :
              J \in 1 .. L /\ R + L <= C /\ S + K <= R /\ S >= 0 /\ K >= 0 =>
                /\ R - S + J - 1 \in 0 .. C - 1 /\ K <= R - S + J - 1
                /\ R - S + J - 1 \in Int
        OBVIOUS
      <4>2. /\ room \in Int /\ since \in Int /\ j \in Int /\ k \in Int /\ len \in Int
            /\ c \in Int /\ since >= 0 /\ k >= 0
            /\ j \in 1 .. len /\ room + len <= c /\ since + k <= room
        BY <1>3, <2>2, <2>3
      <4> QED  BY <4>1, <4>2
    <3>a. /\ p - since + room + j - 1 = p + d
          /\ pos' - (since + k) + room + j - 1 = pos' + (d - k)
      BY <1>3, <2>4
    <3>b. /\ p + d = (p + k) + (d - k) /\ p + k \in Int /\ d - k \in Int /\ -p \in Int
          /\ p + d \in Int /\ (p + d) + (-p) = d
      <4> HIDE DEF d
      <4> QED  BY <1>3, <3>0
    <3>1. /\ d \in 0 .. c - 1 /\ k <= d
          /\ p - since + room + j - 1 = p + d
          /\ pos' - (since + k) + room + j - 1 = pos' + (d - k)
          /\ p + d = (p + k) + (d - k) /\ p + k \in Int /\ d - k \in Int /\ -p \in Int
          /\ p + d \in Int /\ (p + d) + (-p) = d
      BY <3>0, <3>a, <3>b
    <3>2. x = (p + d) % c
      BY <2>2, <3>1
    <3> HIDE DEF d
    <3>3. (pos' + (d - k)) % c = ((p + k) + (d - k)) % c
      BY <2>4, <3>1, ModShift
    <3>4. x \in 0 .. c - 1
      BY <3>1, <3>2, DivMod
    <3>5. Offset(x, p, c) = d
      <4>1. x - p = x + (-p)
        BY <3>4
      <4>2. (((p + d) % c) + (-p)) % c = ((p + d) + (-p)) % c
        BY <3>1, ModShift
      <4>3. d % c = d
        BY <3>1, ModSmall
      <4> QED  BY <3>1, <3>2, <4>1, <4>2, <4>3 DEF Offset
    <3>6. buf'[x] = b[x]
      <4>1. ~(k >= c) /\ ~(Offset(x, p, c) < k)
        <5>1. \A A, B, C \in Int : A < C /\ A <= B => ~(A >= C) /\ ~(B < A)
          OBVIOUS
        <5>2. k \in Int /\ d \in Int /\ c \in Int /\ k < c /\ k <= d
          BY <1>3, <2>3, <3>0
        <5>3. ~(k >= c) /\ ~(d < k)
          BY <5>1, <5>2
        <5> QED  BY <3>5, <5>3
      <4>2. Appended(b, Codes(f), p, c)[x] = b[x]
        BY <1>1, <1>2, <3>4, <4>1 DEF Appended
      <4> QED  BY <1>4, <4>2
    <3> QED  BY <2>2, <3>1, <3>2, <3>3, <3>6
  <2>6. ViewHeld'
    BY <1>4, <1>5, <2>1, <2>2, <2>3, <2>5 DEF ViewHeld
  <2> QED  BY <1>9, <2>6
<1> QED  BY <1>8, <1>9

\* No step lets a held sweep change before the ring comes round to it.
LEMMA HeldStep == TypeOK /\ HeldInv /\ [Next]_vars => HeldInv'
<1> SUFFICES ASSUME TypeOK, HeldInv, [Next]_vars PROVE HeldInv'
  OBVIOUS
<1>a. ASSUME UNCHANGED << acqVars, sweep >> PROVE HeldInv'
  BY <1>a DEF acqVars, ringVars, HeldInv, ViewHeld
<1>1. CASE Produce
  BY <1>1, <1>a DEF Produce
<1>2. CASE DeviceStops
  BY <1>2, <1>a DEF DeviceStops
<1>3. CASE StartCapture
  BY <1>3, FrozenHeld DEF StartCapture
<1>4. CASE Tick
  BY <1>4, <1>a DEF Tick
<1>5. CASE Ingest
  <2>1. PICK f \in Frame, c \in Nat \ {0} :
           \E p \in 0 .. c - 1, had \in 0 .. c,
              b \in [0 .. c - 1 -> Sample], bb \in [0 .. c - 1 -> BOOLEAN] :
             /\ IngestInto(f, c, p, had, b, bb)
             /\ Continues(f, c, p, had, b, bb) \/ Begins(had, p)
    BY <1>5, IngestCases
  <2>2. PICK p \in 0 .. c - 1, had \in 0 .. c,
             b \in [0 .. c - 1 -> Sample], bb \in [0 .. c - 1 -> BOOLEAN] :
             /\ IngestInto(f, c, p, had, b, bb)
             /\ Continues(f, c, p, had, b, bb) \/ Begins(had, p)
    BY <2>1
  <2>3. CASE Continues(f, c, p, had, b, bb)
    BY <2>2, <2>3, AppendHeld
  <2>4. CASE Begins(had, p)
    BY <2>4, FrozenHeld DEF Begins
  <2> QED  BY <2>2, <2>3, <2>4
<1>6. ASSUME NEW m, Draw(m) PROVE HeldInv'
  <2>1. UNCHANGED acqVars
    BY <1>6 DEF Draw
  <2>2. CASE sweep' = sweep
    BY <1>a, <2>1, <2>2
  <2>3. CASE sweep' # sweep
    <3>1. PICK n \in 1 .. filled : cap # 0 /\
             \E len \in 1 .. n : \E back \in 0 .. n - len, trig \in Nat :
                sweep' = Cut(n, len, back, trig)
      BY <1>6, <2>3, DrawCases
    <3>2. PICK len \in 1 .. n : \E back \in 0 .. n - len, trig \in Nat :
                sweep' = Cut(n, len, back, trig)
      BY <3>1
    <3>3. PICK back \in 0 .. n - len, trig \in Nat : sweep' = Cut(n, len, back, trig)
      BY <3>2
    <3>4. UNCHANGED << buf, pos, cap >>
      BY <2>1 DEF acqVars, ringVars
    <3> QED  BY <3>1, <3>3, <3>4, CutHeld
  <2> QED  BY <2>2, <2>3
<1>7. CASE UNCHANGED vars
  BY <1>7, <1>a DEF vars
<1> QED  BY <1>1, <1>2, <1>3, <1>4, <1>5, <1>6, <1>7 DEF Next

\* For every ring and frame size: what normal mode holds on the screen, and is
\* measured and exported from it, is what was drawn, until the ring comes round.
THEOREM HeldSweepIsDrawn == Spec => []HeldUntilOverwritten
<1>1. Init => HeldInv
  BY DEF Init, HeldInv
<1>2. TypeOK /\ HeldInv => HeldUntilOverwritten
  BY HeldShows
<1> QED  BY <1>1, <1>2, TypeCorrect, HeldStep, PTL DEF Spec

----------------------------------------------------------------------------
(* Nothing is joined *)

\* A frame of run r, with sequence number q, whose samples end before place e: the
\* device went on from there, unless it has another run by now.
Precedes(r, q, e) == r <= run /\ (r = run => q < seq /\ (q + 1 = seq => e = place))

\* The frame f goes on where that frame ended, if it is the next of its run and
\* carries no flag.
Before(r, q, e, f) == f.run = r /\ f.seq = q + 1 /\ ~f.flag => f.at = e

\* The frames that wait, and the last sample of the ring, are each followed by what
\* the numbers and flags say.
Ended(f) == f.at + f.size
QueueOK ==
  \A i \in 1 .. Len(frames) :
    /\ Precedes(frames[i].run, frames[i].seq, Ended(frames[i]))
    /\ \A j \in i + 1 .. Len(frames) :
         Before(frames[i].run, frames[i].seq, Ended(frames[i]), frames[j])

Last == buf[(pos - 1) % cap]
TailOK ==
  cap # 0 =>
    /\ lastSeq # NoSeq
    /\ Precedes(Last.run, lastSeq, Last.at + 1)
    /\ \A i \in 1 .. Len(frames) : Before(Last.run, lastSeq, Last.at + 1, frames[i])

WindowOK == \A i \in 2 .. filled :
              Window[i].break \/ Follows(Window[i - 1].code, Window[i].code)
TriggerOK == sweep.at > 1 => Follows(sweep.drawn[sweep.at - 1], sweep.drawn[sweep.at])

ChainInv == QueueOK /\ TailOK /\ WindowOK /\ TriggerOK

\* Sequences of frames, as the deque leaves them after Tail.
LEMMA TailFrames ==
  ASSUME NEW S, NEW s \in Seq(S), s # << >>
  PROVE  /\ Len(Tail(s)) = Len(s) - 1 /\ Len(s) \in Nat \ {0}
         /\ \A i \in 1 .. Len(s) - 1 : Tail(s)[i] = s[i + 1]
  BY HeadTailProperties, EmptySeq, LenProperties

\* A frame that is put goes behind those that were there, the oldest of which may
\* be gone.
LEMMA PutFrames ==
  ASSUME TypeOK, NEW f \in Frame, Put(f)
  PROVE  \E d \in {0, 1} :
           /\ d <= Len(frames) /\ Len(frames') = Len(frames) - d + 1
           /\ \A i \in 1 .. Len(frames') :
                frames'[i] = IF i = Len(frames') THEN f ELSE frames[i + d]
<1>1. frames \in Seq(Frame) /\ FrameCapacity \in Nat \ {0} /\ Len(frames) \in Nat
  BY DisplayAssumption DEF TypeOK, DeviceOK
<1>2. CASE Len(frames) = FrameCapacity
  <2>1. frames # << >> /\ frames' = Append(Tail(frames), f)
    BY <1>1, <1>2 DEF Put
  <2>2. PICK t \in Seq(Frame) : /\ t = Tail(frames) /\ Len(t) = Len(frames) - 1
                                /\ \A i \in 1 .. Len(frames) - 1 : t[i] = frames[i + 1]
    <3>1. Tail(frames) \in Seq(Frame)
      BY <1>1, <2>1
    <3> QED  BY <1>1, <2>1, <3>1, TailFrames
  <2>3. frames' = Append(t, f) /\ Len(t) \in Nat
    BY <2>1, <2>2
  <2>4. Len(frames') = Len(t) + 1
        /\ \A i \in 1 .. Len(t) + 1 : frames'[i] = IF i = Len(t) + 1 THEN f ELSE t[i]
    <3>1. \A g \in Frame, q \in Seq(Frame) :
            /\ Len(Append(q, g)) = Len(q) + 1
            /\ \A i \in 1 .. Len(q) + 1 : Append(q, g)[i] = IF i = Len(q) + 1 THEN g ELSE q[i]
      BY AppendProperties
    <3>2. /\ Len(Append(t, f)) = Len(t) + 1
          /\ \A i \in 1 .. Len(t) + 1 :
               Append(t, f)[i] = IF i = Len(t) + 1 THEN f ELSE t[i]
      BY <2>2, <3>1
    <3> QED  BY <2>3, <3>2
  <2>5. 1 <= Len(frames) /\ Len(frames') = Len(frames) - 1 + 1
    BY <1>1, <1>2, <2>2, <2>4
  <2>6. ASSUME NEW i \in 1 .. Len(frames')
        PROVE  frames'[i] = IF i = Len(frames') THEN f ELSE frames[i + 1]
    <3>1. PICK n, m : n = Len(frames) /\ m = Len(t) /\ n \in Nat /\ m = n - 1
      BY <1>1, <2>2
    <3>2. i \in 1 .. m + 1
      BY <2>4, <3>1
    <3>3. i = m + 1 \/ i \in 1 .. n - 1
      BY <3>1, <3>2
    <3>4. CASE i = m + 1
      BY <2>4, <3>1, <3>2, <3>4
    <3>5. CASE i \in 1 .. n - 1
      <4>1. i \in 1 .. m + 1 /\ i # m + 1
        BY <3>1, <3>5
      <4> QED  BY <2>2, <2>4, <3>1, <3>5, <4>1
    <3> QED  BY <3>3, <3>4, <3>5
  <2> QED  BY <2>5, <2>6
<1>3. CASE Len(frames) # FrameCapacity
  <2>1. frames' = Append(frames, f)
    BY <1>3 DEF Put
  <2>2. Len(frames') = Len(frames) + 1
        /\ \A i \in 1 .. Len(frames) + 1 :
             frames'[i] = IF i = Len(frames) + 1 THEN f ELSE frames[i]
    BY <1>1, <2>1, AppendProperties
  <2>3. 0 <= Len(frames) /\ Len(frames') = Len(frames) - 0 + 1
        /\ \A i \in 1 .. Len(frames') :
             frames'[i] = IF i = Len(frames') THEN f ELSE frames[i + 0]
    BY <1>1, <2>2
  <2> QED  BY <2>3
<1> QED  BY <1>2, <1>3

\* What is ended before the device's place is ended before its next frame, and
\* still before its place after it.
LEMMA ProduceKeeps ==
  ASSUME TypeOK, NEW k \in Sizes, NEW flag \in BOOLEAN,
         place' = place + Skip(flag) + k, seq' = seq + 1, run' = run,
         NEW r \in Nat, NEW q \in Nat, NEW e \in Nat, Precedes(r, q, e)
  PROVE  /\ Precedes(r, q, e)'
         /\ Before(r, q, e, [run |-> run, seq |-> seq, flag |-> flag,
                             rate |-> deviceRate, at |-> place + Skip(flag), size |-> k])
<1>1. seq \in Nat /\ place \in Nat /\ run \in Nat
  BY DEF TypeOK, DeviceOK
<1>2. Precedes(r, q, e)'
  BY <1>1, DisplayAssumption DEF Precedes, Skip
<1>3. ASSUME run = r, seq = q + 1, ~flag PROVE place + Skip(flag) = e
  BY <1>1, <1>3 DEF Precedes, Skip
<1> QED  BY <1>2, <1>3 DEF Before

\* A frame in the deque, with the numbers it carries.
LEMMA FrameIn ==
  ASSUME TypeOK, NEW i \in 1 .. Len(frames)
  PROVE  /\ frames[i] \in Frame /\ frames[i].run \in Nat /\ frames[i].seq \in Nat
         /\ Ended(frames[i]) \in Nat
<1>1. frames[i] \in Frame
  BY ElementOfSeq DEF TypeOK, DeviceOK
<1>2. frames[i].at \in Nat /\ frames[i].size \in Nat
  BY <1>1, DisplayAssumption DEF Frame
<1> QED  BY <1>1, <1>2 DEF Frame, Ended

\* The last sample of the ring.
LEMMA LastType ==
  ASSUME TypeOK, cap # 0
  PROVE  Last \in Sample /\ Last.run \in Nat /\ Last.at \in Nat
<1>1. cap \in Nat \ {0} /\ pos - 1 \in Int /\ buf \in [0 .. cap - 1 -> Sample]
  BY DEF TypeOK, RingOK
<1>2. (pos - 1) % cap \in 0 .. cap - 1
  BY <1>1, DivMod
<1>3. Last \in Sample
  BY <1>1, <1>2 DEF Last
<1> QED  BY <1>3 DEF Sample

\* Frame h is the i-th after a step, and those behind it go on from it.
InOrder(i, h) ==
  /\ frames'[i] = h /\ Precedes(h.run, h.seq, Ended(h))'
  /\ \A j \in i + 1 .. Len(frames') : Before(h.run, h.seq, Ended(h), frames'[j])

\* How a deque is shown to be in order after a step, frame by frame.
LEMMA Queued ==
  ASSUME \A i \in 1 .. Len(frames') : \E h \in Frame : InOrder(i, h)
  PROVE  QueueOK'
<1> SUFFICES ASSUME NEW i \in 1 .. Len(frames')
             PROVE  /\ Precedes(frames[i].run, frames[i].seq, Ended(frames[i]))'
                    /\ \A j \in i + 1 .. Len(frames') :
                         Before(frames[i].run, frames[i].seq, Ended(frames[i]), frames[j])'
  BY DEF QueueOK
<1>0. PICK h \in Frame : InOrder(i, h)
  OBVIOUS
<1>1. /\ frames'[i] = h /\ Precedes(h.run, h.seq, Ended(h))'
      /\ \A j \in i + 1 .. Len(frames') : Before(h.run, h.seq, Ended(h), frames'[j])
  BY <1>0 DEF InOrder
<1>2. Precedes(frames[i].run, frames[i].seq, Ended(frames[i]))'
  BY <1>1 DEF Precedes, Ended
<1>3. ASSUME NEW j \in i + 1 .. Len(frames')
      PROVE  Before(frames[i].run, frames[i].seq, Ended(frames[i]), frames[j])'
  BY <1>1 DEF Before, Ended
<1> QED  BY <1>2, <1>3

\* A frame of the device, wherever it goes, breaks no chain.
LEMMA ProduceChain ==
  ASSUME TypeOK, QueueOK, TailOK, Produce PROVE QueueOK' /\ TailOK'
<1>1. PICK k \in Sizes, flag \in BOOLEAN :
        /\ place' = place + Skip(flag) + k /\ seq' = seq + 1
        /\ \/ Put([run |-> run, seq |-> seq, flag |-> flag,
                   rate |-> deviceRate, at |-> place + Skip(flag), size |-> k])
           \/ UNCHANGED frames
  BY DEF Produce
<1>2. run' = run /\ UNCHANGED << lastSeq, buf, pos, cap >>
  BY DEF Produce, acqVars, ringVars
<1>3. seq \in Nat /\ place \in Nat /\ run \in Nat /\ k \in Nat /\ lastSeq \in Nat \cup {NoSeq}
  BY DisplayAssumption DEF TypeOK, DeviceOK, RingOK
<1>4. PICK g \in Frame : g = [run |-> run, seq |-> seq, flag |-> flag,
                              rate |-> deviceRate, at |-> place + Skip(flag), size |-> k]
  <2>1. place + Skip(flag) \in Nat /\ deviceRate \in Rates
    BY <1>3 DEF TypeOK, DeviceOK, Skip
  <2>2. [run |-> run, seq |-> seq, flag |-> flag,
         rate |-> deviceRate, at |-> place + Skip(flag), size |-> k] \in Frame
    BY <1>3, <2>1 DEF Frame
  <2> QED  BY <2>2
<1>5. Precedes(g.run, g.seq, Ended(g))'
  BY <1>1, <1>2, <1>3, <1>4 DEF Precedes, Ended, Skip
<1>6. ASSUME NEW r \in Nat, NEW q \in Nat, NEW e \in Nat, Precedes(r, q, e)
      PROVE  Precedes(r, q, e)' /\ Before(r, q, e, g)
  BY <1>1, <1>2, <1>4, <1>6, ProduceKeeps
<1>7. ASSUME NEW h \in Frame, NEW i \in 1 .. Len(frames), h = frames[i]
      PROVE  /\ Precedes(h.run, h.seq, Ended(h))' /\ Before(h.run, h.seq, Ended(h), g)
             /\ \A j \in i + 1 .. Len(frames) : Before(h.run, h.seq, Ended(h), frames[j])
  <2>1. h.run \in Nat /\ h.seq \in Nat /\ Ended(h) \in Nat
    BY <1>7, FrameIn
  <2>2. Precedes(h.run, h.seq, Ended(h))
        /\ \A j \in i + 1 .. Len(frames) : Before(h.run, h.seq, Ended(h), frames[j])
    BY <1>7 DEF QueueOK
  <2> QED  BY <1>6, <2>1, <2>2
<1>8. ASSUME UNCHANGED frames PROVE QueueOK'
  <2>1. ASSUME NEW i \in 1 .. Len(frames')
        PROVE  \E h \in Frame : InOrder(i, h)
    <3>1. PICK h \in Frame : h = frames[i]
      BY <1>8, FrameIn
    <3>2. InOrder(i, h)
      BY <1>7, <1>8, <3>1 DEF InOrder
    <3> QED  BY <3>2
  <2> QED  BY <2>1, Queued
<1>9. ASSUME Put(g) PROVE QueueOK'
  <2>1. PICK d \in {0, 1} :
           /\ d <= Len(frames) /\ Len(frames') = Len(frames) - d + 1
           /\ \A i \in 1 .. Len(frames') :
                frames'[i] = IF i = Len(frames') THEN g ELSE frames[i + d]
    BY <1>9, PutFrames
  <2>2. PICK n \in Nat : n = Len(frames)
    BY LenProperties DEF TypeOK, DeviceOK
  <2>3. ASSUME NEW i \in 1 .. Len(frames')
        PROVE  \E h \in Frame : InOrder(i, h)
    <3>1. CASE i = Len(frames')
      <4>1. frames'[i] = g /\ i + 1 .. Len(frames') = {}
        BY <2>1, <2>2, <3>1
      <4>2. InOrder(i, g)
        BY <1>5, <4>1 DEF InOrder
      <4> QED  BY <4>2
    <3>2. CASE i # Len(frames')
      <4>1. i + d \in 1 .. n /\ frames'[i] = frames[i + d]
        BY <2>1, <2>2, <3>2
      <4>2. PICK h \in Frame : h = frames[i + d]
        BY <2>2, <4>1, FrameIn
      <4>3. /\ Precedes(h.run, h.seq, Ended(h))' /\ Before(h.run, h.seq, Ended(h), g)
            /\ \A j \in i + d + 1 .. Len(frames) : Before(h.run, h.seq, Ended(h), frames[j])
        BY <1>7, <2>2, <4>1, <4>2
      <4>4. ASSUME NEW j \in i + 1 .. Len(frames')
            PROVE  Before(h.run, h.seq, Ended(h), frames'[j])
        <5>1. CASE j = Len(frames')
          BY <2>1, <2>2, <4>3, <5>1
        <5>2. CASE j # Len(frames')
          <6>1. \A I, J, D, L, M \in Int :
                  J \in I + 1 .. M /\ J # M /\ M = L - D + 1 => J + D \in I + D + 1 .. L
            OBVIOUS
          <6>2. /\ i \in Int /\ j \in Int /\ d \in Int /\ n \in Int /\ Len(frames') \in Int
                /\ j \in i + 1 .. Len(frames') /\ Len(frames') = n - d + 1
            BY <2>1, <2>2
          <6>3. j + d \in i + d + 1 .. n
            BY <5>2, <6>1, <6>2
          <6>4. j \in 1 .. Len(frames')
            BY <6>2
          <6>5. frames'[j] = frames[j + d]
            BY <2>1, <5>2, <6>4
          <6> QED  BY <2>2, <4>3, <6>3, <6>5
        <5> QED  BY <5>1, <5>2
      <4>5. InOrder(i, h)
        BY <4>1, <4>2, <4>3, <4>4 DEF InOrder
      <4> QED  BY <4>5
    <3> QED  BY <3>1, <3>2
  <2> QED  BY <2>3, Queued
<1>10. ASSUME cap # 0
       PROVE  /\ lastSeq # NoSeq /\ Last' = Last
              /\ Precedes(Last.run, lastSeq, Last.at + 1)'
              /\ \A i \in 1 .. Len(frames') : Before(Last.run, lastSeq, Last.at + 1, frames'[i])
  <2>1. PICK r \in Nat, e \in Nat : r = Last.run /\ e = Last.at + 1
    BY <1>10, LastType
  <2>2. PICK q \in Nat : q = lastSeq
    BY <1>3, <1>10 DEF TailOK
  <2>3. Precedes(r, q, e) /\ \A i \in 1 .. Len(frames) : Before(r, q, e, frames[i])
    BY <1>10, <2>1, <2>2 DEF TailOK
  <2>4. Precedes(r, q, e)' /\ Before(r, q, e, g)
    BY <1>6, <2>3
  <2>5. Last' = Last
    BY <1>2 DEF Last
  <2>6. \A i \in 1 .. Len(frames') : Before(r, q, e, frames'[i])
    <3>1. CASE UNCHANGED frames
      BY <2>3, <3>1
    <3>2. CASE Put(g)
      <4>1. PICK d \in {0, 1} :
               /\ d <= Len(frames) /\ Len(frames') = Len(frames) - d + 1
               /\ \A i \in 1 .. Len(frames') :
                    frames'[i] = IF i = Len(frames') THEN g ELSE frames[i + d]
        BY <3>2, PutFrames
      <4>2. PICK n \in Nat : n = Len(frames)
        BY LenProperties DEF TypeOK, DeviceOK
      <4>3. \A i \in 1 .. Len(frames') : i # Len(frames') => i + d \in 1 .. Len(frames)
        BY <4>1, <4>2
      <4> QED  BY <2>3, <2>4, <4>1, <4>3
    <3> QED  BY <1>1, <1>4, <3>1, <3>2
  <2>7. Precedes(Last.run, lastSeq, Last.at + 1)'
    BY <1>2, <2>1, <2>2, <2>4, <2>5 DEF Precedes
  <2> QED  BY <1>10, <2>1, <2>2, <2>5, <2>6, <2>7 DEF TailOK
<1>11. QueueOK'
  BY <1>1, <1>4, <1>8, <1>9
<1>12. TailOK'
  BY <1>2, <1>10 DEF TailOK, Before, Last
<1> QED  BY <1>11, <1>12

\* Taking the head of the deque leaves the others in order.
LEMMA TakenQueue ==
  ASSUME TypeOK, QueueOK, frames # << >>, frames' = Tail(frames),
         UNCHANGED << run, seq, place >>
  PROVE  QueueOK'
<1>1. frames \in Seq(Frame)
  BY DEF TypeOK, DeviceOK
<1>2. PICK n \in Nat \ {0} : n = Len(frames) /\ Len(frames') = n - 1
                             /\ \A i \in 1 .. n - 1 : frames'[i] = frames[i + 1]
  BY <1>1, TailFrames
<1>3. ASSUME NEW i \in 1 .. Len(frames')
      PROVE  \E h \in Frame : InOrder(i, h)
  <2>1. i + 1 \in 1 .. n /\ frames'[i] = frames[i + 1]
    BY <1>2
  <2>2. PICK h \in Frame : h = frames[i + 1]
    BY <1>2, <2>1, FrameIn
  <2>3. Precedes(h.run, h.seq, Ended(h))
        /\ \A j \in i + 2 .. n : Before(h.run, h.seq, Ended(h), frames[j])
    BY <1>2, <2>1, <2>2 DEF QueueOK
  <2>4. Precedes(h.run, h.seq, Ended(h))'
    BY <2>3 DEF Precedes
  <2>5. ASSUME NEW j \in i + 1 .. Len(frames')
        PROVE  Before(h.run, h.seq, Ended(h), frames'[j])
    <3>1. j + 1 \in i + 2 .. n /\ frames'[j] = frames[j + 1]
      BY <1>2
    <3> QED  BY <2>3, <3>1
  <2>6. InOrder(i, h)
    BY <2>1, <2>2, <2>4, <2>5 DEF InOrder
  <2> QED  BY <2>6
<1> QED  BY <1>3, Queued

\* The last sample of the ring after a frame is the last of the frame.
LEMMA LastAfter ==
  ASSUME TypeOK, NEW f \in Frame, NEW c \in Nat \ {0}, NEW p \in 0 .. c - 1,
         NEW had \in 0 .. c, NEW b \in [0 .. c - 1 -> Sample],
         NEW bb \in [0 .. c - 1 -> BOOLEAN],
         IngestInto(f, c, p, had, b, bb), RingOK'
  PROVE  Last' = [run |-> f.run, at |-> Ended(f) - 1] /\ f.at \in Nat /\ f.size \in Nat \ {0}
<1>1. PICK n, m : n = filled' /\ m = Kept(f, c)
  OBVIOUS
<1>2. n \in 1 .. c /\ m < n /\ m \in Nat
      /\ Window'[n] = [code  |-> Codes(f)[f.size - n + n], break |-> Broken(f) /\ n = m + 1]
  <2>1. /\ filled' \in 1 .. c /\ Kept(f, c) \in 0 .. had /\ Kept(f, c) < filled'
        /\ ShowsBehind(f, c, p, had, b, bb)
    BY WindowAfter
  <2>2. n \in 1 .. c /\ m < n /\ m \in Nat
    BY <1>1, <2>1
  <2>3. \A i \in 1 .. n : i > m =>
          Window'[i] = [code |-> Codes(f)[f.size - n + i], break |-> Broken(f) /\ i = m + 1]
    BY <1>1, <2>1 DEF ShowsBehind
  <2>4. n \in 1 .. n /\ n > m
    BY <2>2
  <2> QED  BY <2>2, <2>3, <2>4
<1>3. f.size \in Nat \ {0} /\ f.at \in Nat
  BY CodesType DEF Frame
<1>4. Codes(f)[f.size - n + n] = [run |-> f.run, at |-> f.at + f.size - 1]
  <2>1. f.size - n + n = f.size /\ f.size \in 1 .. f.size
    BY <1>2, <1>3
  <2> QED  BY <2>1 DEF Codes
<1>5. Window'[n].code = buf'[(pos' - n + n - 1) % cap']
  BY <1>1, <1>2 DEF Window, Cells
<1>6. pos' - n + n - 1 = pos' - 1
  BY <1>2 DEF RingOK
<1>7. Last' = Window'[n].code
  BY <1>5, <1>6 DEF Last
<1> QED  BY <1>2, <1>3, <1>4, <1>7, SMTT(40) DEF Ended

\* The splice between what was in the ring and what arrived carries the mark,
\* unless the signal had the two samples side by side.
LEMMA SpliceMarked ==
  ASSUME TypeOK, TailOK, cap # 0, NEW f \in Frame, frames # << >>, f = Head(frames),
         ~Broken(f)
  PROVE  Follows(Last, Codes(f)[1])
<1>1. f = frames[1] /\ 1 \in 1 .. Len(frames)
  <2>1. frames \in Seq(Frame)
    BY DEF TypeOK, DeviceOK
  <2>2. Len(frames) \in Nat \ {0}
    BY <2>1, TailFrames
  <2> QED  BY <2>1, <2>2, HeadTailProperties
<1>2. Before(Last.run, lastSeq, Last.at + 1, f) /\ lastSeq # NoSeq
  BY <1>1 DEF TailOK
<1>3. ~f.flag /\ f.seq = lastSeq + 1
  BY <1>2 DEF Broken, Gap
<1>4. Codes(f)[1] = [run |-> f.run, at |-> f.at + 1 - 1] /\ f.at \in Nat
  <2>1. f \in Frame
    BY <1>1, FrameIn
  <2>2. f.at \in Nat /\ 1 \in 1 .. f.size
    <3>1. f.size \in Nat \ {0}
      BY <2>1, CodesType
    <3> QED  BY <2>1, <3>1 DEF Frame
  <2> QED  BY <2>2 DEF Codes
<1> QED  BY <1>2, <1>3, <1>4 DEF Before, Follows

\* A frame ingested keeps the window whole.
LEMMA IngestWindow ==
  ASSUME TypeOK, TailOK, WindowOK, RingOK', NEW f \in Frame, NEW c \in Nat \ {0},
         NEW p \in 0 .. c - 1,
         NEW had \in 0 .. c, NEW b \in [0 .. c - 1 -> Sample],
         NEW bb \in [0 .. c - 1 -> BOOLEAN],
         IngestInto(f, c, p, had, b, bb),
         Continues(f, c, p, had, b, bb) \/ Begins(had, p)
  PROVE  WindowOK'
<1>1. PICK n, m : n = filled' /\ m = Kept(f, c)
  OBVIOUS
<1>2. /\ n \in 1 .. c /\ m \in 0 .. had /\ m < n /\ Least(f.size, c) = n - m
      /\ \A i \in 1 .. n :
           IF i > m
           THEN Window'[i] = [code  |-> Codes(f)[f.size - n + i],
                              break |-> Broken(f) /\ i = m + 1]
           ELSE /\ had - m + i \in 1 .. had
                /\ Window'[i] =
                     [code  |-> b[(p - had + (had - m + i) - 1) % c],
                      break |-> bb[(p - had + (had - m + i) - 1) % c]]
  <2>1. /\ filled' \in 1 .. c /\ Kept(f, c) \in 0 .. had /\ Kept(f, c) < filled'
        /\ Least(f.size, c) = filled' - Kept(f, c)
        /\ ShowsBehind(f, c, p, had, b, bb)
    BY WindowAfter
  <2> QED  BY <1>1, <2>1 DEF ShowsBehind
<1>3. f.size \in Nat \ {0} /\ f.at \in Nat /\ f.size >= n - m
  BY <1>2, CodesType DEF Frame, Least
<1>n. \A x \in 1 .. n : x > m =>
        /\ Window'[x].code = Codes(f)[f.size - n + x]
        /\ Broken(f) /\ x = m + 1 => Window'[x].break
  <2> SUFFICES ASSUME NEW x \in 1 .. n, x > m
               PROVE  /\ Window'[x].code = Codes(f)[f.size - n + x]
                      /\ Broken(f) /\ x = m + 1 => Window'[x].break
    OBVIOUS
  <2>1. Window'[x] = [code  |-> Codes(f)[f.size - n + x],
                      break |-> Broken(f) /\ x = m + 1]
    BY <1>2
  <2>2. ASSUME NEW u, NEW v, Window'[x] = [code |-> u, break |-> v]
        PROVE  Window'[x].code = u /\ Window'[x].break = v
    BY <2>2
  <2>3. /\ Window'[x].code = Codes(f)[f.size - n + x]
        /\ Window'[x].break = (Broken(f) /\ x = m + 1)
    BY <2>1, <2>2
  <2> QED  BY <2>3
<1>o. \A x \in 1 .. n : ~(x > m) =>
        /\ had - m + x \in 1 .. had
        /\ Window'[x] = [code  |-> b[(p - had + (had - m + x) - 1) % c],
                         break |-> bb[(p - had + (had - m + x) - 1) % c]]
  BY <1>2
<1>4. had > 0 => Continues(f, c, p, had, b, bb)
  BY DEF Begins
<1> SUFFICES ASSUME NEW i \in 2 .. n
             PROVE  Window'[i].break \/ Follows(Window'[i - 1].code, Window'[i].code)
  BY <1>1 DEF WindowOK, Follows
<1>5. i \in 1 .. n /\ i - 1 \in 1 .. n /\ i \in Int
  BY <1>2
<1>6. CASE i - 1 > m
  <2>1. /\ f.size - n + (i - 1) \in 1 .. f.size /\ f.size - n + i \in 1 .. f.size
        /\ i > m
    <3>1. \A F, N, M, I \in Int : I \in 1 .. N /\ I - 1 > M /\ F >= N - M =>
            /\ F - N + (I - 1) \in 1 .. F /\ F - N + I \in 1 .. F /\ I > M
      OBVIOUS
    <3>2. f.size \in Int /\ n \in Int /\ m \in Int /\ i \in Int
      BY <1>2, <1>3, <1>5
    <3> QED  BY <1>3, <1>5, <1>6, <3>1, <3>2
  <2>2. /\ Window'[i - 1].code = Codes(f)[f.size - n + (i - 1)]
        /\ Window'[i].code = Codes(f)[f.size - n + i]
    BY <1>n, <1>5, <1>6, <2>1
  <2>3. PICK x \in Int : x = f.size - n + i /\ f.size - n + (i - 1) = x - 1
    <3>1. \A F, N, I \in Int : F - N + I \in Int /\ F - N + (I - 1) = (F - N + I) - 1
      OBVIOUS
    <3>2. f.size \in Int /\ n \in Int /\ i \in Int
      BY <1>2, <1>3, <1>5
    <3> QED  BY <3>1, <3>2, SMTT(40)
  <2>4. /\ Codes(f)[x - 1] = [run |-> f.run, at |-> f.at + (x - 1) - 1]
        /\ Codes(f)[x] = [run |-> f.run, at |-> f.at + x - 1]
    BY <2>1, <2>3 DEF Codes
  <2>5. Window'[i].code.at = Window'[i - 1].code.at + 1
    <3>1. Window'[i - 1].code = Codes(f)[x - 1] /\ Window'[i].code = Codes(f)[x]
      BY <2>2, <2>3
    <3>2. f.at + x - 1 = (f.at + (x - 1) - 1) + 1
      <4>1. \A A, X \in Int : A + X - 1 = (A + (X - 1) - 1) + 1
        OBVIOUS
      <4>2. f.at \in Int
        BY <1>3
      <4> QED  BY <4>1, <4>2
    <3> QED  BY <2>4, <3>1, <3>2
  <2> QED  BY <2>5 DEF Follows
<1>7. CASE i - 1 = m
  <2>1. had > 0 /\ i > m /\ ~(i - 1 > m) /\ n - m < c
    BY <1>2, <1>5, <1>7
  <2>2. f.size = n - m
    BY <1>2, <1>3, <2>1 DEF Least
  <2>3. Window'[i].code = Codes(f)[1] /\ (Broken(f) => Window'[i].break)
    <3>1. f.size - n + i = 1 /\ i = m + 1
      BY <1>2, <1>3, <1>5, <1>7, <2>2
    <3>2. /\ Window'[i].code = Codes(f)[f.size - n + i]
          /\ Broken(f) /\ i = m + 1 => Window'[i].break
      BY <1>n, <1>5, <2>1
    <3> QED  BY <3>1, <3>2
  <2>4. Window'[i - 1].code = b[(p - 1) % c]
    <3>1. p - had + (had - m + (i - 1)) - 1 = p - 1
      BY <1>2, <1>5, <1>7, SMTT(40)
    <3>2. Window'[i - 1] = [code  |-> b[(p - had + (had - m + (i - 1)) - 1) % c],
                            break |-> bb[(p - had + (had - m + (i - 1)) - 1) % c]]
      BY <1>o, <1>5, <2>1
    <3> QED  BY <3>1, <3>2
  <2>5. cap # 0 /\ b[(p - 1) % c] = Last
    BY <1>4, <2>1 DEF Continues, Last
  <2>6. frames # << >> /\ f = Head(frames)
    BY DEF IngestInto
  <2>7. Broken(f) \/ Follows(Last, Codes(f)[1])
    BY <2>5, <2>6, SpliceMarked
  <2> QED  BY <2>3, <2>4, <2>5, <2>7
<1>8. CASE i <= m
  <2>1. had > 0 /\ ~(i > m) /\ ~(i - 1 > m)
    BY <1>2, <1>5, <1>8
  <2>2. c = cap /\ p = pos /\ had = filled /\ b = buf /\ bb = breaks
    BY <1>4, <2>1 DEF Continues
  <2>3. PICK j \in Int : j = had - m + i /\ had - m + (i - 1) = j - 1
    <3>1. \A H, M, I \in Int : H - M + I \in Int /\ H - M + (I - 1) = (H - M + I) - 1
      OBVIOUS
    <3>2. had \in Int /\ m \in Int /\ i \in Int
      BY <1>2, <1>5
    <3> QED  BY <3>1, <3>2
  <2>4. j \in 1 .. had /\ j - 1 \in 1 .. had
    BY <1>2, <1>5, <2>1, <2>3
  <2>5. Window'[i] = Window[j] /\ Window'[i - 1] = Window[j - 1]
    <3>1. \A x \in 1 .. had :
            Window[x] = [code  |-> b[(p - had + x - 1) % c],
                         break |-> bb[(p - had + x - 1) % c]]
      BY <2>2 DEF Window, Cells
    <3>2. Window[j] = [code  |-> b[(p - had + j - 1) % c], break |-> bb[(p - had + j - 1) % c]]
      BY <2>4, <3>1
    <3>3. Window[j - 1] = [code  |-> b[(p - had + (j - 1) - 1) % c],
                           break |-> bb[(p - had + (j - 1) - 1) % c]]
      BY <2>4, <3>1
    <3>4. Window'[i] = [code  |-> b[(p - had + j - 1) % c], break |-> bb[(p - had + j - 1) % c]]
      BY <1>o, <1>5, <2>1, <2>3
    <3>5. Window'[i - 1] = [code  |-> b[(p - had + (j - 1) - 1) % c],
                            break |-> bb[(p - had + (j - 1) - 1) % c]]
      BY <1>o, <1>5, <2>1, <2>3
    <3> QED  BY <3>2, <3>3, <3>4, <3>5
  <2>6. Window[j].break \/ Follows(Window[j - 1].code, Window[j].code)
    BY <2>2, <2>4 DEF WindowOK
  <2> QED  BY <2>5, <2>6
<1> QED  BY <1>2, <1>5, <1>6, <1>7, <1>8

\* A frame ingested breaks no chain.
LEMMA IngestChain ==
  ASSUME TypeOK, TypeOK', ChainInv, Ingest PROVE ChainInv'
<1>1. PICK f \in Frame, c \in Nat \ {0} :
         \E p \in 0 .. c - 1, had \in 0 .. c,
            b \in [0 .. c - 1 -> Sample], bb \in [0 .. c - 1 -> BOOLEAN] :
           /\ IngestInto(f, c, p, had, b, bb)
           /\ Continues(f, c, p, had, b, bb) \/ Begins(had, p)
  BY IngestCases
<1>2. PICK p \in 0 .. c - 1, had \in 0 .. c,
           b \in [0 .. c - 1 -> Sample], bb \in [0 .. c - 1 -> BOOLEAN] :
           /\ IngestInto(f, c, p, had, b, bb)
           /\ Continues(f, c, p, had, b, bb) \/ Begins(had, p)
  BY <1>1
<1>3. /\ frames # << >> /\ f = Head(frames) /\ frames' = Tail(frames)
      /\ lastSeq' = f.seq /\ cap' = c
      /\ UNCHANGED << run, seq, place >>
  BY <1>2 DEF IngestInto, deviceVars
<1>4. RingOK' /\ QueueOK /\ TailOK /\ WindowOK /\ TriggerOK
  BY DEF TypeOK, ChainInv
<1>5. QueueOK'
  BY <1>3, <1>4, TakenQueue
<1>6. WindowOK'
  BY <1>2, <1>4, IngestWindow
<1>7. TriggerOK'
  <2>1. sweep'.at = sweep.at /\ sweep'.drawn = sweep.drawn
    BY <1>2, FrozenSweep DEF Continues, Begins, Aged, TypeOK, SweepOK
  <2> QED  BY <1>4, <2>1 DEF TriggerOK, Follows
<1>8. TailOK'
  <2>1. Last' = [run |-> f.run, at |-> Ended(f) - 1] /\ f.at \in Nat /\ f.size \in Nat \ {0}
    BY <1>2, <1>4, LastAfter
  <2>2. Last'.run = f.run /\ Last'.at + 1 = Ended(f)
    BY <2>1 DEF Ended
  <2>3. frames \in Seq(Frame) /\ f.seq # NoSeq
    BY DEF TypeOK, DeviceOK, Frame, NoSeq
  <2>4. PICK n \in Nat \ {0} : n = Len(frames) /\ Len(frames') = n - 1
                               /\ \A i \in 1 .. n - 1 : frames'[i] = frames[i + 1]
    BY <1>3, <2>3, TailFrames
  <2>5. f = frames[1] /\ 1 \in 1 .. Len(frames)
    BY <1>3, <2>3, <2>4, HeadTailProperties
  <2>6. Precedes(f.run, f.seq, Ended(f))
        /\ \A j \in 2 .. n : Before(f.run, f.seq, Ended(f), frames[j])
    BY <1>4, <2>4, <2>5 DEF QueueOK
  <2>7. \A i \in 1 .. n - 1 : Before(f.run, f.seq, Ended(f), frames'[i])
    <3>1. \A i \in 1 .. n - 1 : i + 1 \in 2 .. n
      OBVIOUS
    <3> QED  BY <2>4, <2>6, <3>1
  <2>8. Precedes(Last.run, lastSeq, Last.at + 1)'
    BY <1>3, <2>2, <2>6 DEF Precedes
  <2>9. \A i \in 1 .. Len(frames') : Before(Last.run, lastSeq, Last.at + 1, frames[i])'
    BY <1>3, <2>2, <2>4, <2>7 DEF Before
  <2> QED  BY <1>3, <2>3, <2>8, <2>9 DEF TailOK
<1> QED  BY <1>5, <1>6, <1>7, <1>8 DEF ChainInv

\* The trigger of a sweep that is cut is no splice.
LEMMA CutChain ==
  ASSUME TypeOK, WindowOK, cap # 0, NEW n \in 1 .. filled, NEW len \in 1 .. n,
         NEW back \in 0 .. n - len, NEW trig \in Nat,
         sweep' = Cut(n, len, back, trig),
         trig > 1 => /\ trig \in 2 .. len /\ n - back - len + trig \in 2 .. n
                     /\ ~breaks[Cells(n)[n - back - len + trig]]
  PROVE  TriggerOK'
<1>r. RingOK
  BY DEF TypeOK
<1>1. RingOK /\ filled \in Nat /\ cap \in Nat \ {0} /\ pos \in Nat
      /\ n \in Nat /\ len \in Nat /\ back \in Nat
  BY DEF TypeOK, RingOK
<1>2. /\ sweep'.at = trig
      /\ \A i \in 1 .. len : sweep'.drawn[i] = buf[(pos - back - len + i - 1) % cap]
  <2>1. IsCut(sweep', n, len, back, trig)
    BY <1>r, CutSweep
  <2> QED  BY <2>1 DEF IsCut
<1> SUFFICES ASSUME trig > 1
             PROVE  Follows(sweep'.drawn[trig - 1], sweep'.drawn[trig])
  BY <1>2 DEF TriggerOK, Follows
<1>3. PICK j \in Int : j = filled - back - len + trig
  BY <1>1
<1>4. /\ trig \in 1 .. len /\ trig - 1 \in 1 .. len
      /\ j \in 2 .. filled /\ j - 1 \in 1 .. filled
      /\ pos - back - len + trig - 1 = pos - filled + j - 1
      /\ pos - back - len + (trig - 1) - 1 = pos - filled + (j - 1) - 1
      /\ pos - n + (n - back - len + trig) - 1 = pos - filled + j - 1
      /\ n - back - len + trig \in 1 .. n
  BY <1>1, <1>3
<1>5. /\ sweep'.drawn[trig] = Window[j].code
      /\ sweep'.drawn[trig - 1] = Window[j - 1].code
  BY <1>2, <1>4 DEF Window, Cells
<1>6. ~Window[j].break
  <2>1. Cells(n)[n - back - len + trig] = (pos - filled + j - 1) % cap
    BY <1>4 DEF Cells
  <2> QED  BY <1>4, <2>1 DEF Window, Cells
<1> QED  BY <1>4, <1>5, <1>6 DEF WindowOK

\* No step joins what was not joined.
LEMMA ChainStep == TypeOK /\ TypeOK' /\ ChainInv /\ [Next]_vars => ChainInv'
<1> SUFFICES ASSUME TypeOK, TypeOK', ChainInv, [Next]_vars PROVE ChainInv'
  OBVIOUS
<1>0. QueueOK /\ TailOK /\ WindowOK /\ TriggerOK
  BY DEF ChainInv
<1>a. ASSUME UNCHANGED acqVars PROVE WindowOK'
  <2>1. UNCHANGED << buf, breaks, pos, filled, cap >>
    BY <1>a DEF acqVars, ringVars
  <2>2. Window' = Window
    BY <2>1 DEF Window, Cells
  <2> QED  BY <1>0, <2>1, <2>2 DEF WindowOK, Follows
<1>b. ASSUME UNCHANGED acqVars, UNCHANGED frames, UNCHANGED << run, seq, place >>
      PROVE  QueueOK' /\ TailOK'
  BY <1>0, <1>b DEF acqVars, ringVars, QueueOK, TailOK, Last, Precedes, Before, Ended
<1>c. ASSUME UNCHANGED sweep PROVE TriggerOK'
  BY <1>0, <1>c DEF TriggerOK, Follows
<1>1. CASE Produce
  <2>1. QueueOK' /\ TailOK'
    BY <1>0, <1>1, ProduceChain
  <2> QED  BY <1>1, <1>a, <1>c, <2>1 DEF Produce, ChainInv
<1>2. CASE DeviceStops
  BY <1>2, <1>a, <1>b, <1>c DEF DeviceStops, ChainInv
<1>3. CASE StartCapture
  <2>1. cap' = 0 /\ filled' = 0 /\ frames' = frames /\ sweep' = Frozen(sweep)
    BY <1>3 DEF StartCapture
  <2>2. TailOK' /\ WindowOK'
    BY <2>1 DEF TailOK, WindowOK
  <2>3. TriggerOK'
    BY <1>0, <2>1, FrozenSweep DEF TriggerOK, Follows
  <2>4. \/ UNCHANGED << run, seq, place >>
        \/ run' = run + 1
    BY <1>3 DEF StartCapture
  <2>5. ASSUME NEW i \in 1 .. Len(frames')
        PROVE  \E h \in Frame : InOrder(i, h)
    <3>1. PICK h \in Frame : h = frames[i] /\ h.run \in Nat
      BY <2>1, FrameIn
    <3>2. Precedes(h.run, h.seq, Ended(h))
          /\ \A j \in i + 1 .. Len(frames) : Before(h.run, h.seq, Ended(h), frames[j])
      BY <1>0, <2>1, <3>1 DEF QueueOK
    <3>3. Precedes(h.run, h.seq, Ended(h))'
      <4>1. run \in Nat
        BY DEF TypeOK, DeviceOK
      <4> QED  BY <2>4, <3>1, <3>2, <4>1 DEF Precedes
    <3>4. InOrder(i, h)
      BY <2>1, <3>1, <3>2, <3>3 DEF InOrder
    <3> QED  BY <3>4
  <2>6. QueueOK'
    BY <2>5, Queued
  <2> QED  BY <2>2, <2>3, <2>6 DEF ChainInv
<1>4. CASE Tick
  BY <1>4, <1>a, <1>b, <1>c DEF Tick, deviceVars, ChainInv
<1>5. CASE Ingest
  BY <1>5, IngestChain
<1>6. ASSUME NEW mode, Draw(mode) PROVE ChainInv'
  <2>1. UNCHANGED acqVars /\ UNCHANGED frames /\ UNCHANGED << run, seq, place >>
    BY <1>6 DEF Draw, deviceVars
  <2>2. TriggerOK'
    <3>1. CASE sweep' = sweep
      BY <1>c, <3>1
    <3>2. CASE sweep' # sweep
      <4>1. PICK n \in 1 .. filled : cap # 0 /\
               \E len \in 1 .. n : \E back \in 0 .. n - len, trig \in Nat :
                 /\ sweep' = Cut(n, len, back, trig)
                 /\ trig > 1 =>
                      /\ trig \in 2 .. len /\ n - back - len + trig \in 2 .. n
                      /\ ~breaks[Cells(n)[n - back - len + trig]]
        BY <1>6, <3>2, DrawCases
      <4>2. PICK len \in 1 .. n : \E back \in 0 .. n - len, trig \in Nat :
                 /\ sweep' = Cut(n, len, back, trig)
                 /\ trig > 1 =>
                      /\ trig \in 2 .. len /\ n - back - len + trig \in 2 .. n
                      /\ ~breaks[Cells(n)[n - back - len + trig]]
        BY <4>1
      <4>3. PICK back \in 0 .. n - len, trig \in Nat :
                 /\ sweep' = Cut(n, len, back, trig)
                 /\ trig > 1 =>
                      /\ trig \in 2 .. len /\ n - back - len + trig \in 2 .. n
                      /\ ~breaks[Cells(n)[n - back - len + trig]]
        BY <4>2
      <4> QED  BY <1>0, <4>1, <4>3, CutChain
    <3> QED  BY <3>1, <3>2
  <2> QED  BY <1>a, <1>b, <2>1, <2>2 DEF ChainInv
<1>7. CASE UNCHANGED vars
  BY <1>7, <1>a, <1>b, <1>c DEF vars, deviceVars, ChainInv
<1> QED  BY <1>1, <1>2, <1>3, <1>4, <1>5, <1>6, <1>7 DEF Next

\* For every rate, ring and frame size, whatever the daemon and the deque lose and
\* wherever the flags come: within a run, samples with a flag or a missing number
\* between them are never shown side by side without a mark, and no trigger is on
\* such a splice.  Where the signal itself broke is MarkIsNear's question.
THEOREM SplicesAreMarked == Spec => []NothingJoined
<1>1. Init => ChainInv
  <2> SUFFICES ASSUME Init PROVE ChainInv
    OBVIOUS
  <2>1. frames = << >> /\ cap = 0 /\ filled = 0 /\ sweep.at = 0
    BY DEF Init
  <2> QED  BY <2>1 DEF ChainInv, QueueOK, TailOK, WindowOK, TriggerOK
<1>2. ChainInv => NothingJoined
  BY DEF ChainInv, WindowOK, TriggerOK, NothingJoined
<1> QED  BY <1>1, <1>2, TypeCorrect, ChainStep, PTL DEF Spec
==============================================================================
