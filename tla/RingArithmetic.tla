-------------------------- MODULE RingArithmetic ---------------------------
(***************************************************************************)
(* Facts about the index arithmetic of a ring of N slots, where buffer     *)
(* number i lies in slot i % N.  The provers know little about % by a      *)
(* variable, so each fact is reduced to i = N * q + r with 0 <= r < N.     *)
(***************************************************************************)
EXTENDS Integers, TLAPS

\* Quotient and remainder, as the provers understand them.
LEMMA DivMod ==
  ASSUME NEW N \in Nat \ {0}, NEW i \in Int
  PROVE  /\ (i % N) \in 0 .. N - 1
         /\ (i \div N) \in Int
         /\ i = N * (i \div N) + (i % N)
  OBVIOUS

\* Multiples of N are at least N apart.
LEMMA MulGap ==
  ASSUME NEW N \in Nat \ {0}, NEW a \in Int, NEW b \in Int, a < b
  PROVE  N * b >= N * a + N
  OBVIOUS

\* Quotient and remainder are unique.
LEMMA Unique ==
  ASSUME NEW N \in Nat \ {0}, NEW a \in Int, NEW b \in Int,
         NEW r \in 0 .. N - 1, NEW s \in 0 .. N - 1,
         N * a + r = N * b + s
  PROVE  a = b /\ r = s
<1>1. CASE a < b BY <1>1, MulGap
<1>2. CASE b < a BY <1>2, MulGap
<1> QED BY <1>1, <1>2

\* The slot after the slot of i is the slot of i + 1: stepping an index round
\* the ring (acq.c's "filling") agrees with reducing a running count.
LEMMA SlotAfter ==
  ASSUME NEW N \in Nat \ {0}, NEW i \in Int
  PROVE  (((i % N) + 1) % N) = ((i + 1) % N)
<1> DEFINE a == i \div N
           r == i % N
           b == (i + 1) \div N
           s == (i + 1) % N
           c == (r + 1) \div N
           t == (r + 1) % N
<1>1. a \in Int /\ r \in 0 .. N - 1 /\ i = N * a + r
  BY DivMod
<1>2. i + 1 \in Int
  OBVIOUS
<1>3. b \in Int /\ s \in 0 .. N - 1 /\ i + 1 = N * b + s
  BY <1>2, DivMod
<1>4. r + 1 \in Int
  BY <1>1
<1>5. c \in Int /\ t \in 0 .. N - 1 /\ r + 1 = N * c + t
  BY <1>4, DivMod
<1> HIDE DEF a, r, b, s, c, t
<1>6. N * (a + c) + t = N * b + s
  BY <1>1, <1>3, <1>5
<1>7. t = s
  BY <1>1, <1>3, <1>5, <1>6, Unique
<1> QED BY <1>7 DEF t, s, r

\* Fewer than N apart, two counts are in different slots.
LEMMA SlotsApart ==
  ASSUME NEW N \in Nat \ {0}, NEW i \in Int, NEW j \in Int,
         i < j, j < i + N
  PROVE  (i % N) # (j % N)
<1> DEFINE a == i \div N
           r == i % N
           b == j \div N
           s == j % N
<1>1. a \in Int /\ r \in 0 .. N - 1 /\ i = N * a + r
  BY DivMod
<1>2. b \in Int /\ s \in 0 .. N - 1 /\ j = N * b + s
  BY DivMod
<1> HIDE DEF a, r, b, s
<1>3. SUFFICES ASSUME r = s PROVE FALSE
  BY DEF r, s
<1>4. N * a < N * b /\ N * b < N * a + N
  BY <1>1, <1>2, <1>3
<1>5. CASE a < b BY <1>1, <1>2, <1>4, <1>5, MulGap
<1>6. CASE b < a BY <1>1, <1>2, <1>4, <1>6, MulGap
<1>7. CASE a = b BY <1>1, <1>2, <1>4, <1>7
<1> QED BY <1>1, <1>2, <1>5, <1>6, <1>7

\* What is in range reduces to itself, and what is one turn below it to one turn
\* more.
LEMMA ModSmall ==
  ASSUME NEW N \in Nat \ {0}, NEW i \in Int
  PROVE  /\ i \in 0 .. N - 1 => i % N = i
         /\ i + N \in 0 .. N - 1 => i % N = i + N
         /\ i - N \in 0 .. N - 1 => i % N = i - N
<1> DEFINE a == i \div N
           r == i % N
<1>1. a \in Int /\ r \in 0 .. N - 1 /\ i = N * a + r
  BY DivMod
<1> HIDE DEF a, r
<1>2. N * 0 = 0 /\ N * (-1) = -N /\ N * 1 = N
  OBVIOUS
<1>3. i \in 0 .. N - 1 => r = i
  <2> SUFFICES ASSUME i \in 0 .. N - 1 PROVE r = i
    OBVIOUS
  <2>1. N * a + r = N * 0 + i
    BY <1>1, <1>2
  <2> QED  BY <1>1, <2>1, Unique
<1>4. i + N \in 0 .. N - 1 => r = i + N
  <2> SUFFICES ASSUME i + N \in 0 .. N - 1 PROVE r = i + N
    OBVIOUS
  <2>1. N * a + r = N * (-1) + (i + N)
    BY <1>1, <1>2
  <2> QED  BY <1>1, <2>1, Unique
<1>5. i - N \in 0 .. N - 1 => r = i - N
  <2> SUFFICES ASSUME i - N \in 0 .. N - 1 PROVE r = i - N
    OBVIOUS
  <2>1. N * a + r = N * 1 + (i - N)
    BY <1>1, <1>2
  <2> QED  BY <1>1, <2>1, Unique
<1> QED  BY <1>3, <1>4, <1>5 DEF r

\* A reduced index may be moved and reduced again.
LEMMA ModShift ==
  ASSUME NEW N \in Nat \ {0}, NEW i \in Int, NEW k \in Int
  PROVE  ((i % N) + k) % N = (i + k) % N
<1> DEFINE a == i \div N
           r == i % N
           b == (i + k) \div N
           s == (i + k) % N
           d == (r + k) \div N
           t == (r + k) % N
<1>1. a \in Int /\ r \in 0 .. N - 1 /\ i = N * a + r
  BY DivMod
<1>2. i + k \in Int /\ r + k \in Int
  BY <1>1
<1>3. b \in Int /\ s \in 0 .. N - 1 /\ i + k = N * b + s
  BY <1>2, DivMod
<1>4. d \in Int /\ t \in 0 .. N - 1 /\ r + k = N * d + t
  BY <1>2, DivMod
<1> HIDE DEF a, r, b, s, d, t
<1>5. N * (a + d) + t = N * b + s
  BY <1>1, <1>3, <1>4
<1>6. a + d \in Int
  BY <1>1, <1>4
<1>7. t = s
  <2> DEFINE e == a + d
  <2>1. e \in Int /\ N * e + t = N * b + s
    BY <1>5, <1>6
  <2> HIDE DEF e
  <2> QED  BY <1>3, <1>4, <2>1, Unique
<1> QED  BY <1>7 DEF t, s, r

\* A whole turn of the ring leads back to the same slot.
LEMMA ModTurn ==
  ASSUME NEW N \in Nat \ {0}, NEW i \in Int
  PROVE  (i + N) % N = i % N
<1> DEFINE a == i \div N
           r == i % N
           b == (i + N) \div N
           s == (i + N) % N
<1>1. a \in Int /\ r \in 0 .. N - 1 /\ i = N * a + r
  BY DivMod
<1>2. i + N \in Int
  OBVIOUS
<1>3. b \in Int /\ s \in 0 .. N - 1 /\ i + N = N * b + s
  BY <1>2, DivMod
<1> HIDE DEF a, r, b, s
<1>4. N * (a + 1) + r = N * b + s
  <2>1. N * (a + 1) = N * a + N
    BY <1>1
  <2> QED  BY <1>1, <1>3, <2>1
<1>5. r = s
  <2>1. a + 1 \in Int
    BY <1>1
  <2> QED  BY <1>1, <1>3, <1>4, <2>1, Unique
<1> QED  BY <1>5 DEF r, s

----------------------------------------------------------------------------
(* Places in a ring whose slots hold U units: unit u of slot s is at s * U + u. *)

\* Slots are U units apart.
LEMMA ScaleSum ==
  ASSUME NEW U \in Nat \ {0}, NEW a \in Int, NEW b \in Int
  PROVE  /\ (a + b) * U = a * U + b * U /\ (a - b) * U = a * U - b * U
         /\ (a + 1) * U = a * U + U /\ a * U \in Int /\ b * U \in Int
  OBVIOUS

\* Their order is the order of their first units.
LEMMA ScaleOrder ==
  ASSUME NEW U \in Nat \ {0}, NEW a \in Int, NEW b \in Int
  PROVE  /\ a <= b => a * U <= b * U
         /\ a < b => a * U + U <= b * U
         /\ a * U < b * U => a < b
<1>1. a * U = U * a /\ b * U = U * b
  OBVIOUS
<1>2. a < b => U * a + U <= U * b
  BY MulGap
<1>3. b < a => U * b + U <= U * a
  BY MulGap
<1>4. U * a \in Int /\ U * b \in Int
  OBVIOUS
<1> DEFINE A == U * a
           B == U * b
<1>5. A \in Int /\ B \in Int /\ (a < b => A + U <= B) /\ (b < a => B + U <= A) /\ (a = b => A = B)
  BY <1>2, <1>3, <1>4
<1> HIDE DEF A, B
<1>6. (a <= b => A <= B) /\ (a < b => A + U <= B) /\ (A < B => a < b)
  BY <1>5
<1> QED  BY <1>1, <1>6 DEF A, B

\* Unit r of slot q, and no other, is at q * U + r.
LEMMA UnitOf ==
  ASSUME NEW U \in Nat \ {0}, NEW q \in Int, NEW r \in 0 .. U - 1
  PROVE  (q * U + r) \div U = q /\ (q * U + r) % U = r
<1> DEFINE i == q * U + r
           a == i \div U
           s == i % U
<1>1. i \in Int
  OBVIOUS
<1>2. a \in Int /\ s \in 0 .. U - 1 /\ i = U * a + s
  BY <1>1, DivMod
<1>3. U * q + r = i
  OBVIOUS
<1> HIDE DEF i, a, s
<1>4. a = q /\ s = r
  BY <1>2, <1>3, Unique
<1> QED  BY <1>4 DEF a, s, i

\* A place in the ring, as a slot and a unit.
LEMMA PlaceOf ==
  ASSUME NEW U \in Nat \ {0}, NEW i \in Int
  PROVE  /\ i = (i \div U) * U + (i % U) /\ i \div U \in Int /\ i % U \in 0 .. U - 1
         /\ i \in Nat => i \div U \in Nat
<1> DEFINE a == i \div U
           r == i % U
<1>1. a \in Int /\ r \in 0 .. U - 1 /\ i = U * a + r
  BY DivMod
<1> HIDE DEF a, r
<1>2. U * a = a * U
  BY <1>1
<1>3. i \in Nat => a >= 0
  <2> SUFFICES ASSUME i >= 0, a < 0 PROVE FALSE
    BY <1>1
  <2>1. U * a + U <= U * 0
    BY <1>1, MulGap
  <2> QED  BY <1>1, <2>1
<1> QED  BY <1>1, <1>2, <1>3 DEF a, r

\* More units, no fewer whole slots.
LEMMA WholeSlots ==
  ASSUME NEW U \in Nat \ {0}, NEW i \in Int, NEW j \in Int, i <= j
  PROVE  i \div U <= j \div U
<1> DEFINE a == i \div U
           r == i % U
           b == j \div U
           s == j % U
<1>1. /\ a \in Int /\ r \in 0 .. U - 1 /\ i = U * a + r
      /\ b \in Int /\ s \in 0 .. U - 1 /\ j = U * b + s
  BY DivMod
<1> HIDE DEF a, r, b, s
<1>2. SUFFICES ASSUME b < a PROVE FALSE
  BY <1>1 DEF a, b
<1>3. U * b + U <= U * a
  BY <1>1, <1>2, MulGap
<1> QED  BY <1>1, <1>3
=============================================================================
