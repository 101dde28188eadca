--------------------------- MODULE PlayRingProofs ---------------------------
(***************************************************************************)
(* Playback for every ring, slot and priming size: bytes are exact, the    *)
(* converter emits whole buffers, in order, and a short playback starts.   *)
(***************************************************************************)
EXTENDS PlayRing, RingArithmetic

----------------------------------------------------------------------------
(* The constants and the places of the ring *)

\* What PlayAssumption says of the ring and of the service's thresholds: at least five
\* slots.
LEMMA Sizes ==
  /\ NBUF \in Nat \ {0} /\ NBUF >= 5 /\ UNITS \in Nat \ {0}
  /\ PRIME \in Nat /\ PRIME_MIN \in Nat /\ PRIME_MIN >= 3 /\ PRIME_MIN <= PRIME
  /\ PRIME_QUIET \in Nat /\ ABANDON \in Nat /\ PRIME_QUIET < ABANDON
  /\ NBUF * UNITS \in Nat
BY PlayAssumption

\* Slots are counted from 0 to NBUF - 1.
LEMMA SlotRange ==
  ASSUME NEW i \in Int PROVE SlotOf(i) \in Slots
BY DivMod, Sizes DEF SlotOf, Slots

\* Unit u of a slot is at an address of the ring, and the slot ends inside the ring.
LEMMA AddressOf ==
  ASSUME NEW s \in Slots, NEW u \in 0 .. UNITS - 1
  PROVE  /\ s * UNITS + u \in Addresses
         /\ s * UNITS \in Nat /\ (s + 1) * UNITS = s * UNITS + UNITS
         /\ (s + 1) * UNITS <= NBUF * UNITS
<1>1. s \in Int /\ s >= 0 /\ s + 1 <= NBUF /\ NBUF \in Int /\ UNITS \in Nat \ {0} /\ s + 1 \in Int
  BY Sizes DEF Slots
<1>2. (s + 1) * UNITS = s * UNITS + UNITS /\ s * UNITS \in Int
  BY <1>1, ScaleSum
<1>3. 0 * UNITS <= s * UNITS /\ 0 * UNITS = 0
  BY <1>1, ScaleOrder
<1>4. (s + 1) * UNITS <= NBUF * UNITS
  BY <1>1, ScaleOrder
<1> DEFINE a == s * UNITS
           b == (s + 1) * UNITS
           n == NBUF * UNITS
<1>5. a \in Int /\ b = a + UNITS /\ 0 <= a /\ b <= n /\ n \in Int
  BY <1>2, <1>3, <1>4, Sizes
<1> HIDE DEF a, b, n
<1>6. a + u \in 0 .. n - 1
  BY <1>1, <1>5
<1> QED  BY <1>5, <1>6 DEF Addresses, a, b, n

----------------------------------------------------------------------------
(* What the service knows of the transfer in flight *)

\* What has been counted of a transfer, and published, is what a status snapshot
\* once showed of it.  It holds of a transfer that could not be stopped as well.
DmaOK ==
  /\ dma_inflight =>
       /\ outLeft <= dma_asked /\ dma_counted <= dma_asked - outLeft
       /\ dma_published = (dma_start_off + dma_counted) \div UNITS
  /\ pc = "arm" => ~dma_inflight

\* What the next snapshot shows.
LEMMA Snapshot ==
  ASSUME TypeOK, DmaOK, dma_inflight
  PROVE  /\ Done = dma_asked - outLeft /\ Done \in Nat /\ dma_counted <= Done
         /\ SlotsDone \in Nat /\ dma_published <= SlotsDone
         /\ SlotsDone * UNITS + ResumeAt = dma_start_off + Done
         /\ ResumeAt \in 0 .. UNITS - 1
<1>1. dma_asked \in Nat /\ outLeft \in Nat /\ dma_start_off \in Nat /\ dma_counted \in Nat
  BY Sizes DEF TypeOK, CountsOK, PlacesOK
<1>2. Done = dma_asked - outLeft /\ Done \in Nat /\ dma_counted <= Done
  BY <1>1 DEF Done, DmaOK
<1> HIDE DEF Done
<1>3. dma_start_off + Done \in Nat /\ dma_start_off + Done \in Int /\ UNITS \in Nat \ {0}
      /\ dma_start_off + dma_counted \in Int
      /\ dma_start_off + dma_counted <= dma_start_off + Done
  BY <1>1, <1>2, Sizes
<1>4. SlotsDone \in Nat /\ ResumeAt \in 0 .. UNITS - 1
      /\ dma_start_off + Done = SlotsDone * UNITS + ResumeAt
  BY <1>3, PlaceOf DEF SlotsDone, ResumeAt
<1>5. dma_published <= SlotsDone
  BY <1>3, WholeSlots DEF DmaOK, SlotsDone
<1> QED  BY <1>2, <1>4, <1>5

\* The next span: at least one slot, and none past the end of the ring nor within
\* the two before the reader.
LEMMA SpanRange ==
  ASSUME TypeOK, Queued < NBUF - Reserve
  PROVE  /\ Span \in Nat \ {0} /\ SlotOf(play_produced) + Span <= NBUF
         /\ play_produced + Span <= play_consumed + NBUF - 2
<1>1. play_produced \in Nat /\ play_consumed \in Nat /\ NBUF \in Nat
  BY Sizes DEF TypeOK, CountsOK
<1>2. SlotOf(play_produced) \in 0 .. NBUF - 1
  BY <1>1, SlotRange DEF Slots
<1> QED  BY <1>1, <1>2 DEF Span, Queued, Reserve

----------------------------------------------------------------------------
(* Types *)

\* The player starts idle, with nothing in flight.
LEMMA TypeInit == Init => TypeOK /\ DmaOK
<1> SUFFICES ASSUME Init PROVE TypeOK /\ DmaOK
  OBVIOUS
<1>1. FlagsOK
  BY DEF Init, FlagsOK
<1>2. CountsOK
  BY Sizes DEF Init, CountsOK
<1>3. PlacesOK
  BY Sizes DEF Init, PlacesOK, Silence
<1>4. DmaOK
  BY DEF Init, DmaOK
<1> QED  BY <1>1, <1>2, <1>3, <1>4 DEF TypeOK

\* Every step leaves the flags of the player and its hardware Boolean.
LEMMA FlagsStep == FlagsOK /\ [Next]_vars => FlagsOK'
<1> SUFFICES ASSUME FlagsOK, [Next]_vars PROVE FlagsOK'
  OBVIOUS
<1> USE DEF FlagsOK, fillVars, ringVars, drainVars, runVars, outVars, emitVars, pastVars,
            StopOutChannel, StopPlayback
<1>1. CASE PlayStart
  BY <1>1 DEF PlayStart, StopEarlierTransfer
<1>2. CASE PlayStop
  BY <1>2 DEF PlayStop
<1>3. CASE ServiceAbandon
  BY <1>3 DEF ServiceAbandon
<1>4. CASE ServicePublish
  BY <1>4 DEF ServicePublish
<1>5. CASE ServiceArm
  BY <1>5 DEF ServiceArm
<1>6. CASE ServicePrime
  <2>1. primed' \in BOOLEAN /\ timerOn' \in BOOLEAN
    BY <1>6 DEF ServicePrime
  <2> QED  BY <1>6, <2>1 DEF ServicePrime
<1>7. CASE DACC_Handler
  BY <1>7 DEF DACC_Handler
<1>8. CASE PdcBufferEmpty
  BY <1>8 DEF PdcBufferEmpty
<1>9. CASE OutDmaLands
  BY <1>9 DEF OutDmaLands
<1>10. CASE Tick
  BY <1>10 DEF Tick
<1>11. CASE PortClose
  BY <1>11 DEF PortClose
<1>12. CASE PortOpen
  BY <1>12 DEF PortOpen
<1>13. CASE Configure
  BY <1>13 DEF Configure
<1>14. CASE UNCHANGED vars
  BY <1>14 DEF vars
<1> QED
  BY <1>1, <1>2, <1>3, <1>4, <1>5, <1>6, <1>7, <1>8, <1>9, <1>10, <1>11, <1>12, <1>13,
     <1>14
  DEF Next, Command, Service, Hardware, Port

\* What the PDC finds in a slot is a number, whatever was written there.
LEMMA BufferType ==
  ASSUME PlacesOK, NEW s \in Slots PROVE BufferIn(s) \in Int
<1>1. s * UNITS + 0 \in Addresses /\ s * UNITS \in Nat
  BY Sizes, AddressOf
<1>2. ring[s * UNITS] \in Int
  BY <1>1 DEF PlacesOK, Silence
<1> QED  BY <1>2, PlaceOf, Sizes DEF BufferIn

\* Starting a slot counts a new buffer or a repeat.
LEMMA PdcType ==
  ASSUME CountsOK, PlacesOK, NEW s \in Slots, PdcStarts(s)
  PROVE  top' \in Nat /\ repeats' \in Nat
<1>1. emitted' \in Int
  BY BufferType DEF PdcStarts
<1> QED  BY <1>1 DEF PdcStarts, CountsOK

\* Every step leaves the counters natural: none is stepped back, and what a snapshot
\* shows is never less than what was counted.
LEMMA CountsStep == TypeOK /\ DmaOK /\ [Next]_vars => CountsOK'
<1> SUFFICES ASSUME TypeOK, DmaOK, [Next]_vars PROVE CountsOK'
  OBVIOUS
<1>a. CountsOK /\ PlacesOK
  BY DEF TypeOK
<1>b. UNITS \in Nat \ {0} /\ ABANDON \in Nat
  BY Sizes
<1> USE <1>a, <1>b
    DEF CountsOK, fillVars, ringVars, drainVars, runVars, outVars, emitVars, pastVars,
        StopOutChannel, StopPlayback
<1>1. CASE PlayStart
  BY <1>1 DEF PlayStart, StopEarlierTransfer
<1>2. CASE PlayStop
  BY <1>2 DEF PlayStop
<1>3. CASE ServiceAbandon
  BY <1>3 DEF ServiceAbandon
<1>4. CASE ServicePublish
  <2>1. abandon_bytes' \in Nat /\ quiet' \in 0 .. ABANDON + 1
    BY <1>4 DEF ServicePublish
  <2>2. UNCHANGED << dma_asked, dma_start_off, play_consumed, play_underruns, landed, top,
                     repeats, starts, portChanges >>
    BY <1>4 DEF ServicePublish
  <2>3. /\ play_produced' \in Nat /\ dma_published' \in Nat /\ play_bytes_in' \in Nat
        /\ dma_counted' \in Nat /\ fill_off' \in 0 .. UNITS - 1
    <3>1. CASE dma_inflight
      <4>1. /\ play_produced' = play_produced +
                 (IF SlotsDone > dma_published THEN SlotsDone - dma_published ELSE 0)
            /\ dma_published' = IF SlotsDone > dma_published THEN SlotsDone ELSE dma_published
            /\ play_bytes_in' = play_bytes_in + Done - dma_counted /\ dma_counted' = Done
            /\ fill_off' = fill_off \/ fill_off' = ResumeAt
        BY <1>4, <3>1 DEF ServicePublish
      <4>2. Done \in Nat /\ dma_counted <= Done /\ SlotsDone \in Nat /\ ResumeAt \in 0 .. UNITS - 1
        BY <3>1, Snapshot
      <4> QED  BY <4>1, <4>2
    <3>2. CASE ~dma_inflight
      BY <1>4, <3>2 DEF ServicePublish
    <3> QED  BY <3>1, <3>2
  <2> QED  BY <2>1, <2>2, <2>3
<1>5. CASE ServiceArm
  <2>1. dma_asked' \in Nat /\ dma_start_off' \in 0 .. UNITS - 1
        /\ dma_published' \in Nat /\ dma_counted' \in Nat
    <3>1. CASE Queued < NBUF - Reserve
      <4>1. Span \in Nat \ {0}
        BY <3>1, SpanRange
      <4>2. 1 * UNITS <= Span * UNITS /\ 1 * UNITS = UNITS /\ Span * UNITS \in Int
        BY <4>1, ScaleOrder, ScaleSum
      <4>3. Span * UNITS - fill_off \in Nat
        BY <4>2
      <4> QED  BY <1>5, <3>1, <4>3 DEF ServiceArm
    <3>2. CASE ~(Queued < NBUF - Reserve)
      BY <1>5, <3>2 DEF ServiceArm
    <3> QED  BY <3>1, <3>2
  <2> QED  BY <1>5, <2>1 DEF ServiceArm
<1>6. CASE ServicePrime
  BY <1>6 DEF ServicePrime
<1>7. CASE DACC_Handler
  <2>1. play_consumed' \in Nat /\ play_underruns' \in Nat
    BY <1>7 DEF DACC_Handler
  <2>2. QueuedSlot(play_consumed') \in Slots /\ SlotOf(play_consumed) \in Slots
    BY <2>1, SlotRange DEF QueuedSlot
  <2>3. top' \in Nat /\ repeats' \in Nat
    <3>1. \/ UNCHANGED emitVars
          \/ PdcStarts(IF CanQueue THEN QueuedSlot(play_consumed') ELSE SlotOf(play_consumed))
      BY <1>7 DEF DACC_Handler
    <3> QED  BY <2>2, <3>1, PdcType
  <2> QED  BY <1>7, <2>1, <2>3 DEF DACC_Handler
<1>8. CASE PdcBufferEmpty
  <2>1. top' \in Nat /\ repeats' \in Nat
    <3>1. \/ UNCHANGED emitVars
          \/ tnpr \in Slots /\ PdcStarts(tnpr)
      BY <1>8 DEF PdcBufferEmpty, PlacesOK
    <3> QED  BY <3>1, PdcType
  <2> QED  BY <1>8, <2>1 DEF PdcBufferEmpty
<1>9. CASE OutDmaLands
  BY <1>9 DEF OutDmaLands
<1>10. CASE Tick
  BY <1>10 DEF Tick
<1>11. CASE PortClose
  BY <1>11 DEF PortClose
<1>12. CASE PortOpen
  BY <1>12 DEF PortOpen
<1>13. CASE Configure
  BY <1>13 DEF Configure
<1>14. CASE UNCHANGED vars
  BY <1>14 DEF vars
<1> QED
  BY <1>1, <1>2, <1>3, <1>4, <1>5, <1>6, <1>7, <1>8, <1>9, <1>10, <1>11, <1>12, <1>13,
     <1>14
  DEF Next, Command, Service, Hardware, Port

\* The transfer that is armed: at least one unit, and none past the ring's end.
LEMMA ArmedSpan ==
  ASSUME TypeOK, Queued < NBUF - Reserve
  PROVE  /\ Span * UNITS - fill_off \in Nat \ {0}
         /\ SlotOf(play_produced) * UNITS + fill_off \in 0 .. NBUF * UNITS
         /\ SlotOf(play_produced) * UNITS + fill_off + (Span * UNITS - fill_off) <= NBUF * UNITS
<1>1. /\ Span \in Nat \ {0} /\ SlotOf(play_produced) + Span <= NBUF
  BY SpanRange
<1>2. SlotOf(play_produced) \in Slots /\ UNITS \in Nat \ {0} /\ fill_off \in 0 .. UNITS - 1
  BY SlotRange, Sizes DEF TypeOK, CountsOK
<1>3. SlotOf(play_produced) \in Int /\ SlotOf(play_produced) >= 0
  BY <1>2, Sizes DEF Slots
<1>4. PICK s, n, a, b, e : /\ s = SlotOf(play_produced) /\ n = Span /\ a = s * UNITS
                           /\ b = n * UNITS /\ e = NBUF * UNITS
  OBVIOUS
<1>5. a + b <= e /\ a \in Int /\ b \in Int /\ e \in Int
  <2>1. (s + n) * UNITS = s * UNITS + n * UNITS /\ a \in Int /\ b \in Int
    BY <1>1, <1>2, <1>3, <1>4, ScaleSum
  <2>2. (s + n) * UNITS <= NBUF * UNITS
    BY <1>1, <1>2, <1>3, <1>4, ScaleOrder, Sizes
  <2> QED  BY <1>4, <2>1, <2>2, Sizes
<1>6. UNITS <= b
  BY <1>1, <1>2, <1>4, ScaleOrder
<1>7. a >= 0
  BY <1>2, <1>4, AddressOf
<1> QED  BY <1>2, <1>4, <1>5, <1>6, <1>7

\* Every step leaves the PDC in the ring's slots and the OUT DMA inside the ring.
LEMMA PlacesStep == TypeOK /\ DmaOK /\ [Next]_vars => PlacesOK'
<1> SUFFICES ASSUME TypeOK, DmaOK, [Next]_vars PROVE PlacesOK'
  OBVIOUS
<1>a. PlacesOK /\ NBUF * UNITS \in Nat
  BY Sizes DEF TypeOK
<1>c. play_produced \in Nat /\ play_consumed \in Nat /\ landed \in Nat
  BY DEF TypeOK, CountsOK
<1> USE <1>a
    DEF PlacesOK, fillVars, ringVars, drainVars, runVars, outVars, emitVars, pastVars,
        StopOutChannel, StopPlayback
<1>1. CASE PlayStart
  <2>1. tpr' \in Slots /\ tnpr' \in Slots
    BY <1>1, Sizes DEF PlayStart, Slots
  <2> QED  BY <1>1, <2>1 DEF PlayStart, StopEarlierTransfer
<1>2. CASE PlayStop
  BY <1>2 DEF PlayStop
<1>3. CASE ServiceAbandon
  BY <1>3 DEF ServiceAbandon
<1>4. CASE ServicePublish
  BY <1>4 DEF ServicePublish
<1>5. CASE ServiceArm
  <2>1. CASE /\ Queued < NBUF - Reserve /\ outBusy' = TRUE
             /\ outAt' = SlotOf(play_produced) * UNITS + fill_off
             /\ outLeft' = Span * UNITS - fill_off
    <3>1. /\ outLeft' \in Nat \ {0} /\ outAt' \in 0 .. NBUF * UNITS
          /\ outAt' + outLeft' <= NBUF * UNITS
      BY <2>1, ArmedSpan
    <3>2. outLeft' \in 0 .. NBUF * UNITS
      BY <3>1
    <3> QED  BY <1>5, <3>1, <3>2 DEF ServiceArm
  <2>2. CASE UNCHANGED outVars
    BY <1>5, <2>2 DEF ServiceArm
  <2> QED  BY <1>5, <2>1, <2>2 DEF ServiceArm
<1>6. CASE ServicePrime
  BY <1>6 DEF ServicePrime
<1>7. CASE DACC_Handler
  <2>1. play_consumed' \in Int
    BY <1>7, <1>c DEF DACC_Handler
  <2>2. QueuedSlot(play_consumed') \in Slots /\ SlotOf(play_consumed) \in Slots
    BY <1>c, <2>1, SlotRange DEF QueuedSlot
  <2>3. tpr' \in Slots \cup {NoSlot} /\ tnpr' \in Slots \cup {NoSlot}
    BY <1>7, <2>2 DEF DACC_Handler
  <2> QED  BY <1>7, <2>3 DEF DACC_Handler
<1>8. CASE PdcBufferEmpty
  BY <1>8 DEF PdcBufferEmpty
<1>9. CASE OutDmaLands
  <2>1. outAt \in Addresses
    BY <1>9 DEF OutDmaLands, Addresses
  <2>2. ring' \in [Addresses -> Nat \cup {Silence}]
    BY <1>9, <1>c DEF OutDmaLands
  <2>3. /\ outAt' \in 0 .. NBUF * UNITS /\ outLeft' \in 0 .. NBUF * UNITS
        /\ outBusy' => outLeft' > 0 /\ outAt' + outLeft' <= NBUF * UNITS
    <3>1. PICK n \in Nat : n = NBUF * UNITS
      OBVIOUS
    <3>2. outAt \in 0 .. n /\ outLeft \in 0 .. n /\ outLeft > 0 /\ outAt + outLeft <= n
      BY <1>9, <3>1 DEF OutDmaLands
    <3>3. outAt' = outAt + 1 /\ outLeft' = outLeft - 1 /\ outBusy' = (outLeft > 1)
      BY <1>9 DEF OutDmaLands
    <3>4. outAt' \in 0 .. n /\ outLeft' \in 0 .. n /\ (outLeft > 1 => outLeft' > 0)
          /\ outAt' + outLeft' <= n
      BY <3>2, <3>3
    <3> QED  BY <3>1, <3>3, <3>4
  <2> QED  BY <1>9, <2>2, <2>3 DEF OutDmaLands
<1>10. CASE Tick
  BY <1>10 DEF Tick
<1>11. CASE PortClose
  BY <1>11 DEF PortClose
<1>12. CASE PortOpen
  BY <1>12 DEF PortOpen
<1>13. CASE Configure
  BY <1>13 DEF Configure
<1>14. CASE UNCHANGED vars
  BY <1>14 DEF vars
<1> QED
  BY <1>1, <1>2, <1>3, <1>4, <1>5, <1>6, <1>7, <1>8, <1>9, <1>10, <1>11, <1>12, <1>13,
     <1>14
  DEF Next, Command, Service, Hardware, Port

\* A transfer's count stays true, whoever stops it and whether it stops or not.
LEMMA DmaStep == TypeOK /\ DmaOK /\ [Next]_vars => DmaOK'
<1> SUFFICES ASSUME TypeOK, DmaOK, [Next]_vars PROVE DmaOK'
  OBVIOUS
<1>a. dma_asked \in Nat /\ outLeft \in Nat /\ dma_start_off \in 0 .. UNITS - 1
      /\ dma_counted \in Nat /\ fill_off \in 0 .. UNITS - 1 /\ UNITS \in Nat \ {0}
      /\ outBusy \in BOOLEAN
  BY Sizes DEF TypeOK, FlagsOK, CountsOK, PlacesOK
<1>b. ASSUME UNCHANGED << dma_inflight, dma_asked, dma_start_off, dma_published, dma_counted,
                          outLeft >>, pc' # "arm" \/ UNCHANGED pc
      PROVE  DmaOK'
  BY <1>b DEF DmaOK
<1> USE DEF fillVars, ringVars, drainVars, runVars, outVars, emitVars, pastVars,
            StopOutChannel, StopPlayback
<1>1. CASE PlayStart
  BY <1>1 DEF PlayStart, BetweenCalls, DmaOK
<1>2. CASE PlayStop
  BY <1>2, <1>b DEF PlayStop
<1>3. CASE ServiceAbandon
  BY <1>3, <1>b DEF ServiceAbandon
<1>4. CASE ServicePublish
  <2>1. CASE dma_inflight
    <3>1. /\ dma_published' = IF SlotsDone > dma_published THEN SlotsDone ELSE dma_published
          /\ dma_counted' = Done
          /\ UNCHANGED << dma_asked, dma_start_off, outLeft >>
      BY <1>4, <2>1 DEF ServicePublish
    <3>2. Done = dma_asked - outLeft /\ SlotsDone \in Nat /\ dma_published <= SlotsDone
      BY <2>1, Snapshot
    <3>3. dma_published' = SlotsDone
      BY <3>1, <3>2 DEF TypeOK, CountsOK
    <3>4. outLeft <= dma_asked
      BY <2>1 DEF DmaOK
    <3>5. pc' = "arm" => ~dma_inflight'
      BY <1>4, <2>1 DEF ServicePublish
    <3> QED  BY <1>a, <3>1, <3>2, <3>3, <3>4, <3>5 DEF DmaOK, SlotsDone
  <2>2. CASE ~dma_inflight
    BY <1>4, <2>2 DEF ServicePublish, DmaOK
  <2> QED  BY <2>1, <2>2
<1>5. CASE ServiceArm
  <2>1. CASE Queued < NBUF - Reserve /\ ready /\ ~outBusy
    <3>1. dma_asked' = Span * UNITS - fill_off /\ outLeft' = dma_asked'
          /\ dma_start_off' = fill_off /\ dma_published' = 0 /\ dma_counted' = 0
      BY <1>5, <2>1 DEF ServiceArm
    <3>2. dma_asked' \in Nat
      BY <2>1, <3>1, ArmedSpan
    <3>3. (0 * UNITS + fill_off) \div UNITS = 0 /\ 0 * UNITS + fill_off = fill_off + 0
      BY <1>a, UnitOf
    <3>4. pc' = "prime"
      BY <1>5 DEF ServiceArm
    <3> QED  BY <3>1, <3>2, <3>3, <3>4 DEF DmaOK
  <2>2. CASE ~(Queued < NBUF - Reserve /\ ready /\ ~outBusy)
    <3>1. ~dma_inflight /\ UNCHANGED dma_inflight /\ pc' = "prime"
      BY <1>5, <2>2 DEF ServiceArm, InService, DmaOK
    <3> QED  BY <3>1 DEF DmaOK
  <2> QED  BY <2>1, <2>2
<1>6. CASE ServicePrime
  BY <1>6, <1>b DEF ServicePrime
<1>7. CASE DACC_Handler
  BY <1>7, <1>b DEF DACC_Handler
<1>8. CASE PdcBufferEmpty
  BY <1>8, <1>b DEF PdcBufferEmpty
<1>9. CASE OutDmaLands
  <2>1. outLeft' = outLeft - 1 /\ UNCHANGED fillVars
    BY <1>9 DEF OutDmaLands
  <2> QED  BY <1>9, <1>a, <2>1 DEF OutDmaLands, DmaOK
<1>10. CASE Tick
  BY <1>10, <1>b DEF Tick
<1>11. CASE PortClose
  BY <1>11, <1>b DEF PortClose
<1>12. CASE PortOpen
  BY <1>12, <1>b DEF PortOpen
<1>13. CASE Configure
  BY <1>13, <1>b DEF Configure
<1>14. CASE UNCHANGED vars
  BY <1>14, <1>b DEF vars
<1> QED
  BY <1>1, <1>2, <1>3, <1>4, <1>5, <1>6, <1>7, <1>8, <1>9, <1>10, <1>11, <1>12, <1>13,
     <1>14
  DEF Next, Command, Service, Hardware, Port

\* Types and the transfer's count hold together.
LEMMA TypeStep == TypeOK /\ DmaOK /\ [Next]_vars => TypeOK' /\ DmaOK'
<1> SUFFICES ASSUME TypeOK, DmaOK, [Next]_vars PROVE TypeOK' /\ DmaOK'
  OBVIOUS
<1>1. FlagsOK' /\ CountsOK' /\ PlacesOK'
  BY FlagsStep, CountsStep, PlacesStep DEF TypeOK
<1> QED  BY <1>1, DmaStep DEF TypeOK

\* Every variable of the player, its DMA channel, its PDC and the ring keeps its
\* type, and the channel stays inside the ring, even if one could not be stopped.
THEOREM TypeCorrect == Spec => [](TypeOK /\ DmaOK)
<1> QED  BY TypeInit, TypeStep, PTL DEF Spec

----------------------------------------------------------------------------
(* A short playback starts *)

\* Once the host has been quiet for longer than PRIME_QUIET and the service has
\* come round since, what is long enough to be played has been started: nothing new
\* is counted without resetting the clock.
QuietOK ==
  /\ active /\ play_bytes_in = abandon_bytes /\ play_produced >= PRIME_MIN
  /\ \/ quiet > PRIME_QUIET + 1
     \/ quiet > PRIME_QUIET /\ passed
  => primed

\* No step makes a host quiet without looking at what it has sent.
LEMMA QuietStep == TypeOK /\ DmaOK /\ QuietOK /\ [Next]_vars => QuietOK'
<1> SUFFICES ASSUME TypeOK, DmaOK, QuietOK, [Next]_vars PROVE QuietOK'
  OBVIOUS
<1>a. quiet \in 0 .. ABANDON + 1 /\ passed \in BOOLEAN /\ primed \in BOOLEAN
      /\ PRIME_QUIET \in Nat /\ ABANDON \in Nat /\ PRIME_QUIET < ABANDON
      /\ play_produced \in Nat
  BY Sizes DEF TypeOK, FlagsOK, CountsOK
<1>b. ASSUME UNCHANGED << active, play_bytes_in, abandon_bytes, play_produced, quiet, passed,
                          primed >>
      PROVE  QuietOK'
  BY <1>b DEF QuietOK
<1> USE DEF fillVars, ringVars, drainVars, runVars, outVars, emitVars, pastVars
<1>1. CASE PlayStart
  BY <1>1, <1>a DEF PlayStart, QuietOK
<1>2. CASE PlayStop
  BY <1>2 DEF PlayStop, StopPlayback, QuietOK
<1>3. CASE ServiceAbandon
  BY <1>3 DEF ServiceAbandon, StopPlayback, QuietOK
<1>4. CASE ServicePublish
  <2>1. CASE play_bytes_in # abandon_bytes
    BY <1>4, <1>a, <2>1 DEF ServicePublish, QuietOK
  <2>2. CASE play_bytes_in = abandon_bytes
    <3>1. UNCHANGED << abandon_bytes, quiet, passed, primed, active >>
      BY <1>4, <2>2 DEF ServicePublish
    <3>2. CASE dma_inflight
      <4>1. /\ play_produced' = play_produced +
                 (IF SlotsDone > dma_published THEN SlotsDone - dma_published ELSE 0)
            /\ play_bytes_in' = play_bytes_in + Done - dma_counted
        BY <1>4, <3>2 DEF ServicePublish
      <4>2. Done \in Nat /\ play_bytes_in \in Nat /\ dma_counted \in Nat
        BY <3>2, Snapshot DEF TypeOK, CountsOK
      <4>3. CASE Done = dma_counted
        <5>1. SlotsDone = dma_published
          BY <3>2, <4>3 DEF SlotsDone, DmaOK
        <5>2. play_produced' = play_produced /\ play_bytes_in' = play_bytes_in
          <6>1. dma_published \in Nat
            BY DEF TypeOK, CountsOK
          <6> QED  BY <1>a, <4>1, <4>2, <4>3, <5>1, <6>1
        <5> QED  BY <1>b, <3>1, <5>2
      <4>4. CASE Done # dma_counted
        <5>1. play_bytes_in' # abandon_bytes'
          BY <2>2, <3>1, <4>1, <4>2, <4>4
        <5> QED  BY <5>1 DEF QuietOK
      <4> QED  BY <4>3, <4>4
    <3>3. CASE ~dma_inflight
      BY <1>4, <1>b, <3>1, <3>3 DEF ServicePublish
    <3> QED  BY <3>2, <3>3
  <2> QED  BY <2>1, <2>2
<1>5. CASE ServiceArm
  BY <1>5, <1>b DEF ServiceArm
<1>6. CASE ServicePrime
  <2>1. primed' = (primed \/ PrimeDue)
        /\ UNCHANGED << active, play_bytes_in, abandon_bytes, play_produced, quiet >>
    BY <1>6 DEF ServicePrime
  <2> QED  BY <1>a, <2>1 DEF QuietOK, PrimeDue
<1>7. CASE DACC_Handler
  BY <1>7, <1>b DEF DACC_Handler
<1>8. CASE PdcBufferEmpty
  BY <1>8, <1>b DEF PdcBufferEmpty
<1>9. CASE OutDmaLands
  BY <1>9, <1>b DEF OutDmaLands
<1>10. CASE Tick
  <2>1. UNCHANGED << active, play_bytes_in, abandon_bytes, play_produced, primed >>
        /\ passed /\ passed' = FALSE
        /\ quiet' = IF quiet > ABANDON THEN quiet ELSE quiet + 1
    BY <1>10 DEF Tick
  <2> QED  BY <1>a, <2>1 DEF QuietOK
<1>11. CASE PortClose
  BY <1>11, <1>b DEF PortClose
<1>12. CASE PortOpen
  BY <1>12, <1>b DEF PortOpen
<1>13. CASE Configure
  BY <1>13, <1>b DEF Configure
<1>14. CASE UNCHANGED vars
  BY <1>14, <1>b DEF vars
<1> QED
  BY <1>1, <1>2, <1>3, <1>4, <1>5, <1>6, <1>7, <1>8, <1>9, <1>10, <1>11, <1>12, <1>13,
     <1>14
  DEF Next, Command, Service, Hardware, Port

\* For all thresholds of priming and giving up: whatever is long enough to be played
\* has been started by the time play_service gives up on a silent host.
THEOREM ShortPlaybackIsStarted == Spec => []ShortPlaybackStarts
<1>1. Init => QuietOK
  BY DEF Init, QuietOK
<1>2. TypeOK /\ QuietOK => ShortPlaybackStarts
  <2> SUFFICES ASSUME TypeOK, QuietOK, active, AbandonDue, ~(play_produced < PRIME_MIN)
               PROVE  primed
    BY DEF ShortPlaybackStarts, InService
  <2>1. quiet > PRIME_QUIET + 1
    BY Sizes DEF AbandonDue, TypeOK, CountsOK
  <2> QED  BY <2>1, Sizes DEF QuietOK, AbandonDue, TypeOK, CountsOK
<1> QED  BY <1>1, <1>2, TypeCorrect, QuietStep, PTL DEF Spec

----------------------------------------------------------------------------
(* What lands, what is emitted *)

\* The buffer in which the transfer in flight began, and how much of it has landed.
Begun   == play_produced - dma_published
Written == dma_asked - outLeft

\* The channel runs for this playback only.
BusyOK == outBusy => active /\ dma_inflight

\* With no transfer in flight every unit is counted, and is in a published buffer or
\* in the part of one where the next span resumes.
RestOK == ~dma_inflight =>
            play_bytes_in = landed /\ play_produced * UNITS + fill_off = landed

\* The transfer in flight continues the signal where the one before left it, goes
\* round no end of the ring, and stays two slots short of the reader.
SpanOK == dma_inflight =>
  /\ play_bytes_in - dma_counted + Written = landed
  /\ Begun \in Nat
  /\ Begun * UNITS + dma_start_off + Written = landed
  /\ Begun * UNITS + dma_start_off + dma_asked <= (play_consumed + NBUF - 2) * UNITS
  /\ SlotOf(Begun) * UNITS + dma_start_off + dma_asked <= NBUF * UNITS
  /\ outAt = SlotOf(Begun) * UNITS + dma_start_off + Written

\* Unit o of buffer k is where it belongs.
Holds(k, o) == ring[SlotOf(k) * UNITS + o] = k * UNITS + o
ContentsOK == \A k \in Nat, o \in 0 .. UNITS - 1 :
                k >= play_consumed - 1 /\ k * UNITS + o < landed => Holds(k, o)

\* The PDC owns no slot, or that of a buffer from `first` to the one behind the next.
Owned(s, first) ==
  s = NoSlot \/ \E k \in Nat : k \in first .. play_consumed + 1 /\ s = SlotOf(k)

\* What the converter has latched, what it has emitted and what has been counted:
\* the next new buffer, or a repeat that is counted and not yet emitted, or nothing.
LatchOK ==
  \/ tnpr = NoSlot /\ top = play_consumed + 1 /\ play_underruns = repeats
  \/ /\ ~endtx /\ tnpr = SlotOf(play_consumed + 1)
     /\ top = play_consumed /\ play_underruns = repeats
  \/ /\ ~endtx /\ tnpr = SlotOf(play_consumed)
     /\ top = play_consumed + 1 /\ play_underruns = repeats + 1

\* Two buffers stay queued once the timer runs.
DrainOK ==
  /\ IF timerOn THEN Queued >= 2 ELSE play_consumed = 0 /\ ~endtx
  /\ primed => timerOn
  /\ Owned(tpr, IF endtx THEN play_consumed ELSE play_consumed - 1)
  /\ LatchOK

PlayInv ==
  ~stopFailed => /\ BusyOK
                 /\ active => RestOK /\ SpanOK /\ ContentsOK /\ DrainOK

\* What is published has landed.
LEMMA Published ==
  ASSUME TypeOK, DmaOK, RestOK, SpanOK
  PROVE  play_produced * UNITS <= landed
<1>1. /\ play_produced \in Nat /\ UNITS \in Nat \ {0} /\ fill_off \in Nat /\ landed \in Nat
      /\ dma_published \in Nat /\ dma_asked \in Nat /\ outLeft \in Nat
      /\ dma_start_off \in Nat /\ dma_counted \in Nat
  BY Sizes DEF TypeOK, CountsOK, PlacesOK
<1>2. CASE ~dma_inflight
  <2>1. play_produced * UNITS \in Int
    BY <1>1, ScaleSum
  <2> QED  BY <1>1, <1>2, <2>1 DEF RestOK
<1>3. CASE dma_inflight
  <2>1. Done = Written /\ SlotsDone * UNITS + ResumeAt = dma_start_off + Done
        /\ dma_published <= SlotsDone /\ SlotsDone \in Nat /\ ResumeAt \in 0 .. UNITS - 1
        /\ Done \in Nat
    BY <1>3, Snapshot DEF Written
  <2>2. dma_published * UNITS <= SlotsDone * UNITS /\ dma_published * UNITS \in Int
        /\ SlotsDone * UNITS \in Int
    BY <1>1, <2>1, ScaleOrder, ScaleSum
  <2>3. Begun * UNITS = play_produced * UNITS - dma_published * UNITS
        /\ play_produced * UNITS \in Int
    BY <1>1, ScaleSum DEF Begun
  <2>4. Begun * UNITS + dma_start_off + Written = landed
    BY <1>3 DEF SpanOK
  <2>5. PICK a, b, d, e : /\ a = play_produced * UNITS /\ b = dma_published * UNITS
                          /\ d = SlotsDone * UNITS /\ e = Begun * UNITS
    OBVIOUS
  <2> QED  BY <1>1, <2>1, <2>2, <2>3, <2>4, <2>5
<1> QED  BY <1>2, <1>3

\* A published buffer that the reader has not left behind is whole in its slot.
LEMMA PublishedWhole ==
  ASSUME TypeOK, ContentsOK, play_produced * UNITS <= landed,
         NEW k \in Nat, k >= play_consumed - 1, k < play_produced
  PROVE  Whole(SlotOf(k), k) /\ BufferIn(SlotOf(k)) = k
<1>1. /\ play_produced \in Nat /\ UNITS \in Nat \ {0} /\ landed \in Nat
      /\ SlotOf(k) \in Slots /\ SlotOf(k) \in Int
  BY Sizes, SlotRange DEF TypeOK, CountsOK, Slots
<1>2. k * UNITS + UNITS <= play_produced * UNITS /\ k * UNITS \in Int
      /\ play_produced * UNITS \in Int
  BY <1>1, ScaleOrder, ScaleSum
<1>3. ASSUME NEW o \in 0 .. UNITS - 1
      PROVE  ring[SlotOf(k) * UNITS + o] = k * UNITS + o
  <2>1. k * UNITS + o < landed
    <3>1. PICK a, b : a = k * UNITS /\ b = play_produced * UNITS
      OBVIOUS
    <3> QED  BY <1>1, <1>2, <3>1
  <2> QED  BY <2>1 DEF ContentsOK, Holds
<1>4. Whole(SlotOf(k), k)
  BY <1>3 DEF Whole
<1>5. BufferIn(SlotOf(k)) = k
  <2>1. 0 \in 0 .. UNITS - 1
    BY <1>1
  <2>2. ring[SlotOf(k) * UNITS + 0] = k * UNITS + 0
    BY <1>3, <2>1
  <2>3. (k * UNITS + 0) \div UNITS = k
    BY <1>1, <2>1, UnitOf
  <2>4. SlotOf(k) * UNITS + 0 = SlotOf(k) * UNITS
    BY <1>1, ScaleSum
  <2> QED  BY <2>2, <2>3, <2>4 DEF BufferIn
<1> QED  BY <1>4, <1>5

----------------------------------------------------------------------------
(* What the service does to the ring *)

\* Two buffers less than a ring apart are in different slots.
LEMMA SlotsDiffer ==
  ASSUME NEW i \in Int, NEW j \in Int, SlotOf(i) = SlotOf(j), i < j + NBUF, j < i + NBUF
  PROVE  i = j
<1>1. CASE i < j
  BY <1>1, SlotsApart, Sizes DEF SlotOf
<1>2. CASE j < i
  BY <1>2, SlotsApart, Sizes DEF SlotOf
<1> QED  BY <1>1, <1>2

\* Stepping from a slot without passing the end of the ring.
LEMMA SlotPlus ==
  ASSUME NEW i \in Int, NEW d \in Int, SlotOf(i) + d \in Slots
  PROVE  SlotOf(i + d) = SlotOf(i) + d
<1>1. ((i % NBUF) + d) % NBUF = (i + d) % NBUF
  BY ModShift, Sizes
<1>2. SlotOf(i) \in Slots
  BY SlotRange
<1>3. (SlotOf(i) + d) % NBUF = SlotOf(i) + d
  <2>1. SlotOf(i) + d \in Int
    BY <1>2, Sizes DEF Slots
  <2> QED  BY <2>1, ModSmall, Sizes DEF Slots
<1> QED  BY <1>1, <1>3 DEF SlotOf

\* Where the next unit lands: in buffer k, which is at most two slots short of the
\* reader, at the unit that is its number.
LEMMA LandsAt ==
  ASSUME TypeOK, DmaOK, SpanOK, dma_inflight, Written < dma_asked
  PROVE  \E k \in Nat : \E o \in 0 .. UNITS - 1 :
           /\ landed = k * UNITS + o /\ outAt = SlotOf(k) * UNITS + o
           /\ k < play_consumed + NBUF - 2
<1>1. /\ UNITS \in Nat \ {0} /\ NBUF \in Nat /\ dma_start_off \in Nat /\ dma_asked \in Nat
      /\ Written \in Nat /\ Begun \in Nat /\ play_consumed \in Nat
      /\ SlotOf(Begun) \in Slots /\ SlotOf(Begun) \in Nat
  <2>1. dma_asked \in Nat /\ outLeft \in Nat /\ outLeft <= dma_asked /\ Begun \in Nat
    BY Sizes DEF TypeOK, CountsOK, PlacesOK, DmaOK, SpanOK
  <2>2. Written \in Nat
    BY <2>1 DEF Written
  <2>3. SlotOf(Begun) \in Slots
    BY <2>1, SlotRange
  <2> QED  BY <2>1, <2>2, <2>3, Sizes DEF TypeOK, CountsOK, Slots
<1> DEFINE t == dma_start_off + Written
<1>2. PICK q \in Nat, o \in 0 .. UNITS - 1 : t = q * UNITS + o
  <2>1. t \in Nat /\ t \in Int
    BY <1>1
  <2> HIDE DEF t
  <2>2. t \div UNITS \in Nat /\ t % UNITS \in 0 .. UNITS - 1 /\ t = (t \div UNITS) * UNITS + (t % UNITS)
    BY <1>1, <2>1, PlaceOf
  <2> QED  BY <2>2
<1>3. PICK k \in Nat : k = Begun + q
  BY <1>1
<1>4. k * UNITS = Begun * UNITS + q * UNITS /\ Begun * UNITS \in Int /\ q * UNITS \in Int
  BY <1>1, <1>3, ScaleSum
<1>5. landed = k * UNITS + o
  <2>1. Begun * UNITS + dma_start_off + Written = landed
    BY DEF SpanOK
  <2>2. PICK a, b : a = Begun * UNITS /\ b = q * UNITS
    OBVIOUS
  <2> QED  BY <1>1, <1>2, <1>4, <2>1, <2>2
<1>6. k < play_consumed + NBUF - 2
  <2>1. PICK c \in Int : c = play_consumed + NBUF - 2
    BY <1>1
  <2>2. Begun * UNITS + dma_start_off + dma_asked <= c * UNITS /\ c * UNITS \in Int
    BY <1>1, <2>1, ScaleSum DEF SpanOK
  <2>3. k * UNITS < c * UNITS
    <3>1. PICK a, b, e : a = Begun * UNITS /\ b = q * UNITS /\ e = c * UNITS
      OBVIOUS
    <3> QED  BY <1>1, <1>2, <1>4, <2>2, <3>1
  <2> QED  BY <1>1, <2>1, <2>3, ScaleOrder
<1>7. SlotOf(k) = SlotOf(Begun) + q /\ outAt = SlotOf(k) * UNITS + o
  <2>1. PICK s \in Nat : s = SlotOf(Begun)
    BY <1>1
  <2>2. (s + q) * UNITS = s * UNITS + q * UNITS /\ s * UNITS \in Int /\ NBUF * UNITS \in Int
    BY <1>1, <2>1, ScaleSum
  <2>3. s * UNITS + dma_start_off + dma_asked <= NBUF * UNITS
        /\ outAt = s * UNITS + dma_start_off + Written
    BY <2>1 DEF SpanOK
  <2>4. (s + q) * UNITS < NBUF * UNITS
    <3>1. PICK a, b, e : a = s * UNITS /\ b = q * UNITS /\ e = NBUF * UNITS
      OBVIOUS
    <3> QED  BY <1>1, <1>2, <2>2, <2>3, <3>1
  <2>5. s + q < NBUF
    BY <1>1, <2>1, <2>4, ScaleOrder
  <2>6. s + q \in Slots
    BY <1>1, <2>1, <2>5 DEF Slots
  <2>7. SlotOf(k) = s + q
    BY <1>1, <1>3, <2>1, <2>6, SlotPlus
  <2>8. outAt = (s + q) * UNITS + o
    <3>1. PICK a, b : a = s * UNITS /\ b = q * UNITS
      OBVIOUS
    <3> QED  BY <1>1, <1>2, <2>2, <2>3, <3>1
  <2> QED  BY <2>1, <2>7, <2>8
<1> QED  BY <1>5, <1>6, <1>7

\* A unit that lands is the next of the signal, where it belongs, and overwrites
\* nothing that the reader still has.
LEMMA LandStep ==
  ASSUME TypeOK, DmaOK, BusyOK, RestOK, SpanOK, ContentsOK, OutDmaLands
  PROVE  BusyOK' /\ RestOK' /\ SpanOK' /\ ContentsOK'
<1>1. /\ outBusy /\ active /\ dma_inflight /\ UNCHANGED << fillVars, ringVars, drainVars, active >>
      /\ ring' = [ring EXCEPT ![outAt] = landed] /\ landed' = landed + 1
      /\ outAt' = outAt + 1 /\ outLeft' = outLeft - 1
  BY DEF OutDmaLands, BusyOK, runVars
<1>2. /\ UNITS \in Nat \ {0} /\ landed \in Nat /\ outLeft \in Nat \ {0} /\ outAt \in Addresses
      /\ dma_asked \in Nat /\ outLeft <= dma_asked /\ dma_counted \in Nat /\ play_bytes_in \in Nat
      /\ ring \in [Addresses -> Nat \cup {Silence}] /\ play_consumed \in Nat
      /\ dma_start_off \in Nat /\ NBUF \in Nat /\ NBUF >= 5
  BY <1>1, Sizes DEF TypeOK, CountsOK, PlacesOK, DmaOK, Addresses
<1>3. BusyOK' /\ RestOK'
  BY <1>1 DEF fillVars, BusyOK, RestOK
<1>4. SpanOK'
  <2>1. Begun' = Begun /\ Written' = Written + 1 /\ Written \in Nat
    BY <1>1, <1>2 DEF Begun, Written, fillVars, ringVars
  <2>2. /\ play_bytes_in - dma_counted + Written = landed
        /\ Begun \in Nat
        /\ Begun * UNITS + dma_start_off + Written = landed
        /\ Begun * UNITS + dma_start_off + dma_asked <= (play_consumed + NBUF - 2) * UNITS
        /\ SlotOf(Begun) * UNITS + dma_start_off + dma_asked <= NBUF * UNITS
        /\ outAt = SlotOf(Begun) * UNITS + dma_start_off + Written
    BY <1>1 DEF SpanOK
  <2>3. PICK a, b : /\ a = Begun * UNITS /\ b = SlotOf(Begun) * UNITS
                    /\ a \in Int /\ b \in Int
    <3>1. SlotOf(Begun) \in Int
      BY <2>2, SlotRange, Sizes DEF Slots
    <3> QED  BY <1>2, <2>2, <3>1, ScaleSum
  <2>4. /\ play_bytes_in - dma_counted + (Written + 1) = landed + 1
        /\ a + dma_start_off + (Written + 1) = landed + 1
        /\ outAt + 1 = b + dma_start_off + (Written + 1)
    BY <1>2, <2>1, <2>2, <2>3
  <2>5. UNCHANGED << play_bytes_in, dma_counted, dma_start_off, dma_asked, play_consumed >>
    BY <1>1 DEF fillVars, ringVars, drainVars
  <2> QED  BY <1>1, <2>1, <2>2, <2>3, <2>4, <2>5 DEF SpanOK
<1>5. ContentsOK'
  <2>1. Written < dma_asked
    BY <1>2 DEF Written
  <2>2. PICK m \in Nat : \E o \in 0 .. UNITS - 1 :
           /\ landed = m * UNITS + o /\ outAt = SlotOf(m) * UNITS + o
           /\ m < play_consumed + NBUF - 2
    BY <1>1, <2>1, LandsAt
  <2>3. PICK v \in 0 .. UNITS - 1 :
           /\ landed = m * UNITS + v /\ outAt = SlotOf(m) * UNITS + v
           /\ m < play_consumed + NBUF - 2
    BY <2>2
  <2>4. play_consumed' = play_consumed
    BY <1>1 DEF drainVars
  <2> SUFFICES ASSUME NEW k \in Nat, NEW o \in 0 .. UNITS - 1,
                      k >= play_consumed - 1, k * UNITS + o < landed + 1
               PROVE  ring'[SlotOf(k) * UNITS + o] = k * UNITS + o
    BY <1>1, <2>4 DEF ContentsOK, Holds
  <2>5. /\ SlotOf(k) \in Slots /\ SlotOf(m) \in Slots /\ SlotOf(k) \in Int /\ SlotOf(m) \in Int
        /\ SlotOf(k) * UNITS + o \in Addresses
        /\ k * UNITS \in Int /\ m * UNITS \in Int
    <3>1. SlotOf(k) \in Slots /\ SlotOf(m) \in Slots
      BY SlotRange
    <3>2. SlotOf(k) \in Int /\ SlotOf(m) \in Int
      BY <1>2, <3>1 DEF Slots
    <3>3. SlotOf(k) * UNITS + o \in Addresses
      BY <3>1, AddressOf
    <3>4. k * UNITS \in Int /\ m * UNITS \in Int
      BY <1>2, ScaleSum
    <3> QED  BY <3>1, <3>2, <3>3, <3>4
  <2>6. CASE k * UNITS + o = landed
    <3>1. k = m /\ o = v
      <4>1. (k * UNITS + o) \div UNITS = k /\ (k * UNITS + o) % UNITS = o
        BY <1>2, UnitOf
      <4>2. (m * UNITS + v) \div UNITS = m /\ (m * UNITS + v) % UNITS = v
        BY <1>2, UnitOf
      <4> QED  BY <2>3, <2>6, <4>1, <4>2
    <3> QED  BY <1>1, <1>2, <2>3, <2>6, <3>1
  <2>7. CASE k * UNITS + o < landed
    <3>1. ring[SlotOf(k) * UNITS + o] = k * UNITS + o
      BY <2>7 DEF ContentsOK, Holds
    <3>2. SlotOf(k) * UNITS + o # outAt
      <4> SUFFICES ASSUME SlotOf(k) * UNITS + o = outAt PROVE FALSE
        OBVIOUS
      <4>1. (SlotOf(k) * UNITS + o) \div UNITS = SlotOf(k) /\ (SlotOf(k) * UNITS + o) % UNITS = o
        BY <1>2, <2>5, UnitOf
      <4>2. (SlotOf(m) * UNITS + v) \div UNITS = SlotOf(m) /\ (SlotOf(m) * UNITS + v) % UNITS = v
        BY <1>2, <2>5, UnitOf
      <4>3. SlotOf(k) = SlotOf(m) /\ o = v
        BY <2>3, <4>1, <4>2
      <4>4. k <= m
        <5>1. SUFFICES ASSUME m < k PROVE FALSE
          OBVIOUS
        <5>2. m * UNITS + UNITS <= k * UNITS
          BY <1>2, <5>1, ScaleOrder
        <5>3. PICK a, b : a = k * UNITS /\ b = m * UNITS
          OBVIOUS
        <5> QED  BY <1>2, <2>3, <2>5, <2>7, <5>2, <5>3
      <4>5. k < m + NBUF /\ m < k + NBUF
        BY <1>2, <2>3, <4>4
      <4>6. k = m
        BY <4>3, <4>5, SlotsDiffer
      <4> QED  BY <2>3, <2>5, <2>7, <4>3, <4>6
    <3> QED  BY <1>1, <1>2, <2>5, <3>1, <3>2
  <2>8. k * UNITS + o < landed \/ k * UNITS + o = landed
    BY <1>2, <2>5
  <2> QED  BY <2>6, <2>7, <2>8
<1> QED  BY <1>3, <1>4, <1>5

\* Counting what has landed moves no unit, and a transfer that has ended leaves its
\* rest at the place where the next resumes.
LEMMA PublishStep ==
  ASSUME TypeOK, DmaOK, BusyOK, RestOK, SpanOK, ContentsOK, DrainOK, ServicePublish
  PROVE  BusyOK' /\ RestOK' /\ SpanOK' /\ ContentsOK' /\ DrainOK'
<1>0. /\ UNITS \in Nat \ {0} /\ play_produced \in Nat /\ play_consumed \in Nat
      /\ dma_published \in Nat /\ dma_counted \in Nat /\ play_bytes_in \in Nat
      /\ dma_asked \in Nat /\ outLeft \in Nat /\ dma_start_off \in Nat /\ landed \in Nat
  BY Sizes DEF TypeOK, CountsOK, PlacesOK
<1>1. UNCHANGED << dma_asked, dma_start_off, active, primed, timerOn, play_consumed,
                   play_underruns, tpr, tnpr, endtx, outBusy, outAt, outLeft, top, repeats,
                   ring, landed >>
  BY DEF ServicePublish, runVars, drainVars, outVars, emitVars
<1>2. ContentsOK'
  BY <1>1 DEF ContentsOK, Holds
<1>3. DrainOK' /\ play_produced' >= play_produced
  <2>1. play_produced' >= play_produced /\ play_produced' \in Int
    <3>1. CASE dma_inflight
      <4>1. SlotsDone \in Nat
        BY <3>1, Snapshot
      <4> QED  BY <1>0, <3>1, <4>1 DEF ServicePublish
    <3>2. CASE ~dma_inflight
      BY <1>0, <3>2 DEF ServicePublish
    <3> QED  BY <3>1, <3>2
  <2>2. timerOn => Queued' >= 2
    <3>1. Queued' = play_produced' - play_consumed /\ Queued = play_produced - play_consumed
      BY <1>1 DEF Queued
    <3> SUFFICES ASSUME timerOn PROVE Queued' >= 2
      OBVIOUS
    <3>2. Queued >= 2
      BY DEF DrainOK
    <3>3. play_produced - play_consumed >= 2
      BY <3>1, <3>2
    <3>4. \A a, b, c \in Int : a - c >= 2 /\ b >= a => b - c >= 2
      OBVIOUS
    <3>5. play_produced \in Int /\ play_consumed \in Int
      BY <1>0
    <3>6. play_produced' - play_consumed >= 2
      BY <2>1, <3>3, <3>4, <3>5
    <3> QED  BY <3>1, <3>6
  <2>3. Owned(tpr, IF endtx THEN play_consumed ELSE play_consumed - 1)' /\ LatchOK'
    BY <1>1 DEF DrainOK, Owned, LatchOK
  <2> QED  BY <1>1, <2>1, <2>2, <2>3 DEF DrainOK
<1>4. CASE ~dma_inflight
  <2>1. ~dma_inflight' /\ UNCHANGED << play_produced, play_bytes_in, fill_off >>
    BY <1>4 DEF ServicePublish
  <2>2. ~outBusy
    BY <1>4 DEF BusyOK
  <2> QED  BY <1>1, <1>2, <1>3, <1>4, <2>1, <2>2 DEF BusyOK, RestOK, SpanOK
<1>5. CASE dma_inflight
  <2>1. /\ Done = Written /\ Done \in Nat /\ SlotsDone \in Nat /\ dma_published <= SlotsDone
        /\ SlotsDone * UNITS + ResumeAt = dma_start_off + Done /\ ResumeAt \in 0 .. UNITS - 1
    BY <1>5, Snapshot DEF Written
  <2>2. /\ play_produced' = play_produced + (SlotsDone - dma_published)
        /\ dma_published' = SlotsDone
        /\ play_bytes_in' = play_bytes_in + Done - dma_counted /\ dma_counted' = Done
        /\ IF outBusy THEN UNCHANGED << dma_inflight, fill_off >>
           ELSE dma_inflight' = FALSE /\ fill_off' = ResumeAt
    <3>1. /\ play_produced' = play_produced +
                 (IF SlotsDone > dma_published THEN SlotsDone - dma_published ELSE 0)
          /\ dma_published' = IF SlotsDone > dma_published THEN SlotsDone ELSE dma_published
          /\ play_bytes_in' = play_bytes_in + Done - dma_counted /\ dma_counted' = Done
      BY <1>5 DEF ServicePublish
    <3>2. IF outBusy THEN UNCHANGED << dma_inflight, fill_off >>
          ELSE dma_inflight' = FALSE /\ fill_off' = ResumeAt
      BY <1>5 DEF ServicePublish
    <3>3. dma_published' = SlotsDone
      BY <1>0, <2>1, <3>1
    <3>4. play_produced' = play_produced + (SlotsDone - dma_published)
      BY <1>0, <2>1, <3>1
    <3> QED  BY <3>1, <3>2, <3>3, <3>4
  <2>3. Begun' = Begun /\ Written' = Written /\ Begun \in Nat
    BY <1>0, <1>1, <1>5, <2>1, <2>2 DEF Begun, Written, SpanOK
  <2>4. /\ play_bytes_in - dma_counted + Written = landed
        /\ Begun * UNITS + dma_start_off + Written = landed
    BY <1>5 DEF SpanOK
  <2>5. play_bytes_in' = landed /\ play_bytes_in' - dma_counted' + Written = landed
    BY <1>0, <2>1, <2>2, <2>4
  <2>6. SpanOK'
    BY <1>1, <1>5, <2>3, <2>5 DEF SpanOK
  <2>7. BusyOK'
    BY <1>1, <1>5, <2>2 DEF BusyOK
  <2>8. RestOK'
    <3>1. CASE outBusy
      BY <1>5, <2>2, <3>1 DEF RestOK
    <3>2. CASE ~outBusy
      <4>1. play_produced' = Begun + SlotsDone
        BY <1>0, <2>1, <2>2 DEF Begun
      <4>2. play_produced' * UNITS = Begun * UNITS + SlotsDone * UNITS
            /\ Begun * UNITS \in Int /\ SlotsDone * UNITS \in Int
        BY <1>0, <2>1, <2>3, <4>1, ScaleSum
      <4>3. PICK a, b : a = Begun * UNITS /\ b = SlotsDone * UNITS
        OBVIOUS
      <4>4. play_produced' * UNITS + ResumeAt = landed
        BY <1>0, <2>1, <2>4, <4>2, <4>3
      <4> QED  BY <1>1, <2>2, <2>5, <3>2, <4>4 DEF RestOK
    <3> QED  BY <3>1, <3>2
  <2> QED  BY <1>2, <1>3, <2>6, <2>7, <2>8
<1> QED  BY <1>4, <1>5

\* A new transfer goes on where the last one left the signal.
LEMMA ArmStep ==
  ASSUME TypeOK, DmaOK, BusyOK, RestOK, SpanOK, ContentsOK, DrainOK, ServiceArm
  PROVE  BusyOK' /\ RestOK' /\ SpanOK' /\ ContentsOK' /\ DrainOK'
<1>0. /\ UNITS \in Nat \ {0} /\ play_produced \in Nat /\ play_consumed \in Nat
      /\ fill_off \in Nat /\ play_bytes_in \in Nat /\ landed \in Nat /\ NBUF \in Nat
  BY Sizes DEF TypeOK, CountsOK
<1>1. /\ UNCHANGED << fill_off, active, primed, timerOn, play_produced, play_consumed, play_bytes_in,
                      play_underruns, tpr, tnpr, endtx, top, repeats, ring, landed >>
      /\ active /\ ~dma_inflight
  BY DEF ServiceArm, InService, DmaOK, runVars, ringVars, drainVars, emitVars
<1>2. ContentsOK' /\ DrainOK'
  <2>1. ContentsOK'
    BY <1>1 DEF ContentsOK, Holds
  <2>2. DrainOK'
    BY <1>1 DEF DrainOK, Owned, LatchOK, Queued
  <2> QED  BY <2>1, <2>2
<1>3. play_bytes_in = landed /\ play_produced * UNITS + fill_off = landed /\ ~outBusy
  BY <1>1 DEF RestOK, BusyOK
<1>4. CASE Queued < NBUF - Reserve /\ ready
  <2>1. /\ dma_asked' = Span * UNITS - fill_off /\ dma_start_off' = fill_off
        /\ dma_published' = 0 /\ dma_counted' = 0 /\ dma_inflight'
        /\ outAt' = SlotOf(play_produced) * UNITS + fill_off /\ outLeft' = dma_asked'
    BY <1>3, <1>4 DEF ServiceArm
  <2>2. /\ Span \in Nat \ {0} /\ Span * UNITS - fill_off \in Nat \ {0}
        /\ play_produced + Span <= play_consumed + NBUF - 2
        /\ SlotOf(play_produced) * UNITS + fill_off + (Span * UNITS - fill_off) <= NBUF * UNITS
        /\ SlotOf(play_produced) \in Int
    BY <1>0, <1>4, SpanRange, ArmedSpan, SlotRange DEF Slots
  <2>3. Begun' = play_produced /\ Written' = 0
    BY <1>0, <1>1, <2>1, <2>2 DEF Begun, Written
  <2>4. play_produced * UNITS + fill_off + dma_asked' <= (play_consumed + NBUF - 2) * UNITS
    <3>1. PICK p \in Int, n \in Int, c \in Int :
             p = play_produced /\ n = Span /\ c = play_consumed + NBUF - 2
      BY <1>0, <2>2
    <3>2. (p + n) * UNITS = p * UNITS + n * UNITS /\ p * UNITS \in Int /\ n * UNITS \in Int
      BY <1>0, <3>1, ScaleSum
    <3>3. (p + n) * UNITS <= c * UNITS /\ c * UNITS \in Int
      <4>1. p + n <= c /\ p + n \in Int
        BY <2>2, <3>1
      <4> QED  BY <1>0, <3>1, <4>1, ScaleOrder, ScaleSum
    <3>4. PICK a, b, e : a = p * UNITS /\ b = n * UNITS /\ e = c * UNITS
      OBVIOUS
    <3>5. dma_asked' = b - fill_off
      BY <2>1, <3>1, <3>4
    <3>6. a + fill_off + (b - fill_off) <= e
      BY <1>0, <3>2, <3>3, <3>4
    <3> QED  BY <3>1, <3>4, <3>5, <3>6
  <2>5. SpanOK'
    <3>1. PICK a, b : /\ a = play_produced * UNITS /\ a \in Int
                      /\ b = SlotOf(play_produced) * UNITS /\ b \in Int
      BY <1>0, <2>2, ScaleSum
    <3>2. /\ play_bytes_in - 0 + 0 = landed /\ a + fill_off + 0 = landed
          /\ b + fill_off = b + fill_off + 0
      BY <1>0, <1>3, <3>1
    <3> QED  BY <1>0, <1>1, <2>1, <2>2, <2>3, <2>4, <3>1, <3>2 DEF SpanOK
  <2> QED  BY <1>1, <1>2, <2>1, <2>5 DEF BusyOK, RestOK
<1>5. CASE ~(Queued < NBUF - Reserve /\ ready)
  <2>1. UNCHANGED << outBusy, outAt, outLeft, dma_inflight >>
    BY <1>5 DEF ServiceArm, outVars
  <2> QED  BY <1>1, <1>2, <2>1 DEF BusyOK, RestOK, SpanOK
<1> QED  BY <1>4, <1>5

----------------------------------------------------------------------------
(* What the interrupt and the PDC do *)

\* What the PDC is given next, however the interrupt and the PDC interleave, is a
\* buffer that has been published.
LEMMA LatchedBuffer ==
  ASSUME TypeOK, DmaOK, RestOK, SpanOK, ContentsOK,
         NEW k \in Nat, k >= play_consumed - 1, k < play_produced
  PROVE  Whole(SlotOf(k), k) /\ BufferIn(SlotOf(k)) = k /\ SlotOf(k) # NoSlot
<1>1. play_produced * UNITS <= landed
  BY Published
<1>2. Whole(SlotOf(k), k) /\ BufferIn(SlotOf(k)) = k
  BY <1>1, PublishedWhole
<1>3. SlotOf(k) \in Slots
  BY SlotRange
<1> QED  BY <1>2, <1>3, Sizes DEF Slots, NoSlot

\* The interrupt handler releases a buffer only if two stay queued, and counts a
\* repeat if it does not.
LEMMA HandlerStep ==
  ASSUME TypeOK, DmaOK, BusyOK, RestOK, SpanOK, ContentsOK, DrainOK, DACC_Handler
  PROVE  /\ BusyOK' /\ RestOK' /\ SpanOK' /\ ContentsOK' /\ DrainOK'
         /\ top' \in {top, top + 1}
<1>0. /\ play_produced \in Nat /\ play_consumed \in Nat /\ UNITS \in Nat \ {0} /\ NBUF \in Nat
      /\ play_underruns \in Nat /\ repeats \in Nat /\ top \in Nat
  BY Sizes DEF TypeOK, CountsOK
<1>1. /\ UNCHANGED << fillVars, ringVars, runVars, outVars, ring, landed >>
      /\ active /\ endtx /\ endtx' = FALSE
  BY DEF DACC_Handler, InterruptPending
<1>2. /\ timerOn /\ Queued >= 2 /\ Owned(tpr, play_consumed)
      /\ tnpr = NoSlot /\ top = play_consumed + 1 /\ play_underruns = repeats
  BY <1>1 DEF DrainOK, LatchOK
<1>3. play_produced - play_consumed >= 2
  BY <1>2 DEF Queued
<1>4. /\ play_consumed' = play_consumed \/ play_consumed' = play_consumed + 1
      /\ \A k \in Nat : k >= play_consumed' - 1 => k >= play_consumed - 1
  <2>1. play_consumed' = play_consumed \/ play_consumed' = play_consumed + 1
    BY DEF DACC_Handler
  <2>2. \A k, c \in Nat : k >= (c + 1) - 1 => k >= c - 1
    OBVIOUS
  <2> QED  BY <1>0, <2>1, <2>2
<1>5. BusyOK' /\ RestOK'
  BY <1>1 DEF BusyOK, RestOK, fillVars, ringVars, runVars, outVars
<1>6. SpanOK'
  <2>1. (play_consumed + NBUF - 2) * UNITS <= (play_consumed' + NBUF - 2) * UNITS
        /\ (play_consumed + NBUF - 2) * UNITS \in Int
        /\ (play_consumed' + NBUF - 2) * UNITS \in Int
    <3>1. \A c, n \in Int : c + n - 2 \in Int /\ c + n - 2 <= (c + 1) + n - 2
      OBVIOUS
    <3>2. play_consumed \in Int /\ play_consumed + 1 \in Int /\ NBUF \in Int
      BY <1>0
    <3>3. PICK c : c = play_consumed'
      OBVIOUS
    <3>4. c = play_consumed \/ c = play_consumed + 1
      BY <1>4, <3>3
    <3>5. c + NBUF - 2 \in Int /\ play_consumed + NBUF - 2 \in Int
          /\ play_consumed + NBUF - 2 <= c + NBUF - 2
      BY <3>1, <3>2, <3>4
    <3>6. PICK a, b \in Int : a = play_consumed + NBUF - 2 /\ b = c + NBUF - 2 /\ a <= b
      BY <3>5
    <3> QED  BY <1>0, <3>3, <3>6, ScaleOrder, ScaleSum
  <2>2. Begun' = Begun /\ Written' = Written
    BY <1>1 DEF Begun, Written, fillVars, ringVars, outVars
  <2> SUFFICES ASSUME dma_inflight
               PROVE  Begun * UNITS + dma_start_off + dma_asked
                        <= (play_consumed' + NBUF - 2) * UNITS
    BY <1>1, <2>2 DEF SpanOK, fillVars, ringVars, outVars
  <2>3. Begun \in Nat /\ dma_start_off \in Nat /\ dma_asked \in Nat
        /\ Begun * UNITS + dma_start_off + dma_asked <= (play_consumed + NBUF - 2) * UNITS
    BY Sizes DEF SpanOK, TypeOK, CountsOK
  <2>4. Begun * UNITS \in Int
    BY <1>0, <2>3, ScaleSum
  <2>5. PICK a, b, e : /\ a = Begun * UNITS /\ b = (play_consumed + NBUF - 2) * UNITS
                       /\ e = (play_consumed' + NBUF - 2) * UNITS
    OBVIOUS
  <2> QED  BY <2>1, <2>3, <2>4, <2>5
<1>7. ContentsOK'
  <2> SUFFICES ASSUME NEW k \in Nat, NEW o \in 0 .. UNITS - 1,
                      k >= play_consumed' - 1, k * UNITS + o < landed
               PROVE  Holds(k, o)
    BY <1>1 DEF ContentsOK, Holds
  <2>1. k >= play_consumed - 1
    BY <1>4
  <2> QED  BY <2>1 DEF ContentsOK
<1>8. CASE CanQueue
  <2>1. /\ play_consumed' = play_consumed + 1 /\ play_underruns' = play_underruns
        /\ play_produced - play_consumed >= 3
    BY <1>8 DEF DACC_Handler, CanQueue, Queued
  <2>2. PICK n \in Nat : /\ n = play_consumed + 2 /\ n = play_consumed' + 1
                         /\ n >= play_consumed - 1 /\ n < play_produced
    BY <1>0, <2>1
  <2>3. BufferIn(SlotOf(n)) = n /\ SlotOf(n) # NoSlot
    BY <2>2, LatchedBuffer
  <2>4. IF tpr = NoSlot
        THEN tpr' = SlotOf(n) /\ PdcStarts(SlotOf(n)) /\ tnpr' = tnpr
        ELSE tnpr' = SlotOf(n) /\ UNCHANGED << tpr, emitVars >>
    <3>1. QueuedSlot(play_consumed') = SlotOf(n)
      BY <2>2 DEF QueuedSlot
    <3> QED  BY <1>8, <3>1 DEF DACC_Handler
  <2>5. Queued' >= 2 /\ timerOn'
    BY <1>0, <1>1, <1>2, <2>1 DEF Queued, runVars, ringVars
  <2>6. CASE tpr = NoSlot
    <3>1. tpr' = SlotOf(n) /\ tnpr' = NoSlot /\ top' = n /\ repeats' = repeats
      BY <1>0, <1>2, <2>2, <2>3, <2>4, <2>6 DEF PdcStarts
    <3>2. LatchOK' /\ top' = top + 1
      BY <1>0, <1>2, <2>1, <2>2, <3>1 DEF LatchOK
    <3>3. \E k \in Nat : k \in play_consumed' - 1 .. play_consumed' + 1 /\ tpr' = SlotOf(k)
      BY <1>0, <2>1, <2>2, <3>1
    <3>4. DrainOK'
      BY <1>1, <2>5, <3>2, <3>3 DEF DrainOK, Owned
    <3> QED  BY <1>5, <1>6, <1>7, <3>2, <3>4
  <2>7. CASE tpr # NoSlot
    <3>1. tpr' = tpr /\ tnpr' = SlotOf(n) /\ top' = top /\ repeats' = repeats
      BY <2>4, <2>7 DEF emitVars
    <3>2. LatchOK'
      BY <1>0, <1>1, <1>2, <2>1, <2>2, <3>1 DEF LatchOK
    <3>3. \E k \in Nat : k \in play_consumed' - 1 .. play_consumed' + 1 /\ tpr' = SlotOf(k)
      <4>1. PICK k \in Nat : k \in play_consumed .. play_consumed + 1 /\ tpr = SlotOf(k)
        BY <1>2, <2>7 DEF Owned
      <4> QED  BY <1>0, <2>1, <3>1, <4>1
    <3>4. DrainOK'
      BY <1>1, <2>5, <3>2, <3>3 DEF DrainOK, Owned
    <3> QED  BY <1>5, <1>6, <1>7, <3>1, <3>4
  <2> QED  BY <2>6, <2>7
<1>9. CASE ~CanQueue
  <2>1. play_consumed' = play_consumed /\ play_underruns' = play_underruns + 1
    BY <1>9 DEF DACC_Handler
  <2>2. BufferIn(SlotOf(play_consumed)) = play_consumed /\ SlotOf(play_consumed) # NoSlot
    BY <1>0, <1>3, LatchedBuffer
  <2>3. PICK s : s = SlotOf(play_consumed)
    OBVIOUS
  <2>4. IF tpr = NoSlot
        THEN tpr' = s /\ PdcStarts(s) /\ tnpr' = tnpr
        ELSE tnpr' = s /\ UNCHANGED << tpr, emitVars >>
    BY <1>9, <2>3 DEF DACC_Handler
  <2>5. Queued' >= 2 /\ timerOn'
    BY <1>0, <1>1, <1>2, <2>1 DEF Queued, runVars, ringVars
  <2>6. CASE tpr = NoSlot
    <3>1. tpr' = s /\ tnpr' = NoSlot /\ top' = top /\ repeats' = repeats + 1
      BY <1>0, <1>2, <2>2, <2>3, <2>4, <2>6 DEF PdcStarts
    <3>2. LatchOK'
      BY <1>0, <1>2, <2>1, <3>1 DEF LatchOK
    <3>3. \E k \in Nat : k \in play_consumed' - 1 .. play_consumed' + 1 /\ tpr' = SlotOf(k)
      BY <1>0, <2>1, <2>3, <3>1
    <3>4. DrainOK'
      BY <1>1, <2>5, <3>2, <3>3 DEF DrainOK, Owned
    <3> QED  BY <1>5, <1>6, <1>7, <3>1, <3>4
  <2>7. CASE tpr # NoSlot
    <3>1. tpr' = tpr /\ tnpr' = s /\ top' = top /\ repeats' = repeats
      BY <2>4, <2>7 DEF emitVars
    <3>2. LatchOK'
      BY <1>0, <1>1, <1>2, <2>1, <2>3, <3>1 DEF LatchOK
    <3>3. \E k \in Nat : k \in play_consumed' - 1 .. play_consumed' + 1 /\ tpr' = SlotOf(k)
      <4>1. PICK k \in Nat : k \in play_consumed .. play_consumed + 1 /\ tpr = SlotOf(k)
        BY <1>2, <2>7 DEF Owned
      <4> QED  BY <1>0, <2>1, <3>1, <4>1
    <3>4. DrainOK'
      BY <1>1, <2>5, <3>2, <3>3 DEF DrainOK, Owned
    <3> QED  BY <1>5, <1>6, <1>7, <3>1, <3>4
  <2> QED  BY <2>6, <2>7
<1> QED  BY <1>8, <1>9

\* The PDC goes on with the buffer it has latched: the next one, or the repeat that
\* has been counted.
LEMMA EmptyStep ==
  ASSUME TypeOK, DmaOK, BusyOK, RestOK, SpanOK, ContentsOK, DrainOK, PdcBufferEmpty
  PROVE  /\ BusyOK' /\ RestOK' /\ SpanOK' /\ ContentsOK' /\ DrainOK'
         /\ top' \in {top, top + 1}
<1>0. /\ play_produced \in Nat /\ play_consumed \in Nat
      /\ play_underruns \in Nat /\ repeats \in Nat /\ top \in Nat
  BY DEF TypeOK, CountsOK
<1>1. /\ UNCHANGED << fillVars, ringVars, runVars, outVars, ring, landed, play_consumed,
                      play_underruns >>
      /\ active /\ timerOn /\ tpr # NoSlot /\ tpr' = tnpr /\ tnpr' = NoSlot /\ endtx' = TRUE
  BY DEF PdcBufferEmpty
<1>2. /\ Queued >= 2 /\ LatchOK
  BY <1>1 DEF DrainOK
<1>3. play_produced - play_consumed >= 2
  BY <1>2 DEF Queued
<1>4. BusyOK' /\ RestOK' /\ SpanOK' /\ ContentsOK'
  <2>1. Begun' = Begun /\ Written' = Written
    BY <1>1 DEF Begun, Written, fillVars, ringVars, outVars
  <2> QED
    BY <1>1, <2>1 DEF BusyOK, RestOK, SpanOK, ContentsOK, Holds, fillVars, ringVars, runVars,
                      outVars
<1>5. Queued' >= 2 /\ timerOn' /\ play_consumed' = play_consumed
  BY <1>1, <1>2 DEF Queued, ringVars, runVars
<1>6. CASE tnpr = NoSlot
  <2>1. top = play_consumed + 1 /\ play_underruns = repeats
    <3>1. \A k \in Nat : SlotOf(k) # NoSlot
      BY SlotRange, Sizes DEF Slots, NoSlot
    <3> QED  BY <1>0, <1>2, <1>6, <3>1 DEF LatchOK
  <2>2. UNCHANGED << top, repeats >>
    BY <1>6 DEF PdcBufferEmpty, emitVars
  <2>3. LatchOK' /\ Owned(tpr', play_consumed')
    BY <1>1, <1>6, <2>1, <2>2 DEF LatchOK, Owned
  <2> QED  BY <1>1, <1>4, <1>5, <2>2, <2>3 DEF DrainOK, Owned
<1>7. CASE tnpr = SlotOf(play_consumed + 1) /\ top = play_consumed /\ play_underruns = repeats
  <2>1. PICK n \in Nat : n = play_consumed + 1 /\ n >= play_consumed - 1 /\ n < play_produced
    BY <1>0, <1>3
  <2>2. BufferIn(SlotOf(n)) = n /\ SlotOf(n) # NoSlot
    BY <2>1, LatchedBuffer
  <2>3. top' = top + 1 /\ repeats' = repeats
    <3>1. PdcStarts(SlotOf(n))
      BY <1>7, <2>1, <2>2 DEF PdcBufferEmpty
    <3> QED  BY <1>0, <1>7, <2>1, <2>2, <3>1 DEF PdcStarts
  <2>4. LatchOK'
    BY <1>1, <1>7, <2>3 DEF LatchOK
  <2>5. \E k \in Nat : k \in play_consumed' .. play_consumed' + 1 /\ tpr' = SlotOf(k)
    BY <1>0, <1>1, <1>7, <2>1
  <2>6. DrainOK'
    BY <1>1, <1>5, <2>4, <2>5 DEF DrainOK, Owned
  <2> QED  BY <1>4, <2>3, <2>6
<1>8. CASE tnpr = SlotOf(play_consumed) /\ top = play_consumed + 1
           /\ play_underruns = repeats + 1
  <2>1. BufferIn(SlotOf(play_consumed)) = play_consumed /\ SlotOf(play_consumed) # NoSlot
    BY <1>0, <1>3, LatchedBuffer
  <2>2. top' = top /\ repeats' = repeats + 1
    <3>1. PdcStarts(SlotOf(play_consumed))
      BY <1>8, <2>1 DEF PdcBufferEmpty
    <3> QED  BY <1>0, <1>8, <2>1, <3>1 DEF PdcStarts
  <2>3. LatchOK'
    BY <1>1, <1>8, <2>2 DEF LatchOK
  <2>4. \E k \in Nat : k \in play_consumed' .. play_consumed' + 1 /\ tpr' = SlotOf(k)
    BY <1>0, <1>1, <1>8
  <2>5. DrainOK'
    BY <1>1, <1>5, <2>3, <2>4 DEF DrainOK, Owned
  <2> QED  BY <1>4, <2>2, <2>5
<1> QED  BY <1>2, <1>6, <1>7, <1>8 DEF LatchOK

----------------------------------------------------------------------------
(* Commands, priming, and the whole *)

\* A playback starts from an empty ring, whatever an earlier one left behind, once
\* the earlier one's transfer is stopped.
LEMMA StartStep ==
  ASSUME PlayStart, outBusy' = FALSE
  PROVE  BusyOK' /\ RestOK' /\ SpanOK' /\ ContentsOK' /\ DrainOK'
<1>0. UNITS \in Nat \ {0} /\ NBUF \in Nat /\ NBUF >= 5
  BY Sizes
<1>1. /\ dma_inflight' = FALSE /\ play_produced' = 0 /\ play_consumed' = 0 /\ fill_off' = 0
      /\ landed' = 0 /\ play_bytes_in' = 0 /\ timerOn' = FALSE /\ primed' = FALSE
      /\ endtx' = FALSE /\ tpr' = 0 /\ tnpr' = 1 /\ top' = 0 /\ repeats' = 0
      /\ play_underruns' = 0
  BY DEF PlayStart
<1>2. BusyOK' /\ SpanOK'
  BY <1>1 DEF BusyOK, SpanOK
<1>3. RestOK'
  BY <1>0, <1>1 DEF RestOK
<1>4. ContentsOK'
  <2> SUFFICES ASSUME NEW k \in Nat, NEW o \in 0 .. UNITS - 1, k * UNITS + o < 0 PROVE FALSE
    BY <1>1 DEF ContentsOK
  <2>1. 0 * UNITS <= k * UNITS /\ k * UNITS \in Int /\ 0 * UNITS = 0
    BY <1>0, ScaleOrder, ScaleSum
  <2>2. PICK a : a = k * UNITS
    OBVIOUS
  <2> QED  BY <2>1, <2>2, <1>0
<1>5. DrainOK'
  <2>1. SlotOf(0) = 0 /\ SlotOf(1) = 1
    <3>1. 0 \in 0 .. NBUF - 1 /\ 1 \in 0 .. NBUF - 1 /\ NBUF \in Nat \ {0}
      BY <1>0
    <3> QED  BY <3>1, ModSmall DEF SlotOf
  <2>2. LatchOK'
    BY <1>1, <2>1 DEF LatchOK
  <2>3. \E k \in Nat : k \in -1 .. 1 /\ tpr' = SlotOf(k)
    BY <1>1, <2>1
  <2> QED  BY <1>1, <2>2, <2>3 DEF DrainOK, Owned
<1> QED  BY <1>2, <1>3, <1>4, <1>5

\* Starting the converter's timer finds at least two buffers queued.
LEMMA PrimeStep ==
  ASSUME TypeOK, DmaOK, BusyOK, RestOK, SpanOK, ContentsOK, DrainOK, ServicePrime
  PROVE  BusyOK' /\ RestOK' /\ SpanOK' /\ ContentsOK' /\ DrainOK'
<1>1. /\ UNCHANGED << active, fillVars, ringVars, drainVars, outVars, emitVars, ring, landed >>
      /\ primed' = (primed \/ PrimeDue) /\ timerOn' = (timerOn \/ primed')
  BY DEF ServicePrime
<1>2. BusyOK' /\ RestOK' /\ SpanOK' /\ ContentsOK'
  <2>1. Begun' = Begun /\ Written' = Written
    BY <1>1 DEF Begun, Written, fillVars, ringVars, outVars
  <2> QED
    BY <1>1, <2>1 DEF BusyOK, RestOK, SpanOK, ContentsOK, Holds, fillVars, ringVars, drainVars,
                      outVars
<1>3. DrainOK'
  <2>1. /\ UNCHANGED << tpr, tnpr, endtx, top, repeats, play_consumed, play_underruns >>
        /\ Queued' = Queued
    BY <1>1 DEF drainVars, emitVars, ringVars, Queued
  <2>2. LatchOK' /\ Owned(tpr, IF endtx THEN play_consumed ELSE play_consumed - 1)'
    BY <2>1 DEF LatchOK, Owned, DrainOK
  <2>3. CASE timerOn
    <3>1. timerOn' /\ Queued' >= 2
      BY <1>1, <2>1, <2>3 DEF DrainOK
    <3> QED  BY <2>2, <3>1 DEF DrainOK
  <2>4. CASE ~timerOn
    <3>1. play_consumed = 0 /\ ~endtx /\ ~primed
      BY <2>4 DEF DrainOK
    <3>2. CASE PrimeDue
      <4>1. play_produced \in Nat /\ play_produced >= 3
        BY <3>2, Sizes DEF PrimeDue, TypeOK, CountsOK
      <4>2. Queued >= 2
        BY <3>1, <4>1 DEF Queued
      <4>3. timerOn'
        BY <1>1, <3>2
      <4> QED  BY <2>1, <2>2, <4>2, <4>3 DEF DrainOK
    <3>3. CASE ~PrimeDue
      <4>1. ~primed' /\ ~timerOn'
        BY <1>1, <2>4, <3>1, <3>3
      <4> QED  BY <2>1, <2>2, <3>1, <4>1 DEF DrainOK
    <3> QED  BY <3>2, <3>3
  <2> QED  BY <2>3, <2>4
<1> QED  BY <1>2, <1>3

\* Every step keeps the invariant, and the buffer numbers rise one at a time.
LEMMA PlayInvStep ==
  TypeOK /\ DmaOK /\ PlayInv /\ [Next]_vars =>
    /\ PlayInv'
    /\ active /\ ~stopFailed /\ ~stopFailed' => top' \in {top, top + 1} \/ starts' # starts
<1> SUFFICES ASSUME TypeOK, DmaOK, PlayInv, [Next]_vars, ~stopFailed'
             PROVE  /\ BusyOK'
                    /\ active' => RestOK' /\ SpanOK' /\ ContentsOK' /\ DrainOK'
                    /\ active => top' \in {top, top + 1} \/ starts' # starts
  BY DEF PlayInv
<1>0. ~stopFailed
  <2>1. CASE PlayStart
    BY <2>1 DEF PlayStart, StopEarlierTransfer, StopOutChannel
  <2>2. CASE PlayStop \/ ServiceAbandon
    BY <2>2 DEF PlayStop, ServiceAbandon, StopPlayback, StopOutChannel
  <2>3. CASE Configure
    BY <2>3 DEF Configure, StopOutChannel
  <2>4. CASE ServicePublish \/ ServiceArm \/ ServicePrime
    BY <2>4 DEF ServicePublish, ServiceArm, ServicePrime, pastVars
  <2>5. CASE DACC_Handler \/ Hardware
    BY <2>5 DEF DACC_Handler, Hardware, PdcBufferEmpty, OutDmaLands, Tick, pastVars
  <2>6. CASE PortClose \/ PortOpen
    BY <2>6 DEF PortClose, PortOpen
  <2>7. CASE UNCHANGED vars
    BY <2>7 DEF vars, pastVars
  <2> QED
    BY <2>1, <2>2, <2>3, <2>4, <2>5, <2>6, <2>7 DEF Next, Command, Service, Port
<1>1. BusyOK /\ (active => RestOK /\ SpanOK /\ ContentsOK /\ DrainOK)
  BY <1>0 DEF PlayInv
<1>2. ASSUME active => RestOK /\ SpanOK /\ ContentsOK /\ DrainOK,
             UNCHANGED << active, fillVars, ringVars, drainVars, runVars, outAt, outLeft,
                          emitVars, ring, landed >>,
             outBusy' => outBusy
      PROVE  /\ BusyOK'
             /\ active' => RestOK' /\ SpanOK' /\ ContentsOK' /\ DrainOK'
             /\ top' = top
  <2>1. Begun' = Begun /\ Written' = Written /\ Queued' = Queued
    BY <1>2 DEF Begun, Written, Queued, fillVars, ringVars, drainVars
  <2>2. BusyOK'
    BY <1>1, <1>2 DEF BusyOK, fillVars
  <2>3. active => RestOK' /\ SpanOK' /\ ContentsOK'
    BY <1>2, <2>1 DEF RestOK, SpanOK, ContentsOK, Holds, fillVars, ringVars, drainVars
  <2>4. LatchOK' = LatchOK
    BY <1>2 DEF LatchOK, drainVars, emitVars
  <2>5. active => DrainOK'
    <3>1. Owned(tpr, IF endtx THEN play_consumed ELSE play_consumed - 1)'
            = Owned(tpr, IF endtx THEN play_consumed ELSE play_consumed - 1)
      BY <1>2 DEF Owned, drainVars
    <3> QED  BY <1>2, <2>1, <2>4, <3>1 DEF DrainOK, drainVars, runVars
  <2> QED  BY <1>2, <2>2, <2>3, <2>5 DEF emitVars
<1>3. CASE PlayStart
  <2>1. outBusy' = FALSE
    BY <1>0, <1>3 DEF PlayStart, StopEarlierTransfer, StopOutChannel
  <2>2. starts' # starts
    BY <1>3 DEF PlayStart, TypeOK, CountsOK
  <2> QED  BY <1>3, <2>1, <2>2, StartStep
<1>4. CASE PlayStop \/ ServiceAbandon
  <2>1. outBusy' = FALSE /\ active' = FALSE /\ top' = top
    BY <1>0, <1>4 DEF PlayStop, ServiceAbandon, StopPlayback, StopOutChannel, emitVars
  <2> QED  BY <2>1 DEF BusyOK
<1>5. CASE Configure
  <2>1. UNCHANGED << active, fillVars, ringVars, drainVars, runVars, outAt, outLeft,
                     emitVars, ring, landed >>
        /\ (outBusy' => outBusy)
    BY <1>0, <1>5 DEF Configure, StopOutChannel, runVars
  <2> QED  BY <1>1, <1>2, <2>1
<1>6. CASE ServicePublish
  <2>1. active /\ active' /\ top' = top
    BY <1>6 DEF ServicePublish, InService, runVars, emitVars
  <2> QED  BY <1>1, <1>6, <2>1, PublishStep
<1>7. CASE ServiceArm
  <2>1. active /\ active' /\ top' = top
    BY <1>7 DEF ServiceArm, InService, runVars, emitVars
  <2> QED  BY <1>1, <1>7, <2>1, ArmStep
<1>8. CASE ServicePrime
  <2>1. active /\ active' /\ top' = top
    BY <1>8 DEF ServicePrime, InService, emitVars
  <2> QED  BY <1>1, <1>8, <2>1, PrimeStep
<1>9. CASE DACC_Handler
  <2>1. active /\ active'
    BY <1>9 DEF DACC_Handler, InterruptPending, runVars
  <2> QED  BY <1>1, <1>9, <2>1, HandlerStep
<1>10. CASE PdcBufferEmpty
  <2>1. active /\ active'
    BY <1>10 DEF PdcBufferEmpty, runVars
  <2> QED  BY <1>1, <1>10, <2>1, EmptyStep
<1>11. CASE OutDmaLands
  <2>1. active /\ active' /\ UNCHANGED << fillVars, ringVars, drainVars, runVars, emitVars >>
    BY <1>1, <1>11 DEF OutDmaLands, BusyOK, runVars
  <2>2. BusyOK' /\ RestOK' /\ SpanOK' /\ ContentsOK'
    BY <1>1, <1>11, <2>1, LandStep
  <2>3. DrainOK'
    <3>1. LatchOK' /\ Queued' = Queued
          /\ Owned(tpr, IF endtx THEN play_consumed ELSE play_consumed - 1)'
      BY <1>1, <2>1 DEF DrainOK, LatchOK, Owned, Queued, drainVars, emitVars, ringVars
    <3> QED  BY <1>1, <2>1, <3>1 DEF DrainOK, drainVars, runVars
  <2> QED  BY <2>1, <2>2, <2>3 DEF emitVars
<1>12. CASE Tick \/ PortClose \/ PortOpen \/ UNCHANGED vars
  <2>1. UNCHANGED << active, fillVars, ringVars, drainVars, runVars, outVars, emitVars, ring,
                     landed >>
    BY <1>12 DEF Tick, PortClose, PortOpen, vars, runVars
  <2>2. UNCHANGED << outBusy, outAt, outLeft >>
    BY <2>1 DEF outVars
  <2> QED  BY <1>1, <1>2, <2>1, <2>2
<1> QED
  BY <1>3, <1>4, <1>5, <1>6, <1>7, <1>8, <1>9, <1>10, <1>11, <1>12
  DEF Next, Command, Service, Hardware, Port

\* No transfer is in flight at first.
LEMMA PlayInvInit == Init => PlayInv
<1> QED  BY DEF Init, PlayInv, BusyOK

\* Nothing is left to be written into a slot the PDC owns.
LEMMA NotOverwritten ==
  ASSUME TypeOK, DmaOK, BusyOK, RestOK, SpanOK, Queued >= 2,
         NEW k \in Nat, k <= play_consumed + 1, k >= play_consumed - 1
  PROVE  ~WillWrite(SlotOf(k))
<1> DEFINE s == SlotOf(k)
<1>1. SUFFICES ASSUME outBusy, outAt < (s + 1) * UNITS, outAt + outLeft > s * UNITS
               PROVE  FALSE
  BY DEF WillWrite
<1>2. /\ UNITS \in Nat \ {0} /\ NBUF \in Nat /\ NBUF >= 5 /\ play_produced \in Nat
      /\ play_consumed \in Nat /\ dma_start_off \in Nat /\ dma_asked \in Nat
      /\ outLeft \in Nat /\ landed \in Nat /\ outAt \in Nat
      /\ s \in Slots /\ s \in Int /\ dma_inflight
  <2>1. s \in Slots
    BY SlotRange
  <2> QED  BY <1>1, <2>1, Sizes DEF TypeOK, CountsOK, PlacesOK, BusyOK, Slots
<1>3. /\ Begun \in Nat
      /\ Begun * UNITS + dma_start_off + Written = landed
      /\ Begun * UNITS + dma_start_off + dma_asked <= (play_consumed + NBUF - 2) * UNITS
      /\ outAt = SlotOf(Begun) * UNITS + dma_start_off + Written
  BY <1>2 DEF SpanOK
<1>4. PICK t \in Int : t = SlotOf(Begun)
  <2>1. SlotOf(Begun) \in Slots
    BY <1>3, SlotRange
  <2> QED  BY <1>2, <2>1 DEF Slots
<1> HIDE DEF s
<1>5. PICK d \in Int, e \in Int : d = s - t /\ e = Begun + d
  BY <1>2, <1>3, <1>4
<1>6. PICK a, b, f, g : /\ a = Begun * UNITS /\ b = t * UNITS /\ f = s * UNITS
                        /\ g = d * UNITS
  OBVIOUS
<1>7. /\ a \in Int /\ b \in Int /\ f \in Int /\ g \in Int
      /\ f = b + g /\ (s + 1) * UNITS = f + UNITS
      /\ e * UNITS = a + g /\ (e + 1) * UNITS = a + g + UNITS
  <2>1. s = t + d /\ t + d \in Int
    BY <1>2, <1>4, <1>5
  <2>2. f = b + g /\ a \in Int /\ b \in Int /\ f \in Int /\ g \in Int
    BY <1>2, <1>3, <1>4, <1>5, <1>6, <2>1, ScaleSum
  <2>3. 1 * UNITS = UNITS
    BY <1>2
  <2>4. (s + 1) * UNITS = f + UNITS
    BY <1>2, <1>6, <2>3, ScaleSum
  <2>5. e * UNITS = a + g
    BY <1>2, <1>3, <1>5, <1>6, ScaleSum
  <2>6. (e + 1) * UNITS = a + g + UNITS
    BY <1>2, <1>5, <2>3, <2>5, ScaleSum
  <2> QED  BY <2>2, <2>4, <2>5, <2>6
<1>8. e < play_consumed + NBUF - 2
  <2>1. PICK c \in Int : c = play_consumed + NBUF - 2
    BY <1>2
  <2>2. PICK h : h = c * UNITS /\ h \in Int
    BY <1>2, <2>1, ScaleSum
  <2>3. a + dma_start_off + dma_asked <= h
    BY <1>3, <1>6, <2>1, <2>2
  <2>4. outAt = b + dma_start_off + Written /\ Written = dma_asked - outLeft
    BY <1>3, <1>4, <1>6 DEF Written
  <2>5. outAt + outLeft > f
    BY <1>1, <1>6
  <2>6. a + g < h
    BY <1>2, <1>7, <2>2, <2>3, <2>4, <2>5
  <2>7. e * UNITS < c * UNITS
    BY <1>7, <2>2, <2>6
  <2> QED  BY <1>2, <1>5, <2>1, <2>7, ScaleOrder
<1>9. play_produced < e + 1
  <2>1. play_produced * UNITS <= landed
    BY Published
  <2>2. outAt = b + dma_start_off + Written /\ Written = dma_asked - outLeft
        /\ a + dma_start_off + Written = landed
    BY <1>3, <1>4, <1>6 DEF Written
  <2>3. outAt < f + UNITS
    BY <1>1, <1>7
  <2>4. landed < a + g + UNITS
    BY <1>2, <1>7, <2>2, <2>3
  <2>5. PICK h : h = play_produced * UNITS /\ h \in Int
    BY <1>2, ScaleSum
  <2>6. h < a + g + UNITS
    BY <1>2, <1>7, <2>1, <2>4, <2>5
  <2>7. play_produced * UNITS < (e + 1) * UNITS /\ e + 1 \in Int
    BY <1>5, <1>7, <2>5, <2>6
  <2> QED  BY <1>2, <2>7, ScaleOrder
<1>10. k < e /\ e < k + NBUF /\ k < e + NBUF
  <2>1. play_produced - play_consumed >= 2
    BY DEF Queued
  <2>2. \A p, c, n, x, y \in Int :
          /\ p - c >= 2 /\ p < y + 1 /\ y < c + n - 2 /\ x <= c + 1 /\ x >= c - 1 /\ n >= 0
          => x < y /\ y < x + n /\ x < y + n
    OBVIOUS
  <2>3. play_produced \in Int /\ play_consumed \in Int /\ NBUF \in Int /\ k \in Int /\ NBUF >= 0
    BY <1>2
  <2> QED  BY <1>5, <1>8, <1>9, <2>1, <2>2, <2>3
<1>11. SlotOf(e) = s
  <2>1. t + d = s
    BY <1>2, <1>4, <1>5
  <2>2. SlotOf(Begun) + d \in Slots /\ SlotOf(Begun) + d = s
    BY <1>2, <1>4, <2>1
  <2>3. SlotOf(Begun + d) = SlotOf(Begun) + d
    BY <1>3, <1>5, <2>2, SlotPlus
  <2> QED  BY <1>5, <2>2, <2>3
<1>12. k = e
  BY <1>5, <1>10, <1>11, SlotsDiffer DEF s
<1> QED  BY <1>5, <1>10, <1>12

\* For all ring sizes and primings: the PDC owns only whole buffers that nothing is
\* left to overwrite, and every unit that landed is counted once.
THEOREM PlaybackIsExact == Spec => []PlaysWhatLanded
<1>1. TypeOK /\ DmaOK /\ PlayInv => PlaysWhatLanded
  <2> SUFFICES ASSUME TypeOK, DmaOK, BusyOK, RestOK, SpanOK, ContentsOK, DrainOK
               PROVE  /\ timerOn => \A s \in {tpr, tnpr} \ {NoSlot} :
                                      Whole(s, BufferIn(s)) /\ ~WillWrite(s)
                      /\ ~dma_inflight => /\ play_bytes_in = landed
                                          /\ play_produced * UNITS + fill_off = landed
    BY DEF PlayInv, PlaysWhatLanded, EmitsOnlyWhole, BytesExact
  <2>1. ASSUME timerOn, NEW s \in {tpr, tnpr} \ {NoSlot}
        PROVE  Whole(s, BufferIn(s)) /\ ~WillWrite(s)
    <3>1. play_produced \in Nat /\ play_consumed \in Nat /\ Queued >= 2
          /\ play_produced - play_consumed >= 2
      BY <2>1 DEF DrainOK, TypeOK, CountsOK, Queued
    <3>2. PICK k \in Nat : /\ s = SlotOf(k) /\ k <= play_consumed + 1
                           /\ k >= play_consumed - 1
      <4>1. CASE s = tpr
        <5>1. PICK c \in Int : c = (IF endtx THEN play_consumed ELSE play_consumed - 1)
                               /\ c >= play_consumed - 1
          BY <3>1
        <5>2. \E k \in Nat : k \in c .. play_consumed + 1 /\ s = SlotOf(k)
          BY <2>1, <4>1, <5>1 DEF DrainOK, Owned
        <5> QED  BY <3>1, <5>1, <5>2
      <4>2. CASE s = tnpr
        <5>1. s = SlotOf(play_consumed + 1) \/ s = SlotOf(play_consumed)
          BY <2>1, <4>2 DEF DrainOK, LatchOK
        <5> QED  BY <3>1, <5>1
      <4> QED  BY <2>1, <4>1, <4>2
    <3>3. k < play_produced
      BY <3>1, <3>2
    <3>4. Whole(s, k) /\ BufferIn(s) = k
      BY <3>2, <3>3, LatchedBuffer
    <3>5. ~WillWrite(s)
      BY <3>1, <3>2, NotOverwritten
    <3> QED  BY <3>4, <3>5
  <2> QED  BY <2>1 DEF RestOK
<1> QED  BY <1>1, PlayInvInit, PlayInvStep, TypeCorrect, PTL DEF Spec

\* For all ring sizes and primings: buffers are emitted in order, with only counted
\* repeats between them.
THEOREM BuffersInOrder == Spec => EmissionInOrder
<1>1. TypeOK /\ TypeOK' /\ DmaOK /\ PlayInv /\ PlayInv' /\ [Next]_vars =>
        [active /\ active' /\ ~stopFailed /\ ~stopFailed' =>
           /\ top' \in {top, top + 1} \/ starts' # starts
           /\ CountedAhead' \in {0, 1}]_vars
  <2> SUFFICES ASSUME TypeOK, TypeOK', DmaOK, PlayInv, PlayInv', [Next]_vars,
                      active, active', ~stopFailed, ~stopFailed'
               PROVE  /\ top' \in {top, top + 1} \/ starts' # starts
                      /\ CountedAhead' \in {0, 1}
    OBVIOUS
  <2>1. top' \in {top, top + 1} \/ starts' # starts
    BY PlayInvStep
  <2>2. LatchOK'
    BY DEF PlayInv, DrainOK
  <2>3. CountedAhead' = play_underruns' - repeats' /\ play_underruns' \in Nat /\ repeats' \in Nat
    BY DEF CountedAhead, TypeOK, CountsOK
  <2>4. play_underruns' = repeats' \/ play_underruns' = repeats' + 1
    BY <2>2 DEF LatchOK
  <2>5. CountedAhead' \in {0, 1}
    <3>1. \A a, b \in Nat : (a = b => a - b = 0) /\ (a = b + 1 => a - b = 1)
      OBVIOUS
    <3>2. CountedAhead' = 0 \/ CountedAhead' = 1
      BY <2>3, <2>4, <3>1
    <3> QED  BY <3>2
  <2> QED  BY <2>1, <2>5
<1> QED
  BY <1>1, PlayInvInit, PlayInvStep, TypeCorrect, PTL DEF Spec, EmissionInOrder
==============================================================================
