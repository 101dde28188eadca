------------------------- MODULE CaptureRingProofs -------------------------
(***************************************************************************)
(* What holds of the capture ring for every ring size, frame size, service *)
(* budget and number of events.                                            *)
(***************************************************************************)
EXTENDS CaptureRing, RingArithmetic

----------------------------------------------------------------------------
(* The ring's index arithmetic *)

LEMMA NbufType == NBUF \in Nat \ {0}
BY RingAssumption

LEMMA SlotRange ==
  ASSUME NEW i \in Int
  PROVE  SlotOf(i) \in Slots
BY DivMod, NbufType DEF SlotOf, Slots

LEMMA NextSlotOf ==
  ASSUME NEW i \in Int
  PROVE  NextSlot(SlotOf(i)) = SlotOf(i + 1)
BY SlotAfter, NbufType DEF SlotOf, NextSlot

LEMMA SlotsDiffer ==
  ASSUME NEW i \in Int, NEW j \in Int, i < j, j < i + NBUF
  PROVE  SlotOf(i) # SlotOf(j)
BY SlotsApart, NbufType DEF SlotOf

LEMMA NextSlotType ==
  ASSUME NEW s \in Slots
  PROVE  NextSlot(s) \in Slots
<1>1. s + 1 \in Int
  BY RingAssumption DEF Slots
<1> QED BY <1>1, DivMod, NbufType DEF NextSlot, Slots

----------------------------------------------------------------------------
(* Types.  A step's effect on the flags, on the counts and on the places is *)
(* proved apart: the flags by logic alone, the rest with arithmetic.        *)

LEMMA TypeInit == Init => TypeOK
<1> SUFFICES ASSUME Init PROVE TypeOK
  OBVIOUS
<1>1. FlagsOK
  BY DEF Init, FlagsOK
<1>2. CountsOK
  BY RingAssumption DEF Init, CountsOK
<1>3. PlacesOK
  BY RingAssumption DEF Init, PlacesOK, NoHeader, Slots
<1> QED BY <1>1, <1>2, <1>3 DEF TypeOK

LEMMA FlagsStep == FlagsOK /\ [Next]_vars => FlagsOK'
<1> SUFFICES ASSUME FlagsOK, [Next]_vars PROVE FlagsOK'
  OBVIOUS
<1> USE DEF FlagsOK, acqVars, txVars, pdcVars, usbVars, sentVars, pastVars,
            StopInChannel, PdcStarts, PortChange, FrameSent, Joins
<1>1. ASSUME NEW usb \in BOOLEAN, StreamCoreStart(usb) PROVE FlagsOK'
  BY <1>1 DEF StreamCoreStart, AcqStart
<1>2. CASE StreamCoreStartRefused
  BY <1>2 DEF StreamCoreStartRefused
<1>3. CASE StreamCoreStop
  BY <1>3 DEF StreamCoreStop
<1>4. CASE ServiceDiscard
  BY <1>4 DEF ServiceDiscard
<1>5. CASE ServiceEnter
  BY <1>5 DEF ServiceEnter
<1>6. CASE ServiceWait
  BY <1>6 DEF ServiceWait
<1>7. CASE ServiceArm
  BY <1>7 DEF ServiceArm
<1>8. CASE ServiceFrameDone
  BY <1>8 DEF ServiceFrameDone
<1>9. CASE ServiceSelect
  BY <1>9 DEF ServiceSelect
<1>10. CASE ServiceHeader
  BY <1>10 DEF ServiceHeader
<1>11. CASE ServicePayload
  BY <1>11 DEF ServicePayload
<1>12. CASE ServiceShortWrite
  BY <1>12 DEF ServiceShortWrite
<1>13. CASE ServicePayloadDone
  BY <1>13 DEF ServicePayloadDone
<1>14. CASE ADC_Handler
  BY <1>14 DEF ADC_Handler
<1>15. CASE PdcBufferFull
  BY <1>15 DEF PdcBufferFull
<1>16. CASE SampleLost
  BY <1>16 DEF SampleLost
<1>17. CASE DmaChunkDone
  BY <1>17 DEF DmaChunkDone
<1>18. CASE PortClose
  BY <1>18 DEF PortClose
<1>19. CASE Configure
  BY <1>19 DEF Configure
<1>20. CASE PortOpen
  BY <1>20 DEF PortOpen
<1>21. CASE UNCHANGED vars
  BY <1>21 DEF vars
<1> QED
  BY <1>1, <1>2, <1>3, <1>4, <1>5, <1>6, <1>7, <1>8, <1>9, <1>10, <1>11,
     <1>12, <1>13, <1>14, <1>15, <1>16, <1>17, <1>18, <1>19, <1>20, <1>21
  DEF Next, Command, Service, ServiceIteration, Hardware, Port

LEMMA CountsStep == CountsOK /\ PlacesOK /\ [Next]_vars => CountsOK'
<1> SUFFICES ASSUME CountsOK, PlacesOK, [Next]_vars PROVE CountsOK'
  OBVIOUS
<1> USE RingAssumption
    DEF CountsOK, acqVars, txVars, pdcVars, usbVars, sentVars, pastVars,
        PortChange, Continue, Return
<1>1. ASSUME NEW usb \in BOOLEAN, StreamCoreStart(usb) PROVE CountsOK'
  BY <1>1 DEF StreamCoreStart, CanStart, InitFramer, AcqStart
<1>2. CASE StreamCoreStartRefused
  BY <1>2 DEF StreamCoreStartRefused, CanStart, InitFramer
<1>3. CASE StreamCoreStop
  BY <1>3 DEF StreamCoreStop
<1>4. CASE ServiceDiscard
  BY <1>4 DEF ServiceDiscard
<1>5. CASE ServiceEnter
  BY <1>5 DEF ServiceEnter
<1>6. CASE ServiceWait
  BY <1>6 DEF ServiceWait
<1>7. CASE ServiceArm
  BY <1>7 DEF ServiceArm, InService
<1>8. ASSUME FrameSent, Continue, budget > 0 PROVE CountsOK'
  <2>1. tx_hdr.ord \in Nat
    BY DEF PlacesOK
  <2>2. quiet' \in 0 .. NBUF /\ torn' \in Nat
    BY <1>8 DEF FrameSent
  <2>3. acq_consumed' \in Nat /\ seq' \in Nat /\ tx_off' \in 0 .. CHUNKS
    BY <1>8 DEF FrameSent
  <2>4. budget' \in 0 .. BUDGET
    BY <1>8
  <2> QED BY <1>8, <2>1, <2>2, <2>3, <2>4 DEF FrameSent
<1>9. CASE ServiceFrameDone
  BY <1>8, <1>9 DEF ServiceFrameDone, InService
<1>10. CASE ServiceSelect
  <2>1. acq_consumed' \in Nat
    BY <1>10 DEF ServiceSelect, Lapped, ResyncTo, Occupancy
  <2>2. resync_count' \in Nat /\ pending_overrun' \in Nat
    BY <1>10 DEF ServiceSelect, Overruns
  <2>3. budget' \in 0 .. BUDGET
    BY <1>10 DEF ServiceSelect, InService
  <2> QED BY <1>10, <2>1, <2>2, <2>3 DEF ServiceSelect
<1>11. CASE ServiceHeader
  BY <1>11 DEF ServiceHeader
<1>12. CASE ServicePayload
  BY <1>12 DEF ServicePayload
<1>13. CASE ServiceShortWrite
  BY <1>13 DEF ServiceShortWrite
<1>14. CASE ServicePayloadDone
  BY <1>8, <1>14 DEF ServicePayloadDone, InService
<1>15. CASE ADC_Handler
  BY <1>15 DEF ADC_Handler, PdcStarts
<1>16. CASE PdcBufferFull
  BY <1>16 DEF PdcBufferFull, PdcStarts
<1>17. CASE SampleLost
  <2>1. rpr # NoSlot => slot[rpr] \in Nat
    BY DEF PlacesOK
  <2>2. (IF rpr = NoSlot THEN started + 1 ELSE slot[rpr]) \in Nat
    BY <2>1
  <2>3. lossy' \subseteq Nat
    BY <1>17, <2>2 DEF SampleLost
  <2> QED BY <1>17, <2>3 DEF SampleLost
<1>18. CASE DmaChunkDone
  BY <1>18 DEF DmaChunkDone
<1>19. CASE PortClose
  BY <1>19 DEF PortClose
<1>20. CASE Configure
  BY <1>20 DEF Configure
<1>21. CASE PortOpen
  BY <1>21 DEF PortOpen
<1>22. CASE UNCHANGED vars
  BY <1>22 DEF vars
<1> QED
  BY <1>1, <1>2, <1>3, <1>4, <1>5, <1>6, <1>7, <1>9, <1>10, <1>11, <1>12,
     <1>13, <1>14, <1>15, <1>16, <1>17, <1>18, <1>19, <1>20, <1>21, <1>22
  DEF Next, Command, Service, ServiceIteration, Hardware, Port

LEMMA PlacesStep == TypeOK /\ [Next]_vars => PlacesOK'
<1> SUFFICES ASSUME TypeOK, [Next]_vars PROVE PlacesOK'
  OBVIOUS
<1>a. CountsOK /\ PlacesOK
  BY DEF TypeOK
<1> USE <1>a, RingAssumption
    DEF PlacesOK, acqVars, txVars, pdcVars, usbVars, sentVars, pastVars,
        PortChange, StopInChannel
<1>1. ASSUME NEW usb \in BOOLEAN, StreamCoreStart(usb) PROVE PlacesOK'
  BY <1>1 DEF StreamCoreStart, InitFramer, AcqStart, Slots
<1>2. CASE StreamCoreStartRefused
  BY <1>2 DEF StreamCoreStartRefused, InitFramer
<1>3. CASE StreamCoreStop
  BY <1>3 DEF StreamCoreStop
<1>4. CASE ServiceDiscard
  BY <1>4 DEF ServiceDiscard
<1>5. CASE ServiceEnter
  BY <1>5 DEF ServiceEnter
<1>6. CASE ServiceWait
  BY <1>6 DEF ServiceWait
<1>7. CASE ServiceArm
  <2>1. Head \in Slots
    BY SlotRange DEF Head, CountsOK
  <2> QED BY <1>7, <2>1 DEF ServiceArm
<1>8. CASE ServiceFrameDone
  BY <1>8 DEF ServiceFrameDone, FrameSent
<1>9. CASE ServiceSelect
  <2>1. CountsOK'
    BY CountsStep
  <2>2. SlotOf(acq_consumed') \in Slots
    BY <2>1, SlotRange DEF CountsOK
  <2>3. slot[SlotOf(acq_consumed')] \in Nat
    BY <2>2
  <2>4. (pending_overrun' # pending_overrun) \in BOOLEAN
    OBVIOUS
  <2>5. tx_hdr' \in [seq: Nat, overrun: Nat, flagged: BOOLEAN, ord: Nat]
    BY <1>9, <2>1, <2>3, <2>4 DEF ServiceSelect, CountsOK
  <2>6. tx_phase' \in {"DMA", "HEADER"}
    BY <1>9 DEF ServiceSelect
  <2> QED BY <1>9, <2>5, <2>6 DEF ServiceSelect
<1>10. CASE ServiceHeader
  BY <1>10 DEF ServiceHeader
<1>11. CASE ServicePayload
  BY <1>11 DEF ServicePayload
<1>12. CASE ServiceShortWrite
  BY <1>12 DEF ServiceShortWrite
<1>13. CASE ServicePayloadDone
  BY <1>13 DEF ServicePayloadDone, FrameSent
<1>14. CASE ADC_Handler
  <2>1. filling' \in Slots
    BY <1>14, NextSlotType DEF ADC_Handler
  <2>2. ReloadSlot(filling') \in Slots
    BY <2>1, NextSlotType DEF ReloadSlot
  <2> QED BY <1>14, <2>1, <2>2 DEF ADC_Handler, PdcStarts, CountsOK
<1>15. CASE PdcBufferFull
  BY <1>15 DEF PdcBufferFull, PdcStarts, CountsOK
<1>16. CASE SampleLost
  BY <1>16 DEF SampleLost
<1>17. CASE DmaChunkDone
  BY <1>17 DEF DmaChunkDone
<1>18. CASE PortClose
  BY <1>18 DEF PortClose
<1>19. CASE Configure
  BY <1>19 DEF Configure
<1>20. CASE PortOpen
  BY <1>20 DEF PortOpen
<1>21. CASE UNCHANGED vars
  BY <1>21 DEF vars
<1> QED
  BY <1>1, <1>2, <1>3, <1>4, <1>5, <1>6, <1>7, <1>8, <1>9, <1>10, <1>11,
     <1>12, <1>13, <1>14, <1>15, <1>16, <1>17, <1>18, <1>19, <1>20, <1>21
  DEF Next, Command, Service, ServiceIteration, Hardware, Port

\* Every variable of the framer, the handler, the PDC and the USB channel keeps
\* its type; in particular the framer's index never falls below zero when it
\* resyncs, and no pointer the handler programs is outside the ring.
THEOREM TypeCorrect == Spec => []TypeOK
<1>1. TypeOK /\ [Next]_vars => TypeOK'
  BY FlagsStep, CountsStep, PlacesStep DEF TypeOK
<1> QED BY TypeInit, <1>1, PTL DEF Spec
----------------------------------------------------------------------------
(* The ring *)

\* Starting the next buffer in the slot its ordinal names keeps the last NBUF
\* buffers where their ordinals name them.
LEMMA FilledStep ==
  ASSUME TypeOK, RingFilled, PdcStarts(SlotOf(started))
  PROVE  RingFilled'
<1>1. started \in Nat /\ slot \in [Slots -> Nat] /\ NBUF \in Nat
  BY RingAssumption DEF TypeOK, CountsOK, PlacesOK
<1>2. started' = started + 1
      /\ slot' = [slot EXCEPT ![SlotOf(started)] = started + 1]
  BY DEF PdcStarts
<1>3. SUFFICES ASSUME NEW i \in 0 .. started' - 1, started' <= i + NBUF
               PROVE  slot'[SlotOf(i)] = i + 1
  BY DEF RingFilled
<1>4. i \in Int /\ SlotOf(i) \in Slots /\ SlotOf(started) \in Slots
  BY <1>1, SlotRange
<1>5. CASE i = started
  BY <1>1, <1>2, <1>4, <1>5
<1>6. CASE i # started
  <2>1. i \in 0 .. started - 1 /\ i < started /\ started < i + NBUF
    BY <1>1, <1>2, <1>3, <1>6
  <2>2. SlotOf(i) # SlotOf(started)
    BY <1>1, <1>4, <2>1, SlotsDiffer
  <2>3. slot[SlotOf(i)] = i + 1
    BY <1>1, <2>1 DEF RingFilled
  <2> QED BY <1>1, <1>2, <1>4, <2>2, <2>3
<1> QED BY <1>5, <1>6

LEMMA ShapeOfStart == AcqStart => RingShape'
<1> SUFFICES ASSUME AcqStart PROVE RingShape'
  OBVIOUS
<1>1. NBUF \in Nat /\ NBUF >= 3
  BY RingAssumption
<1>2. SlotOf(0) = 0 /\ SlotOf(1) = 1
  BY <1>1 DEF SlotOf
<1>3. endrx' = FALSE /\ rpr' = 0 /\ rnpr' = 1 /\ started' = 1
      /\ acq_produced' = 0 /\ filling' = 0
      /\ slot' = [s \in Slots |-> IF s = 0 THEN 1 ELSE 0]
  BY DEF AcqStart
<1>4. RingFilled'
  BY <1>1, <1>2, <1>3 DEF RingFilled, Slots
<1> QED BY <1>2, <1>3, <1>4 DEF RingShape

LEMMA ShapeOfFull ==
  ASSUME TypeOK, RingShape, PdcBufferFull
  PROVE  RingShape'
<1>1. /\ started \in Nat /\ acq_produced \in Nat
      /\ filling' = filling /\ acq_produced' = acq_produced
      /\ rpr' = rnpr /\ rnpr' = NoSlot /\ endrx' = TRUE /\ rpr # NoSlot
  BY DEF PdcBufferFull, acqVars, TypeOK, CountsOK
<1>2. CASE rnpr = NoSlot
  <2>1. UNCHANGED << slot, started >>
    BY <1>2 DEF PdcBufferFull
  <2>2. SlotOf(acq_produced + 1) # NoSlot
    BY <1>1, SlotRange DEF Slots, NoSlot
  <2>3. started = acq_produced + 2
    BY <1>2, <2>2 DEF RingShape
  <2> QED BY <1>1, <1>2, <2>1, <2>3 DEF RingShape, RingFilled
<1>3. CASE rnpr # NoSlot
  <2>1. started = acq_produced + 1 /\ rnpr = SlotOf(acq_produced + 1)
    BY <1>3 DEF RingShape
  <2>2. PdcStarts(SlotOf(started))
    BY <1>3, <2>1 DEF PdcBufferFull
  <2>3. RingFilled'
    BY <2>2, FilledStep DEF RingShape
  <2>4. started' = acq_produced' + 2
    BY <1>1, <2>1, <2>2 DEF PdcStarts
  <2> QED BY <1>1, <2>1, <2>3, <2>4 DEF RingShape
<1> QED BY <1>2, <1>3

LEMMA ShapeOfHandler ==
  ASSUME TypeOK, RingShape, ADC_Handler
  PROVE  RingShape'
<1>1. /\ started \in Nat /\ acq_produced \in Nat
      /\ acq_produced' = acq_produced + 1 /\ endrx' = FALSE
      /\ filling' = NextSlot(filling)
  BY DEF ADC_Handler, TypeOK, CountsOK
<1>2. /\ started = acq_produced + 2 /\ rnpr = NoSlot
      /\ rpr \in {NoSlot, SlotOf(acq_produced + 1)}
  BY DEF RingShape, ADC_Handler, InterruptPending
<1>3. filling' = SlotOf(acq_produced')
  BY <1>1, NextSlotOf DEF RingShape
<1>4. ReloadSlot(filling') = SlotOf(acq_produced' + 1)
  BY <1>1, <1>3, NextSlotOf DEF ReloadSlot
<1>5. acq_produced' + 1 = started
  BY <1>1, <1>2
<1>6. CASE rpr = NoSlot
  <2>1. rpr' = SlotOf(started) /\ PdcStarts(SlotOf(started)) /\ rnpr' = rnpr
    BY <1>4, <1>5, <1>6 DEF ADC_Handler
  <2>2. RingFilled'
    BY <2>1, FilledStep DEF RingShape
  <2>3. started' = acq_produced' + 2
    BY <1>1, <1>5, <2>1 DEF PdcStarts
  <2> QED BY <1>1, <1>2, <1>3, <1>5, <2>1, <2>2, <2>3 DEF RingShape
<1>7. CASE rpr # NoSlot
  <2>1. rnpr' = SlotOf(acq_produced' + 1)
        /\ UNCHANGED << rpr, slot, started >>
    BY <1>4, <1>7 DEF ADC_Handler
  <2>2. RingFilled'
    BY <2>1 DEF RingShape, RingFilled
  <2>3. rpr' = SlotOf(acq_produced')
    BY <1>1, <1>2, <1>7, <2>1
  <2>4. started' = acq_produced' + 1
    BY <1>5, <2>1
  <2> QED BY <1>1, <1>3, <2>1, <2>2, <2>3, <2>4 DEF RingShape
<1> QED BY <1>6, <1>7

LEMMA ShapeKept ==
  ASSUME RingShape,
         UNCHANGED << filling, acq_produced, started, slot, rpr, rnpr, endrx >>
  PROVE  RingShape'
BY DEF RingShape, RingFilled
LEMMA ShapeStep ==
  ASSUME TypeOK, active \/ capturing => RingShape, [Next]_vars
  PROVE  active' \/ capturing' => RingShape'
<1> USE DEF acqVars, txVars, pdcVars, usbVars, sentVars, pastVars
<1>1. ASSUME NEW usb \in BOOLEAN, StreamCoreStart(usb) PROVE RingShape'
  BY <1>1, ShapeOfStart DEF StreamCoreStart
<1>2. ASSUME UNCHANGED << filling, acq_produced, started, slot, rpr, rnpr,
                          endrx >>,
             active' \/ capturing' => active \/ capturing
      PROVE  active' \/ capturing' => RingShape'
  BY <1>2, ShapeKept
<1>3. CASE StreamCoreStartRefused
  BY <1>2, <1>3 DEF StreamCoreStartRefused
<1>4. CASE StreamCoreStop
  BY <1>4 DEF StreamCoreStop
<1>5. CASE Service
  <2>1. UNCHANGED << active, capturing, filling, acq_produced, started, slot,
                     rpr, rnpr, endrx >>
    BY <1>5
    DEF Service, ServiceIteration, ServiceDiscard, ServiceEnter, ServiceWait,
        ServiceArm, ServiceFrameDone, ServiceSelect, ServiceHeader,
        ServicePayload, ServiceShortWrite, ServicePayloadDone, FrameSent
  <2> QED BY <1>2, <2>1
<1>6. CASE ADC_Handler
  BY <1>6, ShapeOfHandler DEF ADC_Handler, InterruptPending
<1>7. CASE PdcBufferFull
  BY <1>7, ShapeOfFull DEF PdcBufferFull
<1>8. CASE SampleLost
  BY <1>2, <1>8 DEF SampleLost
<1>9. CASE DmaChunkDone
  BY <1>2, <1>9 DEF DmaChunkDone
<1>10. CASE Port
  BY <1>2, <1>10 DEF Port, PortClose, Configure, PortOpen
<1>11. CASE UNCHANGED vars
  BY <1>2, <1>11 DEF vars
<1> QED
  BY <1>1, <1>3, <1>4, <1>5, <1>6, <1>7, <1>8, <1>9, <1>10, <1>11
  DEF Next, Command, Hardware

\* The rest of the ring invariant: the framer never passes the handler.
IndexInv ==
  /\ acq_consumed <= acq_produced
  /\ tx_phase # "IDLE" => acq_consumed < acq_produced
  /\ budget > 0 => active

LEMMA IndexStep ==
  ASSUME TypeOK, IndexInv, [Next]_vars
  PROVE  IndexInv'
<1>a. /\ acq_consumed \in Nat /\ acq_produced \in Nat
      /\ budget \in 0 .. BUDGET /\ NBUF \in Nat /\ NBUF >= 3
  BY RingAssumption DEF TypeOK, CountsOK
<1> USE <1>a
    DEF IndexInv, acqVars, txVars, pdcVars, usbVars, sentVars, pastVars,
        Continue, Return, BetweenCalls, InService
<1>1. ASSUME NEW usb \in BOOLEAN, StreamCoreStart(usb) PROVE IndexInv'
  BY <1>1 DEF StreamCoreStart, CanStart, InitFramer, AcqStart
<1>2. CASE StreamCoreStartRefused
  BY <1>2 DEF StreamCoreStartRefused, CanStart, InitFramer
<1>3. CASE StreamCoreStop
  BY <1>3 DEF StreamCoreStop
<1>4. CASE ServiceDiscard
  BY <1>4 DEF ServiceDiscard
<1>5. CASE ServiceEnter
  BY <1>5 DEF ServiceEnter
<1>6. CASE ServiceWait
  BY <1>6 DEF ServiceWait
<1>7. CASE ServiceArm
  BY <1>7 DEF ServiceArm
<1>8. CASE ServiceFrameDone
  BY <1>8 DEF ServiceFrameDone, FrameSent
<1>9. CASE ServiceSelect
  BY <1>9 DEF ServiceSelect, Available, Lapped, ResyncTo, Occupancy
<1>10. CASE ServiceHeader
  BY <1>10 DEF ServiceHeader
<1>11. CASE ServicePayload
  BY <1>11 DEF ServicePayload
<1>12. CASE ServiceShortWrite
  BY <1>12 DEF ServiceShortWrite
<1>13. CASE ServicePayloadDone
  BY <1>13 DEF ServicePayloadDone, FrameSent
<1>14. CASE ADC_Handler
  BY <1>14 DEF ADC_Handler
<1>15. CASE Hardware
  BY <1>15 DEF Hardware, PdcBufferFull, SampleLost, DmaChunkDone
<1>16. CASE Port
  BY <1>16 DEF Port, PortClose, Configure, PortOpen
<1>17. CASE UNCHANGED vars
  BY <1>17 DEF vars
<1> QED
  BY <1>1, <1>2, <1>3, <1>4, <1>5, <1>6, <1>7, <1>8, <1>9, <1>10, <1>11,
     <1>12, <1>13, <1>14, <1>15, <1>16, <1>17
  DEF Next, Command, Service, ServiceIteration

LEMMA RingInit == Init => RingInv
BY DEF Init, RingInv

LEMMA RingStep == TypeOK /\ RingInv /\ [Next]_vars => RingInv'
BY ShapeStep, IndexStep DEF RingInv, IndexInv

\* The handler's count, the framer's index and the PDC's registers agree for a
\* ring of any size, however late the interrupt and wherever the framer is.
THEOREM RingConsistent == Spec => []RingInv
<1>1. TypeOK /\ RingInv /\ [Next]_vars => TypeOK' /\ RingInv'
  BY RingStep, FlagsStep, CountsStep, PlacesStep DEF TypeOK
<1> QED BY TypeInit, RingInit, <1>1, PTL DEF Spec

----------------------------------------------------------------------------
(* What the framer selects *)

\* A slot at most NBUF - 2 behind the handler's count is whole and safe.
LEMMA SafeToSelect ==
  ASSUME TypeOK, RingShape,
         NEW c \in Nat, c < acq_produced, acq_produced <= c + NBUF - 2
  PROVE  slot[SlotOf(c)] = c + 1 /\ SlotOf(c) \notin {rpr, rnpr}
<1>1. acq_produced \in Nat /\ started \in Nat /\ NBUF \in Nat /\ NBUF >= 3
  BY RingAssumption DEF TypeOK, CountsOK
<1>2. started \in {acq_produced + 1, acq_produced + 2}
  BY DEF RingShape
<1>3. slot[SlotOf(c)] = c + 1
  <2>1. c \in 0 .. started - 1 /\ started <= c + NBUF
    BY <1>1, <1>2
  <2> QED BY <2>1 DEF RingShape, RingFilled
<1>4. SlotOf(c) # SlotOf(acq_produced)
  BY <1>1, SlotsDiffer
<1>5. SlotOf(c) # SlotOf(acq_produced + 1)
  BY <1>1, SlotsDiffer
<1>6. SlotOf(c) # NoSlot
  BY SlotRange DEF Slots, NoSlot
<1>7. /\ rpr \in {NoSlot, SlotOf(acq_produced), SlotOf(acq_produced + 1)}
      /\ rnpr \in {NoSlot, SlotOf(acq_produced + 1)}
  BY DEF RingShape
<1> QED BY <1>3, <1>4, <1>5, <1>6, <1>7

LEMMA SelectStep ==
  ASSUME TypeOK, RingInv, ServiceSelect
  PROVE  /\ tx_hdr'.ord = acq_consumed' + 1
         /\ SlotOf(acq_consumed') \notin {rpr, rnpr}
<1> DEFINE c == IF Lapped THEN ResyncTo ELSE acq_consumed
<1>1. /\ acq_consumed \in Nat /\ acq_produced \in Nat
      /\ NBUF \in Nat /\ NBUF >= 3
  BY RingAssumption DEF TypeOK, CountsOK
<1>2. RingShape /\ acq_consumed < acq_produced
  BY <1>1 DEF RingInv, ServiceSelect, InService, Available
<1>3. c \in Nat /\ c < acq_produced /\ acq_produced <= c + NBUF - 2
  BY <1>1, <1>2 DEF Lapped, ResyncTo, Occupancy
<1>4. slot[SlotOf(c)] = c + 1 /\ SlotOf(c) \notin {rpr, rnpr}
  BY <1>2, <1>3, SafeToSelect
<1>5. acq_consumed' = c /\ tx_hdr'.ord = slot[SlotOf(c)]
  BY DEF ServiceSelect
<1> QED BY <1>4, <1>5

LEMMA OnlySelect ==
  ASSUME [Next]_vars, tx_phase = "IDLE", tx_phase' # "IDLE"
  PROVE  ServiceSelect
<1> USE DEF txVars
<1>1. ASSUME NEW usb \in BOOLEAN, StreamCoreStart(usb) PROVE FALSE
  BY <1>1 DEF StreamCoreStart, InitFramer
<1>2. CASE StreamCoreStartRefused
  BY <1>2 DEF StreamCoreStartRefused, InitFramer
<1>3. CASE StreamCoreStop
  BY <1>3 DEF StreamCoreStop
<1>4. CASE ServiceDiscard
  BY <1>4 DEF ServiceDiscard
<1>5. CASE ServiceEnter
  BY <1>5 DEF ServiceEnter
<1>6. CASE ServiceIteration
  BY <1>6
  DEF ServiceIteration, ServiceWait, ServiceArm, ServiceFrameDone,
      ServiceHeader, ServicePayload, ServiceShortWrite, ServicePayloadDone
<1>7. CASE ADC_Handler
  BY <1>7 DEF ADC_Handler
<1>8. CASE Hardware
  BY <1>8 DEF Hardware, PdcBufferFull, SampleLost, DmaChunkDone
<1>9. CASE Port
  BY <1>9 DEF Port, PortClose, Configure, PortOpen
<1>10. CASE UNCHANGED vars
  BY <1>10 DEF vars
<1> QED
  BY <1>1, <1>2, <1>3, <1>4, <1>5, <1>6, <1>7, <1>8, <1>9, <1>10
  DEF Next, Command, Service

\* Whatever the rates, a frame is begun only on a slot that holds the whole
\* buffer its index names and that the PDC has neither started nor been given
\* (the resync rule of stream_core_service, for a ring of any size).
THEOREM SelectionIsWhole == Spec => SelectsWhole
<1>1. TypeOK /\ RingInv /\ [Next]_vars =>
        [tx_phase = "IDLE" /\ tx_phase' # "IDLE" =>
           /\ tx_hdr'.ord = acq_consumed' + 1
           /\ SlotOf(acq_consumed') \notin {rpr, rnpr}]_vars
  BY OnlySelect, SelectStep
<1> QED BY <1>1, TypeCorrect, RingConsistent, PTL DEF Spec, SelectsWhole

----------------------------------------------------------------------------
(* The slot lent to the USB channel *)

\* The channel's source, with what the framer must be doing for it to be held.
HeldInv ==
  /\ tx_phase = "DMA" => tx_dma
  /\ inSrc # NoSlot /\ ~stopFailed =>
       active /\ tx_phase = "DMA" /\ inSrc = Head

LEMMA HeldInit == Init => HeldInv
BY DEF Init, HeldInv

LEMMA HeldStep ==
  ASSUME ~StartWhileActive, RingInv, HeldInv, [Next]_vars
  PROVE  HeldInv'
<1>a. budget > 0 => active
  BY DEF RingInv
<1> USE DEF HeldInv, Head, acqVars, txVars, pdcVars, usbVars, sentVars,
            pastVars, StopInChannel, PortChange, InService
<1>1. ASSUME NEW usb \in BOOLEAN, StreamCoreStart(usb) PROVE HeldInv'
  BY <1>1 DEF StreamCoreStart, CanStart, InitFramer
<1>2. CASE StreamCoreStartRefused
  BY <1>2 DEF StreamCoreStartRefused, CanStart, InitFramer
<1>3. CASE StreamCoreStop
  BY <1>3 DEF StreamCoreStop
<1>4. CASE ServiceDiscard
  BY <1>4 DEF ServiceDiscard, MayDiscard, HeadIsLent
<1>5. CASE ServiceEnter
  BY <1>5 DEF ServiceEnter
<1>6. CASE ServiceWait
  BY <1>6 DEF ServiceWait
<1>7. CASE ServiceArm
  BY <1>7, <1>a DEF ServiceArm
<1>8. CASE ServiceFrameDone
  BY <1>8 DEF ServiceFrameDone, FrameSent
<1>9. CASE ServiceSelect
  BY <1>9 DEF ServiceSelect
<1>10. CASE ServiceHeader
  BY <1>10 DEF ServiceHeader
<1>11. CASE ServicePayload
  BY <1>11 DEF ServicePayload
<1>12. CASE ServiceShortWrite
  BY <1>12 DEF ServiceShortWrite
<1>13. CASE ServicePayloadDone
  BY <1>13 DEF ServicePayloadDone, FrameSent
<1>14. CASE ADC_Handler
  BY <1>14 DEF ADC_Handler
<1>15. CASE PdcBufferFull
  BY <1>15 DEF PdcBufferFull
<1>16. CASE SampleLost
  BY <1>16 DEF SampleLost
<1>17. CASE DmaChunkDone
  BY <1>17 DEF DmaChunkDone
<1>18. CASE PortClose
  BY <1>18 DEF PortClose
<1>19. CASE Configure
  BY <1>19 DEF Configure
<1>20. CASE PortOpen
  BY <1>20 DEF PortOpen
<1>21. CASE UNCHANGED vars
  BY <1>21 DEF vars
<1> QED
  BY <1>1, <1>2, <1>3, <1>4, <1>5, <1>6, <1>7, <1>8, <1>9, <1>10, <1>11,
     <1>12, <1>13, <1>14, <1>15, <1>16, <1>17, <1>18, <1>19, <1>20, <1>21
  DEF Next, Command, Service, ServiceIteration, Hardware, Port

\* As long as no start arrives during a capture, the slot the USB channel reads
\* is the head of the ring and its frame is the one in flight, through port
\* closings, resyncs, stops and reconfigurations.
THEOREM SourceIsHeld == ~StartWhileActive => (Spec => []SourceHeld)
<1> SUFFICES ASSUME ~StartWhileActive PROVE Spec => []SourceHeld
  OBVIOUS
<1>1. RingInv /\ HeldInv /\ [Next]_vars => HeldInv'
  BY HeldStep
<1>2. HeldInv => SourceHeld
  BY DEF HeldInv, SourceHeld
<1> QED BY HeldInit, RingConsistent, <1>1, <1>2, PTL DEF Spec

----------------------------------------------------------------------------
(* Frames the PDC overwrote *)

\* A frame that is being overwritten, and the interrupt that will count it.
Spoiling == IF spoiled /\ tx_phase # "IDLE" THEN 1 ELSE 0
Due      == IF endrx /\ Overtaking THEN 1 ELSE 0

\* Every frame overwritten so far is counted, or the pending interrupt counts it.
TornCounted == torn + Spoiling <= acq_ring_overflow + acq_rxbuff_overruns + Due
TornInv     == capturing => TornCounted

\* The PDC starts on the slot of the frame in flight only if it is about to lap the
\* reader.
LEMMA SpoilsWhenLapped ==
  ASSUME TypeOK, RingInv, RingShape, PdcBufferFull, spoiled' # spoiled
  PROVE  Overtaking'
<1>1. /\ acq_produced \in Nat /\ acq_consumed \in Nat /\ NBUF \in Nat /\ NBUF >= 3
      /\ UNCHANGED << acq_produced, acq_consumed >>
  BY RingAssumption DEF TypeOK, CountsOK, PdcBufferFull, acqVars
<1>2. rnpr # NoSlot /\ PdcStarts(rnpr)
  BY DEF PdcBufferFull
<1>3. rnpr = SlotOf(acq_produced + 1)
  BY <1>2 DEF RingShape
<1>4. rnpr = SlotOf(acq_consumed)
  <2>1. spoiled' = (spoiled \/ (Unread /\ rnpr = Head)) /\ spoiled \in BOOLEAN
    BY <1>2 DEF PdcStarts, TypeOK, FlagsOK
  <2>2. rnpr = Head
    BY <2>1
  <2> QED  BY <2>2 DEF Head
<1>5. acq_consumed <= acq_produced
  BY DEF RingInv
<1>6. ~(acq_produced + 1 < acq_consumed + NBUF)
  BY <1>1, <1>3, <1>4, <1>5, SlotsDiffer
<1>7. Occupancy' = acq_produced - acq_consumed
  BY <1>1 DEF Occupancy
<1> QED  BY <1>1, <1>6, <1>7 DEF Overtaking

\* No step lets a frame that was overwritten go uncounted.
LEMMA TornStep ==
  ASSUME TypeOK, RingInv, TornInv, [Next]_vars
  PROVE  TornInv'
<1>a. /\ torn \in Nat /\ acq_ring_overflow \in Nat /\ acq_rxbuff_overruns \in Nat
      /\ spoiled \in BOOLEAN
      /\ Spoiling \in 0 .. 1 /\ Due \in 0 .. 1
  BY DEF TypeOK, CountsOK, FlagsOK, Spoiling, Due
<1>b. PICK t, s, o, r, d : /\ t = torn' /\ s = Spoiling' /\ o = acq_ring_overflow'
                           /\ r = acq_rxbuff_overruns' /\ d = Due'
  OBVIOUS
<1>c. s \in 0 .. 1 /\ d \in 0 .. 1
  BY <1>b DEF Spoiling, Due
<1> SUFFICES ASSUME capturing' PROVE t + s <= o + r + d
  BY <1>b DEF TornInv, TornCounted
<1> USE DEF acqVars, txVars, pdcVars, usbVars, sentVars, pastVars
<1>1. ASSUME NEW usb \in BOOLEAN, StreamCoreStart(usb) PROVE t + s <= o + r + d
  <2>1. t = 0 /\ o = 0 /\ r = 0 /\ spoiled' = FALSE
    BY <1>1, <1>b DEF StreamCoreStart, AcqStart
  <2>2. s = 0
    BY <1>b, <2>1 DEF Spoiling
  <2> QED  BY <1>c, <2>1, <2>2
<1>2. CASE StreamCoreStartRefused \/ StreamCoreStop
  BY <1>2 DEF StreamCoreStartRefused, StreamCoreStop
<1>3. ASSUME capturing,
             t + s <= torn + Spoiling, o + r + d >= acq_ring_overflow + acq_rxbuff_overruns + Due,
             t \in Int, o \in Int, r \in Int
      PROVE  t + s <= o + r + d
  <2>1. torn + Spoiling <= acq_ring_overflow + acq_rxbuff_overruns + Due
    BY <1>3 DEF TornInv, TornCounted
  <2> QED  BY <1>a, <1>c, <1>3, <2>1
<1>4. ASSUME capturing, endrx' = endrx, UNCHANGED << acq_ring_overflow, acq_rxbuff_overruns >>,
             endrx => UNCHANGED << acq_produced, acq_consumed >>,
             \/ torn' = torn /\ (tx_phase' # "IDLE" /\ spoiled' => tx_phase # "IDLE" /\ spoiled)
             \/ /\ tx_phase # "IDLE" /\ tx_phase' = "IDLE"
                /\ torn' = torn + (IF spoiled THEN 1 ELSE 0)
      PROVE  t + s <= o + r + d
  <2>1. o = acq_ring_overflow /\ r = acq_rxbuff_overruns
    BY <1>b, <1>4
  <2>2. d = Due
    <3>1. CASE endrx
      BY <1>b, <1>4, <3>1 DEF Due, Overtaking, Occupancy
    <3>2. CASE ~endrx
      BY <1>b, <1>4, <3>2 DEF Due
    <3> QED  BY <3>1, <3>2
  <2>3. t \in Int /\ t + s <= torn + Spoiling
    <3>1. CASE torn' = torn /\ (tx_phase' # "IDLE" /\ spoiled' => tx_phase # "IDLE" /\ spoiled)
      <4>1. t = torn /\ s <= Spoiling
        BY <1>a, <1>b, <1>c, <3>1 DEF Spoiling
      <4> QED  BY <1>a, <1>c, <4>1
    <3>2. CASE /\ tx_phase # "IDLE" /\ tx_phase' = "IDLE"
               /\ torn' = torn + (IF spoiled THEN 1 ELSE 0)
      <4>1. s = 0 /\ t = torn + Spoiling
        BY <1>b, <3>2 DEF Spoiling
      <4> QED  BY <1>a, <4>1
    <3> QED  BY <1>4, <3>1, <3>2
  <2> QED  BY <1>a, <1>3, <1>4, <2>1, <2>2, <2>3
<1>5. CASE Service \/ Configure
  <2>1. capturing /\ ~endrx /\ endrx' = endrx
        /\ UNCHANGED << acq_ring_overflow, acq_rxbuff_overruns >>
    BY <1>5
    DEF Service, ServiceDiscard, ServiceEnter, Configure, BetweenCalls, InterruptPending,
        ServiceIteration, ServiceWait, ServiceArm, ServiceFrameDone, ServiceSelect,
        ServiceHeader, ServicePayload, ServiceShortWrite, ServicePayloadDone, FrameSent,
        InService
  <2>2. CASE ServiceFrameDone \/ ServicePayloadDone
    <3>1. /\ torn' = torn + (IF spoiled THEN 1 ELSE 0) /\ tx_phase' = "IDLE"
          /\ tx_phase # "IDLE"
      BY <2>2 DEF ServiceFrameDone, ServicePayloadDone, FrameSent
    <3> QED  BY <1>4, <2>1, <3>1
  <2>3. CASE ~(ServiceFrameDone \/ ServicePayloadDone)
    <3>1. torn' = torn /\ (tx_phase' # "IDLE" /\ spoiled' => tx_phase # "IDLE" /\ spoiled)
      <4>1. ASSUME UNCHANGED << torn, spoiled >>, tx_phase # "IDLE" \/ tx_phase' = "IDLE"
            PROVE  torn' = torn /\ (tx_phase' # "IDLE" /\ spoiled' => tx_phase # "IDLE" /\ spoiled)
        BY <4>1
      <4>2. CASE ServiceDiscard
        BY <4>1, <4>2 DEF ServiceDiscard
      <4>3. CASE ServiceEnter
        BY <4>1, <4>3 DEF ServiceEnter
      <4>4. CASE Configure
        <5>1. UNCHANGED << torn, spoiled >> /\ (tx_phase' = tx_phase \/ tx_phase' = "IDLE")
          BY <4>4 DEF Configure
        <5> QED  BY <4>1, <5>1
      <4>5. CASE ServiceWait \/ ServiceArm \/ ServiceShortWrite
        <5>1. UNCHANGED << torn, spoiled, tx_phase >>
          BY <4>5 DEF ServiceWait, ServiceArm, ServiceShortWrite
        <5> QED  BY <4>1, <5>1
      <4>6. CASE ServiceSelect
        BY <4>6 DEF ServiceSelect
      <4>7. CASE ServiceHeader \/ ServicePayload
        BY <4>1, <4>7 DEF ServiceHeader, ServicePayload
      <4> QED  BY <1>5, <2>3, <4>2, <4>3, <4>4, <4>5, <4>6, <4>7 DEF Service, ServiceIteration
    <3> QED  BY <1>4, <2>1, <3>1
  <2> QED  BY <2>2, <2>3
<1>6. CASE ADC_Handler
  <2>1. PICK n \in 0 .. 1 : n = IF rpr = NoSlot THEN 1 ELSE 0
    OBVIOUS
  <2>2. /\ capturing /\ endrx /\ endrx' = FALSE /\ torn' = torn /\ tx_phase' = tx_phase
        /\ acq_rxbuff_overruns' = acq_rxbuff_overruns + n
        /\ acq_ring_overflow' = acq_ring_overflow + (IF Overtaking THEN 1 ELSE 0)
        /\ (rpr # NoSlot => spoiled' = spoiled)
    BY <1>6, <2>1 DEF ADC_Handler, InterruptPending
  <2>3. t = torn /\ r = acq_rxbuff_overruns + n /\ o = acq_ring_overflow + Due /\ d = 0
    BY <1>b, <2>2 DEF Due
  <2>4. s <= Spoiling + n
    <3>1. CASE rpr = NoSlot
      BY <1>a, <1>c, <2>1, <3>1
    <3>2. CASE rpr # NoSlot
      <4>1. s = Spoiling
        BY <1>b, <2>2, <3>2 DEF Spoiling
      <4> QED  BY <1>a, <2>1, <4>1
    <3> QED  BY <3>1, <3>2
  <2>5. torn + Spoiling <= acq_ring_overflow + acq_rxbuff_overruns + Due
    BY <2>2 DEF TornInv, TornCounted
  <2> QED  BY <1>a, <1>c, <2>1, <2>3, <2>4, <2>5
<1>7. CASE PdcBufferFull
  <2>1. /\ capturing /\ endrx' = TRUE /\ rpr # NoSlot
        /\ UNCHANGED << torn, acq_ring_overflow, acq_rxbuff_overruns, acq_produced,
                        acq_consumed, tx_phase >>
    BY <1>7 DEF PdcBufferFull
  <2>2. RingShape /\ t = torn /\ o = acq_ring_overflow /\ r = acq_rxbuff_overruns
    BY <1>b, <2>1 DEF RingInv
  <2>3. CASE spoiled' = spoiled
    <3>1. s = Spoiling
      BY <1>b, <2>1, <2>3 DEF Spoiling
    <3>2. d >= Due
      <4>1. Overtaking' = Overtaking
        BY <2>1 DEF Overtaking, Occupancy
      <4>2. CASE Overtaking
        BY <1>a, <1>b, <2>1, <4>1, <4>2 DEF Due
      <4>3. CASE ~Overtaking
        BY <1>c, <4>3 DEF Due
      <4> QED  BY <4>2, <4>3
    <3> QED  BY <1>a, <1>c, <1>3, <2>1, <2>2, <3>1, <3>2
  <2>4. CASE spoiled' # spoiled
    <3>1. d = 1
      BY <1>7, <1>b, <2>1, <2>2, <2>4, SpoilsWhenLapped DEF Due
    <3>2. ~endrx /\ ~spoiled
      BY <1>7, <1>a, <2>2, <2>4 DEF PdcBufferFull, RingShape, PdcStarts
    <3>3. Due = 0 /\ Spoiling = 0
      BY <3>2 DEF Due, Spoiling
    <3>4. torn + Spoiling <= acq_ring_overflow + acq_rxbuff_overruns + Due
      BY <2>1 DEF TornInv, TornCounted
    <3> QED  BY <1>a, <1>c, <2>2, <3>1, <3>3, <3>4
  <2> QED  BY <2>3, <2>4
<1>8. CASE SampleLost \/ DmaChunkDone \/ PortClose \/ PortOpen \/ UNCHANGED vars
  <2>1. UNCHANGED << capturing, torn, acq_ring_overflow, acq_rxbuff_overruns, endrx, spoiled,
                     tx_phase, acq_produced, acq_consumed >>
    BY <1>8 DEF SampleLost, DmaChunkDone, PortClose, PortOpen, vars
  <2> QED  BY <1>4, <2>1
<1> QED
  BY <1>1, <1>2, <1>5, <1>6, <1>7, <1>8 DEF Next, Command, Hardware, Port

\* However late the interrupt and however slow the host: a frame sent out of a slot
\* that the PDC was rewriting is in the overrun count (a frame can be overwritten
\* only once the handler's test for that is due to succeed).
THEOREM TornFramesAreCounted == Spec => []TornIsCounted
<1>1. Init => TornInv
  BY DEF Init, TornInv
<1>2. TypeOK /\ RingInv /\ TornInv /\ [Next]_vars => TornInv'
  BY TornStep
<1>3. TypeOK /\ TornInv => TornIsCounted
  <2> SUFFICES ASSUME TypeOK, TornInv, capturing, ~endrx
               PROVE  torn <= acq_ring_overflow + acq_rxbuff_overruns
    BY DEF TornIsCounted
  <2>1. Due = 0 /\ Spoiling \in {0, 1}
    BY DEF Due, Spoiling
  <2> QED  BY <2>1 DEF TornInv, TornCounted, TypeOK, CountsOK
<1> QED  BY <1>1, <1>2, <1>3, TypeCorrect, RingConsistent, PTL DEF Spec

----------------------------------------------------------------------------
(* Breaks in the signal *)

\* Frames sent since the last one that carried the flag, counting the one in flight.
Since == IF tx_phase # "IDLE" /\ tx_hdr.flagged THEN -1 ELSE quiet

\* Buffer k will be sent after another one of this port session.
Ahead(k) == k > acq_consumed /\ (last = 0 => k > acq_consumed + 1)

Unselected(k) == k > acq_consumed /\ (tx_phase # "IDLE" => k > acq_consumed + 1)

\* A loss at buffer k that is counted, and makes the next frame chosen carry the flag.
Counted(k) ==
  /\ Unselected(k) /\ k <= acq_produced + 1
  /\ Overruns(resync_count) > pending_overrun

\* One that the next interrupt counts, before k can be chosen: by ADC_ISR.GOVRE, or
\* because the PDC has run dry or is one buffer ahead and will.
ToBeCounted(k) ==
  \/ govreFlag /\ k > acq_produced /\ k <= acq_produced + 2
  \/ /\ k > acq_produced /\ started = acq_produced + 2 /\ rnpr = NoSlot
     /\ IF endrx THEN rpr = NoSlot /\ k <= acq_produced + 3 ELSE k <= acq_produced + 2

\* One that a frame at most NBUF - 2 ahead has told the host of.
Told(k) == k <= acq_produced + 1 /\ Since + (k - acq_consumed) <= NBUF - 2

LossInv == \A k \in lossy : Ahead(k) => Counted(k) \/ ToBeCounted(k) \/ Told(k)

\* The frames sent follow one another, or the header says that they do not.
OrderInv ==
  /\ tx_phase # "IDLE" => /\ tx_hdr.ord = acq_consumed + 1
                          /\ last # 0 /\ acq_consumed # last => tx_hdr.flagged
  /\ tx_phase = "IDLE" /\ last # 0 => acq_consumed = last

FlagInv ==
  /\ pending_overrun <= Overruns(resync_count)
  /\ FlagNotMissing
  /\ active => OrderInv /\ LossInv

\* A loss is of the buffer being filled, or of the next one if the PDC has run dry.
LEMMA LossIsAhead ==
  ASSUME TypeOK, RingShape, SampleLost
  PROVE  \A k \in lossy' : k \in lossy \/ ToBeCounted(k)'
<1>1. /\ acq_produced \in Nat /\ started \in Nat /\ NBUF \in Nat /\ NBUF >= 3
      /\ UNCHANGED << acq_produced, started, rpr, rnpr, endrx >> /\ govreFlag'
  BY RingAssumption DEF TypeOK, CountsOK, SampleLost, acqVars
<1>2. PICK n : /\ n = IF rpr = NoSlot THEN started + 1 ELSE slot[rpr]
               /\ lossy' = lossy \cup {n}
  BY DEF SampleLost
<1>3. started = acq_produced + 1 \/ started = acq_produced + 2
  BY DEF RingShape
<1>4. SlotOf(acq_produced) # NoSlot /\ SlotOf(acq_produced + 1) # NoSlot
  BY <1>1, SlotRange DEF Slots, NoSlot
<1>5. CASE rpr = NoSlot
  <2>1. endrx /\ started = acq_produced + 2 /\ rnpr = NoSlot /\ n = acq_produced + 3
    BY <1>1, <1>2, <1>4, <1>5 DEF RingShape
  <2>2. ToBeCounted(n)'
    BY <1>1, <1>5, <2>1 DEF ToBeCounted
  <2> QED  BY <1>2, <2>2
<1>6. CASE rpr # NoSlot
  <2>1. rpr = SlotOf(started - 1)
    <3>1. \/ started = acq_produced + 1 /\ rpr = SlotOf(acq_produced)
          \/ started = acq_produced + 2 /\ rpr = SlotOf(acq_produced + 1)
      BY <1>6 DEF RingShape
    <3>2. (acq_produced + 1) - 1 = acq_produced /\ (acq_produced + 2) - 1 = acq_produced + 1
      BY <1>1
    <3> QED  BY <3>1, <3>2
  <2>2. slot[SlotOf(started - 1)] = started
    <3>1. started - 1 \in 0 .. started - 1 /\ started <= (started - 1) + NBUF
          /\ (started - 1) + 1 = started
      BY <1>1, <1>3
    <3> QED  BY <3>1 DEF RingShape, RingFilled
  <2>3. n = started
    BY <1>2, <1>6, <2>1, <2>2
  <2>4. n > acq_produced /\ n <= acq_produced + 2
    BY <1>1, <1>3, <2>3
  <2>5. ToBeCounted(n)'
    BY <1>1, <2>4 DEF ToBeCounted
  <2> QED  BY <1>2, <2>5
<1> QED  BY <1>5, <1>6

\* The interrupt counts what it was to count.
LEMMA LossIsCounted ==
  ASSUME TypeOK, RingShape, IndexInv, pending_overrun <= Overruns(resync_count), ADC_Handler,
         NEW k \in Nat, ToBeCounted(k)
  PROVE  Counted(k)' \/ ToBeCounted(k)'
<1>1. /\ acq_produced \in Nat /\ acq_consumed \in Nat /\ started \in Nat
      /\ acq_rxbuff_overruns \in Nat /\ acq_govre \in Nat /\ acq_ring_overflow \in Nat
      /\ resync_count \in Nat /\ pending_overrun \in Nat
      /\ acq_produced' = acq_produced + 1 /\ endrx /\ endrx' = FALSE
      /\ UNCHANGED << acq_consumed, tx_phase, pending_overrun, resync_count >>
  BY DEF TypeOK, CountsOK, ADC_Handler, InterruptPending, txVars
<1>2. started = acq_produced + 2 /\ rnpr = NoSlot
  BY <1>1 DEF RingShape
<1>3. Unselected(k)'
  <2>1. k > acq_produced
    BY DEF ToBeCounted
  <2>2. acq_consumed <= acq_produced /\ (tx_phase # "IDLE" => acq_consumed < acq_produced)
    BY DEF IndexInv
  <2>3. k > acq_consumed /\ (tx_phase # "IDLE" => k > acq_consumed + 1)
    BY <1>1, <2>1, <2>2
  <2> QED  BY <1>1, <2>3 DEF Unselected
<1>4. PICK a, b, e \in Nat :
        /\ acq_govre' = acq_govre + a /\ a = IF govreFlag THEN 1 ELSE 0
        /\ acq_rxbuff_overruns' = acq_rxbuff_overruns + b /\ b = IF rpr = NoSlot THEN 1 ELSE 0
        /\ acq_ring_overflow' = acq_ring_overflow + e
  BY DEF ADC_Handler
<1>5. CASE govreFlag /\ k <= acq_produced + 2
  <2>1. Overruns(resync_count)' > pending_overrun'
    BY <1>1, <1>4, <1>5 DEF Overruns
  <2>2. k <= acq_produced' + 1
    BY <1>1, <1>5
  <2> QED  BY <1>3, <2>1, <2>2 DEF Counted
<1>6. CASE rpr = NoSlot /\ k <= acq_produced + 3
  <2>1. Overruns(resync_count)' > pending_overrun'
    BY <1>1, <1>4, <1>6 DEF Overruns
  <2>2. CASE k <= acq_produced + 2
    <3>1. k <= acq_produced' + 1
      BY <1>1, <2>2
    <3> QED  BY <1>3, <2>1, <3>1 DEF Counted
  <2>3. CASE k = acq_produced + 3
    <3>1. started' = started + 1 /\ rnpr' = rnpr
      BY <1>6 DEF ADC_Handler, PdcStarts
    <3>2. started' = acq_produced' + 2 /\ rnpr' = NoSlot /\ k = acq_produced' + 2
          /\ k > acq_produced'
      BY <1>1, <1>2, <2>3, <3>1
    <3> QED  BY <1>1, <3>2 DEF ToBeCounted
  <2> QED  BY <1>1, <1>6, <2>2, <2>3
<1> QED  BY <1>1, <1>5, <1>6 DEF ToBeCounted

\* What FlagInv speaks of is left alone by most steps.
LEMMA FlagKept ==
  ASSUME FlagInv, active' => active, (tx_phase' = "IDLE") <=> (tx_phase = "IDLE"),
         UNCHANGED << acq_consumed, acq_produced, acq_rxbuff_overruns, acq_govre,
                      acq_ring_overflow, pending_overrun, resync_count, tx_hdr, quiet, joined,
                      last, lossy, govreFlag, started, rnpr, rpr, endrx >>
  PROVE  FlagInv'
<1>1. Overruns(resync_count)' = Overruns(resync_count) /\ Since' = Since
  BY DEF Overruns, Since
<1>2. ASSUME NEW k
      PROVE  /\ Ahead(k)' => Ahead(k)
             /\ Counted(k) => Counted(k)'
             /\ ToBeCounted(k) => ToBeCounted(k)'
             /\ Told(k) => Told(k)'
  BY <1>1 DEF Ahead, Counted, Unselected, ToBeCounted, Told
<1>3. LossInv => LossInv'
  BY <1>2 DEF LossInv
<1>4. OrderInv => OrderInv'
  BY DEF OrderInv
<1> QED  BY <1>1, <1>3, <1>4 DEF FlagInv, FlagNotMissing

\* A closed port, or a configuration that clears the channel, drops what was counted:
\* the next frame is the first of a new session.
LEMMA DiscardKeeps ==
  ASSUME TypeOK, IndexInv, FlagInv, acq_consumed' = acq_produced, tx_phase' = "IDLE",
         last' = 0,
         UNCHANGED << active, acq_produced, acq_rxbuff_overruns, acq_govre, acq_ring_overflow,
                      pending_overrun, resync_count, quiet, joined, lossy, govreFlag, started,
                      rnpr, rpr, endrx >>
  PROVE  FlagInv'
<1>1. acq_produced \in Nat /\ acq_consumed \in Nat /\ lossy \subseteq Nat
      /\ acq_consumed <= acq_produced
  BY DEF TypeOK, CountsOK, IndexInv
<1>2. Overruns(resync_count)' = Overruns(resync_count)
  BY DEF Overruns
<1>3. OrderInv'
  BY DEF OrderInv
<1>4. ASSUME LossInv PROVE LossInv'
  <2> SUFFICES ASSUME NEW k \in lossy, Ahead(k)' PROVE ToBeCounted(k)'
    BY DEF LossInv
  <2>1. k \in Nat /\ k > acq_produced + 1
    BY <1>1 DEF Ahead
  <2>2. ToBeCounted(k)
    BY <1>1, <1>4, <2>1 DEF LossInv, Ahead, Counted, Told
  <2> QED  BY <2>2 DEF ToBeCounted
<1> QED  BY <1>2, <1>3, <1>4 DEF FlagInv, FlagNotMissing

\* The frame chosen carries the flag if anything has been counted since the last.
LEMMA SelectKeeps ==
  ASSUME TypeOK, RingInv, FlagInv, ServiceSelect
  PROVE  FlagInv'
<1>1. /\ acq_consumed \in Nat /\ acq_produced \in Nat /\ NBUF \in Nat /\ NBUF >= 3
      /\ lossy \subseteq Nat /\ quiet \in Nat /\ resync_count \in Nat /\ pending_overrun \in Nat
      /\ acq_rxbuff_overruns \in Nat /\ acq_govre \in Nat /\ acq_ring_overflow \in Nat
  BY RingAssumption DEF TypeOK, CountsOK
<1>2. /\ UNCHANGED << active, acq_produced, acq_rxbuff_overruns, acq_govre, acq_ring_overflow,
                      quiet, joined, last, lossy, govreFlag, started, rnpr, rpr, endrx >>
      /\ tx_phase = "IDLE" /\ tx_phase' # "IDLE" /\ budget > 0 /\ acq_produced # acq_consumed
      /\ pending_overrun' = Overruns(resync_count')
      /\ tx_hdr'.flagged <=> pending_overrun' # pending_overrun
  BY DEF ServiceSelect, sentVars, pdcVars, InService, Available
<1>3. active /\ OrderInv /\ LossInv /\ pending_overrun <= Overruns(resync_count)
      /\ acq_consumed <= acq_produced
  BY <1>2 DEF RingInv, FlagInv
<1>4. /\ acq_consumed' \in Nat /\ acq_consumed' >= acq_consumed /\ acq_consumed' < acq_produced
      /\ acq_produced <= acq_consumed' + NBUF - 2
      /\ resync_count' \in Nat /\ resync_count' >= resync_count
      /\ acq_consumed' # acq_consumed => resync_count' = resync_count + 1
  BY <1>1, <1>2, <1>3 DEF ServiceSelect, Lapped, ResyncTo, Occupancy
<1>c. PICK c, r, p :
        /\ c \in Nat /\ r \in Nat
        /\ c = acq_consumed' /\ r = resync_count' /\ p = pending_overrun'
        /\ c >= acq_consumed /\ c < acq_produced /\ acq_produced <= c + NBUF - 2
        /\ r >= resync_count /\ (c # acq_consumed => r = resync_count + 1)
  BY <1>4
<1>d. /\ c \in Nat /\ r \in Nat
      /\ c >= acq_consumed /\ c < acq_produced /\ acq_produced <= c + NBUF - 2
      /\ r >= resync_count /\ (c # acq_consumed => r = resync_count + 1)
  BY <1>c
<1>5. /\ Overruns(r) >= Overruns(resync_count)
      /\ c # acq_consumed => Overruns(r) > Overruns(resync_count)
      /\ Overruns(resync_count) \in Nat /\ Overruns(r) \in Nat /\ p = Overruns(r)
  <2>1. p = Overruns(r)
    BY <1>2, <1>c
  <2>2. /\ Overruns(r) >= Overruns(resync_count)
        /\ c # acq_consumed => Overruns(r) > Overruns(resync_count)
        /\ Overruns(resync_count) \in Nat /\ Overruns(r) \in Nat
    BY <1>1, <1>d DEF Overruns
  <2> QED  BY <2>1, <2>2
<1>7. /\ c # acq_consumed => tx_hdr'.flagged
      /\ Overruns(resync_count) > pending_overrun => tx_hdr'.flagged
  <2>1. tx_hdr'.flagged <=> p # pending_overrun
    BY <1>2, <1>c
  <2>2. /\ c # acq_consumed => p # pending_overrun
        /\ Overruns(resync_count) > pending_overrun => p # pending_overrun
    BY <1>1, <1>3, <1>5
  <2> QED  BY <2>1, <2>2
<1>8. OrderInv'
  <2>1. tx_hdr'.ord = acq_consumed' + 1
    BY SelectStep
  <2>2. last # 0 /\ acq_consumed' # last => tx_hdr'.flagged
    BY <1>2, <1>3, <1>c, <1>7 DEF OrderInv
  <2> QED  BY <1>2, <2>1, <2>2 DEF OrderInv
<1>9. LossInv'
  <2> SUFFICES ASSUME NEW k \in lossy, Ahead(k)' PROVE ToBeCounted(k)' \/ Told(k)'
    BY <1>2 DEF LossInv
  <2>1. k \in Nat /\ k > c /\ Ahead(k)
    <3>1. k \in Nat /\ k > c /\ (last = 0 => k > c + 1)
      BY <1>1, <1>2, <1>c DEF Ahead
    <3>2. k > acq_consumed /\ (last = 0 => k > acq_consumed + 1)
      BY <1>1, <1>d, <3>1
    <3> QED  BY <3>1, <3>2 DEF Ahead
  <2>2. CASE ToBeCounted(k)
    BY <1>2, <2>2 DEF ToBeCounted
  <2>3. CASE Counted(k)
    <3>1. Since' = -1 /\ k <= acq_produced + 1
      BY <1>2, <1>7, <2>3 DEF Since, Counted
    <3>2. -1 + (k - c) <= NBUF - 2
      BY <1>1, <1>d, <2>1, <3>1
    <3> QED  BY <1>2, <1>c, <3>1, <3>2 DEF Told
  <2>4. CASE Told(k)
    <3>1. k <= acq_produced + 1 /\ quiet + (k - acq_consumed) <= NBUF - 2
      BY <1>2, <2>4 DEF Told, Since
    <3>2. PICK s : s = Since'
      OBVIOUS
    <3>3. s = -1 \/ s = quiet
      BY <1>2, <3>2 DEF Since
    <3>4. s + (k - c) <= NBUF - 2
      <4>1. c \in Int /\ c >= acq_consumed /\ s \in Int /\ s <= quiet
        BY <1>1, <1>d, <3>3
      <4> QED  BY <1>1, <2>1, <3>1, <4>1
    <3> QED  BY <1>2, <1>c, <3>1, <3>2, <3>4 DEF Told
  <2> QED  BY <1>3, <2>1, <2>2, <2>3, <2>4 DEF LossInv
<1>10. pending_overrun' <= Overruns(resync_count)'
  <2>1. Overruns(resync_count)' = pending_overrun'
    BY <1>2 DEF Overruns
  <2>2. p <= p
    BY <1>5
  <2> QED  BY <1>c, <2>1, <2>2
<1> QED  BY <1>2, <1>8, <1>9, <1>10 DEF FlagInv, FlagNotMissing

\* A frame sent that does not join on to the one before it follows its flag closely.
LEMMA SentKeeps ==
  ASSUME TypeOK, RingInv, FlagInv, FrameSent, active, tx_phase # "IDLE"
  PROVE  FlagInv'
<1>1. /\ acq_consumed \in Nat /\ acq_produced \in Nat /\ NBUF \in Nat /\ NBUF >= 3
      /\ lossy \subseteq Nat /\ quiet \in Nat /\ quiet <= NBUF /\ tx_hdr.flagged \in BOOLEAN
  BY RingAssumption DEF TypeOK, CountsOK, PlacesOK
<1>2. /\ UNCHANGED << active, acq_produced, acq_rxbuff_overruns, acq_govre, acq_ring_overflow,
                      pending_overrun, resync_count, lossy, govreFlag, started, rnpr, rpr,
                      endrx >>
      /\ acq_consumed' = acq_consumed + 1 /\ tx_phase' = "IDLE" /\ last' = tx_hdr.ord
      /\ joined' = Joins(tx_hdr.ord)
      /\ quiet' = IF tx_hdr.flagged THEN 0 ELSE IF quiet < NBUF THEN quiet + 1 ELSE quiet
  BY DEF FrameSent, pdcVars, pastVars
<1>3. OrderInv /\ LossInv /\ pending_overrun <= Overruns(resync_count)
      /\ acq_consumed < acq_produced
  BY DEF RingInv, FlagInv
<1>4. tx_hdr.ord = acq_consumed + 1 /\ (last # 0 /\ acq_consumed # last => tx_hdr.flagged)
  BY <1>3 DEF OrderInv
<1>5. ASSUME NEW k \in Nat, Told(k), k > acq_consumed
      PROVE  quiet' \in Nat /\ quiet' + (k - (acq_consumed + 1)) <= NBUF - 2
  <2>1. CASE tx_hdr.flagged
    <3>1. Since = -1 /\ quiet' = 0
      BY <1>2, <2>1 DEF Since
    <3> QED  BY <1>1, <1>5, <3>1 DEF Told
  <2>2. CASE ~tx_hdr.flagged
    <3>1. Since = quiet
      BY <2>2 DEF Since
    <3>2. quiet + (k - acq_consumed) <= NBUF - 2
      BY <1>5, <3>1 DEF Told
    <3>3. quiet < NBUF
      BY <1>1, <1>5, <3>2
    <3>4. quiet' = quiet + 1
      BY <1>2, <2>2, <3>3
    <3>5. quiet + 1 \in Nat /\ (quiet + 1) + (k - (acq_consumed + 1)) <= NBUF - 2
      BY <1>1, <1>5, <3>2
    <3> QED  BY <3>4, <3>5
  <2> QED  BY <2>1, <2>2
<1>6. FlagNotMissing'
  <2> SUFFICES ASSUME ~Joins(acq_consumed + 1) PROVE quiet' <= NBUF - 2
    BY <1>2, <1>4 DEF FlagNotMissing
  <2>1. last # 0 /\ (acq_consumed + 1 # last + 1 \/ acq_consumed + 1 \in lossy)
    BY DEF Joins
  <2>2. CASE tx_hdr.flagged
    <3>1. quiet' = 0
      BY <1>2, <2>2
    <3> QED  BY <1>1, <3>1
  <2>3. CASE ~tx_hdr.flagged
    <3>1. acq_consumed + 1 \in lossy /\ acq_consumed + 1 > acq_consumed
      BY <1>1, <1>4, <2>1, <2>3
    <3>2. Ahead(acq_consumed + 1)
      BY <2>1, <3>1 DEF Ahead
    <3>3. ~Counted(acq_consumed + 1) /\ ~ToBeCounted(acq_consumed + 1)
      BY <1>1, <1>3 DEF Counted, Unselected, ToBeCounted
    <3>4. Told(acq_consumed + 1)
      BY <1>3, <3>1, <3>2, <3>3 DEF LossInv
    <3>5. PICK k \in Nat : k = acq_consumed + 1 /\ k - (acq_consumed + 1) = 0
      BY <1>1
    <3>6. PICK q \in Nat : q = quiet' /\ q + (k - (acq_consumed + 1)) <= NBUF - 2
      BY <1>5, <3>1, <3>4, <3>5
    <3>7. q + (k - (acq_consumed + 1)) <= NBUF - 2
      BY <3>6
    <3>8. q <= NBUF - 2
      BY <1>1, <3>5, <3>7
    <3> QED  BY <3>6, <3>8
  <2> QED  BY <2>2, <2>3
<1>7. OrderInv'
  BY <1>2, <1>4 DEF OrderInv
<1>8. LossInv'
  <2> SUFFICES ASSUME NEW k \in lossy, Ahead(k)'
               PROVE  Counted(k)' \/ ToBeCounted(k)' \/ Told(k)'
    BY <1>2 DEF LossInv
  <2>1. k \in Nat /\ k > acq_consumed + 1 /\ Ahead(k)
    <3>1. k \in Nat /\ k > acq_consumed + 1
      BY <1>1, <1>2 DEF Ahead
    <3> QED  BY <1>1, <3>1 DEF Ahead
  <2>2. CASE ToBeCounted(k)
    BY <1>2, <2>2 DEF ToBeCounted
  <2>3. CASE Counted(k)
    <3>1. Overruns(resync_count)' = Overruns(resync_count)
      BY <1>2 DEF Overruns
    <3> QED  BY <1>2, <2>1, <2>3, <3>1 DEF Counted, Unselected
  <2>4. CASE Told(k)
    <3>1. quiet' + (k - (acq_consumed + 1)) <= NBUF - 2
      BY <1>1, <1>5, <2>1, <2>4
    <3>2. Since' = quiet'
      BY <1>2 DEF Since
    <3> QED  BY <1>2, <2>4, <3>1, <3>2 DEF Told
  <2> QED  BY <1>3, <2>1, <2>2, <2>3, <2>4 DEF LossInv
<1>9. Overruns(resync_count)' = Overruns(resync_count)
  BY <1>2 DEF Overruns
<1> QED  BY <1>2, <1>3, <1>6, <1>7, <1>8, <1>9 DEF FlagInv

\* Every step leaves each loss told, counted, or about to be counted.
LEMMA FlagStep ==
  ASSUME ~StartWhileActive, TypeOK, RingInv, FlagInv, [Next]_vars
  PROVE  FlagInv'
<1>a. IndexInv /\ lossy \subseteq Nat /\ resync_count \in Nat
      /\ acq_rxbuff_overruns \in Nat /\ acq_govre \in Nat /\ acq_ring_overflow \in Nat
      /\ acq_produced \in Nat /\ acq_consumed \in Nat /\ pending_overrun \in Nat
  BY DEF RingInv, IndexInv, TypeOK, CountsOK
<1>b. FlagNotMissing /\ pending_overrun <= Overruns(resync_count)
      /\ (active => OrderInv /\ LossInv)
  BY DEF FlagInv
<1> USE DEF acqVars, txVars, pdcVars, usbVars, sentVars, pastVars
<1>1. ASSUME NEW usb \in BOOLEAN, StreamCoreStart(usb) PROVE FlagInv'
  <2>1. /\ acq_rxbuff_overruns' = 0 /\ acq_govre' = 0 /\ acq_ring_overflow' = 0
        /\ pending_overrun' = 0 /\ resync_count' = 0 /\ lossy' = {} /\ last' = 0 /\ joined'
        /\ tx_phase' = "IDLE"
    BY <1>1 DEF StreamCoreStart, InitFramer, AcqStart
  <2>2. Overruns(resync_count)' = 0
    BY <2>1 DEF Overruns
  <2> QED  BY <2>1, <2>2 DEF FlagInv, FlagNotMissing, OrderInv, LossInv
<1>2. CASE StreamCoreStartRefused
  <2>1. /\ UNCHANGED << acq_rxbuff_overruns, acq_govre, acq_ring_overflow, active, joined, quiet >>
        /\ pending_overrun' = 0 /\ resync_count' = 0 /\ ~active
    BY <1>2 DEF StreamCoreStartRefused, InitFramer, CanStart
  <2>2. Overruns(resync_count)' = acq_rxbuff_overruns + acq_govre + acq_ring_overflow + 0
    BY <2>1 DEF Overruns
  <2>3. 0 <= acq_rxbuff_overruns + acq_govre + acq_ring_overflow + 0
    BY <1>a
  <2>4. pending_overrun' <= Overruns(resync_count)'
    BY <2>1, <2>2, <2>3
  <2> QED  BY <1>b, <2>1, <2>4 DEF FlagInv, FlagNotMissing
<1>3. CASE StreamCoreStop
  <2>1. /\ UNCHANGED << acq_rxbuff_overruns, acq_govre, acq_ring_overflow, joined, quiet,
                        pending_overrun, resync_count >>
        /\ active' = FALSE
    BY <1>3 DEF StreamCoreStop
  <2>2. Overruns(resync_count)' = Overruns(resync_count)
    BY <2>1 DEF Overruns
  <2> QED  BY <1>b, <2>1, <2>2 DEF FlagInv, FlagNotMissing
<1>4. CASE ServiceDiscard
  BY <1>4, <1>a, DiscardKeeps DEF ServiceDiscard
<1>5. CASE Configure
  <2>1. CASE active /\ tx_dma /\ inSrc' = NoSlot
    BY <1>5, <1>a, <2>1, DiscardKeeps DEF Configure
  <2>2. CASE ~(active /\ tx_dma /\ inSrc' = NoSlot)
    BY <1>5, <2>2, FlagKept DEF Configure
  <2> QED  BY <2>1, <2>2
<1>6. CASE ServiceSelect
  BY <1>6, SelectKeeps
<1>7. CASE ServiceFrameDone \/ ServicePayloadDone
  <2>1. FrameSent /\ tx_phase # "IDLE" /\ budget > 0
    BY <1>7 DEF ServiceFrameDone, ServicePayloadDone, InService
  <2> QED  BY <2>1, SentKeeps DEF RingInv
<1>8. CASE ServiceEnter \/ ServiceWait \/ ServiceShortWrite
  BY <1>8, FlagKept DEF ServiceEnter, ServiceWait, ServiceShortWrite
<1>9. CASE ServiceArm
  BY <1>9, FlagKept DEF ServiceArm
<1>10. CASE ServiceHeader
  BY <1>10, FlagKept DEF ServiceHeader
<1>11. CASE ServicePayload
  BY <1>11, FlagKept DEF ServicePayload
<1>12. CASE DmaChunkDone \/ PortClose \/ PortOpen \/ UNCHANGED vars
  BY <1>12, FlagKept DEF DmaChunkDone, PortClose, PortOpen, vars
<1>13. CASE ADC_Handler
  <2>1. /\ UNCHANGED << acq_consumed, active, tx_phase, tx_hdr, pending_overrun, resync_count,
                        last, joined, quiet, lossy >>
        /\ capturing
    BY <1>13 DEF ADC_Handler, InterruptPending
  <2>2. RingShape
    BY <2>1 DEF RingInv
  <2>3. acq_produced' = acq_produced + 1
    BY <1>13 DEF ADC_Handler
  <2>4. /\ Overruns(resync_count)' >= Overruns(resync_count)
        /\ Overruns(resync_count)' \in Nat /\ Overruns(resync_count) \in Nat
    <3>1. PICK a, b, e \in Nat : /\ acq_govre' = acq_govre + a
                                 /\ acq_rxbuff_overruns' = acq_rxbuff_overruns + b
                                 /\ acq_ring_overflow' = acq_ring_overflow + e
      BY <1>13 DEF ADC_Handler
    <3>2. Overruns(resync_count)' = (acq_rxbuff_overruns + b) + (acq_govre + a)
                                      + (acq_ring_overflow + e) + resync_count
      BY <2>1, <3>1 DEF Overruns
    <3>3. /\ Overruns(resync_count) \in Nat
          /\ (acq_rxbuff_overruns + b) + (acq_govre + a) + (acq_ring_overflow + e)
               + resync_count >= Overruns(resync_count)
          /\ (acq_rxbuff_overruns + b) + (acq_govre + a) + (acq_ring_overflow + e)
               + resync_count \in Nat
      BY <1>a DEF Overruns
    <3> QED  BY <3>2, <3>3
  <2>5. pending_overrun' <= Overruns(resync_count)'
    <3>1. PICK p \in Nat : p = Overruns(resync_count)' /\ p >= Overruns(resync_count)
      BY <2>4
    <3>2. p >= Overruns(resync_count)
      BY <3>1
    <3>3. pending_overrun <= p
      BY <1>a, <1>b, <2>4, <3>2
    <3> QED  BY <2>1, <3>1, <3>3
  <2>6. active => OrderInv'
    BY <1>b, <2>1 DEF OrderInv
  <2>7. ASSUME active PROVE LossInv'
    <3> SUFFICES ASSUME NEW k \in lossy, Ahead(k)'
                 PROVE  Counted(k)' \/ ToBeCounted(k)' \/ Told(k)'
      BY <2>1 DEF LossInv
    <3>1. k \in Nat /\ Ahead(k)
      BY <1>a, <2>1 DEF Ahead
    <3>2. CASE ToBeCounted(k)
      BY <1>13, <1>a, <1>b, <2>2, <3>1, <3>2, LossIsCounted
    <3>3. CASE Counted(k)
      <4>1. PICK p \in Nat : p = Overruns(resync_count)' /\ p >= Overruns(resync_count)
        BY <2>4
      <4>2. p >= Overruns(resync_count)
        BY <4>1
      <4>3. p > pending_overrun /\ k <= (acq_produced + 1) + 1
        BY <1>a, <2>4, <3>1, <3>3, <4>2 DEF Counted
      <4> QED  BY <2>1, <2>3, <3>3, <4>1, <4>3 DEF Counted, Unselected
    <3>4. CASE Told(k)
      <4>1. Since' = Since
        BY <2>1 DEF Since
      <4>2. k <= (acq_produced + 1) + 1
        BY <1>a, <3>1, <3>4 DEF Told
      <4> QED  BY <2>1, <2>3, <3>4, <4>1, <4>2 DEF Told
    <3> QED  BY <1>b, <2>7, <3>1, <3>2, <3>3, <3>4 DEF LossInv
  <2> QED  BY <1>b, <2>1, <2>5, <2>6, <2>7 DEF FlagInv, FlagNotMissing
<1>14. CASE PdcBufferFull
  <2>1. /\ UNCHANGED << acq_consumed, acq_produced, active, tx_phase, tx_hdr, pending_overrun,
                        resync_count, last, joined, quiet, lossy, govreFlag, acq_govre,
                        acq_rxbuff_overruns, acq_ring_overflow >>
        /\ capturing /\ rpr # NoSlot /\ rpr' = rnpr /\ rnpr' = NoSlot /\ endrx' = TRUE
        /\ (rnpr = NoSlot => started' = started)
    BY <1>14 DEF PdcBufferFull
  <2>2. Overruns(resync_count)' = Overruns(resync_count) /\ Since' = Since
    BY <2>1 DEF Overruns, Since
  <2>3. active => OrderInv'
    BY <1>b, <2>1 DEF OrderInv
  <2>4. ASSUME active PROVE LossInv'
    <3> SUFFICES ASSUME NEW k \in lossy, Ahead(k)'
                 PROVE  Counted(k)' \/ ToBeCounted(k)' \/ Told(k)'
      BY <2>1 DEF LossInv
    <3>1. k \in Nat /\ Ahead(k)
      BY <1>a, <2>1 DEF Ahead
    <3>2. CASE ToBeCounted(k)
      <4>1. CASE govreFlag /\ k > acq_produced /\ k <= acq_produced + 2
        BY <2>1, <4>1 DEF ToBeCounted
      <4>2. CASE k > acq_produced /\ started = acq_produced + 2 /\ rnpr = NoSlot
                 /\ ~endrx /\ k <= acq_produced + 2
        <5>1. k <= acq_produced + 3
          BY <1>a, <3>1, <4>2
        <5> QED  BY <2>1, <4>2, <5>1 DEF ToBeCounted
      <4> QED  BY <2>1, <3>2, <4>1, <4>2 DEF ToBeCounted
    <3>3. CASE Counted(k)
      BY <2>1, <2>2, <3>3 DEF Counted, Unselected
    <3>4. CASE Told(k)
      BY <2>1, <2>2, <3>4 DEF Told
    <3> QED  BY <1>b, <2>4, <3>1, <3>2, <3>3, <3>4 DEF LossInv
  <2> QED  BY <1>b, <2>1, <2>2, <2>3, <2>4 DEF FlagInv, FlagNotMissing
<1>15. CASE SampleLost
  <2>1. /\ UNCHANGED << acq_consumed, acq_produced, active, tx_phase, tx_hdr, pending_overrun,
                        resync_count, last, joined, quiet, rpr, rnpr, endrx, started, acq_govre,
                        acq_rxbuff_overruns, acq_ring_overflow >>
        /\ capturing /\ govreFlag'
    BY <1>15 DEF SampleLost
  <2>2. Overruns(resync_count)' = Overruns(resync_count) /\ Since' = Since
    BY <2>1 DEF Overruns, Since
  <2>3. active => OrderInv'
    BY <1>b, <2>1 DEF OrderInv
  <2>4. ASSUME active PROVE LossInv'
    <3> SUFFICES ASSUME NEW k \in lossy', Ahead(k)'
                 PROVE  Counted(k)' \/ ToBeCounted(k)' \/ Told(k)'
      BY DEF LossInv
    <3>1. k \in lossy \/ ToBeCounted(k)'
      BY <1>15, <2>1, LossIsAhead DEF RingInv
    <3>2. CASE k \in lossy
      <4>1. Ahead(k)
        BY <2>1 DEF Ahead
      <4>2. Counted(k) => Counted(k)'
        BY <2>1, <2>2 DEF Counted, Unselected
      <4>3. ToBeCounted(k) => ToBeCounted(k)'
        BY <2>1 DEF ToBeCounted
      <4>4. Told(k) => Told(k)'
        BY <2>1, <2>2 DEF Told
      <4> QED  BY <1>b, <2>4, <3>2, <4>1, <4>2, <4>3, <4>4 DEF LossInv
    <3> QED  BY <3>1, <3>2
  <2> QED  BY <1>b, <2>1, <2>2, <2>3, <2>4 DEF FlagInv, FlagNotMissing
<1> QED
  BY <1>1, <1>2, <1>3, <1>4, <1>5, <1>6, <1>7, <1>8, <1>9, <1>10, <1>11, <1>12, <1>13,
     <1>14, <1>15
  DEF Next, Command, Service, ServiceIteration, Hardware, Port

\* As long as no start arrives during a capture: a frame that does not join on to the
\* one before it carries the flag or follows, by at most NBUF - 2 frames, one that
\* does, whichever of the ways to lose samples broke the signal.
THEOREM NoBreakIsSilent == ~StartWhileActive => (Spec => []FlagNotMissing)
<1> SUFFICES ASSUME ~StartWhileActive PROVE Spec => []FlagNotMissing
  OBVIOUS
<1>1. Init => FlagInv
  <2> SUFFICES ASSUME Init PROVE FlagInv
    OBVIOUS
  <2>1. Overruns(resync_count) = 0 /\ pending_overrun = 0 /\ joined /\ ~active
    BY DEF Init, Overruns
  <2> QED  BY <2>1 DEF FlagInv, FlagNotMissing
<1>2. TypeOK /\ RingInv /\ FlagInv /\ [Next]_vars => FlagInv'
  BY FlagStep
<1>3. FlagInv => FlagNotMissing
  BY DEF FlagInv
<1> QED  BY <1>1, <1>2, <1>3, TypeCorrect, RingConsistent, PTL DEF Spec
=============================================================================
