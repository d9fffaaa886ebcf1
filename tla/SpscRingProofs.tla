--------------------------- MODULE SpscRingProofs ---------------------------
(***************************************************************************)
(* Proofs about SpscRing for every number of slots and every set of        *)
(* messages: the type invariant, the freedom from slot races, the drain's  *)
(* budget, and that the ring implements BoundedFifo.                       *)
(***************************************************************************)
EXTENDS SpscRing, SequenceTheorems, TLAPS

(* Advance steps to the next slot and wraps around at the last one. *)
LEMMA AdvanceSlot ==
    ASSUME NEW s \in Slots
    PROVE  /\ Advance(s) \in Slots
           /\ Advance(s) = IF s = Size - 1 THEN 0 ELSE s + 1
BY RingAssumption DEF Slots, Advance

(* Two offsets never become equal by advancing both. *)
LEMMA AdvanceInjective ==
    ASSUME NEW s \in Slots, NEW t \in Slots, s # t
    PROVE  Advance(s) # Advance(t)
BY AdvanceSlot DEF Slots

(* What spsc_ring_used counts: a number below Size that is zero only for   *)
(* equal offsets, grows by one when head advances into a free slot, and    *)
(* shrinks by one when tail advances in a ring that is not empty.          *)
LEMMA UsedFacts ==
    ASSUME NEW h \in Slots, NEW t \in Slots
    PROVE  /\ UsedBetween(h, t) \in 0 .. Size - 1
           /\ (UsedBetween(h, t) = 0) <=> (h = t)
           /\ Advance(h) # t => UsedBetween(Advance(h), t) = UsedBetween(h, t) + 1
           /\ h # t => UsedBetween(h, Advance(t)) = UsedBetween(h, t) - 1
BY AdvanceSlot, RingAssumption DEF Slots, UsedBetween

(* The inductive invariant. *)
IInv == TypeOK /\ NoSlotRace /\ DrainNeverBreaks

(* spsc_ring_create establishes it ... *)
LEMMA InitIInv == Init => IInv
<1> SUFFICES ASSUME Init PROVE IInv
    OBVIOUS
<1>1. TypeOK
    BY RingAssumption DEF Init, TypeOK, Slots
<1>2. NoSlotRace
    BY DEF Init, NoSlotRace
<1>3. DrainNeverBreaks
    BY RingAssumption DEF Init, DrainNeverBreaks, UsedBetween
<1> QED BY <1>1, <1>2, <1>3 DEF IInv

(* ... and every memory access of a push, a pop or a drain keeps it. *)
LEMMA StepIInv == IInv /\ [Next]_vars => IInv'
<1> SUFFICES ASSUME IInv, [Next]_vars
             PROVE  IInv'
    OBVIOUS
<1> USE RingAssumption
<1>0. /\ head \in Slots
      /\ tail \in Slots
      /\ Advance(head) \in Slots
      /\ Advance(tail) \in Slots
    BY AdvanceSlot DEF IInv, TypeOK
<1>1. ASSUME NEW m \in Msg, PushCall(m)
      PROVE  IInv'
    BY <1>1 DEF IInv, TypeOK, NoSlotRace, DrainNeverBreaks, PushCall, consVars,
                UsedBetween
<1>2. CASE PushCheck
    BY <1>2 DEF IInv, TypeOK, NoSlotRace, DrainNeverBreaks, PushCheck, consVars,
                UsedBetween
<1>3. CASE PushWrite
  <2>1. TypeOK'
      BY <1>3, <1>0 DEF IInv, TypeOK, PushWrite, consVars
  <2>2. NoSlotRace'
      BY <1>3, <1>0 DEF IInv, TypeOK, NoSlotRace, PushWrite, consVars
  <2>3. DrainNeverBreaks'
      BY <1>3 DEF IInv, DrainNeverBreaks, PushWrite, consVars, UsedBetween
  <2> QED BY <2>1, <2>2, <2>3 DEF IInv
<1>4. CASE PushPublish
  <2>1. TypeOK'
      BY <1>4, <1>0 DEF IInv, TypeOK, PushPublish, consVars
  <2>2. NoSlotRace'
      BY <1>4, <1>0 DEF IInv, TypeOK, NoSlotRace, PushPublish, consVars
  <2>3. UsedBetween(head, tail)' = UsedBetween(head, tail) + 1
      BY <1>4, <1>0, UsedFacts DEF IInv, NoSlotRace, PushPublish
  <2>4. DrainNeverBreaks'
      BY <1>4, <1>0, <2>3, UsedFacts
         DEF IInv, TypeOK, DrainNeverBreaks, PushPublish, consVars
  <2> QED BY <2>1, <2>2, <2>4 DEF IInv
<1>5. CASE PopCheck
  <2>1. TypeOK'
      BY <1>5 DEF IInv, TypeOK, PopCheck, prodVars
  <2>2. NoSlotRace'
      BY <1>5 DEF IInv, TypeOK, NoSlotRace, PopCheck, prodVars
  <2>3. DrainNeverBreaks'
      BY <1>5, <1>0, UsedFacts DEF IInv, DrainNeverBreaks, PopCheck, UsedBetween
  <2> QED BY <2>1, <2>2, <2>3 DEF IInv
<1>6. CASE PopRead
  <2>1. TypeOK'
      BY <1>6, <1>0 DEF IInv, TypeOK, PopRead, prodVars
  <2>2. NoSlotRace'
      BY <1>6, <1>0 DEF IInv, TypeOK, NoSlotRace, PopRead, prodVars
  <2>3. DrainNeverBreaks'
      BY <1>6 DEF IInv, DrainNeverBreaks, PopRead, UsedBetween
  <2> QED BY <2>1, <2>2, <2>3 DEF IInv
<1>7. CASE PopAdvance
  <2>1. TypeOK'
      BY <1>7, <1>0 DEF IInv, TypeOK, PopAdvance, prodVars
  <2>2. NoSlotRace'
      BY <1>7, <1>0, AdvanceInjective
         DEF IInv, TypeOK, NoSlotRace, PopAdvance, prodVars
  <2>3. UsedBetween(head, tail)' = UsedBetween(head, tail) - 1
      BY <1>7, <1>0, UsedFacts DEF IInv, NoSlotRace, PopAdvance
  <2>4. UsedBetween(head, tail) \in 1 .. Size
      BY <1>7, <1>0, UsedFacts DEF IInv, NoSlotRace, PopAdvance
  <2>5. drainLeft \in Nat /\ drainLeft <= UsedBetween(head, tail)
      BY DEF IInv, TypeOK, DrainNeverBreaks
  <2>6. DrainNeverBreaks'
      BY <1>7, <2>3, <2>4, <2>5 DEF DrainNeverBreaks, PopAdvance
  <2> QED BY <2>1, <2>2, <2>6 DEF IInv
<1>8. CASE DrainStart
  <2>1. TypeOK'
      BY <1>8, <1>0, UsedFacts DEF IInv, TypeOK, DrainStart, prodVars
  <2>2. NoSlotRace'
      BY <1>8 DEF IInv, NoSlotRace, DrainStart, prodVars
  <2>3. DrainNeverBreaks'
      BY <1>8, <1>0, UsedFacts DEF DrainNeverBreaks, DrainStart, UsedBetween
  <2> QED BY <2>1, <2>2, <2>3 DEF IInv
<1>9. CASE UNCHANGED vars
    BY <1>9 DEF IInv, TypeOK, NoSlotRace, DrainNeverBreaks, vars, UsedBetween
<1> QED
    BY <1>1, <1>2, <1>3, <1>4, <1>5, <1>6, <1>7, <1>8, <1>9 DEF Next

(* The ring's state keeps its types, the two threads never touch the same  *)
(* slot at a time, and a drain never meets an empty ring.                  *)
THEOREM RingInvariant == Spec => []IInv
BY InitIInv, StepIInv, PTL DEF Spec

(* The offsets of spsc_ring_push and spsc_ring_pop stay within the buffer, *)
(* a push in progress has its message, and a drain plans no more pops than *)
(* there are slots.                                                        *)
THEOREM RingTypeOK == Spec => []TypeOK
<1>1. IInv => TypeOK
    BY DEF IInv
<1> QED BY <1>1, RingInvariant, PTL

(* The producer and the consumer of spsc_ring_push and spsc_ring_pop never *)
(* use the same slot at the same time.                                     *)
THEOREM RingNoSlotRace == Spec => []NoSlotRace
<1>1. IInv => NoSlotRace
    BY DEF IInv
<1> QED BY RingInvariant, <1>1, PTL

(* A drain of the ring pops all it counted, whatever the producer does.    *)
THEOREM RingDrainNeverBreaks == Spec => []DrainNeverBreaks
<1>1. IInv => DrainNeverBreaks
    BY DEF IInv
<1> QED BY RingInvariant, <1>1, PTL
-----------------------------------------------------------------------------
(* The slot of a queued message is a slot, and is not the one at head.     *)
LEMMA SlotOfQueued ==
    ASSUME head \in Slots, tail \in Slots,
           NEW i \in 0 .. UsedBetween(head, tail) - 1
    PROVE  /\ SlotAt(i) \in Slots
           /\ SlotAt(i) # head
BY RingAssumption DEF Slots, UsedBetween, SlotAt

(* The slot after the last queued message is the one at head.              *)
LEMMA SlotOfHead ==
    ASSUME head \in Slots, tail \in Slots
    PROVE  SlotAt(UsedBetween(head, tail)) = head
BY RingAssumption DEF Slots, UsedBetween, SlotAt

(* The ring's contents are a sequence as long as spsc_ring_used says.      *)
LEMMA ContentsSeq ==
    ASSUME IInv
    PROVE  /\ Contents \in Seq(Msg \cup {NULL})
           /\ Len(Contents) = UsedBetween(head, tail)
           /\ DOMAIN Contents = 1 .. UsedBetween(head, tail)
<1>1. UsedBetween(head, tail) \in Nat
    BY UsedFacts DEF IInv, TypeOK
<1>2. \A i \in 1 .. UsedBetween(head, tail) : buf[SlotAt(i - 1)] \in Msg \cup {NULL}
  <2> TAKE i \in 1 .. UsedBetween(head, tail)
  <2>1. i - 1 \in 0 .. UsedBetween(head, tail) - 1
      BY <1>1
  <2>2. SlotAt(i - 1) \in Slots
      BY <2>1, SlotOfQueued DEF IInv, TypeOK
  <2> QED BY <2>2 DEF IInv, TypeOK
<1> QED BY <1>1, <1>2 DEF Contents

(* Storing head after the slot was written appends the message.            *)
LEMMA PublishAppends ==
    ASSUME IInv, IInv', PushPublish
    PROVE  Contents' = Append(Contents, prodMsg)
<1> DEFINE n == UsedBetween(head, tail)
<1>0. /\ head \in Slots /\ tail \in Slots
      /\ tail' = tail /\ buf' = buf
      /\ buf[head] = prodMsg
    BY DEF IInv, TypeOK, NoSlotRace, PushPublish
<1>1. n \in Nat /\ UsedBetween(head, tail)' = n + 1
    BY <1>0, UsedFacts DEF IInv, NoSlotRace, PushPublish
<1>2. Contents' = [i \in 1 .. n + 1 |-> buf[SlotAt(i - 1)]]
    BY <1>0, <1>1 DEF Contents, SlotAt
<1>3. buf[SlotAt((n + 1) - 1)] = prodMsg
    BY <1>0, <1>1, SlotOfHead
<1>4. Contents \in Seq(Msg \cup {NULL}) /\ Len(Contents) = n
    BY ContentsSeq
<1>5. \A i \in 1 .. n : Contents[i] = buf[SlotAt(i - 1)]
    BY DEF Contents
<1>6. prodMsg \in Msg \cup {NULL}
    BY DEF IInv, TypeOK
<1> DEFINE T == Msg \cup {NULL}
           A == Append(Contents, prodMsg)
<1>7. /\ A \in Seq(T)
      /\ Len(A) = n + 1
      /\ \A i \in 1 .. n : A[i] = Contents[i]
      /\ A[n + 1] = prodMsg
    BY <1>4, <1>6, AppendProperties
<1>8. DOMAIN A = 1 .. n + 1 /\ A = [i \in DOMAIN A |-> A[i]]
    BY <1>7, LenProperties
<1> HIDE DEF n, T, A
<1>9. \A i \in 1 .. n + 1 : A[i] = buf[SlotAt(i - 1)]
    BY <1>1, <1>3, <1>5, <1>7
<1>10. Contents' = A
    BY <1>2, <1>8, <1>9
<1> QED BY <1>10 DEF A

(* Storing tail after the slot was read removes the oldest message.        *)
LEMMA AdvanceTakesHead ==
    ASSUME IInv, IInv', PopAdvance
    PROVE  /\ Contents # <<>>
           /\ Contents' = Tail(Contents)
           /\ consOut = Head(Contents)
<1> DEFINE n == UsedBetween(head, tail)
<1>0. /\ head \in Slots /\ tail \in Slots
      /\ head' = head /\ buf' = buf /\ tail' = Advance(tail)
      /\ buf[tail] = consOut
      /\ tail # head
    BY DEF IInv, TypeOK, NoSlotRace, PopAdvance
<1>1. n \in Nat \ {0} /\ UsedBetween(head, tail)' = n - 1
    BY <1>0, UsedFacts
<1>2. \A i \in 1 .. n - 1 : SlotAt(i - 1)' = SlotAt(i) /\ i = (i + 1) - 1
    BY <1>0, <1>1, AdvanceSlot, RingAssumption DEF SlotAt, Slots, UsedBetween
<1>3. Contents' = [i \in 1 .. n - 1 |-> buf[SlotAt((i + 1) - 1)]]
    BY <1>0, <1>1, <1>2 DEF Contents
<1>4. Contents \in Seq(Msg \cup {NULL}) /\ Len(Contents) = n
    BY ContentsSeq
<1>5. \A i \in 1 .. n : Contents[i] = buf[SlotAt(i - 1)]
    BY DEF Contents
<1>6. SlotAt(1 - 1) = tail
    BY <1>0, RingAssumption DEF SlotAt, Slots
<1> DEFINE T == Msg \cup {NULL}
           R == Tail(Contents)
<1> HIDE DEF n
<1>7. consOut = Contents[1]
    BY <1>0, <1>1, <1>5, <1>6
<1>8. Contents # <<>>
    BY <1>1, <1>4
<1>9. /\ R \in Seq(T)
      /\ Len(R) = n - 1
      /\ \A i \in 1 .. n - 1 : R[i] = Contents[i + 1]
    BY <1>4, <1>8, HeadTailProperties
<1>10. DOMAIN R = 1 .. n - 1 /\ R = [i \in DOMAIN R |-> R[i]]
    BY <1>9, LenProperties
<1> HIDE DEF T, R
<1>11. \A i \in 1 .. n - 1 : R[i] = buf[SlotAt((i + 1) - 1)]
    BY <1>1, <1>5, <1>9
<1>12. Contents' = R
    BY <1>3, <1>10, <1>11
<1>13. Head(Contents) = Contents[1]
    BY <1>4, <1>8
<1> QED BY <1>7, <1>8, <1>12, <1>13 DEF R

(* A step that moves neither offset and writes no queued slot leaves the   *)
(* contents alone.                                                         *)
LEMMA ContentsUnchanged ==
    ASSUME IInv, head' = head, tail' = tail,
           \A s \in Slots \ {head} : buf'[s] = buf[s]
    PROVE  Contents' = Contents
<1>1. \A i \in 1 .. UsedBetween(head, tail) : buf'[SlotAt(i - 1)] = buf[SlotAt(i - 1)]
  <2> TAKE i \in 1 .. UsedBetween(head, tail)
  <2>1. i - 1 \in 0 .. UsedBetween(head, tail) - 1
      BY UsedFacts DEF IInv, TypeOK
  <2>2. SlotAt(i - 1) \in Slots \ {head}
      BY <2>1, SlotOfQueued DEF IInv, TypeOK
  <2> QED BY <2>2
<1>2. /\ UsedBetween(head, tail)' = UsedBetween(head, tail)
      /\ \A i \in 1 .. UsedBetween(head, tail) : SlotAt(i - 1)' = SlotAt(i - 1)
    BY DEF UsedBetween, SlotAt
<1> QED BY <1>1, <1>2 DEF Contents

(* Every step of the two threads is a push, a pop or no step of the queue. *)
LEMMA StepRefines ==
    IInv /\ IInv' /\ [Next]_vars => [Fifo!FifoNext]_(Fifo!fifoVars)
<1> SUFFICES ASSUME IInv, IInv', [Next]_vars
             PROVE  [Fifo!FifoNext]_(Fifo!fifoVars)
    OBVIOUS
<1>1. CASE PushPublish
  <2>1. Contents' = Append(Contents, prodMsg)
      BY <1>1, PublishAppends
  <2>2. prodMsg \in Msg /\ received' = received
      BY <1>1 DEF IInv, TypeOK, PushPublish
  <2>3. UsedBetween(head, tail)' = UsedBetween(head, tail) + 1
      BY <1>1, UsedFacts DEF IInv, TypeOK, NoSlotRace, PushPublish
  <2>4. /\ UsedBetween(head, tail)' \in 0 .. Size - 1
        /\ UsedBetween(head, tail) \in 0 .. Size - 1
      BY UsedFacts DEF IInv, TypeOK
  <2>5. Len(Contents) < Size - 1
      BY <2>3, <2>4, ContentsSeq, RingAssumption
  <2>6. Fifo!Push(prodMsg)
      BY <2>1, <2>2, <2>5 DEF Fifo!Push
  <2> QED BY <2>2, <2>6 DEF Fifo!FifoNext
<1>2. CASE PopAdvance
  <2>1. Fifo!Pop
      BY <1>2, AdvanceTakesHead DEF Fifo!Pop, PopAdvance
  <2> QED BY <2>1 DEF Fifo!FifoNext
<1>3. CASE PushWrite
  <2>1. Contents' = Contents
      BY <1>3, ContentsUnchanged DEF PushWrite, IInv, TypeOK
  <2> QED BY <1>3, <2>1 DEF Fifo!fifoVars, PushWrite
<1>4. CASE \/ \E m \in Msg : PushCall(m)
           \/ PushCheck \/ PopCheck \/ PopRead \/ DrainStart \/ UNCHANGED vars
  <2>1. /\ head' = head /\ tail' = tail /\ buf' = buf
        /\ received' = received
      BY <1>4 DEF PushCall, PushCheck, PopCheck, PopRead, DrainStart, vars
  <2>2. Contents' = Contents
      BY <2>1, ContentsUnchanged
  <2> QED BY <2>1, <2>2 DEF Fifo!fifoVars
<1> QED BY <1>1, <1>2, <1>3, <1>4 DEF Next

(* The ring, stepped one memory access at a time by two threads, is a      *)
(* bounded first-in-first-out queue of Size - 1 messages: no message is    *)
(* lost, duplicated, reordered or read half-written.                       *)
THEOREM RingImplementsFifo == Spec => ImplementsFifo
<1>1. Init => Fifo!FifoInit
  <2> SUFFICES ASSUME Init PROVE Fifo!FifoInit
      OBVIOUS
  <2>1. UsedBetween(head, tail) = 0
      BY DEF Init, UsedBetween
  <2>2. Contents = <<>>
      BY <2>1 DEF Contents
  <2> QED BY <2>2 DEF Init, Fifo!FifoInit
<1> QED
    BY <1>1, RingInvariant, StepRefines, PTL DEF Spec, ImplementsFifo, Fifo!FifoSpec
=============================================================================
