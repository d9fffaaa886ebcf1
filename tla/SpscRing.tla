------------------------------ MODULE SpscRing ------------------------------
(***************************************************************************)
(* The single-producer single-consumer ring of cpworker's pipeline         *)
(* (cpworker/src/ring_buffer.c), one step per access to shared memory.     *)
(*                                                                         *)
(* The producer is the capture thread: a capture callback keeps calling    *)
(* spsc_ring_push for one message until it succeeds (task.c, the pipeline  *)
(* callbacks).  The consumer is the output thread: it pops one message     *)
(* per round and, when the reload thread asks for it, first drains as many *)
(* messages as spsc_ring_used counted.                                     *)
(*                                                                         *)
(* head is written by the producer only and tail by the consumer only, so  *)
(* a load of one's own offset and the load of the other's are one step,    *)
(* the one of the other thread's offset.  The offsets are stored with      *)
(* release and loaded with acquire order, so a slot written before a store *)
(* is seen by whoever loads the stored offset.                             *)
(***************************************************************************)
EXTENDS Integers, Sequences

CONSTANTS Msg,    \* the messages (ring_msg_t pointers)
          Size,   \* number of slots
          NULL    \* the NULL pointer the slots hold at first (calloc)

ASSUME RingAssumption ==
    /\ Size \in Nat \ {0}
    /\ NULL \notin Msg

VARIABLES buf,        \* slot -> message
          head,       \* push (producer write) offset
          tail,       \* pop (consumer write) offset
          prodPc,     \* where the producer is in spsc_ring_push
          prodMsg,    \* the message it is pushing
          consPc,     \* where the consumer is in spsc_ring_pop
          consOut,    \* what it read from the slot
          drainLeft,  \* pops left of a running drain of the ring
          received    \* what the last successful pop returned

prodVars == <<prodPc, prodMsg>>
consVars == <<consPc, consOut, drainLeft>>
vars == <<buf, head, tail, prodPc, prodMsg, consPc, consOut, drainLeft, received>>

Slots == 0 .. Size - 1

(* Mutant: the offset is not wrapped around. *)
AdvanceNoWrap(offset) == offset + 1

Advance(offset) == (offset + 1) % Size

(* spsc_ring_used on a pair of loaded offsets *)
UsedBetween(h, t) == IF t <= h THEN h - t ELSE Size - t + h

Init ==
    /\ buf = [s \in Slots |-> NULL]
    /\ head = 0
    /\ tail = 0
    /\ prodPc = "idle"
    /\ prodMsg = NULL
    /\ consPc = "idle"
    /\ consOut = NULL
    /\ drainLeft = 0
    /\ received = <<>>
-----------------------------------------------------------------------------
(* The capture callback has allocated message m and starts to push it. *)
PushCall(m) ==
    /\ prodPc = "idle"
    /\ prodPc' = "check"
    /\ prodMsg' = m
    /\ UNCHANGED <<buf, head, tail, consVars, received>>

(* Mutant: no test for a full ring. *)
PushCheckNoTest ==
    /\ prodPc = "check"
    /\ prodPc' = "write"
    /\ UNCHANGED <<buf, head, tail, prodMsg, consVars, received>>

(* Mutant: equal offsets are taken for a full ring. *)
PushCheckEqualIsFull ==
    /\ prodPc = "check"
    /\ prodPc' = IF head = tail THEN "check" ELSE "write"
    /\ UNCHANGED <<buf, head, tail, prodMsg, consVars, received>>

(* The load of tail and the test for a full ring; on a full ring push      *)
(* returns false, the callback yields and calls it again.                  *)
PushCheck ==
    /\ prodPc = "check"
    /\ prodPc' = IF Advance(head) = tail THEN "check" ELSE "write"
    /\ UNCHANGED <<buf, head, tail, prodMsg, consVars, received>>

(* Mutant: the message goes into the slot after head. *)
PushWriteNextSlot ==
    /\ prodPc = "write"
    /\ buf' = [buf EXCEPT ![Advance(head)] = prodMsg]
    /\ prodPc' = "publish"
    /\ UNCHANGED <<head, tail, prodMsg, consVars, received>>

PushWrite ==
    /\ prodPc = "write"
    /\ buf' = [buf EXCEPT ![head] = prodMsg]
    /\ prodPc' = "publish"
    /\ UNCHANGED <<head, tail, prodMsg, consVars, received>>

PushPublish ==
    /\ prodPc = "publish"
    /\ head' = Advance(head)
    /\ prodPc' = "idle"
    /\ prodMsg' = NULL
    /\ UNCHANGED <<buf, tail, consVars, received>>
-----------------------------------------------------------------------------
(* The load of head and the test for an empty ring; an empty ring ends the *)
(* round, and a drain that is under way.                                   *)
PopCheck ==
    /\ consPc = "idle"
    /\ IF tail = head
       THEN /\ drainLeft' = 0
            /\ UNCHANGED consPc
       ELSE /\ consPc' = "read"
            /\ UNCHANGED drainLeft
    /\ UNCHANGED <<buf, head, tail, prodVars, consOut, received>>

PopRead ==
    /\ consPc = "read"
    /\ consOut' = buf[tail]
    /\ consPc' = "advance"
    /\ UNCHANGED <<buf, head, tail, prodVars, drainLeft, received>>

PopAdvance ==
    /\ consPc = "advance"
    /\ tail' = Advance(tail)
    /\ received' = <<consOut>>
    /\ consPc' = "idle"
    /\ consOut' = NULL
    /\ drainLeft' = IF drainLeft > 0 THEN drainLeft - 1 ELSE 0
    /\ UNCHANGED <<buf, head, prodVars>>

(* Mutant: the drain pops as often as the ring has usable slots. *)
DrainStartWholeRing ==
    /\ consPc = "idle"
    /\ drainLeft = 0
    /\ drainLeft' = Size - 1
    /\ UNCHANGED <<buf, head, tail, prodVars, consPc, consOut, received>>

(* task_manager_output_drain_ring counts the messages it will pop. *)
DrainStart ==
    /\ consPc = "idle"
    /\ drainLeft = 0
    /\ drainLeft' = UsedBetween(head, tail)
    /\ UNCHANGED <<buf, head, tail, prodVars, consPc, consOut, received>>
-----------------------------------------------------------------------------
Producer == PushCheck \/ PushWrite \/ PushPublish
Consumer == PopCheck \/ PopRead \/ PopAdvance

Next ==
    \/ \E m \in Msg : PushCall(m)
    \/ PushCheck
    \/ PushWrite
    \/ PushPublish
    \/ PopCheck
    \/ PopRead
    \/ PopAdvance
    \/ DrainStart

Spec == Init /\ [][Next]_vars

(* Both threads run: the callback spins on a full ring, the output thread  *)
(* loops for as long as the process runs.                                  *)
FairSpec == Spec /\ WF_vars(Producer) /\ WF_vars(Consumer)
-----------------------------------------------------------------------------
(* Offsets stay within the buffer, a push in progress has its message, and *)
(* a drain never plans more pops than there are slots.                     *)
TypeOK ==
    /\ buf \in [Slots -> Msg \cup {NULL}]
    /\ head \in Slots
    /\ tail \in Slots
    /\ prodPc \in {"idle", "check", "write", "publish"}
    /\ prodMsg \in Msg \cup {NULL}
    /\ (prodPc # "idle") => (prodMsg \in Msg)
    /\ consPc \in {"idle", "read", "advance"}
    /\ consOut \in Msg \cup {NULL}
    /\ drainLeft \in 0 .. Size
    /\ received \in {<<>>} \cup {<<x>> : x \in Msg \cup {NULL}}

(* The slot at distance i from the oldest message. *)
SlotAt(i) == IF tail + i < Size THEN tail + i ELSE tail + i - Size

(* The messages in the ring, oldest first. *)
Contents == [i \in 1 .. UsedBetween(head, tail) |-> buf[SlotAt(i - 1)]]

(* The two threads never touch the same slot: while the producer writes    *)
(* the slot at head, the consumer does not read it, and the slot being     *)
(* read is never the one about to be written.                              *)
NoSlotRace ==
    /\ prodPc \in {"write", "publish"} => Advance(head) # tail
    /\ consPc \in {"read", "advance"} => tail # head
    /\ consPc = "advance" => consOut = buf[tail]
    /\ prodPc = "publish" => buf[head] = prodMsg

(* A drain pops every message it counted: none of its pops finds the ring  *)
(* empty, so the loop's early break is never taken.                        *)
DrainNeverBreaks == drainLeft <= UsedBetween(head, tail)

(* The ring is a bounded FIFO queue of Size - 1 messages. *)
Fifo == INSTANCE BoundedFifo WITH
            Capacity <- Size - 1,
            queue <- Contents,
            received <- received

ImplementsFifo == Fifo!FifoSpec

(* A capture callback that spins on a full ring gets its message in. *)
PushCompletes == (prodPc = "check") ~> (prodPc = "idle")
=============================================================================
