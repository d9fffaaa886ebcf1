---------------------------- MODULE BoundedFifo ----------------------------
(***************************************************************************)
(* What the pipeline's message ring promises to its two users: a bounded   *)
(* first-in-first-out queue between one producer (the capture thread) and  *)
(* one consumer (the output thread).  Neither the slots of the ring nor    *)
(* its head and tail offsets are visible here.                             *)
(***************************************************************************)
EXTENDS Naturals, Sequences

CONSTANTS Msg,       \* the messages that may be queued
          Capacity   \* how many messages fit

VARIABLES queue,     \* the queued messages, oldest first
          received   \* the messages handed to the consumer by its last pop

fifoVars == <<queue, received>>

FifoInit ==
    /\ queue = <<>>
    /\ received = <<>>

(* A push that returns true. *)
Push(m) ==
    /\ Len(queue) < Capacity
    /\ queue' = Append(queue, m)
    /\ UNCHANGED received

(* A pop that returns true. *)
Pop ==
    /\ queue # <<>>
    /\ received' = <<Head(queue)>>
    /\ queue' = Tail(queue)

FifoNext == Pop \/ \E m \in Msg : Push(m)

FifoSpec == FifoInit /\ [][FifoNext]_fifoVars
=============================================================================
