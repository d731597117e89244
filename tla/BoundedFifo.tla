----------------------------- MODULE BoundedFifo -----------------------------
(***************************************************************************)
(* What the sensor queue promises: a first-in first-out buffer of at most   *)
(* Bound packets between one producer and one consumer.  Every operation    *)
(* takes effect in one step.  Clearing discards a prefix of the buffer: the *)
(* packets that were there when the consumer asked, and no later one.       *)
(***************************************************************************)
EXTENDS Naturals, Sequences

CONSTANTS Values,  \* the packets a producer may push
          Bound    \* the largest number of packets held at once

VARIABLES fifo,       \* the packets held, oldest first
          pushReply,  \* what the last push returned
          popReply    \* what the last pop returned: a packet or a refusal

fifoVars == <<fifo, pushReply, popReply>>

FifoInit == fifo = <<>> /\ pushReply = "none" /\ popReply = <<"none">>

Enqueue(v) ==
    /\ Len(fifo) < Bound
    /\ fifo' = Append(fifo, v)
    /\ pushReply' = "true"
    /\ UNCHANGED popReply

RefuseEnqueue ==
    /\ Len(fifo) = Bound
    /\ pushReply' = "false"
    /\ UNCHANGED <<fifo, popReply>>

Dequeue ==
    /\ fifo # <<>>
    /\ fifo' = Tail(fifo)
    /\ popReply' = <<"true", Head(fifo)>>
    /\ UNCHANGED pushReply

RefuseDequeue ==
    /\ fifo = <<>>
    /\ popReply' = <<"false">>
    /\ UNCHANGED <<fifo, pushReply>>

DiscardPrefix ==
    /\ \E k \in 0..Len(fifo) : fifo' = SubSeq(fifo, k + 1, Len(fifo))
    /\ UNCHANGED <<pushReply, popReply>>

FifoNext ==
    \/ \E v \in Values : Enqueue(v)
    \/ RefuseEnqueue
    \/ Dequeue
    \/ RefuseDequeue
    \/ DiscardPrefix

FifoSpec == FifoInit /\ [][FifoNext]_fifoVars

=============================================================================
