------------------------------ MODULE RingBuffer ------------------------------
(***************************************************************************)
(* The single-producer single-consumer ring buffer for sensor packets       *)
(* (cpp-core/include/sensor/ring_buffer.h).  Every access to head_, tail_   *)
(* and buffer_ is a step of its own, so a push, a pop and a clear           *)
(* interleave at every point where the two threads can.                     *)
(*                                                                          *)
(* Each thread reads its own index with relaxed order and the other's with  *)
(* acquire, and publishes with release.  What a thread does to a slot is    *)
(* then ordered before what the other does after seeing the index, and a    *)
(* sequentially consistent interleaving loses no behaviour.                 *)
(***************************************************************************)
EXTENDS Naturals, Sequences

CONSTANTS Values,    \* the packets a producer may push
          Capacity,  \* the template parameter of the class
          Empty      \* the value-initialised content of a slot

ASSUME CapacityAssumption == Capacity \in Nat \ {0}
ASSUME EmptyAssumption == Empty \notin Values

VARIABLES buffer,     \* buffer_, one slot for each index
          head,       \* head_, the next slot the producer fills
          tail,       \* tail_, the next slot the consumer empties
          producer,   \* the producer: where it is in push and its locals
          consumer,   \* the consumer: where it is in pop or clear and its locals
          pushReply,  \* what the last push returned
          popReply    \* what the last pop returned

vars == <<buffer, head, tail, producer, consumer, pushReply, popReply>>

Index == 0 .. Capacity - 1

\* (i + 1) % Capacity
Succ(i) == (i + 1) % Capacity

Init ==
    /\ buffer = [i \in Index |-> Empty]
    /\ head = 0
    /\ tail = 0
    /\ producer = [at |-> "idle", value |-> Empty, slot |-> 0]
    /\ consumer = [at |-> "idle", value |-> Empty, slot |-> 0]
    /\ pushReply = "none"
    /\ popReply = <<"none">>

-----------------------------------------------------------------------------
(* push *)

\* The producer calls push(v) and reads its own index.
PushBegin(v) ==
    /\ producer.at = "idle"
    /\ producer' = [at |-> "check", value |-> v, slot |-> head]
    /\ UNCHANGED <<buffer, head, tail, consumer, pushReply, popReply>>

\* Loads tail_: a full ring refuses the packet.
PushFull ==
    /\ producer.at = "check"
    /\ Succ(producer.slot) = tail
    /\ producer' = [producer EXCEPT !.at = "idle"]
    /\ pushReply' = "false"
    /\ UNCHANGED <<buffer, head, tail, consumer, popReply>>

\* Slip: the full test dropped.
PushRoomUnchecked ==
    /\ producer.at = "check"
    /\ producer' = [producer EXCEPT !.at = "write"]
    /\ UNCHANGED <<buffer, head, tail, consumer, pushReply, popReply>>

\* Slip: head_ published before the slot is filled.
PushRoomPublishesEarly ==
    /\ producer.at = "check"
    /\ Succ(producer.slot) # tail
    /\ head' = Succ(producer.slot)
    /\ producer' = [producer EXCEPT !.at = "write"]
    /\ UNCHANGED <<buffer, tail, consumer, pushReply, popReply>>

PushRoom ==
    /\ producer.at = "check"
    /\ Succ(producer.slot) # tail
    /\ producer' = [producer EXCEPT !.at = "write"]
    /\ UNCHANGED <<buffer, head, tail, consumer, pushReply, popReply>>

PushWrite ==
    /\ producer.at = "write"
    /\ buffer' = [buffer EXCEPT ![producer.slot] = producer.value]
    /\ producer' = [producer EXCEPT !.at = "publish"]
    /\ UNCHANGED <<head, tail, consumer, pushReply, popReply>>

PushPublish ==
    /\ producer.at = "publish"
    /\ head' = Succ(producer.slot)
    /\ producer' = [producer EXCEPT !.at = "idle"]
    /\ pushReply' = "true"
    /\ UNCHANGED <<buffer, tail, consumer, popReply>>

-----------------------------------------------------------------------------
(* pop *)

PopBegin ==
    /\ consumer.at = "idle"
    /\ consumer' = [consumer EXCEPT !.at = "check", !.slot = tail]
    /\ UNCHANGED <<buffer, head, tail, producer, pushReply, popReply>>

\* Loads head_: an empty ring has nothing to deliver.
PopEmpty ==
    /\ consumer.at = "check"
    /\ consumer.slot = head
    /\ consumer' = [consumer EXCEPT !.at = "idle"]
    /\ popReply' = <<"false">>
    /\ UNCHANGED <<buffer, head, tail, producer, pushReply>>

PopAvailable ==
    /\ consumer.at = "check"
    /\ consumer.slot # head
    /\ consumer' = [consumer EXCEPT !.at = "read"]
    /\ UNCHANGED <<buffer, head, tail, producer, pushReply, popReply>>

PopRead ==
    /\ consumer.at = "read"
    /\ consumer' = [consumer EXCEPT !.at = "release", !.value = buffer[consumer.slot]]
    /\ UNCHANGED <<buffer, head, tail, producer, pushReply, popReply>>

PopRelease ==
    /\ consumer.at = "release"
    /\ tail' = Succ(consumer.slot)
    /\ consumer' = [consumer EXCEPT !.at = "idle"]
    /\ popReply' = <<"true", consumer.value>>
    /\ UNCHANGED <<buffer, head, producer, pushReply>>

-----------------------------------------------------------------------------
(* clear, an operation of the consumer: it stores tail_ *)

ClearLoad ==
    /\ consumer.at = "idle"
    /\ consumer' = [consumer EXCEPT !.at = "clear", !.slot = head]
    /\ UNCHANGED <<buffer, head, tail, producer, pushReply, popReply>>

ClearStore ==
    /\ consumer.at = "clear"
    /\ tail' = consumer.slot
    /\ consumer' = [consumer EXCEPT !.at = "idle"]
    /\ UNCHANGED <<buffer, head, producer, pushReply, popReply>>

Push == (\E v \in Values : PushBegin(v)) \/ PushFull \/ PushRoom \/ PushWrite \/ PushPublish
Pop == PopBegin \/ PopEmpty \/ PopAvailable \/ PopRead \/ PopRelease
Clear == ClearLoad \/ ClearStore

Next == Push \/ Pop \/ Clear

Spec == Init /\ [][Next]_vars

-----------------------------------------------------------------------------
(* Properties *)

\* The indices stay inside the array and each thread is at a known point of
\* its operation (head_, tail_, and the locals of push, pop and clear).
TypeOK ==
    /\ buffer \in [Index -> Values \cup {Empty}]
    /\ head \in Index
    /\ tail \in Index
    /\ producer \in [at : {"idle", "check", "write", "publish"},
                     value : Values \cup {Empty}, slot : Index]
    /\ consumer \in [at : {"idle", "check", "read", "release", "clear"},
                     value : Values \cup {Empty}, slot : Index]
    /\ pushReply \in {"none", "true", "false"}
    /\ popReply \in {<<"none">>, <<"false">>} \cup ({"true"} \X (Values \cup {Empty}))

\* buffer_ is a plain array, so push must never write the slot that pop reads
\* while pop reads it (the accesses buffer_[head] = value and value =
\* buffer_[tail] are not atomic).
NoSlotRace ==
    ~ /\ producer.at = "write"
      /\ consumer.at = "read"
      /\ producer.slot = consumer.slot

\* The packets between tail_ and head_, oldest first.
Contents ==
    LET held == (head + Capacity - tail) % Capacity
    IN  [i \in 1..held |-> buffer[(tail + i - 1) % Capacity]]

\* The refinement mapping: the ring holds what a FIFO of Capacity - 1 packets
\* holds, and a push or a pop takes effect when it stores its index.
Fifo == INSTANCE BoundedFifo WITH fifo <- Contents, Bound <- Capacity - 1

\* push, pop and clear implement the bounded FIFO whatever the interleaving:
\* no packet is lost, duplicated or reordered, a push is refused only when the
\* ring is full and a pop only when it is empty.
ImplementsFifo == Fifo!FifoSpec

=============================================================================
