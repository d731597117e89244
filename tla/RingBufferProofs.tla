--------------------------- MODULE RingBufferProofs ---------------------------
(***************************************************************************)
(* For every capacity and every set of packets: the ring buffer's types are *)
(* preserved, push never writes the slot pop is reading, and the ring        *)
(* refines the bounded FIFO.                                                *)
(***************************************************************************)
EXTENDS RingBuffer, SequenceTheorems, TLAPS

\* How many steps forward, around the ring, lead from index a to index b.
Dist(a, b) == IF a <= b THEN b - a ELSE b + Capacity - a

\* What each thread knows of the shared indices at each point of its operation:
\* a producer past its test still has room, a consumer past its test still has
\* a packet, and the head a clear has loaded is not beyond the present head.
Inv ==
    /\ TypeOK
    /\ producer.at # "idle" => producer.slot = head
    /\ producer.at \in {"write", "publish"} => Succ(producer.slot) # tail
    /\ consumer.at \in {"check", "read", "release"} => consumer.slot = tail
    /\ consumer.at \in {"read", "release"} => tail # head
    /\ consumer.at = "clear" => Dist(tail, consumer.slot) <= Dist(tail, head)

\* The successor of an index, without the remainder.
LEMMA SuccIndex ==
    ASSUME NEW i \in Index
    PROVE  /\ Succ(i) \in Index
           /\ Succ(i) = IF i + 1 = Capacity THEN 0 ELSE i + 1
<1>1. CASE i + 1 = Capacity
  BY <1>1, CapacityAssumption DEF Index, Succ
<1>2. CASE i + 1 # Capacity
  <2>1. i + 1 \in 0 .. Capacity - 1
    BY <1>2, CapacityAssumption DEF Index
  <2>2. (i + 1) % Capacity = i + 1
    BY <2>1, CapacityAssumption, SMTT(30)
  <2>3. QED
    BY <1>2, <2>1, <2>2 DEF Index, Succ
<1>3. QED
  BY <1>1, <1>2

\* The initial ring is empty and both threads are idle.
LEMMA InitInv == Init => Inv
  BY CapacityAssumption DEF Init, Inv, TypeOK, Index

\* Every step of push preserves the invariant.
LEMMA PushPreserves == Inv /\ Push => Inv'
<1> SUFFICES ASSUME Inv, Push PROVE Inv'
  OBVIOUS
<1> USE CapacityAssumption DEF Inv, TypeOK
<1>1. ASSUME NEW v \in Values, PushBegin(v) PROVE Inv'
  BY <1>1 DEF PushBegin, Dist
<1>2. CASE PushFull
  BY <1>2 DEF PushFull, Dist
<1>3. CASE PushRoom
  BY <1>3 DEF PushRoom, Dist
<1>4. CASE PushWrite
  BY <1>4 DEF PushWrite, Dist
<1>5. CASE PushPublish
  <2>1. /\ Succ(head) \in Index
        /\ Succ(head) = IF head + 1 = Capacity THEN 0 ELSE head + 1
    BY SuccIndex
  <2>2. TypeOK'
    BY <1>5, <2>1 DEF PushPublish
  <2>3. consumer.at \in {"read", "release"} => (tail # head)'
    BY <1>5 DEF PushPublish
  <2>4. consumer.at = "clear" => (Dist(tail, consumer.slot) <= Dist(tail, head))'
    BY <1>5, <2>1 DEF PushPublish, Dist, Index
  <2>5. QED
    BY <1>5, <2>2, <2>3, <2>4 DEF PushPublish
<1>6. QED
  BY <1>1, <1>2, <1>3, <1>4, <1>5 DEF Push

\* Every step of pop preserves the invariant.
LEMMA PopPreserves == Inv /\ Pop => Inv'
<1> SUFFICES ASSUME Inv, Pop PROVE Inv'
  OBVIOUS
<1> USE CapacityAssumption DEF Inv, TypeOK
<1>1. CASE PopBegin
  BY <1>1 DEF PopBegin
<1>2. CASE PopEmpty
  BY <1>2 DEF PopEmpty
<1>3. CASE PopAvailable
  BY <1>3 DEF PopAvailable
<1>4. CASE PopRead
  BY <1>4 DEF PopRead
<1>5. CASE PopRelease
  <2>1. /\ Succ(tail) \in Index
        /\ Succ(tail) = IF tail + 1 = Capacity THEN 0 ELSE tail + 1
        /\ Succ(head) = IF head + 1 = Capacity THEN 0 ELSE head + 1
    BY SuccIndex
  <2>2. TypeOK'
    BY <1>5, <2>1 DEF PopRelease
  <2>3. producer.at \in {"write", "publish"} => (Succ(producer.slot) # tail)'
    BY <1>5, <2>1 DEF PopRelease, Index, Succ
  <2>4. QED
    BY <1>5, <2>2, <2>3 DEF PopRelease
<1>6. QED
  BY <1>1, <1>2, <1>3, <1>4, <1>5 DEF Pop

\* Every step of clear preserves the invariant.
LEMMA ClearPreserves == Inv /\ Clear => Inv'
<1> SUFFICES ASSUME Inv, Clear PROVE Inv'
  OBVIOUS
<1> USE CapacityAssumption DEF Inv, TypeOK
<1>1. CASE ClearLoad
  <2>1. TypeOK'
    BY <1>1 DEF ClearLoad
  <2>2. consumer'.slot = head /\ UNCHANGED <<producer, head, tail>>
    BY <1>1 DEF ClearLoad
  <2>3. (Dist(tail, consumer.slot) <= Dist(tail, head))'
    BY <2>2 DEF Dist, Index
  <2>4. QED
    BY <1>1, <2>1, <2>2, <2>3 DEF ClearLoad
<1>2. CASE ClearStore
  <2>1. Succ(head) = IF head + 1 = Capacity THEN 0 ELSE head + 1
    BY SuccIndex
  <2>2. producer.at \in {"write", "publish"} => (Succ(producer.slot) # tail)'
    BY <1>2, <2>1 DEF ClearStore, Dist, Index, Succ
  <2>3. QED
    BY <1>2, <2>2 DEF ClearStore
<1>3. QED
  BY <1>1, <1>2 DEF Clear

\* The invariant holds in every reachable state.
THEOREM Invariance == Spec => []Inv
<1>1. Inv /\ UNCHANGED vars => Inv'
  BY DEF Inv, TypeOK, vars, Dist, Succ, Index
<1>2. Inv /\ [Next]_vars => Inv'
  BY <1>1, PushPreserves, PopPreserves, ClearPreserves DEF Next
<1>3. QED
  BY InitInv, <1>2, PTL DEF Spec

\* Whatever the capacity, every index stays inside buffer_ and the locals of
\* push, pop and clear stay in their types.
THEOREM TypeCorrect == Spec => []TypeOK
<1>1. Inv => TypeOK
  BY DEF Inv
<1>2. QED
  BY Invariance, <1>1, PTL

\* Whatever the capacity, push never writes the slot of buffer_ that pop is
\* reading: the class needs no lock around its two non-atomic accesses.
THEOREM SlotSafety == Spec => []NoSlotRace
<1>1. Inv => NoSlotRace
  BY DEF Inv, NoSlotRace
<1>2. QED
  BY Invariance, <1>1, PTL

-----------------------------------------------------------------------------
(* The refinement of the bounded FIFO. *)

\* The i-th index from t, around the ring.
Place(t, i) == IF t + i - 1 < Capacity THEN t + i - 1 ELSE t + i - 1 - Capacity

\* The packets of b from t up to h.
Between(b, h, t) ==
    [i \in 1..((h + Capacity - t) % Capacity) |-> b[(t + i - 1) % Capacity]]

\* The remainder of a number of less than two turns.
LEMMA TurnIndex ==
    ASSUME NEW x \in 0 .. 2 * Capacity - 1
    PROVE  x % Capacity = IF x < Capacity THEN x ELSE x - Capacity
<1>1. CASE x < Capacity
  BY <1>1, CapacityAssumption, SMTT(30)
<1>2. CASE x >= Capacity
  <2>1. x - Capacity \in 0 .. Capacity - 1
    BY <1>2, CapacityAssumption
  <2>2. x = Capacity * 1 + (x - Capacity)
    BY <2>1, CapacityAssumption
  <2>3. QED
    BY <1>2, <2>1, <2>2, CapacityAssumption, SMTT(30)
<1>3. QED
  BY <1>1, <1>2, CapacityAssumption

Packets == Values \cup {Empty}

\* Contents without remainders: a sequence whose length is the distance.
Reads(b, h, t) ==
    /\ Dist(t, h) \in 0 .. Capacity - 1
    /\ Between(b, h, t) \in Seq(Packets)
    /\ Len(Between(b, h, t)) = Dist(t, h)
    /\ \A i \in 1 .. Dist(t, h) :
          /\ Place(t, i) \in Index
          /\ Between(b, h, t)[i] = b[Place(t, i)]

\* What lies between two indices can be read so.
LEMMA BetweenIsSequence ==
    ASSUME NEW b \in [Index -> Packets], NEW h \in Index, NEW t \in Index
    PROVE  Reads(b, h, t)
<1>1. h + Capacity - t \in 0 .. 2 * Capacity - 1
  BY CapacityAssumption DEF Index
<1>2. (h + Capacity - t) % Capacity = Dist(t, h) /\ Dist(t, h) \in 0 .. Capacity - 1
  <2> DEFINE x == h + Capacity - t
  <2>1. x % Capacity = IF x < Capacity THEN x ELSE x - Capacity
    BY <1>1, TurnIndex
  <2>2. x \in Nat /\ (x < Capacity <=> ~ t <= h) /\ x - Capacity = h - t
    BY CapacityAssumption DEF Index
  <2>3. x % Capacity = Dist(t, h)
    BY <2>1, <2>2 DEF Dist
  <2>4. Dist(t, h) \in 0 .. Capacity - 1
    BY CapacityAssumption DEF Dist, Index
  <2>5. QED
    BY <2>3, <2>4
<1>3. ASSUME NEW i \in 1 .. Dist(t, h)
      PROVE  (t + i - 1) % Capacity = Place(t, i) /\ Place(t, i) \in Index
  <2>1. t + i - 1 \in 0 .. 2 * Capacity - 1
    BY <1>2, CapacityAssumption DEF Index
  <2> DEFINE x == t + i - 1
  <2>2. x % Capacity = IF x < Capacity THEN x ELSE x - Capacity
    BY <2>1, TurnIndex
  <2>3. Place(t, i) = IF x < Capacity THEN x ELSE x - Capacity
    BY CapacityAssumption, <1>2 DEF Place, Index
  <2>4. Place(t, i) \in Index
    BY <1>2, CapacityAssumption DEF Place, Index
  <2>5. QED
    BY <2>2, <2>3, <2>4
<1>4. Between(b, h, t) = [i \in 1 .. Dist(t, h) |-> b[(t + i - 1) % Capacity]]
  BY <1>2 DEF Between
<1>5. ASSUME NEW i \in 1 .. Dist(t, h) PROVE b[(t + i - 1) % Capacity] \in Packets
  BY <1>3
<1>6. QED
  BY <1>2, <1>3, <1>4, <1>5 DEF Reads

\* Another packet at h, unless it would meet t, is appended.
LEMMA OneMore ==
    ASSUME NEW b \in [Index -> Packets], NEW h \in Index, NEW t \in Index, Succ(h) # t
    PROVE  Between(b, Succ(h), t) = Append(Between(b, h, t), b[h])
<1> DEFINE s == Between(b, h, t)
           d == Dist(t, h)
<1>0. Reads(b, h, t) /\ Succ(h) \in Index /\ Reads(b, Succ(h), t)
  BY SuccIndex, BetweenIsSequence
<1>1. Succ(h) \in Index /\ Succ(h) = IF h + 1 = Capacity THEN 0 ELSE h + 1
  BY SuccIndex
<1>2. /\ Dist(t, Succ(h)) = d + 1
      /\ Place(t, d + 1) = h
  BY <1>1, CapacityAssumption DEF Dist, Place, Index
<1>3. s \in Seq(Packets) /\ Len(s) = d /\ d \in Nat
  BY <1>0, CapacityAssumption DEF Reads
<1>4. /\ Append(s, b[h]) \in Seq(Packets)
      /\ Len(Append(s, b[h])) = d + 1
      /\ \A i \in 1 .. d : Append(s, b[h])[i] = s[i]
      /\ Append(s, b[h])[d + 1] = b[h]
  <2>1. b[h] \in Packets
    OBVIOUS
  <2>2. QED
    BY <1>3, <2>1, AppendProperties
<1>5. /\ Between(b, Succ(h), t) \in Seq(Packets)
      /\ Len(Between(b, Succ(h), t)) = d + 1
      /\ \A i \in 1 .. d + 1 : Between(b, Succ(h), t)[i] = b[Place(t, i)]
  BY <1>0, <1>2 DEF Reads
<1>6. \A i \in 1 .. d : s[i] = b[Place(t, i)]
  BY <1>0 DEF Reads
<1>7. ASSUME NEW i \in 1 .. d + 1
      PROVE  Between(b, Succ(h), t)[i] = Append(s, b[h])[i]
  <2>1. CASE i = d + 1
    BY <2>1, <1>2, <1>4, <1>5
  <2>2. CASE i # d + 1
    <3>1. i \in 1 .. d
      BY <2>2, <1>3
    <3>2. QED
      BY <3>1, <1>4, <1>5, <1>6
  <2>3. QED
    BY <2>1, <2>2
<1> HIDE DEF s, d
<1>8. QED
  BY <1>4, <1>5, <1>7, SeqEqual DEF s

\* The packets from u on, where u is not beyond h, are what is left when those
\* before u are discarded.
LEMMA Discarded ==
    ASSUME NEW b \in [Index -> Packets], NEW h \in Index, NEW t \in Index,
           NEW u \in Index, Dist(t, u) <= Dist(t, h)
    PROVE  Between(b, h, u) = SubSeq(Between(b, h, t), Dist(t, u) + 1, Dist(t, h))
<1> DEFINE s == Between(b, h, t)
           d == Dist(t, h)
           k == Dist(t, u)
<1>0. Reads(b, h, t) /\ Reads(b, u, t) /\ Reads(b, h, u)
  BY BetweenIsSequence
<1>1. d \in Nat /\ k \in 0 .. d /\ s \in Seq(Packets) /\ Len(s) = d
  BY <1>0, CapacityAssumption DEF Reads
<1>2. Dist(u, h) = d - k
  BY CapacityAssumption DEF Dist, Index
<1>3. ASSUME NEW i \in 1 .. d - k PROVE Place(u, i) = Place(t, k + i)
  BY <1>1, CapacityAssumption DEF Dist, Place, Index
<1>4. /\ Between(b, h, u) \in Seq(Packets)
      /\ Len(Between(b, h, u)) = d - k
      /\ \A i \in 1 .. d - k : Between(b, h, u)[i] = b[Place(u, i)]
  BY <1>0, <1>2 DEF Reads
<1>5. \A i \in 1 .. d : s[i] \in Packets /\ s[i] = b[Place(t, i)]
  BY <1>0 DEF Reads
<1> HIDE DEF s, d, k
<1>6. /\ SubSeq(s, k + 1, d) \in Seq(Packets)
      /\ Len(SubSeq(s, k + 1, d)) = d - k
      /\ \A i \in 1 .. d - k : SubSeq(s, k + 1, d)[i] = s[k + i]
  <2>1. k + 1 \in Int /\ d \in Int /\ \A i \in k + 1 .. d : s[i] \in Packets
    BY <1>1, <1>5
  <2>2. /\ SubSeq(s, k + 1, d) \in Seq(Packets)
        /\ Len(SubSeq(s, k + 1, d)) = IF k + 1 <= d THEN d - (k + 1) + 1 ELSE 0
        /\ \A i \in 1 .. d - (k + 1) + 1 : SubSeq(s, k + 1, d)[i] = s[(k + 1) + i - 1]
    BY <2>1, SubSeqProperties
  <2>3. QED
    BY <1>1, <2>2
<1>7. ASSUME NEW i \in 1 .. d - k PROVE Between(b, h, u)[i] = SubSeq(s, k + 1, d)[i]
  <2>1. k + i \in 1 .. d
    BY <1>1
  <2>2. QED
    BY <2>1, <1>3, <1>4, <1>5, <1>6
<1>8. QED
  BY <1>4, <1>6, <1>7, SeqEqual DEF s, d, k

\* What is written at h is not among the packets.
LEMMA SlotIsFree ==
    ASSUME NEW b \in [Index -> Packets], NEW h \in Index, NEW t \in Index, NEW v \in Packets
    PROVE  Between([b EXCEPT ![h] = v], h, t) = Between(b, h, t)
<1> DEFINE c == [b EXCEPT ![h] = v]
<1>1. c \in [Index -> Packets]
  OBVIOUS
<1>0. Reads(b, h, t) /\ Reads(c, h, t)
  BY <1>1, BetweenIsSequence
<1>2. ASSUME NEW i \in 1 .. Dist(t, h) PROVE Place(t, i) \in Index /\ Place(t, i) # h
  BY <1>0, CapacityAssumption DEF Reads, Dist, Place, Index
<1>3. \A i \in 1 .. Dist(t, h) : c[Place(t, i)] = b[Place(t, i)]
  BY <1>2
<1>4. /\ Between(c, h, t) \in Seq(Packets)
      /\ Len(Between(c, h, t)) = Dist(t, h)
      /\ \A i \in 1 .. Dist(t, h) : Between(c, h, t)[i] = c[Place(t, i)]
  BY <1>0 DEF Reads
<1>5. /\ Between(b, h, t) \in Seq(Packets)
      /\ Len(Between(b, h, t)) = Dist(t, h)
      /\ \A i \in 1 .. Dist(t, h) : Between(b, h, t)[i] = b[Place(t, i)]
  BY <1>0 DEF Reads
<1> HIDE DEF c
<1>6. Between(c, h, t) = Between(b, h, t)
  BY <1>3, <1>4, <1>5, SeqEqual
<1>7. QED
  BY <1>6 DEF c

\* What else the threads know: a packet that is pushed is in its slot before it is
\* published, and what pop has read is still the oldest packet.
Known ==
    /\ producer.at # "idle" => producer.value \in Values
    /\ producer.at = "publish" => buffer[head] = producer.value
    /\ consumer.at = "release" => consumer.value = buffer[tail]

\* Every step keeps it: only the producer writes slots, and never the oldest one.
LEMMA KnownPreserved == Inv /\ Known /\ [Next]_vars => Known'
<1> SUFFICES ASSUME Inv, Known, [Next]_vars PROVE Known'
  OBVIOUS
<1> USE DEF Known
<1>1. CASE Push
  <2>1. CASE \E v \in Values : PushBegin(v)
    BY <2>1 DEF PushBegin, Inv, TypeOK
  <2>2. CASE PushFull
    BY <2>2 DEF PushFull, Inv, TypeOK
  <2>3. CASE PushRoom
    BY <2>3 DEF PushRoom, Inv, TypeOK
  <2>4. CASE PushWrite
    BY <2>4 DEF PushWrite, Inv, TypeOK
  <2>5. CASE PushPublish
    BY <2>5 DEF PushPublish, Inv, TypeOK
  <2>6. QED
    BY <1>1, <2>1, <2>2, <2>3, <2>4, <2>5 DEF Push
<1>2. CASE Pop
  <2>1. CASE PopBegin
    BY <2>1 DEF PopBegin, Inv, TypeOK
  <2>2. CASE PopEmpty
    BY <2>2 DEF PopEmpty, Inv, TypeOK
  <2>3. CASE PopAvailable
    BY <2>3 DEF PopAvailable, Inv, TypeOK
  <2>4. CASE PopRead
    BY <2>4 DEF PopRead, Inv, TypeOK
  <2>5. CASE PopRelease
    BY <2>5 DEF PopRelease, Inv, TypeOK
  <2>6. QED
    BY <1>2, <2>1, <2>2, <2>3, <2>4, <2>5 DEF Pop
<1>3. CASE Clear
  BY <1>3 DEF Clear, ClearLoad, ClearStore, Inv, TypeOK
<1>4. CASE UNCHANGED vars
  BY <1>4 DEF vars
<1>5. QED
  BY <1>1, <1>2, <1>3, <1>4 DEF Next

\* The mapping reads what lies between the two indices, before and after a step.
LEMMA ContentsAreBetween ==
    /\ Contents = Between(buffer, head, tail)
    /\ Contents' = Between(buffer', head', tail')
  BY DEF Contents, Between

\* The empty ring maps to the empty queue.
LEMMA InitMaps == Init => Fifo!FifoInit
<1> SUFFICES ASSUME Init PROVE Fifo!FifoInit
  OBVIOUS
<1>1. Reads(buffer, head, tail)
  BY BetweenIsSequence, CapacityAssumption DEF Init, Index, Packets
<1>2. Contents \in Seq(Packets) /\ Len(Contents) = 0
  BY <1>1, ContentsAreBetween DEF Init, Reads, Dist
<1>3. Contents = <<>>
  BY <1>2, EmptySeq
<1>4. QED
  BY <1>3 DEF Init, Fifo!FifoInit

\* The queue changes when an index is published, and every reply is its own.
LEMMA StepMaps ==
    ASSUME Inv, Known, Inv', [Next]_vars
    PROVE  [Fifo!FifoNext]_(Fifo!fifoVars)
<1> DEFINE d == Dist(tail, head)
<1>0. /\ buffer \in [Index -> Packets] /\ head \in Index /\ tail \in Index
      /\ head' \in Index /\ tail' \in Index
  BY DEF Inv, TypeOK, Packets
<1>1. Reads(buffer, head, tail)
  BY <1>0, BetweenIsSequence
<1>2. Contents \in Seq(Packets) /\ Len(Contents) = d /\ d \in 0 .. Capacity - 1
  BY <1>1, ContentsAreBetween DEF Reads
<1>a. ASSUME UNCHANGED <<buffer, head, tail, pushReply, popReply>>
      PROVE  UNCHANGED Fifo!fifoVars
  BY <1>a, ContentsAreBetween DEF Fifo!fifoVars
<1>3. CASE Push
  <2>1. CASE \E v \in Values : PushBegin(v)
    BY <2>1, <1>a DEF PushBegin
  <2>2. CASE PushFull
    <3>1. Contents' = Contents
      BY <2>2, ContentsAreBetween DEF PushFull
    <3>2. d = Capacity - 1
      BY <2>2, SuccIndex, <1>0, CapacityAssumption DEF PushFull, Inv, Dist, Index
    <3>3. Fifo!RefuseEnqueue
      BY <2>2, <1>2, <3>1, <3>2 DEF PushFull, Fifo!RefuseEnqueue
    <3>4. QED
      BY <3>3 DEF Fifo!FifoNext
  <2>3. CASE PushRoom
    BY <2>3, <1>a DEF PushRoom
  <2>4. CASE PushWrite
    <3>1. buffer' = [buffer EXCEPT ![head] = producer.value]
      BY <2>4 DEF PushWrite, Inv
    <3>2. producer.value \in Packets
      BY DEF Inv, TypeOK, Packets
    <3>3. Contents' = Contents
      <4>1. Between(buffer', head, tail) = Between(buffer, head, tail)
        BY <1>0, <3>1, <3>2, SlotIsFree
      <4>2. UNCHANGED <<head, tail>>
        BY <2>4 DEF PushWrite
      <4>3. QED
        BY <4>1, <4>2, ContentsAreBetween
    <3>4. QED
      BY <2>4, <3>3 DEF PushWrite, Fifo!fifoVars
  <2>5. CASE PushPublish
    <3>1. head' = Succ(head) /\ Succ(head) # tail /\ UNCHANGED <<buffer, tail, popReply>>
      BY <2>5 DEF PushPublish, Inv
    <3>2. Contents' = Append(Contents, buffer[head])
      BY <3>1, <1>0, OneMore, ContentsAreBetween
    <3>3. buffer[head] \in Values
      BY <2>5 DEF PushPublish, Known
    <3>4. d + 1 \in 0 .. Capacity - 1
      <4>1. d # Capacity - 1
        BY <3>1, <1>0, SuccIndex, CapacityAssumption DEF Dist, Index
      <4>2. QED
        BY <4>1, <1>2, CapacityAssumption
    <3>5. Fifo!Enqueue(buffer[head])
      BY <2>5, <1>2, <3>1, <3>2, <3>4, CapacityAssumption DEF PushPublish, Fifo!Enqueue
    <3>6. QED
      BY <3>3, <3>5 DEF Fifo!FifoNext
  <2>6. QED
    BY <1>3, <2>1, <2>2, <2>3, <2>4, <2>5 DEF Push
<1>4. CASE Pop
  <2>1. CASE PopBegin
    BY <2>1, <1>a DEF PopBegin
  <2>2. CASE PopEmpty
    <3>1. Contents' = Contents /\ d = 0
      BY <2>2, ContentsAreBetween, <1>0 DEF PopEmpty, Inv, Dist, Index
    <3>2. Contents = <<>>
      BY <1>2, <3>1, EmptySeq
    <3>3. Fifo!RefuseDequeue
      BY <2>2, <3>1, <3>2 DEF PopEmpty, Fifo!RefuseDequeue
    <3>4. QED
      BY <3>3 DEF Fifo!FifoNext
  <2>3. CASE PopAvailable
    BY <2>3, <1>a DEF PopAvailable
  <2>4. CASE PopRead
    BY <2>4, <1>a DEF PopRead
  <2>5. CASE PopRelease
    <3>1. /\ tail' = Succ(tail) /\ tail # head /\ consumer.value = buffer[tail]
          /\ UNCHANGED <<buffer, head, pushReply>>
      BY <2>5 DEF PopRelease, Inv, Known
    <3>2. /\ Succ(tail) \in Index
          /\ Dist(tail, Succ(tail)) = IF Capacity = 1 THEN 0 ELSE 1
          /\ d # 0
      <4>1. Succ(tail) \in Index /\ Succ(tail) = IF tail + 1 = Capacity THEN 0 ELSE tail + 1
        BY <1>0, SuccIndex
      <4>2. Dist(tail, Succ(tail)) = IF Capacity = 1 THEN 0 ELSE 1
        BY <4>1, <1>0, CapacityAssumption DEF Dist, Index
      <4>3. d # 0
        BY <3>1, <1>0, CapacityAssumption DEF Dist, Index
      <4>4. QED
        BY <4>1, <4>2, <4>3
    <3>3. Dist(tail, Succ(tail)) = 1 /\ 1 <= d
      BY <3>2, <1>2, CapacityAssumption
    <3>4. Contents' = SubSeq(Contents, 2, Len(Contents))
      <4>1. Between(buffer, head, Succ(tail))
              = SubSeq(Between(buffer, head, tail), Dist(tail, Succ(tail)) + 1, Dist(tail, head))
        BY <3>2, <3>3, <1>0, Discarded
      <4>2. Contents' = SubSeq(Contents, 1 + 1, Len(Contents))
        BY <4>1, <3>1, <3>3, <1>2, ContentsAreBetween
      <4>3. QED
        BY <4>2
    <3>5. Contents # <<>>
      BY <1>2, <3>3, EmptySeq
    <3>6. Contents' = Tail(Contents)
      BY <1>2, <3>4, <3>5, TailIsSubSeq
    <3>7. Head(Contents) = buffer[tail]
      <4>1. Contents[1] = buffer[Place(tail, 1)]
        BY <1>1, <1>2, <3>3, ContentsAreBetween DEF Reads
      <4>2. Place(tail, 1) = tail
        BY <1>0, CapacityAssumption DEF Place, Index
      <4>3. QED
        BY <4>1, <4>2, <1>2, <3>5
    <3>8. Fifo!Dequeue
      BY <2>5, <3>1, <3>5, <3>6, <3>7 DEF PopRelease, Fifo!Dequeue
    <3>9. QED
      BY <3>8 DEF Fifo!FifoNext
  <2>6. QED
    BY <1>4, <2>1, <2>2, <2>3, <2>4, <2>5 DEF Pop
<1>5. CASE Clear
  <2>1. CASE ClearLoad
    BY <2>1, <1>a DEF ClearLoad
  <2>2. CASE ClearStore
    <3> DEFINE k == Dist(tail, consumer.slot)
    <3>1. /\ tail' = consumer.slot /\ consumer.slot \in Index /\ k <= d
          /\ UNCHANGED <<buffer, head, pushReply, popReply>>
      BY <2>2 DEF ClearStore, Inv, TypeOK
    <3>2. k \in 0 .. d
      BY <3>1, <1>0, <1>2, CapacityAssumption DEF Dist, Index
    <3>3. Contents' = SubSeq(Contents, k + 1, Len(Contents))
      BY <3>1, <1>0, <1>2, Discarded, ContentsAreBetween
    <3>4. Fifo!DiscardPrefix
      BY <1>2, <3>1, <3>2, <3>3 DEF Fifo!DiscardPrefix
    <3>5. QED
      BY <3>4 DEF Fifo!FifoNext
  <2>3. QED
    BY <1>5, <2>1, <2>2 DEF Clear
<1>6. CASE UNCHANGED vars
  BY <1>6, <1>a DEF vars
<1>7. QED
  BY <1>3, <1>4, <1>5, <1>6 DEF Next

\* Whatever the capacity and whatever the interleaving of push, pop and clear, the
\* ring buffer is a bounded FIFO.
THEOREM Refinement == Spec => ImplementsFifo
<1>1. Init => Known
  BY DEF Init, Known
<1>2. QED
  BY Invariance, InitMaps, StepMaps, KnownPreserved, <1>1, PTL DEF Spec, ImplementsFifo, Fifo!FifoSpec

=============================================================================
