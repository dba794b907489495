---------------------- MODULE SharedMemoryQueueProofs ----------------------
(***************************************************************************)
(* Proofs about the shared-memory queue, for every depth, every number of  *)
(* words in a payload and every number of pushes.                          *)
(***************************************************************************)
EXTENDS SharedMemoryQueue, SequenceTheorems, TLAPS

\* Inside a push the loaded tail is the tail, the slot it selects is free, and
\* the words already copied are the new payload's.
ProducerInv ==
  /\ pc[Prod] \in {"push_head", "push_copy"} => t[Prod] = tail /\ tail < MaxPush
  /\ pc[Prod] = "push_copy" =>
       /\ tail - head < RingDepth
       /\ h[Prod] <= head
       /\ \A w \in Words \ todo[Prod] : slots[Slot(tail)][w] = tail

\* Inside read_front the loaded head is the head, the queue is not empty once
\* that was seen, and the words already copied are the oldest payload's.
ConsumerInv ==
  /\ pc[Cons] \in {"front_tail", "front_copy"} => h[Cons] = head
  /\ pc[Cons] = "front_copy" =>
       /\ head < tail
       /\ \A w \in Words \ todo[Cons] : buf[w] = head

\* A probe between its two loads holds a value the counter once had; the
\* consumer's own head has not moved since.
ProbeInv ==
  /\ \A c \in Callers : pc[c] = "full_tail" => h[c] <= head
  /\ pc[Cons] = "empty_head" => head <= t[Cons] /\ t[Cons] <= tail

IInv ==
  /\ QueueTypeOK
  /\ RingHoldsUnread
  /\ PopsInOrder
  /\ ProducerInv
  /\ ConsumerInv
  /\ ProbeInv
  /\ ProbesStayTrue
-----------------------------------------------------------------------------
\* Two counters less than RingDepth apart select the same slot only if equal.
LEMMA SlotInjective ==
  ASSUME NEW i \in Nat, NEW j \in Nat, i <= j, j - i < RingDepth, Slot(i) = Slot(j)
  PROVE  i = j
<1> DEFINE a == i \div RingDepth
           b == j \div RingDepth
<1>1. RingDepth \in Nat /\ RingDepth > 0
  BY QueueAssumption
<1>2. /\ a \in Int /\ b \in Int
      /\ i = RingDepth * a + Slot(i)
      /\ j = RingDepth * b + Slot(j)
      /\ Slot(i) \in Int
  BY <1>1 DEF Slot
<1> HIDE DEF a, b
<1>3. j - i = RingDepth * (b - a)
  BY <1>1, <1>2
<1>4. b - a \in Int /\ (b - a >= 1 => RingDepth * (b - a) >= RingDepth)
  BY <1>1, <1>2
<1>5. b - a <= -1 => RingDepth * (b - a) <= -RingDepth
  BY <1>1, <1>2
<1>6. b - a = 0
  BY <1>1, <1>2, <1>3, <1>4, <1>5
<1> QED BY <1>1, <1>3, <1>6

\* A counter selects a slot of the ring.
LEMMA SlotInRing == ASSUME NEW i \in Nat PROVE Slot(i) \in 0..RingDepth-1
<1>1. RingDepth \in Nat \ {0}
  BY QueueAssumption
<1> QED BY <1>1, SMT DEF Slot

\* A created queue satisfies the inductive invariant.
LEMMA InitInv == QueueInit => IInv
<1> SUFFICES ASSUME QueueInit PROVE IInv
  OBVIOUS
<1> USE QueueAssumption DEF QueueInit, Callers, Prod, Cons, Obs
<1>1. QueueTypeOK
  BY DEF QueueTypeOK, Zeroed
<1>2. RingHoldsUnread /\ PopsInOrder
  BY DEF RingHoldsUnread, PopsInOrder
<1>3. ProducerInv /\ ConsumerInv /\ ProbeInv /\ ProbesStayTrue
  BY DEF ProducerInv, ConsumerInv, ProbeInv, ProbesStayTrue
<1> QED BY <1>1, <1>2, <1>3 DEF IInv

\* Every step of every caller keeps the types.
LEMMA TypeStep == QueueTypeOK /\ [QueueNext]_queueVars => QueueTypeOK'
<1> SUFFICES ASSUME QueueTypeOK, [QueueNext]_queueVars PROVE QueueTypeOK'
  OBVIOUS
<1> USE QueueAssumption DEF QueueTypeOK, Callers, Prod, Cons, Obs, Goto, LoadHead, LoadTail, Learn, regs
<1>1. CASE PushLoadTail
  BY <1>1 DEF PushLoadTail
<1>2. CASE PushFull
  BY <1>2 DEF PushFull
<1>3. CASE PushRoom
  BY <1>3 DEF PushRoom
<1>4. CASE PushPublish
  <2>1. tail' \in Nat /\ probe' \in [{Prod, Cons} -> {"nothing", "room", "data"}]
    BY <1>4 DEF PushPublish
  <2> QED BY <1>4, <2>1 DEF PushPublish
<1>5. ASSUME NEW w \in Words, PushCopy(w) PROVE QueueTypeOK'
  <2>1. Slot(t[Prod]) \in 0..RingDepth-1
    BY SlotInRing
  <2> QED BY <1>5, <2>1 DEF PushCopy
<1>6. CASE FrontLoadHead
  BY <1>6 DEF FrontLoadHead
<1>7. CASE FrontEmpty
  BY <1>7 DEF FrontEmpty
<1>8. CASE FrontPresent
  BY <1>8 DEF FrontPresent
<1>9. CASE PopAdvance
  BY <1>9 DEF PopAdvance
<1>10. CASE PeekDone
  BY <1>10 DEF PeekDone
<1>11. ASSUME NEW w \in Words, FrontCopy(w) PROVE QueueTypeOK'
  <2>1. Slot(h[Cons]) \in 0..RingDepth-1
    BY SlotInRing
  <2> QED BY <1>11, <2>1 DEF FrontCopy
<1>12. ASSUME NEW c \in Callers, IsFullLoadHead(c) PROVE QueueTypeOK'
  BY <1>12 DEF IsFullLoadHead
<1>13. ASSUME NEW c \in Callers, IsFullLoadTail(c) PROVE QueueTypeOK'
  BY <1>13 DEF IsFullLoadTail
<1>14. ASSUME NEW c \in Callers, IsEmptyLoadTail(c) PROVE QueueTypeOK'
  BY <1>14 DEF IsEmptyLoadTail
<1>15. ASSUME NEW c \in Callers, IsEmptyLoadHead(c) PROVE QueueTypeOK'
  BY <1>15 DEF IsEmptyLoadHead
<1>16. CASE UNCHANGED queueVars
  BY <1>16 DEF queueVars
<1> QED
  BY <1>1, <1>2, <1>3, <1>4, <1>5, <1>6, <1>7, <1>8, <1>9, <1>10, <1>11, <1>12,
     <1>13, <1>14, <1>15, <1>16 DEF QueueNext

\* Copying a word of the new payload into the tail's slot touches no payload
\* that the consumer has still to read.
LEMMA CopyStep ==
  ASSUME IInv, QueueTypeOK', NEW w \in Words, PushCopy(w)
  PROVE  IInv'
<1> USE QueueAssumption DEF IInv, QueueTypeOK, Callers, Prod, Cons, Obs
<1> DEFINE free == Slot(tail)
<1>1. /\ t[Prod] = tail /\ tail - head < RingDepth
      /\ slots' = [slots EXCEPT ![free][w] = tail]
      /\ UNCHANGED <<tail, head, pc, h, t, buf, probe, popped>>
      /\ todo' = [todo EXCEPT ![Prod] = @ \ {w}]
  BY DEF PushCopy, ProducerInv
<1>2. free \in 0..RingDepth-1
  BY SlotInRing
<1>3. \A i \in head..tail-1 : Slot(i) # free /\ Slot(i) \in 0..RingDepth-1
  <2> SUFFICES ASSUME NEW i \in head..tail-1
               PROVE  Slot(i) # Slot(tail) /\ Slot(i) \in 0..RingDepth-1
    OBVIOUS
  <2>1. i \in Nat /\ i <= tail /\ tail - i < RingDepth /\ i # tail
    BY <1>1
  <2> QED BY <2>1, SlotInjective, SlotInRing
<1> HIDE DEF free
<1>4. RingHoldsUnread'
  BY <1>1, <1>2, <1>3 DEF RingHoldsUnread, Whole
<1>5. ProducerInv'
  <2>1. pc[Prod] = "push_copy"
    BY DEF PushCopy
  <2>2. \A v \in Words \ todo'[Prod] : slots'[free][v] = tail
    BY <1>1, <1>2, <2>1 DEF ProducerInv, free
  <2> QED BY <1>1, <2>1, <2>2 DEF ProducerInv, free
<1>6. ConsumerInv' /\ ProbeInv' /\ ProbesStayTrue' /\ PopsInOrder'
  BY <1>1 DEF ConsumerInv, ProbeInv, ProbesStayTrue, PopsInOrder, Whole
<1> QED BY <1>4, <1>5, <1>6

\* Publishing a fully copied payload extends the unread part of the ring by it.
LEMMA PublishStep ==
  ASSUME IInv, QueueTypeOK', PushPublish
  PROVE  IInv'
<1> USE QueueAssumption DEF IInv, QueueTypeOK, Callers, Prod, Cons, Obs, regs
<1>1. /\ t[Prod] = tail /\ tail - head < RingDepth /\ h[Prod] <= head
      /\ tail' = tail + 1
      /\ UNCHANGED <<head, slots, h, t, todo, buf, popped>>
      /\ pc' = [pc EXCEPT ![Prod] = "idle"]
      /\ probe' = [probe EXCEPT ![Prod] =
                     IF tail + 1 - h[Prod] >= RingDepth THEN "nothing" ELSE "room"]
  BY DEF PushPublish, ProducerInv, Goto, Learn
<1>2. slots[Slot(tail)] = Whole(tail)
  BY SlotInRing DEF PushPublish, ProducerInv, Whole
<1>3. RingHoldsUnread'
  <2>1. ASSUME NEW i \in head'..tail'-1 PROVE slots'[Slot(i)] = Whole(i)
    <3>1. i = tail \/ i \in head..tail-1
      BY <1>1
    <3> QED BY <1>1, <1>2, <3>1 DEF RingHoldsUnread
  <2>2. head' <= tail' /\ tail' - head' <= RingDepth
    BY <1>1 DEF RingHoldsUnread
  <2> QED BY <2>1, <2>2 DEF RingHoldsUnread, Whole
<1>4. ProducerInv' /\ ConsumerInv' /\ ProbeInv' /\ PopsInOrder'
  BY <1>1 DEF ProducerInv, ConsumerInv, ProbeInv, PopsInOrder, Whole, RingHoldsUnread
<1>5. ProbesStayTrue'
  BY <1>1 DEF ProbesStayTrue, RingHoldsUnread
<1> QED BY <1>3, <1>4, <1>5

\* Reading a word of the oldest payload reads that payload's word.
LEMMA ReadStep ==
  ASSUME IInv, QueueTypeOK', NEW w \in Words, FrontCopy(w)
  PROVE  IInv'
<1> USE QueueAssumption DEF IInv, QueueTypeOK, Callers, Prod, Cons, Obs
<1>1. /\ h[Cons] = head /\ head < tail
      /\ buf' = [buf EXCEPT ![w] = slots[Slot(head)][w]]
      /\ todo' = [todo EXCEPT ![Cons] = @ \ {w}]
      /\ UNCHANGED <<tail, head, slots, pc, h, t, probe, popped>>
  BY DEF FrontCopy, ConsumerInv
<1>2. slots[Slot(head)][w] = head
  <2>1. head \in head..tail-1
    BY <1>1
  <2>2. slots[Slot(head)] = Whole(head)
    BY <2>1 DEF RingHoldsUnread
  <2> QED BY <2>2 DEF Whole
<1>3. ConsumerInv'
  BY <1>1, <1>2 DEF ConsumerInv, FrontCopy
<1>4. RingHoldsUnread' /\ PopsInOrder' /\ ProducerInv' /\ ProbeInv' /\ ProbesStayTrue'
  BY <1>1 DEF RingHoldsUnread, PopsInOrder, ProducerInv, ProbeInv, ProbesStayTrue, Whole
<1> QED BY <1>3, <1>4

\* Releasing the slot of a fully read payload hands that payload over.
LEMMA ReleaseStep ==
  ASSUME IInv, QueueTypeOK', PopAdvance
  PROVE  IInv'
<1> USE QueueAssumption DEF IInv, QueueTypeOK, Callers, Prod, Cons, Obs, regs
<1>1. /\ h[Cons] = head /\ head < tail
      /\ head' = head + 1
      /\ popped' = Append(popped, buf)
      /\ UNCHANGED <<tail, slots, h, t, todo, buf>>
      /\ pc' = [pc EXCEPT ![Cons] = "idle"]
      /\ probe' = [probe EXCEPT ![Cons] = "nothing"]
  BY DEF PopAdvance, ConsumerInv, Goto, Learn
<1>2. buf = Whole(head)
  BY DEF PopAdvance, ConsumerInv, Whole
<1>3. PopsInOrder'
  <2>1. Len(popped') = head + 1 /\ Len(popped) = head
    BY <1>1 DEF PopsInOrder
  <2>2. ASSUME NEW i \in 1..head' PROVE popped'[i] = Whole(i - 1)
    <3>1. CASE i \in 1..head
      BY <1>1, <2>1, <3>1 DEF PopsInOrder
    <3>2. CASE i = head + 1
      <4>1. i - 1 = head /\ i = Len(popped) + 1
        BY <2>1, <3>2
      <4>2. popped'[Len(popped) + 1] = buf
        BY <1>1
      <4>3. popped'[i] = Whole(head)
        BY <1>2, <4>1, <4>2
      <4> QED BY <4>1, <4>3
    <3>3. i \in 1..head \/ i = head + 1
      BY <1>1
    <3> QED BY <3>1, <3>2, <3>3
  <2> QED BY <1>1, <2>1, <2>2 DEF PopsInOrder, Whole
<1>4. RingHoldsUnread' /\ ProducerInv' /\ ConsumerInv' /\ ProbeInv' /\ ProbesStayTrue'
  BY <1>1 DEF RingHoldsUnread, ProducerInv, ConsumerInv, ProbeInv, ProbesStayTrue, Whole
<1> QED BY <1>3, <1>4

\* Every step of every caller keeps the inductive invariant.  The steps that
\* only load a counter keep it because a counter read once bounds the counter
\* from below; copying, publishing, reading and releasing are proved above.
LEMMA NextInv == IInv /\ [QueueNext]_queueVars => IInv'
<1> SUFFICES ASSUME IInv, [QueueNext]_queueVars PROVE IInv'
  OBVIOUS
<1> /\ QueueTypeOK /\ QueueTypeOK' /\ RingHoldsUnread /\ PopsInOrder
    /\ ProducerInv /\ ConsumerInv /\ ProbeInv /\ ProbesStayTrue
  BY TypeStep DEF IInv
<1>a. ASSUME UNCHANGED <<tail, head, slots, popped>> PROVE RingHoldsUnread' /\ PopsInOrder'
  <2>1. RingHoldsUnread'
    BY <1>a DEF RingHoldsUnread, Whole, Slot
  <2>2. PopsInOrder'
    BY <1>a DEF PopsInOrder, Whole
  <2> QED BY <2>1, <2>2
<1> USE QueueAssumption DEF QueueTypeOK, Callers, Prod, Cons, Obs, Goto, LoadHead, LoadTail, Learn
<1>1. CASE PushLoadTail
  <2>1. RingHoldsUnread' /\ PopsInOrder'
    BY <1>1, <1>a DEF PushLoadTail
  <2>2. ProducerInv'
    BY <1>1 DEF PushLoadTail, ProducerInv, RingHoldsUnread
  <2>3. ConsumerInv'
    BY <1>1 DEF PushLoadTail, ConsumerInv, RingHoldsUnread
  <2>4. ProbeInv'
    BY <1>1 DEF PushLoadTail, ProbeInv, RingHoldsUnread
  <2>5. ProbesStayTrue'
    BY <1>1 DEF PushLoadTail, ProbesStayTrue, ProbeInv, RingHoldsUnread, ConsumerInv
  <2> QED BY <2>1, <2>2, <2>3, <2>4, <2>5 DEF IInv
<1>2. CASE PushFull
  <2>1. RingHoldsUnread' /\ PopsInOrder'
    BY <1>2, <1>a DEF PushFull
  <2>2. ProducerInv'
    BY <1>2 DEF PushFull, ProducerInv, RingHoldsUnread
  <2>3. ConsumerInv'
    BY <1>2 DEF PushFull, ConsumerInv, RingHoldsUnread
  <2>4. ProbeInv'
    BY <1>2 DEF PushFull, ProbeInv, RingHoldsUnread
  <2>5. ProbesStayTrue'
    BY <1>2 DEF PushFull, ProbesStayTrue, ProbeInv, RingHoldsUnread, ConsumerInv
  <2> QED BY <2>1, <2>2, <2>3, <2>4, <2>5 DEF IInv
<1>3. CASE PushRoom
  <2>1. RingHoldsUnread' /\ PopsInOrder'
    BY <1>3, <1>a DEF PushRoom
  <2>2. ProducerInv'
    BY <1>3 DEF PushRoom, ProducerInv, RingHoldsUnread
  <2>3. ConsumerInv'
    BY <1>3 DEF PushRoom, ConsumerInv, RingHoldsUnread
  <2>4. ProbeInv'
    BY <1>3 DEF PushRoom, ProbeInv, RingHoldsUnread
  <2>5. ProbesStayTrue'
    BY <1>3 DEF PushRoom, ProbesStayTrue, ProbeInv, RingHoldsUnread, ConsumerInv
  <2> QED BY <2>1, <2>2, <2>3, <2>4, <2>5 DEF IInv
<1>4. CASE PushPublish
  BY <1>4, PublishStep
<1>5. ASSUME NEW w \in Words, PushCopy(w) PROVE IInv'
  BY <1>5, CopyStep
<1>6. CASE FrontLoadHead
  <2>1. RingHoldsUnread' /\ PopsInOrder'
    BY <1>6, <1>a DEF FrontLoadHead
  <2>2. ProducerInv'
    BY <1>6 DEF FrontLoadHead, ProducerInv, RingHoldsUnread
  <2>3. ConsumerInv'
    BY <1>6 DEF FrontLoadHead, ConsumerInv, RingHoldsUnread
  <2>4. ProbeInv'
    BY <1>6 DEF FrontLoadHead, ProbeInv, RingHoldsUnread
  <2>5. ProbesStayTrue'
    BY <1>6 DEF FrontLoadHead, ProbesStayTrue, ProbeInv, RingHoldsUnread, ConsumerInv
  <2> QED BY <2>1, <2>2, <2>3, <2>4, <2>5 DEF IInv
<1>7. CASE FrontEmpty
  <2>1. RingHoldsUnread' /\ PopsInOrder'
    BY <1>7, <1>a DEF FrontEmpty
  <2>2. ProducerInv'
    BY <1>7 DEF FrontEmpty, ProducerInv, RingHoldsUnread
  <2>3. ConsumerInv'
    BY <1>7 DEF FrontEmpty, ConsumerInv, RingHoldsUnread
  <2>4. ProbeInv'
    BY <1>7 DEF FrontEmpty, ProbeInv, RingHoldsUnread
  <2>5. ProbesStayTrue'
    BY <1>7 DEF FrontEmpty, ProbesStayTrue, ProbeInv, RingHoldsUnread, ConsumerInv
  <2> QED BY <2>1, <2>2, <2>3, <2>4, <2>5 DEF IInv
<1>8. CASE FrontPresent
  <2>1. RingHoldsUnread' /\ PopsInOrder'
    BY <1>8, <1>a DEF FrontPresent
  <2>2. ProducerInv'
    BY <1>8 DEF FrontPresent, ProducerInv, RingHoldsUnread
  <2>3. ConsumerInv'
    BY <1>8 DEF FrontPresent, ConsumerInv, RingHoldsUnread
  <2>4. ProbeInv'
    BY <1>8 DEF FrontPresent, ProbeInv, RingHoldsUnread
  <2>5. ProbesStayTrue'
    BY <1>8 DEF FrontPresent, ProbesStayTrue, ProbeInv, RingHoldsUnread, ConsumerInv
  <2> QED BY <2>1, <2>2, <2>3, <2>4, <2>5 DEF IInv
<1>9. CASE PopAdvance
  BY <1>9, ReleaseStep
<1>10. CASE PeekDone
  <2>1. RingHoldsUnread' /\ PopsInOrder'
    BY <1>10, <1>a DEF PeekDone, regs
  <2>2. ProducerInv'
    BY <1>10 DEF PeekDone, regs, ProducerInv, RingHoldsUnread
  <2>3. ConsumerInv'
    BY <1>10 DEF PeekDone, regs, ConsumerInv, RingHoldsUnread
  <2>4. ProbeInv'
    BY <1>10 DEF PeekDone, regs, ProbeInv, RingHoldsUnread
  <2>5. ProbesStayTrue'
    BY <1>10 DEF PeekDone, regs, ProbesStayTrue, ProbeInv, RingHoldsUnread, ConsumerInv
  <2> QED BY <2>1, <2>2, <2>3, <2>4, <2>5 DEF IInv
<1>11. ASSUME NEW w \in Words, FrontCopy(w) PROVE IInv'
  BY <1>11, ReadStep
<1>12. ASSUME NEW c \in Callers, IsFullLoadHead(c) PROVE IInv'
  <2>1. RingHoldsUnread' /\ PopsInOrder'
    BY <1>12, <1>a DEF IsFullLoadHead
  <2>2. ProducerInv'
    BY <1>12 DEF IsFullLoadHead, ProducerInv, RingHoldsUnread
  <2>3. ConsumerInv'
    BY <1>12 DEF IsFullLoadHead, ConsumerInv, RingHoldsUnread
  <2>4. ProbeInv'
    BY <1>12 DEF IsFullLoadHead, ProbeInv, RingHoldsUnread
  <2>5. ProbesStayTrue'
    BY <1>12 DEF IsFullLoadHead, ProbesStayTrue, ProbeInv, RingHoldsUnread, ConsumerInv
  <2> QED BY <2>1, <2>2, <2>3, <2>4, <2>5 DEF IInv
<1>13. ASSUME NEW c \in Callers, IsFullLoadTail(c) PROVE IInv'
  <2>1. RingHoldsUnread' /\ PopsInOrder'
    BY <1>13, <1>a DEF IsFullLoadTail
  <2>2. ProducerInv'
    BY <1>13 DEF IsFullLoadTail, ProducerInv, RingHoldsUnread
  <2>3. ConsumerInv'
    BY <1>13 DEF IsFullLoadTail, ConsumerInv, RingHoldsUnread
  <2>4. ProbeInv'
    BY <1>13 DEF IsFullLoadTail, ProbeInv, RingHoldsUnread
  <2>5. ProbesStayTrue'
    BY <1>13 DEF IsFullLoadTail, ProbesStayTrue, ProbeInv, RingHoldsUnread, ConsumerInv
  <2> QED BY <2>1, <2>2, <2>3, <2>4, <2>5 DEF IInv
<1>14. ASSUME NEW c \in Callers, IsEmptyLoadTail(c) PROVE IInv'
  <2>1. RingHoldsUnread' /\ PopsInOrder'
    BY <1>14, <1>a DEF IsEmptyLoadTail
  <2>2. ProducerInv'
    BY <1>14 DEF IsEmptyLoadTail, ProducerInv, RingHoldsUnread
  <2>3. ConsumerInv'
    BY <1>14 DEF IsEmptyLoadTail, ConsumerInv, RingHoldsUnread
  <2>4. ProbeInv'
    BY <1>14 DEF IsEmptyLoadTail, ProbeInv, RingHoldsUnread
  <2>5. ProbesStayTrue'
    BY <1>14 DEF IsEmptyLoadTail, ProbesStayTrue, ProbeInv, RingHoldsUnread, ConsumerInv
  <2> QED BY <2>1, <2>2, <2>3, <2>4, <2>5 DEF IInv
<1>15. ASSUME NEW c \in Callers, IsEmptyLoadHead(c) PROVE IInv'
  <2>1. RingHoldsUnread' /\ PopsInOrder'
    BY <1>15, <1>a DEF IsEmptyLoadHead
  <2>2. ProducerInv'
    BY <1>15 DEF IsEmptyLoadHead, ProducerInv, RingHoldsUnread
  <2>3. ConsumerInv'
    BY <1>15 DEF IsEmptyLoadHead, ConsumerInv, RingHoldsUnread
  <2>4. ProbeInv'
    BY <1>15 DEF IsEmptyLoadHead, ProbeInv, RingHoldsUnread
  <2>5. ProbesStayTrue'
    BY <1>15 DEF IsEmptyLoadHead, ProbesStayTrue, ProbeInv, RingHoldsUnread, ConsumerInv
  <2> QED BY <2>1, <2>2, <2>3, <2>4, <2>5 DEF IInv
<1>16. CASE UNCHANGED queueVars
  BY <1>16, <1>a DEF queueVars, IInv, ProducerInv, ConsumerInv, ProbeInv, ProbesStayTrue
<1> QED
  BY <1>1, <1>2, <1>3, <1>4, <1>5, <1>6, <1>7, <1>8, <1>9, <1>10, <1>11, <1>12,
     <1>13, <1>14, <1>15, <1>16 DEF QueueNext

\* The inductive invariant always holds.
LEMMA Invariance == QueueSpec => []IInv
  BY InitInv, NextInv, PTL DEF QueueSpec

-----------------------------------------------------------------------------
\* Whatever the depth and the payload width, the unread slots always hold the
\* pushed payloads in order, and pop_into has returned each earlier payload
\* exactly once, in order and untorn.
THEOREM DeliveryCorrect == QueueSpec => [](QueueTypeOK /\ RingHoldsUnread /\ PopsInOrder)
<1>1. IInv => QueueTypeOK /\ RingHoldsUnread /\ PopsInOrder
  BY DEF IInv
<1> QED BY <1>1, Invariance, PTL

\* The producer's and the consumer's payload copies never meet in a slot.
THEOREM RaceFreedom == QueueSpec => []NoRace
<1>1. IInv => NoRace
  <2> SUFFICES ASSUME IInv, pc[Prod] = "push_copy", pc[Cons] = "front_copy"
               PROVE  Slot(t[Prod]) # Slot(h[Cons])
    BY DEF NoRace
  <2>1. /\ t[Prod] = tail /\ h[Cons] = head
        /\ head \in Nat /\ tail \in Nat /\ head < tail /\ tail - head < RingDepth
    BY DEF IInv, QueueTypeOK, ProducerInv, ConsumerInv
  <2> QED BY <2>1, SlotInjective
<1> QED BY <1>1, Invariance, PTL

\* No subtraction of the counters underflows, in the push or in is_full called
\* from any thread: head_tail loads head before tail.
THEOREM UnderflowFreedom == QueueSpec => []NoUnderflow
<1>1. IInv => NoUnderflow
  BY DEF IInv, QueueTypeOK, RingHoldsUnread, ProducerInv, ProbeInv, NoUnderflow, Callers, Prod
<1> QED BY <1>1, Invariance, PTL

\* A "not full" or "not empty" an endpoint was told stays true until it acts,
\* so its next push or read does not fail, and no verdict wraps below zero.
THEOREM PromisesHold == QueueSpec => []ProbesStayTrue /\ PromisesKept
<1>1. IInv => ProbesStayTrue
  BY DEF IInv
<1>2. IInv /\ [QueueNext]_queueVars => [PromiseStep]_queueVars
  <2> USE QueueAssumption DEF IInv, QueueTypeOK, ProbesStayTrue, Prod, Cons, Callers
  <2>1. IInv /\ PushFull => probe[Prod] # "room"
    BY DEF ProducerInv, PushFull
  <2>2. IInv /\ FrontEmpty => probe[Cons] # "data"
    BY DEF ConsumerInv, FrontEmpty
  <2>3. IInv /\ (PushFull \/ PushRoom) => head <= t[Prod]
    BY DEF ProducerInv, RingHoldsUnread, PushFull, PushRoom
  <2>4. ASSUME IInv, NEW c \in Callers, IsFullLoadTail(c)
        PROVE  h[c] <= tail
    BY <2>4 DEF ProducerInv, ProbeInv, RingHoldsUnread, IsFullLoadTail
  <2> QED BY <2>1, <2>2, <2>3, <2>4 DEF PromiseStep
<1> QED BY <1>1, <1>2, Invariance, PTL DEF QueueSpec, PromisesKept

-----------------------------------------------------------------------------
(* The refinement of the bounded FIFO *)

Unread == [i \in 1..(tail - head) |-> slots[Slot(head + i - 1)]]
Payloads == {Whole(i) : i \in 0..MaxPush-1}
Contents == [Words -> Nat]

\* The unread slots form the sequence of the unread payloads.
LEMMA UnreadIsSeq ==
  IInv => /\ Unread = [i \in 1..(tail - head) |-> Whole(head + i - 1)]
          /\ Unread \in Seq(Contents)
          /\ Len(Unread) = tail - head
<1> HAVE IInv
<1>1. head \in Nat /\ tail \in Nat /\ head <= tail
  BY DEF IInv, QueueTypeOK, RingHoldsUnread
<1>2. ASSUME NEW i \in 1..(tail - head)
      PROVE  slots[Slot(head + i - 1)] = Whole(head + i - 1)
  <2>1. head + i - 1 \in head..tail-1
    BY <1>1
  <2> QED BY <2>1 DEF IInv, RingHoldsUnread
<1>3. Unread = [i \in 1..(tail - head) |-> Whole(head + i - 1)]
  BY <1>2 DEF Unread
<1>4. \A i \in 1..(tail - head) : Whole(head + i - 1) \in Contents
  BY <1>1 DEF Whole, Contents
<1>5. tail - head \in Nat
  BY <1>1
<1> QED BY <1>3, <1>4, <1>5

\* The same of the next state.
LEMMA UnreadIsSeqNext ==
  (IInv => /\ Unread = [i \in 1..(tail - head) |-> Whole(head + i - 1)]
           /\ Unread \in Seq(Contents)
           /\ Len(Unread) = tail - head)'
  BY UnreadIsSeq, PTL

\* Steps that move neither counter leave the unread payloads alone.
LEMMA UnreadStable ==
  ASSUME IInv, IInv', tail' = tail, head' = head
  PROVE  Unread' = Unread
<1>1. Unread = [i \in 1..(tail - head) |-> Whole(head + i - 1)]
  BY UnreadIsSeq
<1>2. Unread' = [i \in 1..(tail' - head') |-> Whole(head' + i - 1)]
  BY UnreadIsSeqNext DEF Whole
<1> QED BY <1>1, <1>2

\* Publishing is a Put of the payload just copied.
LEMMA PublishIsPut ==
  ASSUME IInv, IInv', PushPublish
  PROVE  \E v \in Payloads : Fifo!Put(v)
<1> USE DEF IInv
<1>1. /\ tail \in Nat /\ head \in Nat /\ head <= tail
      /\ tail < MaxPush /\ tail - head < RingDepth
      /\ tail' = tail + 1 /\ head' = head /\ popped' = popped
  BY DEF PushPublish, ProducerInv, QueueTypeOK, RingHoldsUnread, Callers, Prod
<1>2. Whole(tail) \in Payloads /\ Whole(tail) \in Contents
  BY <1>1, QueueAssumption DEF Payloads, Whole, Contents
<1>3. Unread = [i \in 1..(tail - head) |-> Whole(head + i - 1)]
  BY UnreadIsSeq
<1>4. Unread \in Seq(Contents) /\ Len(Unread) = tail - head
  BY UnreadIsSeq
<1>5. Unread' = [i \in 1..(tail + 1 - head) |-> Whole(head + i - 1)]
  BY <1>1, UnreadIsSeqNext DEF Whole
<1>6. Unread' = Append(Unread, Whole(tail))
  <2>1. Unread' \in Seq(Contents) /\ Len(Unread') = tail + 1 - head
    BY <1>1, UnreadIsSeqNext
  <2>2. /\ Append(Unread, Whole(tail)) \in Seq(Contents)
        /\ Len(Append(Unread, Whole(tail))) = tail + 1 - head
    <3>1. /\ Append(Unread, Whole(tail)) \in Seq(Contents)
          /\ Len(Append(Unread, Whole(tail))) = Len(Unread) + 1
      BY <1>2, <1>4, AppendProperties
    <3> QED BY <1>1, <1>4, <3>1
  <2>3. ASSUME NEW i \in 1..(tail + 1 - head)
        PROVE  Unread'[i] = Append(Unread, Whole(tail))[i]
    <3>1. CASE i \in 1..(tail - head)
      BY <1>1, <1>2, <1>3, <1>4, <1>5, <3>1
    <3>2. CASE i = tail - head + 1
      <4>1. head + i - 1 = tail
        BY <1>1, <3>2
      <4>2. Unread'[i] = Whole(tail)
        BY <1>5, <4>1
      <4> QED BY <1>1, <1>2, <1>4, <3>2, <4>2
    <3>3. i \in 1..(tail - head) \/ i = tail - head + 1
      BY <1>1
    <3> QED BY <3>1, <3>2, <3>3
  <2> QED BY <2>1, <2>2, <2>3, SeqEqual
<1>7. Fifo!Put(Whole(tail))
  BY <1>1, <1>4, <1>6 DEF Fifo!Put, Unread
<1> QED BY <1>2, <1>7

\* Releasing a slot is a Take of the oldest payload.
LEMMA ReleaseIsTake ==
  ASSUME IInv, IInv', PopAdvance
  PROVE  Fifo!Take
<1> USE DEF IInv
<1>1. /\ tail \in Nat /\ head \in Nat /\ head < tail
      /\ head' = head + 1 /\ tail' = tail /\ popped' = Append(popped, buf)
      /\ buf = Whole(head)
  <2>1. buf = Whole(head)
    BY DEF PopAdvance, ConsumerInv, Whole, QueueTypeOK
  <2> QED BY <2>1 DEF PopAdvance, ConsumerInv, QueueTypeOK
<1>2. /\ Unread = [i \in 1..(tail - head) |-> Whole(head + i - 1)]
      /\ Unread \in Seq(Contents)
      /\ Len(Unread) = tail - head
  BY UnreadIsSeq
<1>3. /\ Unread' = [i \in 1..(tail - head - 1) |-> Whole(head + 1 + i - 1)]
      /\ Unread' \in Seq(Contents)
      /\ Len(Unread') = tail - head - 1
  <2>1. /\ Unread' = [i \in 1..(tail' - head') |-> Whole(head' + i - 1)]
        /\ Unread' \in Seq(Contents)
        /\ Len(Unread') = tail' - head'
    BY UnreadIsSeqNext DEF Whole
  <2>2. tail' - head' = tail - head - 1 /\ head' = head + 1
    BY <1>1
  <2> QED BY <2>1, <2>2
<1>4. Unread # <<>>
  BY <1>1, <1>2
<1>5. Head(Unread) = Whole(head)
  <2>1. 1 \in 1..(tail - head) /\ head + 1 - 1 = head
    BY <1>1
  <2>2. Unread[1] = Whole(head)
    BY <1>2, <2>1
  <2> QED BY <1>2, <1>4, <2>2
<1>6. Unread' = Tail(Unread)
  <2>1. /\ Tail(Unread) \in Seq(Contents)
        /\ Len(Tail(Unread)) = tail - head - 1
        /\ \A i \in 1..(tail - head - 1) : Tail(Unread)[i] = Unread[i + 1]
    BY <1>1, <1>2, <1>4, HeadTailProperties
  <2>2. ASSUME NEW i \in 1..(tail - head - 1) PROVE Unread'[i] = Tail(Unread)[i]
    <3>1. i + 1 \in 1..(tail - head) /\ head + (i + 1) - 1 = head + 1 + i - 1
      BY <1>1
    <3>2. Unread[i + 1] = Whole(head + (i + 1) - 1)
      BY <1>2, <3>1
    <3> QED BY <1>3, <2>1, <3>1, <3>2
  <2> QED BY <1>3, <2>1, <2>2, SeqEqual
<1> QED BY <1>1, <1>4, <1>5, <1>6 DEF Fifo!Take, Unread

\* The shared-memory queue implements the bounded FIFO of whole payloads: every
\* load, word copy and probe is invisible, publishing the tail is Put and
\* publishing the head is Take.
THEOREM Refinement == QueueSpec => ImplementsFifo
<1>1. QueueInit => Fifo!FifoInit
  BY DEF QueueInit, Fifo!FifoInit
<1>2. IInv /\ IInv' /\ [QueueNext]_queueVars => [Fifo!FifoNext]_(Fifo!fifoVars)
  <2> SUFFICES ASSUME IInv, IInv', [QueueNext]_queueVars
               PROVE  Fifo!FifoNext \/ UNCHANGED <<Unread, popped>>
    BY DEF Fifo!fifoVars, Unread
  <2>1. CASE PushPublish
    BY <2>1, PublishIsPut DEF Fifo!FifoNext, Payloads
  <2>2. CASE PopAdvance
    BY <2>2, ReleaseIsTake DEF Fifo!FifoNext
  <2>3. CASE tail' = tail /\ head' = head /\ popped' = popped
    BY <2>3, UnreadStable
  <2>4. PushPublish \/ PopAdvance \/ (tail' = tail /\ head' = head /\ popped' = popped)
    BY DEF QueueNext, queueVars, PushLoadTail, PushFull, PushRoom, PushCopy, FrontLoadHead, FrontEmpty,
           FrontPresent, FrontCopy, PeekDone, IsFullLoadHead, IsFullLoadTail, IsEmptyLoadTail,
           IsEmptyLoadHead
  <2> QED BY <2>1, <2>2, <2>3, <2>4
<1> QED BY <1>1, <1>2, Invariance, PTL DEF QueueSpec, ImplementsFifo, Fifo!FifoSpec
=============================================================================
