------------------------- MODULE SharedMemoryQueue -------------------------
(***************************************************************************)
(* The lock-free single-producer single-consumer ring in shared memory     *)
(* (frt-shm/src/queue.rs) that carries a stream between the host process   *)
(* and a simulator process.                                                *)
(*                                                                         *)
(* Every atomic load and store is a step of its own, and a payload is      *)
(* copied one word at a time in any order, because copy_from_slice is not  *)
(* atomic.  The payload of the i-th push (from 0) is named i: each of its  *)
(* words holds i, so a torn, stale or repeated payload is visible in the   *)
(* words a pop returns.  Both counters only ever grow; they are 64 bits    *)
(* wide, and no run reaches 2^64 pushes, so they are not wrapped.          *)
(***************************************************************************)
EXTENDS Integers, Sequences

CONSTANTS RingDepth,    \* slots in the ring
          Words,    \* the words of one slot
          MaxPush   \* bound: pushes a behaviour performs

\* QueueLayout::new refuses a depth or a width of zero.
ASSUME QueueAssumption ==
  /\ RingDepth \in Nat \ {0}
  /\ Words # {}
  /\ MaxPush \in Nat

Prod == "producer"
Cons == "consumer"
Obs  == "observer"   \* a third thread or process that only looks
Callers == {Prod, Cons, Obs}

Zeroed == -1         \* a word of a freshly created segment

VARIABLES
  tail, head,  \* the two counters of QueueHeader
  slots,       \* the ring's payload area
  pc,          \* where each caller is inside a method; "idle" outside
  h, t,        \* the head and the tail a caller has loaded
  todo,        \* the words a caller has still to copy
  buf,         \* the consumer's destination buffer
  probe,       \* what the endpoints were told since they last acted
  popped          \* history: the payloads pop_into returned, in order

queueVars == <<tail, head, slots, pc, h, t, todo, buf, probe, popped>>
regs == <<h, t, todo>>

Slot(i) == i % RingDepth

Goto(c, label) == pc' = [pc EXCEPT ![c] = label]
LoadHead(c) == h' = [h EXCEPT ![c] = head]
LoadTail(c) == t' = [t EXCEPT ![c] = tail]
Learn(c, fact) == probe' = [probe EXCEPT ![c] = fact]

\* SharedMemoryQueue::create: zeroed segment, both counters at zero.
QueueInit ==
  /\ tail = 0 /\ head = 0
  /\ slots = [i \in 0..RingDepth-1 |-> [w \in Words |-> Zeroed]]
  /\ pc = [c \in Callers |-> "idle"]
  /\ h = [c \in Callers |-> 0]
  /\ t = [c \in Callers |-> 0]
  /\ todo = [c \in Callers |-> {}]
  /\ buf = [w \in Words |-> Zeroed]
  /\ probe = [c \in {Prod, Cons} |-> "nothing"]
  /\ popped = <<>>
-----------------------------------------------------------------------------
(* try_push_check_full *)

PushLoadTail ==
  /\ pc[Prod] = "idle"
  /\ tail < MaxPush
  /\ LoadTail(Prod)
  /\ Goto(Prod, "push_head")
  /\ UNCHANGED <<tail, head, slots, h, todo, buf, probe, popped>>

\* The head is loaded and the verdict taken on it: full, or room.
PushFull ==
  /\ pc[Prod] = "push_head"
  /\ t[Prod] - head >= RingDepth
  /\ LoadHead(Prod)
  /\ Goto(Prod, "idle")
  /\ UNCHANGED <<tail, head, slots, t, todo, buf, probe, popped>>

\* Mutant: room is granted one slot too late.
PushRoomMutant ==
  /\ pc[Prod] = "push_head"
  /\ t[Prod] - head <= RingDepth
  /\ LoadHead(Prod)
  /\ Goto(Prod, "push_copy")
  /\ todo' = [todo EXCEPT ![Prod] = Words]
  /\ UNCHANGED <<tail, head, slots, t, buf, probe, popped>>

PushRoom ==
  /\ pc[Prod] = "push_head"
  /\ t[Prod] - head < RingDepth
  /\ LoadHead(Prod)
  /\ \/ \* data.len() differs from the width: refused without a trace
        /\ Goto(Prod, "idle")
        /\ UNCHANGED todo
     \/ /\ Goto(Prod, "push_copy")
        /\ todo' = [todo EXCEPT ![Prod] = Words]
  /\ UNCHANGED <<tail, head, slots, t, buf, probe, popped>>

PushCopy(w) ==
  /\ pc[Prod] = "push_copy"
  /\ w \in todo[Prod]
  /\ slots' = [slots EXCEPT ![Slot(t[Prod])][w] = t[Prod]]
  /\ todo' = [todo EXCEPT ![Prod] = @ \ {w}]
  /\ UNCHANGED <<tail, head, pc, h, t, buf, probe, popped>>

\* Publish, and tell the caller whether the queue is full now, judged by the
\* head loaded before the copy.
PushPublish ==
  /\ pc[Prod] = "push_copy"
  /\ todo[Prod] = {}
  /\ tail' = t[Prod] + 1
  /\ Learn(Prod, IF t[Prod] + 1 - h[Prod] >= RingDepth THEN "nothing" ELSE "room")
  /\ Goto(Prod, "idle")
  /\ UNCHANGED <<head, slots, regs, buf, popped>>
-----------------------------------------------------------------------------
(* pop_into and peek_into: both run read_front, and only then differ: a    *)
(* pop stores head, a peek does not.                                       *)

FrontLoadHead ==
  /\ pc[Cons] = "idle"
  /\ LoadHead(Cons)
  /\ Goto(Cons, "front_tail")
  /\ UNCHANGED <<tail, head, slots, t, todo, buf, probe, popped>>

FrontEmpty ==
  /\ pc[Cons] = "front_tail"
  /\ tail = h[Cons]
  /\ LoadTail(Cons)
  /\ Goto(Cons, "idle")
  /\ UNCHANGED <<tail, head, slots, h, todo, buf, probe, popped>>

FrontPresent ==
  /\ pc[Cons] = "front_tail"
  /\ tail # h[Cons]
  /\ LoadTail(Cons)
  /\ \/ \* the destination is shorter than the width: nothing is consumed
        /\ Goto(Cons, "idle")
        /\ UNCHANGED todo
     \/ /\ Goto(Cons, "front_copy")
        /\ todo' = [todo EXCEPT ![Cons] = Words]
  /\ UNCHANGED <<tail, head, slots, h, buf, probe, popped>>

FrontCopy(w) ==
  /\ pc[Cons] = "front_copy"
  /\ w \in todo[Cons]
  /\ buf' = [buf EXCEPT ![w] = slots[Slot(h[Cons])][w]]
  /\ todo' = [todo EXCEPT ![Cons] = @ \ {w}]
  /\ UNCHANGED <<tail, head, slots, pc, h, t, probe, popped>>

\* Mutant: the slot is released before its words are read.
PopAdvanceMutant ==
  /\ pc[Cons] = "front_copy"
  /\ head' = h[Cons] + 1
  /\ popped' = Append(popped, buf)
  /\ Learn(Cons, "nothing")
  /\ Goto(Cons, "idle")
  /\ UNCHANGED <<tail, slots, regs, buf>>

PopAdvance ==
  /\ pc[Cons] = "front_copy"
  /\ todo[Cons] = {}
  /\ head' = h[Cons] + 1
  /\ popped' = Append(popped, buf)
  /\ Learn(Cons, "nothing")
  /\ Goto(Cons, "idle")
  /\ UNCHANGED <<tail, slots, regs, buf>>

PeekDone ==
  /\ pc[Cons] = "front_copy"
  /\ todo[Cons] = {}
  /\ Learn(Cons, "data")
  /\ Goto(Cons, "idle")
  /\ UNCHANGED <<tail, head, slots, regs, buf, popped>>
-----------------------------------------------------------------------------
(* The probes any thread may call: is_full reads head first (head_tail),  *)
(* is_empty reads tail first.                                              *)

IsFullLoadHead(c) ==
  /\ pc[c] = "idle"
  /\ LoadHead(c)
  /\ Goto(c, "full_tail")
  /\ UNCHANGED <<tail, head, slots, t, todo, buf, probe, popped>>

\* Mutant: full is reported one payload late.
IsFullLoadTailMutant(c) ==
  /\ pc[c] = "full_tail"
  /\ LoadTail(c)
  /\ IF c = Prod /\ tail - h[c] <= RingDepth THEN Learn(Prod, "room") ELSE UNCHANGED probe
  /\ Goto(c, "idle")
  /\ UNCHANGED <<tail, head, slots, h, todo, buf, popped>>

IsFullLoadTail(c) ==
  /\ pc[c] = "full_tail"
  /\ LoadTail(c)
  /\ IF c = Prod /\ tail - h[c] < RingDepth THEN Learn(Prod, "room") ELSE UNCHANGED probe
  /\ Goto(c, "idle")
  /\ UNCHANGED <<tail, head, slots, h, todo, buf, popped>>

IsEmptyLoadTail(c) ==
  /\ pc[c] = "idle"
  /\ LoadTail(c)
  /\ Goto(c, "empty_head")
  /\ UNCHANGED <<tail, head, slots, h, todo, buf, probe, popped>>

IsEmptyLoadHead(c) ==
  /\ pc[c] = "empty_head"
  /\ LoadHead(c)
  /\ IF c = Cons /\ t[c] # head THEN Learn(Cons, "data") ELSE UNCHANGED probe
  /\ Goto(c, "idle")
  /\ UNCHANGED <<tail, head, slots, t, todo, buf, popped>>
-----------------------------------------------------------------------------

QueueNext ==
  \/ PushLoadTail \/ PushFull \/ PushRoom \/ PushPublish
  \/ \E w \in Words : PushCopy(w)
  \/ FrontLoadHead \/ FrontEmpty \/ FrontPresent \/ PopAdvance \/ PeekDone
  \/ \E w \in Words : FrontCopy(w)
  \/ \E c \in Callers : \/ IsFullLoadHead(c) \/ IsFullLoadTail(c)
                        \/ IsEmptyLoadTail(c) \/ IsEmptyLoadHead(c)

QueueSpec == QueueInit /\ [][QueueNext]_queueVars
-----------------------------------------------------------------------------
(* Properties *)

Whole(i) == [w \in Words |-> i]   \* the payload of push i, untorn

\* Types of the header counters, the ring and every caller's registers.
QueueTypeOK ==
  /\ tail \in Nat /\ head \in Nat
  /\ slots \in [0..RingDepth-1 -> [Words -> Nat \cup {Zeroed}]]
  /\ pc \in [Callers -> {"idle", "push_head", "push_copy", "front_tail",
                        "front_copy", "full_tail", "empty_head"}]
  /\ h \in [Callers -> Nat] /\ t \in [Callers -> Nat]
  /\ todo \in [Callers -> SUBSET Words]
  /\ buf \in [Words -> Nat \cup {Zeroed}]
  /\ probe \in [{Prod, Cons} -> {"nothing", "room", "data"}]
  /\ popped \in Seq([Words -> Nat \cup {Zeroed}])

\* The slots between head and tail hold exactly the pushed payloads not yet
\* popped, whole and in order: no push overwrites a slot the consumer has not
\* released, and tail is never published ahead of the copy.
RingHoldsUnread ==
  /\ head <= tail /\ tail - head <= RingDepth
  /\ \A i \in head..tail-1 : slots[Slot(i)] = Whole(i)

\* pop_into returned every pushed payload once, in order and untorn.
PopsInOrder ==
  /\ Len(popped) = head
  /\ \A i \in 1..head : popped[i] = Whole(i - 1)

\* The producer's copy and the consumer's copy never touch the same slot: the
\* two plain memory copies of the code are free of data races, which is what
\* allows reading this module's interleavings as the behaviours of the program.
NoRace ==
  pc[Prod] = "push_copy" /\ pc[Cons] = "front_copy"
    => Slot(t[Prod]) # Slot(h[Cons])

\* tail - head is computed on u64: no order of loads may make it negative, in
\* try_push_check_full or in is_full called from any thread.
NoUnderflow ==
  /\ \A c \in Callers : pc[c] = "full_tail" => h[c] <= tail
  /\ pc[Prod] = "push_head" => head <= t[Prod]

\* What an endpoint was told stays true until it acts: once is_full said "not
\* full" or a push reported room, the queue has room until the producer's next
\* push; once is_empty said "not empty" or a peek succeeded, a payload is
\* there until the consumer's next pop.
ProbesStayTrue ==
  /\ probe[Prod] = "room" => tail - head < RingDepth
  /\ probe[Cons] = "data" => head < tail

\* So a push after the queue reported room never fails for want of room, as the
\* test benches rely on, and a read after a reported payload never misses; and
\* no verdict, an observer's included, rests on a difference below zero.
PromiseStep ==
  /\ PushFull => probe[Prod] # "room"
  /\ FrontEmpty => probe[Cons] # "data"
  /\ PushFull \/ PushRoom => head <= t[Prod]
  /\ \A c \in Callers : IsFullLoadTail(c) => h[c] <= tail

\* PromiseStep for every step: a full or an empty verdict never follows the
\* promise of the opposite, and none is taken on counters that were read in an
\* order in which tail - head wraps.
PromisesKept == [][PromiseStep]_queueVars

\* The ring is a bounded FIFO of whole payloads.
Fifo == INSTANCE BoundedFifo WITH
          Capacity <- RingDepth,
          Val <- {Whole(i) : i \in 0..MaxPush-1},
          buffer <- [i \in 1..(tail - head) |-> slots[Slot(head + i - 1)]],
          taken <- popped

\* The method bodies, interleaved load by load and word by word, implement the
\* abstract FIFO: publication and release are its only visible steps.
ImplementsFifo == Fifo!FifoSpec
=============================================================================
