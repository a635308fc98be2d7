-------------------------------- MODULE Ring --------------------------------
(***************************************************************************)
(* The ring buffer of internal/infra/buffer/ring.go: a slice of slots, a   *)
(* write position, a read position and a count, all updated under one      *)
(* mutex, so that each call is one step.                                   *)
(*                                                                         *)
(* A snapshot is named by the order of its Enqueue (1, 2, ...); Nil is the *)
(* nil pointer of a slot that holds none.                                  *)
(***************************************************************************)
EXTENDS Integers, Sequences

CONSTANTS
  RequestedCapacity,  \* the argument of New: buffer_capacity, never validated
  MaxSnapshots        \* bound on the number of Enqueue calls

ASSUME RingAssumption ==
  /\ RequestedCapacity \in Int
  /\ MaxSnapshots \in Nat

VARIABLES
  items,         \* slot -> snapshot
  head,          \* next write position
  tail,          \* next read position
  count,
  droppedTotal,
  enqueued,      \* history: Enqueue calls so far
  dequeued,      \* history: snapshots handed out by Dequeue
  returned       \* history: the snapshot handed out last

vars == <<items, head, tail, count, droppedTotal, enqueued, dequeued, returned>>

Nil == 0

\* New: a capacity that is not positive falls back to 200.
capacity == IF RequestedCapacity <= 0 THEN 200 ELSE RequestedCapacity

Slots == 0 .. capacity - 1

BadAdvance(position) == position + 1   \* mutant: no wrap-around
Advance(position) == (position + 1) % capacity

Init ==
  /\ items = [slot \in Slots |-> Nil]
  /\ head = 0
  /\ tail = 0
  /\ count = 0
  /\ droppedTotal = 0
  /\ enqueued = 0
  /\ dequeued = 0
  /\ returned = Nil

BadDropOldest ==   \* mutant: the tail stays, the loss is not counted
  /\ count = capacity
  /\ UNCHANGED <<tail, count, droppedTotal>>

\* The branch of Enqueue that makes room by moving the tail past the oldest
\* snapshot.  Its slot is not cleared: head is that slot, and is written next.
DropOldest ==
  /\ count = capacity
  /\ tail' = Advance(tail)
  /\ count' = (count - 1) + 1
  /\ droppedTotal' = droppedTotal + 1

KeepAll ==
  /\ count # capacity
  /\ count' = count + 1
  /\ UNCHANGED <<tail, droppedTotal>>

Enqueue ==
  /\ enqueued < MaxSnapshots
  /\ enqueued' = enqueued + 1
  /\ DropOldest \/ KeepAll
  /\ items' = [items EXCEPT ![head] = enqueued + 1]
  /\ head' = Advance(head)
  /\ UNCHANGED <<dequeued, returned>>

BadDequeue ==   \* mutant: the slot keeps its reference
  /\ count # 0
  /\ returned' = items[tail]
  /\ tail' = Advance(tail)
  /\ count' = count - 1
  /\ dequeued' = dequeued + 1
  /\ UNCHANGED <<items, head, droppedTotal, enqueued>>

\* Dequeue of a ring that holds something; on an empty one it changes nothing.
Dequeue ==
  /\ count # 0
  /\ returned' = items[tail]
  /\ items' = [items EXCEPT ![tail] = Nil]
  /\ tail' = Advance(tail)
  /\ count' = count - 1
  /\ dequeued' = dequeued + 1
  /\ UNCHANGED <<head, droppedTotal, enqueued>>

Next == Enqueue \/ Dequeue

Spec == Init /\ [][Next]_vars
-----------------------------------------------------------------------------
\* The slot of the i-th oldest snapshot, i = 0 being the oldest.
Slot(i) == (tail + i) % capacity

\* The positions that hold a snapshot.
Live == {Slot(i) : i \in 0 .. count - 1}

\* Every variable has its type; no position leaves the slice and the count
\* never exceeds the capacity, or Enqueue and Dequeue would panic.
TypeOK ==
  /\ items \in [Slots -> 0 .. MaxSnapshots]
  /\ head \in Slots
  /\ tail \in Slots
  /\ count \in 0 .. capacity
  /\ droppedTotal \in Nat
  /\ enqueued \in 0 .. MaxSnapshots
  /\ dequeued \in Nat
  /\ returned \in 0 .. MaxSnapshots

\* The three positions agree, and from tail on the slots hold the newest
\* `count' snapshots in the order they were enqueued: wrap-around and
\* overflow lose nothing else and never reorder.
LiveWindow ==
  /\ head = Slot(count)
  /\ \A i \in 0 .. count - 1 : items[Slot(i)] = enqueued - count + 1 + i

\* A slot that holds no buffered snapshot references none: the line "release
\* reference for GC" and the overwriting on overflow leave no old snapshot
\* reachable, which is what bounds the agent's memory.
DeadSlotsReleased == \A slot \in Slots \ Live : items[slot] = Nil

\* Every snapshot enqueued was handed out, or is counted as dropped, or is
\* still buffered: the counter an operator reads accounts for every loss.
Conservation == enqueued = dequeued + droppedTotal + count

\* The ring is a bounded drop-oldest FIFO queue.
Buffered == [i \in 1 .. count |-> items[Slot(i - 1)]]

Queue == INSTANCE BoundedQueue WITH queue <- Buffered, Capacity <- capacity

ImplementsBoundedQueue == Queue!Spec
=============================================================================
