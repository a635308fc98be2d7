---------------------------- MODULE BoundedQueue ----------------------------
(***************************************************************************)
(* What the snapshot buffer promises to its two clients: a FIFO queue of   *)
(* at most Capacity snapshots that never refuses a new one.  When it is    *)
(* full the oldest snapshot makes room and is counted.                     *)
(*                                                                         *)
(* Snapshots are named by the order in which they were enqueued: 1, 2, ... *)
(* An Enqueue or Dequeue is one step because internal/infra/buffer/ring.go *)
(* runs each of them under one mutex.                                      *)
(***************************************************************************)
EXTENDS Integers, Sequences

CONSTANTS
  Capacity,      \* snapshots the queue holds, at least one
  MaxSnapshots   \* bound on the number of Enqueue calls

VARIABLES
  queue,         \* the buffered snapshots, oldest first
  enqueued,      \* Enqueue calls so far; the newest snapshot's name
  droppedTotal,  \* snapshots discarded to make room
  dequeued,      \* snapshots handed out by Dequeue
  returned       \* the snapshot handed out last, 0 before the first

vars == <<queue, enqueued, droppedTotal, dequeued, returned>>

Init ==
  /\ queue = <<>>
  /\ enqueued = 0
  /\ droppedTotal = 0
  /\ dequeued = 0
  /\ returned = 0

BadEnqueueFree ==   \* mutant: last in, first out
  /\ Len(queue) < Capacity
  /\ queue' = <<enqueued + 1>> \o queue
  /\ UNCHANGED droppedTotal

\* There is a free place.
EnqueueFree ==
  /\ Len(queue) < Capacity
  /\ queue' = Append(queue, enqueued + 1)
  /\ UNCHANGED droppedTotal

BadEnqueueFull ==   \* mutant: the new snapshot is the one that is dropped
  /\ Len(queue) = Capacity
  /\ queue' = queue
  /\ droppedTotal' = droppedTotal + 1

\* The queue is full: the oldest snapshot makes room for the new one.
EnqueueFull ==
  /\ Len(queue) = Capacity
  /\ queue' = Append(Tail(queue), enqueued + 1)
  /\ droppedTotal' = droppedTotal + 1

Enqueue ==
  /\ enqueued < MaxSnapshots
  /\ enqueued' = enqueued + 1
  /\ EnqueueFree \/ EnqueueFull
  /\ UNCHANGED <<dequeued, returned>>

\* The oldest snapshot is handed out.  On an empty queue Dequeue answers
\* (nil, false) and changes nothing.
Dequeue ==
  /\ queue # <<>>
  /\ returned' = Head(queue)
  /\ queue' = Tail(queue)
  /\ dequeued' = dequeued + 1
  /\ UNCHANGED <<enqueued, droppedTotal>>

Next == Enqueue \/ Dequeue

Spec == Init /\ [][Next]_vars
=============================================================================
