----------------------------- MODULE RingProofs -----------------------------
(***************************************************************************)
(* Proofs about Ring, for every capacity and every number of calls.        *)
(*                                                                         *)
(* RingInv is inductive: the order of the buffered snapshots (LiveWindow)  *)
(* holds after an overflow only because the write position is the slot     *)
(* behind the newest one, and a slot is free only because every slot       *)
(* outside the window was released.                                        *)
(***************************************************************************)
EXTENDS Ring, TLAPS

RingInv == TypeOK /\ LiveWindow /\ DeadSlotsReleased /\ Conservation

\* The capacity is positive whatever New is given.
LEMMA CapacityPositive == capacity \in Nat \ {0}
BY RingAssumption DEF capacity

\* A position moved by at most one turn of the ring is again a slot, and the
\* remainder is one conditional subtraction.
LEMMA Wrap ==
  ASSUME NEW t \in Slots, NEW i \in 0 .. capacity
  PROVE  /\ (t + i) % capacity \in Slots
         /\ (t + i) % capacity =
              IF t + i < capacity THEN t + i ELSE t + i - capacity
<1> DEFINE c == capacity
           s == t + i
<1>1. c \in Nat \ {0} /\ t \in 0 .. c - 1 /\ i \in 0 .. c
  BY CapacityPositive DEF Slots
<1> HIDE DEF c
<1>2. CASE s < c
  <2>1. s \in 0 .. c - 1
    BY <1>1, <1>2
  <2> HIDE DEF s
  <2>2. s % c = s
    BY <1>1, <2>1
  <2> QED BY <1>1, <1>2, <2>1, <2>2 DEF c, s, Slots
<1>3. CASE ~(s < c)
  <2>1. s \in c .. 2 * c - 1
    BY <1>1, <1>3
  <2> HIDE DEF s
  <2>2. s % c = s - c
    BY <1>1, <2>1
  <2>3. s - c \in 0 .. c - 1
    BY <1>1, <2>1
  <2> QED BY <1>1, <1>3, <2>1, <2>2, <2>3 DEF c, s, Slots
<1> QED BY <1>2, <1>3

\* The next position.
LEMMA AdvanceWraps ==
  ASSUME NEW p \in Slots
  PROVE  /\ Advance(p) \in Slots
         /\ Advance(p) = IF p + 1 < capacity THEN p + 1 ELSE 0
<1>1. 1 \in 0 .. capacity
  BY CapacityPositive
<1>2. /\ (p + 1) % capacity \in Slots
      /\ (p + 1) % capacity =
           IF p + 1 < capacity THEN p + 1 ELSE p + 1 - capacity
  BY <1>1, Wrap
<1> QED BY <1>2, CapacityPositive DEF Advance, Slots

\* The first `capacity' offsets from a position name distinct slots.
LEMMA SlotsDistinct ==
  ASSUME NEW t \in Slots, NEW i \in 0 .. capacity - 1, NEW j \in 0 .. capacity - 1,
         i # j
  PROVE  (t + i) % capacity # (t + j) % capacity
<1>1. i \in 0 .. capacity /\ j \in 0 .. capacity
  BY CapacityPositive
<1>2. (t + i) % capacity = IF t + i < capacity THEN t + i ELSE t + i - capacity
  BY <1>1, Wrap
<1>3. (t + j) % capacity = IF t + j < capacity THEN t + j ELSE t + j - capacity
  BY <1>1, Wrap
<1> QED BY <1>2, <1>3, CapacityPositive DEF Slots

\* Advancing the start of the window shifts every offset by one.
LEMMA Shift ==
  ASSUME NEW t \in Slots, NEW i \in 0 .. capacity - 1
  PROVE  (Advance(t) + i) % capacity = (t + (i + 1)) % capacity
<1>1. i \in 0 .. capacity /\ i + 1 \in 0 .. capacity
  BY CapacityPositive
<1>2. (t + (i + 1)) % capacity =
        IF t + (i + 1) < capacity THEN t + (i + 1) ELSE t + (i + 1) - capacity
  BY <1>1, Wrap
<1>3. /\ Advance(t) \in Slots
      /\ Advance(t) = IF t + 1 < capacity THEN t + 1 ELSE 0
  BY AdvanceWraps
<1>4. (Advance(t) + i) % capacity =
        IF Advance(t) + i < capacity THEN Advance(t) + i
                                     ELSE Advance(t) + i - capacity
  BY <1>1, <1>3, Wrap
<1> QED BY <1>2, <1>3, <1>4, CapacityPositive DEF Slots
-----------------------------------------------------------------------------

\* New makes an empty ring.
LEMMA RingInit == Init => RingInv
<1> SUFFICES ASSUME Init PROVE RingInv
  OBVIOUS
<1>1. TypeOK
  BY CapacityPositive, RingAssumption DEF Init, TypeOK, Slots, Nil
<1>2. Slot(0) = 0
  BY Wrap, CapacityPositive, 0 \in Slots, 0 \in 0 .. capacity DEF Init, Slot, Slots
<1>3. LiveWindow /\ DeadSlotsReleased
  BY <1>2 DEF Init, LiveWindow, DeadSlotsReleased, Slots
<1>4. Conservation
  BY DEF Init, Conservation
<1> QED BY <1>1, <1>3, <1>4 DEF RingInv

\* An Enqueue on a ring with a free slot.
LEMMA RingKeepAll ==
  ASSUME RingInv, Enqueue, KeepAll
  PROVE  RingInv'
<1> USE DEF RingInv, TypeOK
<1>1. capacity \in Nat \ {0}
  BY CapacityPositive
<1>2. count \in 0 .. capacity - 1 /\ count' = count + 1 /\ tail' = tail
  BY <1>1 DEF KeepAll
<1>3. /\ enqueued \in 0 .. MaxSnapshots /\ enqueued + 1 \in 0 .. MaxSnapshots
      /\ enqueued' = enqueued + 1
  BY RingAssumption DEF Enqueue
<1>4. items' = [items EXCEPT ![head] = enqueued + 1]
  BY DEF Enqueue
<1>5. head = (tail + count) % capacity /\ head' = Advance(head)
  BY DEF LiveWindow, Slot, Enqueue
<1>6. TypeOK'
  <2>1. head' \in Slots
    BY <1>5, AdvanceWraps
  <2>2. items' \in [Slots -> 0 .. MaxSnapshots]
    BY <1>3, <1>4
  <2>3. droppedTotal' \in Nat /\ dequeued' \in Nat /\ returned' \in 0 .. MaxSnapshots
    BY DEF KeepAll, Enqueue
  <2> QED BY <1>1, <1>2, <1>3, <2>1, <2>2, <2>3
<1>7. \A i \in 0 .. count - 1 : (tail + i) % capacity # head
  BY <1>1, <1>2, <1>5, SlotsDistinct
<1>8. \A i \in 0 .. count : (tail + i) % capacity \in Slots
  BY <1>1, <1>2, Wrap
<1>9. LiveWindow'
  <2>1. head' = (tail' + count') % capacity
    <3>1. head' = IF head + 1 < capacity THEN head + 1 ELSE 0
      BY <1>5, AdvanceWraps
    <3>2. head = IF tail + count < capacity THEN tail + count
                                            ELSE tail + count - capacity
      BY <1>1, <1>2, <1>5, Wrap
    <3>3. (tail + (count + 1)) % capacity =
            IF tail + (count + 1) < capacity THEN tail + (count + 1)
                                             ELSE tail + (count + 1) - capacity
      BY <1>1, <1>2, Wrap
    <3> QED BY <1>1, <1>2, <3>1, <3>2, <3>3 DEF Slots
  <2>2. ASSUME NEW i \in 0 .. count' - 1
        PROVE  items'[(tail' + i) % capacity] = enqueued' - count' + 1 + i
    <3>1. CASE i = count
      BY <1>2, <1>3, <1>4, <1>5, <3>1
    <3>2. CASE i # count
      <4>1. i \in 0 .. count - 1
        BY <1>2, <3>2
      <4>2. items[(tail + i) % capacity] = enqueued - count + 1 + i
        BY <4>1 DEF LiveWindow, Slot
      <4> QED BY <1>2, <1>3, <1>4, <1>7, <1>8, <4>1, <4>2
    <3> QED BY <3>1, <3>2
  <2> QED BY <2>1, <2>2 DEF LiveWindow, Slot
<1>10. DeadSlotsReleased'
  <2>1. head = (tail' + count) % capacity /\ count \in 0 .. count' - 1
    BY <1>2, <1>5
  <2>2. Live \subseteq Live' /\ head \in Live'
    BY <1>2, <2>1 DEF Live, Slot
  <2>3. ASSUME NEW slot \in Slots \ Live'
        PROVE  items'[slot] = Nil
    BY <1>4, <2>2, <2>3 DEF DeadSlotsReleased
  <2> QED BY <2>3 DEF DeadSlotsReleased
<1>11. Conservation'
  BY <1>2, <1>3 DEF Conservation, KeepAll, Enqueue
<1> QED BY <1>6, <1>9, <1>10, <1>11

\* An Enqueue on a full ring: head and tail are the same slot, so the window
\* that starts one slot later ends where the new snapshot was written.
LEMMA RingDropOldest ==
  ASSUME RingInv, Enqueue, DropOldest
  PROVE  RingInv'
<1> USE DEF RingInv, TypeOK
<1>1. /\ capacity \in Nat \ {0}
      /\ 0 \in 0 .. capacity
      /\ capacity \in 0 .. capacity
  BY CapacityPositive
<1>2. count = capacity /\ count' = capacity /\ tail' = Advance(tail)
  BY <1>1 DEF DropOldest
<1>3. /\ enqueued \in 0 .. MaxSnapshots /\ enqueued + 1 \in 0 .. MaxSnapshots
      /\ enqueued' = enqueued + 1
  BY RingAssumption DEF Enqueue
<1>4. items' = [items EXCEPT ![head] = enqueued + 1]
  BY DEF Enqueue
<1>5. head = tail /\ head' = Advance(head)
  <2>1. head = (tail + capacity) % capacity
    BY <1>2 DEF LiveWindow, Slot
  <2>2. head = IF tail + capacity < capacity THEN tail + capacity
                                             ELSE tail + capacity - capacity
    BY <1>1, <2>1, Wrap
  <2> QED BY <1>1, <2>2 DEF Slots, Enqueue
<1>6. tail' \in Slots /\ head' = tail'
  BY <1>2, <1>5, AdvanceWraps
<1>7. TypeOK'
  <2>1. items' \in [Slots -> 0 .. MaxSnapshots]
    BY <1>3, <1>4
  <2>2. droppedTotal' \in Nat /\ dequeued' \in Nat /\ returned' \in 0 .. MaxSnapshots
    BY DEF DropOldest, Enqueue
  <2> QED BY <1>1, <1>2, <1>3, <1>6, <2>1, <2>2
<1>8. \A i \in 0 .. capacity - 1 :
         (tail' + i) % capacity = (tail + (i + 1)) % capacity
  BY <1>1, <1>2, Shift
<1>9. (tail + capacity) % capacity = tail /\ (tail + 0) % capacity = tail
  <2>1. (tail + capacity) % capacity =
          IF tail + capacity < capacity THEN tail + capacity
                                        ELSE tail + capacity - capacity
    BY <1>1, Wrap
  <2>2. (tail + 0) % capacity =
          IF tail + 0 < capacity THEN tail + 0 ELSE tail + 0 - capacity
    BY <1>1, Wrap
  <2> QED BY <1>1, <2>1, <2>2 DEF Slots
<1>10. LiveWindow'
  <2>1. head' = (tail' + count') % capacity
    <3>1. (tail' + capacity) % capacity =
            IF tail' + capacity < capacity THEN tail' + capacity
                                           ELSE tail' + capacity - capacity
      BY <1>1, <1>6, Wrap
    <3> QED BY <1>1, <1>2, <1>6, <3>1 DEF Slots
  <2>2. ASSUME NEW i \in 0 .. count' - 1
        PROVE  items'[(tail' + i) % capacity] = enqueued' - count' + 1 + i
    <3>1. (tail' + i) % capacity = (tail + (i + 1)) % capacity
      BY <1>2, <1>8
    <3>2. CASE i = capacity - 1
      <4>1. (tail' + i) % capacity = head
        BY <1>1, <1>5, <1>9, <3>1, <3>2
      <4> QED BY <1>1, <1>2, <1>3, <1>4, <3>2, <4>1
    <3>3. CASE i # capacity - 1
      <4>1. i + 1 \in 0 .. count - 1 /\ i + 1 \in 1 .. capacity - 1
        BY <1>1, <1>2, <3>3
      <4>2. items[(tail + (i + 1)) % capacity] = enqueued - count + 1 + (i + 1)
        BY <4>1 DEF LiveWindow, Slot
      <4>3. (tail + (i + 1)) % capacity \in Slots
        BY <1>1, <4>1, Wrap
      <4>4. (tail + (i + 1)) % capacity # (tail + 0) % capacity
        BY <1>1, <4>1, SlotsDistinct
      <4> QED BY <1>1, <1>2, <1>3, <1>4, <1>5, <1>9, <3>1, <4>1, <4>2, <4>3, <4>4
    <3> QED BY <3>2, <3>3
  <2> QED BY <2>1, <2>2 DEF LiveWindow, Slot
<1>11. DeadSlotsReleased'
  <2>1. head \in Live'
    <3>1. (tail' + (capacity - 1)) % capacity = tail
      BY <1>1, <1>8, <1>9
    <3> QED BY <1>1, <1>2, <1>5, <3>1 DEF Live, Slot
  <2>2. ASSUME NEW slot \in Live PROVE slot \in Live'
    <3>1. PICK i \in 0 .. capacity - 1 : slot = (tail + i) % capacity
      BY <1>2 DEF Live, Slot
    <3>2. CASE i = 0
      BY <1>5, <1>9, <2>1, <3>1, <3>2
    <3>3. CASE i # 0
      <4>1. i - 1 \in 0 .. capacity - 1 /\ (i - 1) + 1 = i
        BY <1>1, <3>3
      <4>2. slot = (tail' + (i - 1)) % capacity
        BY <1>8, <3>1, <4>1
      <4> QED BY <1>2, <4>1, <4>2 DEF Live, Slot
    <3> QED BY <3>2, <3>3
  <2>3. ASSUME NEW slot \in Slots \ Live'
        PROVE  items'[slot] = Nil
    BY <1>4, <2>1, <2>2, <2>3 DEF DeadSlotsReleased
  <2> QED BY <2>3 DEF DeadSlotsReleased
<1>12. Conservation'
  BY <1>1, <1>2, <1>3 DEF Conservation, DropOldest, Enqueue
<1> QED BY <1>7, <1>10, <1>11, <1>12

\* A Dequeue releases the oldest slot and the window starts one slot later.
LEMMA RingDequeue ==
  ASSUME RingInv, Dequeue
  PROVE  RingInv'
<1> USE DEF RingInv, TypeOK
<1>1. /\ capacity \in Nat \ {0}
      /\ 0 \in 0 .. capacity
  BY CapacityPositive
<1>2. /\ count \in 1 .. capacity /\ count' = count - 1
      /\ tail' = Advance(tail) /\ tail' \in Slots
  BY <1>1, AdvanceWraps DEF Dequeue
<1>3. items' = [items EXCEPT ![tail] = Nil] /\ head' = head /\ enqueued' = enqueued
  BY DEF Dequeue
<1>4. \A i \in 0 .. capacity - 1 :
         (tail' + i) % capacity = (tail + (i + 1)) % capacity
  BY <1>1, <1>2, Shift
<1>5. (tail + 0) % capacity = tail
  <2>1. (tail + 0) % capacity =
          IF tail + 0 < capacity THEN tail + 0 ELSE tail + 0 - capacity
    BY <1>1, Wrap
  <2> QED BY <1>1, <2>1 DEF Slots
<1>6. TypeOK'
  <2>1. items' \in [Slots -> 0 .. MaxSnapshots]
    BY <1>3, RingAssumption DEF Nil
  <2>2. items[tail] \in 0 .. MaxSnapshots
    OBVIOUS
  <2>3. /\ droppedTotal' \in Nat /\ dequeued' \in Nat
        /\ returned' \in 0 .. MaxSnapshots
    BY <2>2 DEF Dequeue
  <2> QED BY <1>1, <1>2, <1>3, <2>1, <2>3
<1>7. LiveWindow'
  <2>1. head' = (tail' + count') % capacity
    <3>1. count - 1 \in 0 .. capacity - 1 /\ (count - 1) + 1 = count
      BY <1>1, <1>2
    <3>2. (tail' + (count - 1)) % capacity = (tail + count) % capacity
      BY <1>4, <3>1
    <3> QED BY <1>2, <1>3, <3>2 DEF LiveWindow, Slot
  <2>2. ASSUME NEW i \in 0 .. count' - 1
        PROVE  items'[(tail' + i) % capacity] = enqueued' - count' + 1 + i
    <3>1. /\ i \in 0 .. capacity - 1 /\ i + 1 \in 1 .. count - 1
          /\ i + 1 \in 0 .. count - 1 /\ i + 1 \in 0 .. capacity - 1
          /\ i + 1 \in 0 .. capacity
      BY <1>1, <1>2
    <3>2. (tail' + i) % capacity = (tail + (i + 1)) % capacity
      BY <1>4, <3>1
    <3>3. items[(tail + (i + 1)) % capacity] = enqueued - count + 1 + (i + 1)
      BY <3>1 DEF LiveWindow, Slot
    <3>4. (tail + (i + 1)) % capacity \in Slots
      BY <1>1, <3>1, Wrap
    <3>5. (tail + (i + 1)) % capacity # tail
      <4>1. 0 \in 0 .. capacity - 1 /\ i + 1 # 0
        BY <1>1, <3>1
      <4> QED BY <1>5, <3>1, <4>1, SlotsDistinct
    <3>6. items'[(tail + (i + 1)) % capacity] = enqueued - count + 1 + (i + 1)
      BY <1>3, <3>3, <3>4, <3>5
    <3> QED BY <1>2, <1>3, <3>1, <3>2, <3>6
  <2> QED BY <2>1, <2>2 DEF LiveWindow, Slot
<1>8. DeadSlotsReleased'
  <2>1. ASSUME NEW slot \in Live, slot # tail PROVE slot \in Live'
    <3>1. PICK i \in 0 .. count - 1 : slot = (tail + i) % capacity
      BY <1>2 DEF Live, Slot
    <3>2. i # 0
      BY <1>5, <2>1, <3>1
    <3>3. /\ i - 1 \in 0 .. capacity - 1 /\ (i - 1) + 1 = i
          /\ i - 1 \in 0 .. count' - 1
      BY <1>1, <1>2, <3>2
    <3>4. slot = (tail' + (i - 1)) % capacity
      BY <1>4, <3>1, <3>3
    <3> QED BY <3>3, <3>4 DEF Live, Slot
  <2>2. ASSUME NEW slot \in Slots \ Live'
        PROVE  items'[slot] = Nil
    BY <1>3, <2>1, <2>2 DEF DeadSlotsReleased
  <2> QED BY <2>2 DEF DeadSlotsReleased
<1>9. Conservation'
  BY <1>1, <1>2, <1>3 DEF Conservation, Dequeue
<1> QED BY <1>6, <1>7, <1>8, <1>9

\* A step that leaves the ring alone preserves its invariant.
LEMMA RingStutter ==
  ASSUME RingInv, UNCHANGED vars
  PROVE  RingInv'
BY DEF RingInv, TypeOK, LiveWindow, DeadSlotsReleased, Conservation, Live, Slot, vars

\* RingInv holds in every reachable state of the ring: no position leaves the
\* slice, the window between tail and head holds exactly the newest snapshots
\* in order, every other slot is released, and no snapshot is lost uncounted.
THEOREM RingSafety == Spec => [](TypeOK /\ LiveWindow /\ DeadSlotsReleased /\ Conservation)
<1>1. Init => RingInv
  BY RingInit
<1>2. RingInv /\ [Next]_vars => RingInv'
  <2> SUFFICES ASSUME RingInv, [Next]_vars PROVE RingInv'
    OBVIOUS
  <2>1. CASE Enqueue /\ KeepAll
    BY <2>1, RingKeepAll
  <2>2. CASE Enqueue /\ DropOldest
    BY <2>2, RingDropOldest
  <2>3. CASE Dequeue
    BY <2>3, RingDequeue
  <2>4. CASE UNCHANGED vars
    BY <2>4, RingStutter
  <2> QED BY <2>1, <2>2, <2>3, <2>4 DEF Next, Enqueue
<1>3. RingInv => TypeOK /\ LiveWindow /\ DeadSlotsReleased /\ Conservation
  BY DEF RingInv
<1> QED BY <1>1, <1>2, <1>3, PTL DEF Spec

\* Type correctness: head and tail never leave the slice, whatever they wrap
\* around (ring.go:50, ring.go:60, ring.go:76).
THEOREM PositionsStayInside == Spec => []TypeOK
BY RingSafety, PTL

\* No slot outside the window keeps a snapshot from the garbage collector.
THEOREM DeadSlotsAreReleased == Spec => []DeadSlotsReleased
BY RingSafety, PTL
-----------------------------------------------------------------------------
(* The refinement.  What the ring holds is the n newest of e snapshots, and *)
(* the lemmas say what appending to them and taking from them make of it.   *)

\* The n newest of e snapshots, oldest first.
Window(n, e) == [i \in 1 .. n |-> e - n + i]

\* A window is a sequence of the length and with the elements its name says.
LEMMA WindowIsSeq ==
  ASSUME NEW n \in Nat, NEW e \in Nat
  PROVE  /\ Window(n, e) \in Seq(Int)
         /\ Len(Window(n, e)) = n
         /\ \A i \in 1 .. n : Window(n, e)[i] = e - n + i
<1>1. Window(n, e) \in [1 .. n -> Int]
  BY DEF Window
<1> QED BY <1>1 DEF Window

\* Appending the next snapshot.
LEMMA WindowGrows ==
  ASSUME NEW n \in Nat, NEW e \in Nat
  PROVE  Window(n + 1, e + 1) = Append(Window(n, e), e + 1)
<1> DEFINE w == Window(n, e)
           v == Window(n + 1, e + 1)
<1>1. w \in Seq(Int) /\ Len(w) = n /\ \A i \in 1 .. n : w[i] = e - n + i
  BY WindowIsSeq
<1>2. /\ v \in Seq(Int) /\ Len(v) = n + 1
      /\ \A i \in 1 .. n + 1 : v[i] = (e + 1) - (n + 1) + i
  BY WindowIsSeq, n + 1 \in Nat, e + 1 \in Nat
<1> HIDE DEF w, v
<1>3. Append(w, e + 1) \in Seq(Int) /\ Len(Append(w, e + 1)) = n + 1
  BY <1>1
<1>4. \A i \in 1 .. n + 1 : v[i] = Append(w, e + 1)[i]
  BY <1>1, <1>2
<1>5. v = Append(w, e + 1)
  BY <1>2, <1>3, <1>4
<1> QED BY <1>5 DEF w, v

\* Taking the oldest snapshot.
LEMMA WindowShrinks ==
  ASSUME NEW n \in Nat \ {0}, NEW e \in Nat
  PROVE  /\ Window(n, e) # <<>>
         /\ Head(Window(n, e)) = e - n + 1
         /\ Tail(Window(n, e)) = Window(n - 1, e)
<1> DEFINE w == Window(n, e)
           v == Window(n - 1, e)
<1>1. w \in Seq(Int) /\ Len(w) = n /\ \A i \in 1 .. n : w[i] = e - n + i
  BY WindowIsSeq
<1>2. /\ v \in Seq(Int) /\ Len(v) = n - 1
      /\ \A i \in 1 .. n - 1 : v[i] = e - (n - 1) + i
  BY WindowIsSeq, n - 1 \in Nat
<1> HIDE DEF w, v
<1>3. w # <<>> /\ Head(w) = e - n + 1
  BY <1>1
<1>4. Tail(w) \in Seq(Int) /\ Len(Tail(w)) = n - 1
  BY <1>1, <1>3
<1>5. \A i \in 1 .. n - 1 : v[i] = Tail(w)[i]
  BY <1>1, <1>2, <1>3, <1>4
<1>6. v = Tail(w)
  <2> DEFINE t == Tail(w)
  <2>1. t \in Seq(Int) /\ Len(t) = n - 1 /\ \A i \in 1 .. n - 1 : v[i] = t[i]
    BY <1>4, <1>5
  <2> HIDE DEF t
  <2>2. v = t
    BY <1>2, <2>1
  <2> QED BY <2>2 DEF t
<1> QED BY <1>3, <1>6 DEF w, v

\* The abstract queue of a reachable ring.
LEMMA BufferedIsWindow == RingInv => Buffered = Window(count, enqueued)
<1> SUFFICES ASSUME RingInv PROVE Buffered = Window(count, enqueued)
  OBVIOUS
<1>1. count \in Nat /\ enqueued \in Nat
  BY CapacityPositive, RingAssumption DEF RingInv, TypeOK
<1>2. ASSUME NEW i \in 1 .. count
      PROVE  items[Slot(i - 1)] = enqueued - count + i
  <2>1. i - 1 \in 0 .. count - 1
    BY <1>1
  <2>2. items[Slot(i - 1)] = enqueued - count + 1 + (i - 1)
    BY <2>1 DEF RingInv, LiveWindow
  <2> QED BY <1>1, <2>2
<1> QED BY <1>2 DEF Buffered, Window

\* Enqueue appends to the abstract queue, without its head if it was full.
LEMMA EnqueueRefines == RingInv /\ RingInv' /\ Enqueue => Queue!Enqueue
<1> SUFFICES ASSUME RingInv, RingInv', Enqueue PROVE Queue!Enqueue
  OBVIOUS
<1>1. /\ count \in Nat /\ count \in 0 .. capacity
      /\ enqueued \in Nat /\ capacity \in Nat \ {0}
      /\ enqueued' = enqueued + 1
  BY CapacityPositive, RingAssumption DEF RingInv, TypeOK, Enqueue
<1>2. Buffered = Window(count, enqueued) /\ Len(Buffered) = count
  BY <1>1, BufferedIsWindow, WindowIsSeq
<1>3. (Buffered = Window(count, enqueued))'
  BY BufferedIsWindow, PTL
<1>4. CASE KeepAll
  <2>1. count' = count + 1 /\ count < capacity /\ UNCHANGED droppedTotal
    BY <1>1, <1>4 DEF KeepAll
  <2>2. Buffered' = Append(Buffered, enqueued + 1)
    BY <1>1, <1>2, <1>3, <2>1, WindowGrows
  <2> QED BY <1>2, <2>1, <2>2 DEF Queue!Enqueue, Queue!EnqueueFree, Enqueue
<1>5. CASE DropOldest
  <2>1. count' = count /\ count = capacity /\ droppedTotal' = droppedTotal + 1
    BY <1>1, <1>5 DEF DropOldest
  <2>2. Buffered' = Append(Tail(Buffered), enqueued + 1)
    <3>1. Tail(Buffered) = Window(count - 1, enqueued)
      BY <1>1, <1>2, <2>1, WindowShrinks
    <3>2. Window((count - 1) + 1, enqueued + 1)
            = Append(Window(count - 1, enqueued), enqueued + 1)
      BY <1>1, <2>1, WindowGrows, count - 1 \in Nat
    <3>3. (count - 1) + 1 = count
      BY <1>1
    <3> QED BY <1>1, <1>3, <2>1, <3>1, <3>2, <3>3
  <2> QED BY <1>2, <2>1, <2>2 DEF Queue!Enqueue, Queue!EnqueueFull, Enqueue
<1> QED BY <1>4, <1>5 DEF Enqueue

\* Dequeue takes the head of the abstract queue.
LEMMA DequeueRefines == RingInv /\ RingInv' /\ Dequeue => Queue!Dequeue
<1> SUFFICES ASSUME RingInv, RingInv', Dequeue PROVE Queue!Dequeue
  OBVIOUS
<1>1. /\ count \in Nat \ {0} /\ count' = count - 1
      /\ enqueued \in Nat /\ enqueued' = enqueued
  BY CapacityPositive, RingAssumption DEF RingInv, TypeOK, Dequeue
<1>2. Buffered = Window(count, enqueued)
  BY BufferedIsWindow
<1>3. (Buffered = Window(count, enqueued))'
  BY BufferedIsWindow, PTL
<1>4. Buffered # <<>> /\ Buffered' = Tail(Buffered)
  BY <1>1, <1>2, <1>3, WindowShrinks
<1>5. returned' = Head(Buffered)
  <2>1. Head(Buffered) = enqueued - count + 1
    BY <1>1, <1>2, WindowShrinks
  <2>2. items[Slot(0)] = enqueued - count + 1
    BY <1>1, 0 \in 0 .. count - 1 DEF RingInv, LiveWindow
  <2>3. Slot(0) = tail
    <3>1. 0 \in 0 .. capacity /\ tail \in Slots
      BY CapacityPositive DEF RingInv, TypeOK
    <3>2. (tail + 0) % capacity =
            IF tail + 0 < capacity THEN tail + 0 ELSE tail + 0 - capacity
      BY <3>1, Wrap
    <3> QED BY <3>1, <3>2, CapacityPositive DEF Slot, Slots
  <2> QED BY <2>1, <2>2, <2>3 DEF Dequeue
<1> QED BY <1>4, <1>5 DEF Queue!Dequeue, Dequeue

\* The ring implements the bounded drop-oldest queue: to its clients the
\* slots, the wrap-around and the overflow path behave as one FIFO sequence.
THEOREM RingRefinesQueue == Spec => ImplementsBoundedQueue
<1>1. Init => Queue!Init
  <2> SUFFICES ASSUME Init PROVE Queue!Init
    OBVIOUS
  <2>1. Buffered = <<>>
    <3>1. Buffered = Window(0, 0)
      BY RingInit, BufferedIsWindow DEF Init
    <3>2. Window(0, 0) \in Seq(Int) /\ Len(Window(0, 0)) = 0
      BY WindowIsSeq, 0 \in Nat
    <3> QED BY <3>1, <3>2
  <2> QED BY <2>1 DEF Init, Queue!Init, Nil
<1>2. RingInv /\ RingInv' /\ [Next]_vars => [Queue!Next]_(Queue!vars)
  <2> SUFFICES ASSUME RingInv, RingInv', [Next]_vars
               PROVE  [Queue!Next]_(Queue!vars)
    OBVIOUS
  <2>1. CASE Enqueue
    BY <2>1, EnqueueRefines DEF Queue!Next
  <2>2. CASE Dequeue
    BY <2>2, DequeueRefines DEF Queue!Next
  <2>3. CASE UNCHANGED vars
    BY <2>3 DEF vars, Queue!vars, Buffered, Slot
  <2> QED BY <2>1, <2>2, <2>3 DEF Next
<1>3. Spec => []RingInv
  BY RingSafety, PTL DEF RingInv
<1> QED BY <1>1, <1>2, <1>3, PTL DEF Spec, ImplementsBoundedQueue, Queue!Spec
=============================================================================
