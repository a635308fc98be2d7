------------------------------ MODULE Delivery ------------------------------
(***************************************************************************)
(* What the agent promises about one snapshot, whatever its two loops, its *)
(* ring buffer and its retries do: snapshots are collected one after the   *)
(* other, wait in order, are evicted oldest first and only when the buffer *)
(* is full, are handed to the network oldest first and one at a time, and  *)
(* are settled once.                                                       *)
(***************************************************************************)
EXTENDS Integers, FiniteSets

CONSTANTS
  Capacity,       \* snapshots that can wait, at least one
  MaxSnapshots    \* bound on the snapshots collected

Snapshots == 1 .. MaxSnapshots
Settled == {"delivered", "dropped"}
Statuses == {"future", "buffered", "shipping", "evicted"} \union Settled

VARIABLE status   \* snapshot -> its place in the pipeline

Waiting == {s \in Snapshots : status[s] = "buffered"}
BadOldest(s) == s \in Waiting /\ \A t \in Waiting : t <= s   \* mutant: the newest
Oldest(s) == s \in Waiting /\ \A t \in Waiting : s <= t
Full == Cardinality(Waiting) = Capacity

Init == status = [s \in Snapshots |-> "future"]

\* The next snapshot is collected; it makes room for itself if it must.
Collect(s) ==
  /\ status[s] = "future"
  /\ \A t \in Snapshots : t < s => status[t] # "future"
  /\ status' = [t \in Snapshots |->
                  IF t = s THEN "buffered"
                  ELSE IF Full /\ Oldest(t) THEN "evicted" ELSE status[t]]

Ship(s) ==
  /\ \A t \in Snapshots : status[t] # "shipping"
  /\ Oldest(s)
  /\ status' = [status EXCEPT ![s] = "shipping"]

Settle(s) ==
  /\ status[s] = "shipping"
  /\ \E outcome \in Settled : status' = [status EXCEPT ![s] = outcome]

Next == \E s \in Snapshots : Collect(s) \/ Ship(s) \/ Settle(s)

Spec == Init /\ [][Next]_status
=============================================================================
