--------------------------- MODULE SlowlogDelivery ---------------------------
(***************************************************************************)
(* The way of a slow command from Redis's log to the Ingestion API:        *)
(* Slowlog, whose batches are put in snapshots, composed with Delivery,    *)
(* what the agent promises about a snapshot (Agent implements it), and a   *)
(* network that may lose the reply to a request the API has carried out,   *)
(* or deliver a request long after the agent gave it up at its timeout.    *)
(*                                                                         *)
(* One agent process is followed: a restart forgets its snapshots, and the *)
(* requests it left on the way with them.                                  *)
(***************************************************************************)
EXTENDS Slowlog

CONSTANTS
  Capacity,       \* of the buffer
  MaxSnapshots,   \* bound on the snapshots of one agent process
  MaxAttempts     \* retry.max_attempts, and so the most copies of a snapshot

VARIABLES
  status,   \* snapshot -> its place in the pipeline
  batch,    \* snapshot -> the commands in its slowlog
  attempt,  \* the requests made for the snapshot being shipped
  request,  \* the one the agent waits for: "none", "open" or "stored"
  late,     \* snapshot -> the requests given up that the API may still store
  copies,   \* snapshot -> how often the API stored it
  seen,     \* history: commands logged when the watermark was last set
  wiped     \* history: the log was emptied since

Pipe == INSTANCE Delivery

requests == <<attempt, request, late>>
pipeline == <<status, batch, requests, copies>>
allVars == <<vars, pipeline, seen, wiped>>

ASSUME SlowlogDeliveryAssumption ==
  /\ Capacity \in Nat \ {0}
  /\ MaxSnapshots \in Nat
  /\ MaxAttempts \in Nat \ {0}

NoBatches == [s \in Pipe!Snapshots |-> {}]
NoCopies == [s \in Pipe!Snapshots |-> 0]

PipelineInit ==
  /\ Init /\ Pipe!Init
  /\ batch = NoBatches /\ copies = NoCopies
  /\ attempt = 0 /\ request = "none" /\ late = NoCopies
  /\ seen = 0 /\ wiped = FALSE

RedisLogs == SlowCommand /\ UNCHANGED <<pipeline, seen, wiped>>

RedisWipes ==
  /\ RedisRestart \/ SlowlogReset
  /\ wiped' = TRUE
  /\ UNCHANGED <<pipeline, seen>>

BadCollectWithSlowlog(s) ==   \* mutant: an error of LATENCY fails the cycle
  /\ CollectSlowlog
  /\ UNCHANGED pipeline
  /\ seen' = executed /\ wiped' = FALSE
\* A cycle whose SLOWLOG GET returned entries.  The snapshot is made even if
\* all of them are old, and nothing after the command fails the cycle.
CollectWithSlowlog(s) ==
  /\ Pipe!Collect(s)
  /\ CollectSlowlog
  /\ batch' = [batch EXCEPT ![s] = NewEntries]
  /\ UNCHANGED <<requests, copies>>
  /\ seen' = executed /\ wiped' = FALSE

\* A cycle whose SLOWLOG GET was empty, failed, or is denied.
CollectWithoutSlowlog(s) ==
  /\ Pipe!Collect(s)
  /\ UNCHANGED <<vars, batch, requests, copies, seen, wiped>>

ShipOldest(s) == Pipe!Ship(s) /\ UNCHANGED <<vars, batch, requests, copies, seen, wiped>>

Send(s) ==
  /\ status[s] = "shipping" /\ request = "none" /\ attempt < MaxAttempts
  /\ attempt' = attempt + 1
  /\ request' = "open"
  /\ UNCHANGED <<vars, status, batch, late, copies, seen, wiped>>

StoreOpen(s) ==
  /\ status[s] = "shipping" /\ request = "open"
  /\ request' = "stored"
  /\ UNCHANGED late

\* Whatever became of the snapshot since: the API does not know that the agent
\* no longer waits.
StoreLate(s) ==
  /\ late[s] > 0
  /\ late' = [late EXCEPT ![s] = @ - 1]
  /\ UNCHANGED request

\* A request carries no identifier: a retry is stored again.
Store(s) ==
  /\ StoreOpen(s) \/ StoreLate(s)
  /\ copies' = [copies EXCEPT ![s] = @ + 1]
  /\ UNCHANGED <<vars, status, batch, attempt, seen, wiped>>

\* No reply before the timeout, or one that calls for a retry; either way the
\* request may yet be carried out, if it was not already.
RequestFails(s) ==
  /\ status[s] = "shipping" /\ request # "none"
  /\ request' = "none"
  /\ late' = IF request = "open" THEN [late EXCEPT ![s] = @ + 1] ELSE late
  /\ UNCHANGED <<vars, status, batch, attempt, copies, seen, wiped>>

\* Delivered on a reply to the request the agent waits for; dropped if that was
\* refused for good, or when none is out: the last one failed, the shutdown
\* came during a backoff, or the snapshot cannot be encoded.
SettleShipped(s) ==
  /\ Pipe!Settle(s)
  /\ status'[s] = "delivered" <=> request = "stored"
  /\ attempt' = 0 /\ request' = "none"
  /\ UNCHANGED <<vars, batch, late, copies, seen, wiped>>

\* The buffer is memory, as the watermark is.
RestartEmpty ==
  /\ AgentRestart
  /\ status' = [s \in Pipe!Snapshots |-> "future"]
  /\ batch' = NoBatches /\ copies' = NoCopies
  /\ attempt' = 0 /\ request' = "none" /\ late' = NoCopies
  /\ seen' = epochStart /\ wiped' = (logged # epochStart + 1 .. executed)

PipelineNext ==
  \/ RedisLogs \/ RedisWipes \/ RestartEmpty
  \/ \E s \in Pipe!Snapshots :
       \/ CollectWithSlowlog(s) \/ CollectWithoutSlowlog(s)
       \/ ShipOldest(s) \/ Send(s) \/ Store(s) \/ RequestFails(s) \/ SettleShipped(s)

PipelineSpec == PipelineInit /\ [][PipelineNext]_allVars
-----------------------------------------------------------------------------
\* No snapshot is requested, and so stored, more than max_attempts times.
PipelineTypeOK ==
  /\ TypeOK
  /\ status \in [Pipe!Snapshots -> Pipe!Statuses]
  /\ batch \in [Pipe!Snapshots -> SUBSET Commands]
  /\ attempt \in 0 .. MaxAttempts
  /\ request \in {"none", "open", "stored"}
  /\ late \in [Pipe!Snapshots -> Nat] /\ copies \in [Pipe!Snapshots -> Nat]
  /\ \A s \in Pipe!Snapshots : copies[s] + late[s] <= MaxAttempts
  /\ seen \in 0 .. executed
  /\ wiped \in BOOLEAN

\* "successive calls do not re-send entries that were already shipped"
\* (domain/collector.go:12), end to end, over evictions, drops, lost replies,
\* late requests and restarts of Redis: no command is stored from two snapshots
\* of an agent process, and the API gets the commands in the order of their
\* execution, but for a request that arrives after the agent settled its
\* snapshot.  Such a one is a copy of what the API has, or all it gets of a
\* snapshot that was counted as dropped.
BackendInOrder ==
  [][\A s \in Pipe!Snapshots :
       copies'[s] > copies[s] => \A t \in Pipe!Snapshots \ {s} :
         copies[t] > 0 => \A c \in batch[s], d \in batch[t] :
           /\ c # d
           /\ \/ d < c
              \/ status[s] = "delivered" /\ copies[s] > 0
              \/ status[s] = "dropped"]_allVars

\* The watermark moves when SLOWLOG is read, and what is behind it is not read
\* again: a command the API never gets is lost with a snapshot that a counter
\* counts, evicted or dropped.  The rest is stored or still on its way.
LossIsCounted ==
  \A c \in reported :
    \E s \in Pipe!Snapshots :
      /\ c \in batch[s]
      /\ \/ status[s] \in {"buffered", "shipping"}
         \/ copies[s] > 0
         \/ status[s] \in {"evicted", "dropped"}

\* A cycle gets every slow command since the last one, as long as they fit the
\* window and the log was not emptied in between; except one with ID 0, which
\* only a detected rollover reports.
KeepsUp ==
  [][\A s \in Pipe!Snapshots :
       /\ CollectWithSlowlog(s)
       /\ ~wiped /\ executed - seen <= Min({FetchWindow, LogLength})
       => {c \in seen + 1 .. executed : ID(c) > 0} \subseteq batch'[s]]_allVars
=============================================================================
