-------------------------------- MODULE Agent --------------------------------
(***************************************************************************)
(* The running agent: the collect loop and the drain loop of               *)
(* cmd/agent/main.go, the two use cases they call and the HTTP shipper,    *)
(* around the snapshot buffer, from the first collect cycle to the exit.   *)
(*                                                                         *)
(* The loops are two goroutines that share the buffer, the wake channel    *)
(* (capacity 1, so a Boolean) and the context that SIGINT or SIGTERM       *)
(* cancels.  A step is what runs between two points where the other loop,  *)
(* the network, a timer or a signal can interfere.                         *)
(*                                                                         *)
(* Snapshots are named 1, 2, ... in the order they are enqueued.           *)
(***************************************************************************)
EXTENDS Integers, Sequences, FiniteSets

CONSTANTS
  Capacity,      \* snapshots the buffer holds
  MaxAttempts,   \* retry.max_attempts; config.Load rejects less than one
  StatusCodes,   \* HTTP statuses the Ingestion API may answer
  MaxTicks       \* bound on the number of collect cycles

ASSUME AgentAssumption ==
  /\ Capacity \in Nat \ {0}
  /\ MaxAttempts \in Nat \ {0}
  /\ StatusCodes \subseteq 200 .. 599
  /\ MaxTicks \in Nat \ {0}

VARIABLES
  cancelled,     \* SIGINT or SIGTERM cancelled the agent's context
  collectPc,     \* where the collect loop is
  ticks,         \* history: collect cycles started
  buffer,        \* the ring buffer, oldest snapshot first
  collected,     \* history: snapshots enqueued
  evicted,       \* the buffer's own drop counter
  taken,         \* history: snapshots dequeued
  wake,          \* a wake is pending
  drainPc,       \* where the drain loop is
  flushing,      \* the drain loop is in its final flush
  flushExpired,  \* the flush's 30 seconds are over
  current,       \* the snapshot being shipped, NoSnapshot if none
  attempt,       \* the attempt shipWithRetry is at
  droppedTotal,  \* ShipUseCase.droppedTotal
  fate,          \* history: how each dequeued snapshot ended
  sends          \* history: requests handed to the HTTP client, per snapshot

bufferVars == <<buffer, collected, evicted, taken>>
collectVars == <<collectPc, ticks>>
flushVars == <<flushing, flushExpired>>
settleVars == <<current, attempt, droppedTotal, fate>>
vars == <<cancelled, collectVars, bufferVars, wake, drainPc, flushVars,
          settleVars, sends>>

Snapshots == 1 .. MaxTicks
NoSnapshot == 0

Drops == {"rejected", "exhausted", "shutdown"}
Fates == {"none", "delivered"} \union Drops

CollectPcs == {"select", "poll", "info", "wake", "done"}
DrainPcs == {"select", "dequeue", "ship", "inflight", "backoff", "between",
             "return", "done"}

\* The buffer is the queue that Ring implements.
Buffer == INSTANCE BoundedQueue WITH
            queue <- buffer, enqueued <- collected, droppedTotal <- evicted,
            dequeued <- taken, returned <- current, MaxSnapshots <- MaxTicks

\* The context DrainOnce was given is done: the agent's own, or the final
\* flush's, which does not descend from it.
CtxDone == IF flushing THEN flushExpired ELSE cancelled

\* runCollectLoop starts its first cycle before it waits for a tick.
Init ==
  /\ cancelled = FALSE
  /\ collectPc = "poll"
  /\ ticks = 1
  /\ buffer = <<>> /\ collected = 0 /\ evicted = 0 /\ taken = 0
  /\ wake = FALSE
  /\ drainPc = "select"
  /\ flushing = FALSE /\ flushExpired = FALSE
  /\ current = NoSnapshot /\ attempt = 0
  /\ droppedTotal = 0
  /\ fate = [s \in Snapshots |-> "none"]
  /\ sends = [s \in Snapshots |-> 0]
-----------------------------------------------------------------------------
Signal ==
  /\ ~cancelled
  /\ cancelled' = TRUE
  /\ UNCHANGED <<collectVars, bufferVars, wake, drainPc, flushVars, settleVars, sends>>

-----------------------------------------------------------------------------
(* The collect loop.                                                       *)

CollectOnly == UNCHANGED <<cancelled, drainPc, flushVars, attempt, droppedTotal,
                           fate, sends>>

\* The ticker fires; when the context is done too, select may still choose it.
Tick ==
  /\ collectPc = "select"
  /\ ticks < MaxTicks
  /\ ticks' = ticks + 1
  /\ collectPc' = "poll"
  /\ UNCHANGED <<bufferVars, current, wake>> /\ CollectOnly

BadSendInfo ==   \* mutant: Collect does not descend from the agent's context
  /\ collectPc = "poll"
  /\ collectPc' = "info"
  /\ UNCHANGED <<ticks, bufferVars, current, wake>> /\ CollectOnly

\* INFO is sent: from here on the reply decides, not the context.
SendInfo ==
  /\ collectPc = "poll"
  /\ ~cancelled
  /\ collectPc' = "info"
  /\ UNCHANGED <<ticks, bufferVars, current, wake>> /\ CollectOnly

\* INFO fails, or is not even sent because the context is done: the cycle is
\* skipped.  What it logs is in CollectHealth.
CollectError ==
  /\ \/ collectPc = "info"
     \/ collectPc = "poll" /\ cancelled
  /\ collectPc' = "select"
  /\ UNCHANGED <<ticks, bufferVars, current, wake>> /\ CollectOnly

\* INFO succeeds; nothing after it fails the cycle.
Enqueue ==
  /\ collectPc = "info"
  /\ Buffer!Enqueue
  /\ collectPc' = "wake"
  /\ UNCHANGED <<ticks, wake>> /\ CollectOnly

\* The non-blocking send: a wake that is already pending absorbs this one.
BadSendWake ==  \* mutant: the wake is sent only when the loop is waiting for it
  /\ collectPc = "wake"
  /\ wake' = (wake \/ drainPc = "select")
  /\ collectPc' = "select"
  /\ UNCHANGED <<ticks, bufferVars, current>> /\ CollectOnly
SendWake ==
  /\ collectPc = "wake"
  /\ wake' = TRUE
  /\ collectPc' = "select"
  /\ UNCHANGED <<ticks, bufferVars, current>> /\ CollectOnly

CollectStop ==
  /\ collectPc = "select"
  /\ cancelled
  /\ collectPc' = "done"
  /\ UNCHANGED <<ticks, bufferVars, current, wake>> /\ CollectOnly

-----------------------------------------------------------------------------
(* The drain loop: runDrainLoop, DrainOnce, shipWithRetry and Ship.        *)

DrainOnly == UNCHANGED <<cancelled, collectVars, collected, evicted>>
NoTransfer == UNCHANGED <<buffer, taken>>

StartDrain == drainPc = "select" /\ drainPc' = "dequeue"

SelectWake ==
  /\ wake
  /\ StartDrain
  /\ wake' = FALSE
  /\ UNCHANGED <<flushVars, settleVars, sends>> /\ NoTransfer /\ DrainOnly

\* The safety-net ticker, at any time.
SelectTick ==
  /\ StartDrain
  /\ UNCHANGED <<wake, flushVars, settleVars, sends>> /\ NoTransfer /\ DrainOnly

SelectDone ==
  /\ cancelled
  /\ StartDrain
  /\ flushing' = TRUE
  /\ UNCHANGED <<wake, flushExpired, settleVars, sends>> /\ NoTransfer /\ DrainOnly

FlushExpire ==
  /\ flushing /\ ~flushExpired /\ drainPc # "done"
  /\ flushExpired' = TRUE
  /\ UNCHANGED <<wake, drainPc, flushing, settleVars, sends>> /\ NoTransfer /\ DrainOnly

\* DrainOnce returns: the loop ends after the final flush.
BadReturn == drainPc' = "select"   \* mutant: no return after the final flush
Return == drainPc' = IF flushing THEN "done" ELSE "select"

DequeueEmpty ==
  /\ drainPc = "dequeue"
  /\ buffer = <<>>
  /\ drainPc' = "return"
  /\ UNCHANGED <<wake, flushVars, settleVars, sends>> /\ NoTransfer /\ DrainOnly

\* Between the empty answer and the select, snapshots may arrive.
DrainReturns ==
  /\ drainPc = "return"
  /\ Return
  /\ UNCHANGED <<wake, flushVars, settleVars, sends>> /\ NoTransfer /\ DrainOnly

DequeueOne ==
  /\ drainPc = "dequeue"
  /\ Buffer!Dequeue
  /\ attempt' = 1
  /\ drainPc' = "ship"
  /\ UNCHANGED <<cancelled, collectVars, wake, flushVars, droppedTotal, fate, sends>>

BadSettle(outcome) ==   \* mutant: a drop during the shutdown is not counted
  /\ fate' = [fate EXCEPT ![current] = outcome]
  /\ droppedTotal' = IF outcome \in Drops \ {"shutdown"}
                       THEN droppedTotal + 1 ELSE droppedTotal
  /\ current' = NoSnapshot
  /\ attempt' = 0
  /\ drainPc' = "between"

\* shipWithRetry returns; every outcome but "delivered" is counted.
Settle(outcome) ==
  /\ fate' = [fate EXCEPT ![current] = outcome]
  /\ droppedTotal' = IF outcome \in Drops THEN droppedTotal + 1 ELSE droppedTotal
  /\ current' = NoSnapshot
  /\ attempt' = 0
  /\ drainPc' = "between"

GoTo(pc) == drainPc' = pc /\ UNCHANGED settleVars

BadAttemptFails ==   \* mutant: the count of attempts starts at zero
  \/ attempt = MaxAttempts + 1 /\ Settle("exhausted")
  \/ attempt < MaxAttempts + 1 /\ GoTo("backoff")

HastyAttemptFails ==   \* mutant: gives up one attempt early
  \/ attempt + 1 >= MaxAttempts /\ Settle("exhausted")
  \/ attempt + 1 < MaxAttempts /\ GoTo("backoff")

\* A retryable failure: the last attempt gives up, any other one backs off.
AttemptFails ==
  \/ attempt = MaxAttempts /\ Settle("exhausted")
  \/ attempt < MaxAttempts /\ GoTo("backoff")

InShip == UNCHANGED <<wake, flushVars, sends>> /\ NoTransfer /\ DrainOnly

\* The snapshot cannot be encoded or the request cannot be built.  Both depend
\* on what no attempt changes, so only the first attempt can find out.
CannotPrepare ==
  /\ drainPc = "ship" /\ attempt = 1
  /\ Settle("rejected")
  /\ InShip

\* The HTTP client sends nothing under a context that is already done.
ShipRefused ==
  /\ drainPc = "ship"
  /\ CtxDone
  /\ AttemptFails
  /\ InShip

SendRequest ==
  /\ drainPc = "ship"
  /\ ~CtxDone
  /\ sends' = [sends EXCEPT ![current] = @ + 1]
  /\ GoTo("inflight")
  /\ UNCHANGED <<wake, flushVars>> /\ NoTransfer /\ DrainOnly

Success(code) == code \in 200 .. 299
Retryable(code) == code = 429 \/ code >= 500

Reply(code) ==
  /\ drainPc = "inflight"
  /\ \/ Success(code) /\ Settle("delivered")
     \/ ~Success(code) /\ ~Retryable(code) /\ Settle("rejected")
     \/ ~Success(code) /\ Retryable(code) /\ AttemptFails
  /\ InShip

\* No reply: the network, the client's timeout or the context, at any time.
NetworkError ==
  /\ drainPc = "inflight"
  /\ AttemptFails
  /\ InShip

BadBackoffElapsed ==   \* mutant: the attempt is not counted
  /\ drainPc = "backoff"
  /\ drainPc' = "ship"
  /\ UNCHANGED <<current, attempt, droppedTotal, fate>>
  /\ InShip
BackoffElapsed ==
  /\ drainPc = "backoff"
  /\ attempt' = attempt + 1
  /\ drainPc' = "ship"
  /\ UNCHANGED <<current, droppedTotal, fate>>
  /\ InShip

BackoffCancelled ==
  /\ drainPc = "backoff"
  /\ CtxDone
  /\ Settle("shutdown")
  /\ InShip

\* Between two snapshots DrainOnce gives way to a shutdown.
CheckContext ==
  /\ drainPc = "between"
  /\ IF CtxDone THEN Return ELSE drainPc' = "dequeue"
  /\ UNCHANGED settleVars
  /\ InShip

\* Both loops have ended and the process exits.
Terminated == collectPc = "done" /\ drainPc = "done"
Terminating == Terminated /\ UNCHANGED vars
-----------------------------------------------------------------------------
CollectLoop ==
  Tick \/ SendInfo \/ CollectError \/ Enqueue \/ SendWake \/ CollectStop

DrainLoop ==
  \/ SelectWake \/ SelectTick \/ SelectDone
  \/ DequeueEmpty \/ DrainReturns \/ DequeueOne
  \/ CannotPrepare \/ ShipRefused \/ SendRequest
  \/ (\E code \in StatusCodes : Reply(code)) \/ NetworkError
  \/ BackoffElapsed \/ BackoffCancelled \/ CheckContext

Next == Signal \/ CollectLoop \/ DrainLoop \/ FlushExpire \/ Terminating

Spec == Init /\ [][Next]_vars

\* A goroutine that can run runs; Redis commands and HTTP requests are bounded
\* by timeouts, so a call in flight ends.  A select picks among its ready cases
\* at random, so a case that is ready again and again is chosen: strong
\* fairness.  Nothing is assumed of signals, of the tickers, of the 30 seconds
\* of the flush or of what the API answers.
Fairness ==
  /\ WF_vars(SendInfo \/ CollectError \/ Enqueue) /\ WF_vars(SendWake)
  /\ SF_vars(CollectStop)
  /\ SF_vars(SelectWake) /\ SF_vars(SelectDone)
  /\ WF_vars(drainPc # "select" /\ DrainLoop)

FairSpec == Spec /\ Fairness
-----------------------------------------------------------------------------
TypeOK ==
  /\ cancelled \in BOOLEAN
  /\ collectPc \in CollectPcs
  /\ ticks \in 1 .. MaxTicks
  /\ buffer \in Seq(Snapshots) /\ Len(buffer) <= Capacity
  /\ collected \in 0 .. MaxTicks /\ evicted \in Nat /\ taken \in Nat
  /\ wake \in BOOLEAN
  /\ drainPc \in DrainPcs
  /\ flushing \in BOOLEAN /\ flushExpired \in BOOLEAN
  /\ current \in Snapshots \union {NoSnapshot}
  /\ attempt \in 0 .. MaxAttempts
  /\ droppedTotal \in Nat
  /\ fate \in [Snapshots -> Fates]
  /\ sends \in [Snapshots -> 0 .. MaxAttempts]

\* The collect loop owes the drain loop a wake.
OwesWake == collectPc = "wake"

\* No wake-up is lost: while the agent runs, a snapshot never sits in the
\* buffer with the drain loop asleep, or on its way to sleep after it found the
\* buffer empty, and nobody about to wake it, so that the
\* coalescing of wakes in collectTick is harmless and the safety-net ticker of
\* runDrainLoop is never needed for progress.
NoLostWakeup ==
  buffer # <<>> /\ drainPc \in {"return", "select"} /\ ~cancelled => wake \/ OwesWake

Fated(outcomes) == {s \in Snapshots : fate[s] \in outcomes}
InHand == IF current = NoSnapshot THEN 0 ELSE 1

\* Every snapshot collected is delivered, counted by one of the two drop
\* counters, in the drain loop's hands, or still in the buffer: no path out of
\* shipWithRetry forgets to count and none counts twice.
Accounting ==
  /\ collected = Cardinality(Fated({"delivered"})) + droppedTotal + evicted
                   + InHand + Len(buffer)
  /\ droppedTotal = Cardinality(Fated(Drops))

\* While the agent runs, a payload is given up as exhausted only after
\* max_attempts requests really went out, and never for the shutdown's sake:
\* a drop before SIGTERM is the API's doing.
NoEarlyGivingUp ==
  ~cancelled => \A s \in Snapshots :
    /\ fate[s] # "shutdown"
    /\ fate[s] = "exhausted" => sends[s] = MaxAttempts

\* After a clean exit at most one snapshot is left behind: the one whose INFO
\* was already sent when the context was cancelled.  Everything else was
\* flushed, so the flush may run while the collect loop still does.
AtMostOneStranded == Terminated /\ ~flushExpired => Len(buffer) <= 1

\* Requests go out in the order the snapshots were collected, retries included:
\* once a snapshot was sent no older one is sent again.
OrderedSends ==
  [][\A s \in Snapshots : sends'[s] # sends[s] =>
        \A later \in Snapshots : later > s => sends[later] = 0]_vars

\* How the pipeline looks from outside.
Buffered(s) == \E i \in DOMAIN buffer : buffer[i] = s
Status(s) ==
  IF s > collected THEN "future"
  ELSE IF Buffered(s) THEN "buffered"
  ELSE IF s = current THEN "shipping"
  ELSE IF fate[s] = "delivered" THEN "delivered"
  ELSE IF fate[s] \in Drops THEN "dropped" ELSE "evicted"

Promise == INSTANCE Delivery WITH
             status <- [s \in Snapshots |-> Status(s)], MaxSnapshots <- MaxTicks

\* The two loops with their buffer, wakes, retries and shutdown implement
\* Delivery: nothing is shipped twice at the same time, overtaken, settled
\* twice or resurrected after an eviction.
ImplementsDelivery == Promise!Spec

\* A signal ends the agent, whatever the API and the buffer do: an endless
\* outage cannot hold the shutdown, not even without the flush's timeout.
ShutdownCompletes == cancelled ~> Terminated

\* While the agent runs every buffered snapshot leaves the buffer, by the wake
\* alone: the safety-net ticker is given no fairness.
EventuallyTaken ==
  \A s \in Snapshots : Buffered(s) ~> ~Buffered(s) \/ cancelled

\* Every snapshot that is dequeued is settled.
EventuallySettled ==
  \A s \in Snapshots : current = s ~> fate[s] # "none"
=============================================================================
