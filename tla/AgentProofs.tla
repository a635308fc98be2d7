----------------------------- MODULE AgentProofs -----------------------------
(***************************************************************************)
(* Proofs about Agent, for every capacity, every number of attempts, every *)
(* set of status codes and every number of collect cycles.                 *)
(***************************************************************************)
EXTENDS Agent, FiniteSetTheorems, TLAPS

-----------------------------------------------------------------------------
(* No lost wake-up.  The invariant is inductive as it stands: a cycle that *)
(* enqueues owes a wake until it has sent it, the drain loop consumes a    *)
(* wake only to drain, and DrainOnce returns either on an empty buffer or  *)
(* under a done context, which is the agent's own; what arrives between    *)
(* the empty Dequeue and the select finds the wake it left.                *)

\* Every step preserves NoLostWakeup.
LEMMA NoLostWakeupStep == NoLostWakeup /\ [Next]_vars => NoLostWakeup'
<1> SUFFICES ASSUME NoLostWakeup, [Next]_vars PROVE NoLostWakeup'
  OBVIOUS
<1> USE DEF NoLostWakeup, OwesWake
<1>1. CASE Signal
  BY <1>1 DEF Signal
<1>2. CASE CollectLoop
  <2>1. CASE Enqueue
    BY <2>1 DEF Enqueue
  <2>2. CASE SendWake
    BY <2>2 DEF SendWake
  <2>3. CASE Tick \/ SendInfo \/ CollectError \/ CollectStop
    BY <2>3 DEF Tick, SendInfo, CollectError, CollectStop, CollectOnly, bufferVars
  <2> QED BY <1>2, <2>1, <2>2, <2>3 DEF CollectLoop
<1>3. CASE DrainLoop
  <2>1. CASE SelectWake \/ SelectTick \/ SelectDone
    BY <2>1 DEF SelectWake, SelectTick, SelectDone, StartDrain
  <2>2. CASE DequeueEmpty
    BY <2>2 DEF DequeueEmpty, NoTransfer
  <2>6. CASE DrainReturns
    BY <2>6 DEF DrainReturns, Return, NoTransfer, DrainOnly, collectVars
  <2>3. CASE DequeueOne
    BY <2>3 DEF DequeueOne
  <2>4. CASE CheckContext
    <3>1. drainPc' \in {"return", "select"} => cancelled
      BY <2>4 DEF CheckContext, Return, CtxDone
    <3> QED BY <2>4, <3>1 DEF CheckContext, InShip, DrainOnly
  <2>5. CASE \/ CannotPrepare \/ ShipRefused \/ SendRequest
             \/ (\E code \in StatusCodes : Reply(code)) \/ NetworkError
             \/ BackoffElapsed \/ BackoffCancelled
    <3>1. drainPc' \notin {"return", "select"}
      BY <2>5 DEF CannotPrepare, ShipRefused, SendRequest, Reply, NetworkError,
                  BackoffElapsed, BackoffCancelled, AttemptFails, Settle, GoTo
    <3> QED BY <3>1
  <2> QED BY <1>3, <2>1, <2>2, <2>3, <2>4, <2>5, <2>6 DEF DrainLoop
<1>4. CASE FlushExpire
  BY <1>4 DEF FlushExpire, NoTransfer, DrainOnly, collectVars
<1>5. CASE Terminating \/ UNCHANGED vars
  BY <1>5 DEF Terminating, vars, collectVars, bufferVars
<1> QED BY <1>1, <1>2, <1>3, <1>4, <1>5 DEF Next

\* The wake protocol of collectTick and runDrainLoop never leaves a snapshot
\* waiting for the safety-net ticker.
THEOREM WakeupsAreNotLost == Spec => []NoLostWakeup
<1>1. Init => NoLostWakeup
  BY DEF Init, NoLostWakeup
<1> QED BY <1>1, NoLostWakeupStep, PTL DEF Spec
-----------------------------------------------------------------------------
(* The final flush.  When it is over, the buffer and the collect cycle in  *)
(* progress hold at most one snapshot between them: only a cycle whose     *)
(* INFO was sent before the context was cancelled can still enqueue.       *)

\* What Len is applied to.
QueueTyped ==
  buffer \in Seq(Int) /\ Len(buffer) <= Capacity /\ collected \in Nat

Arriving == IF collectPc = "info" THEN 1 ELSE 0

FlushInv ==
  /\ QueueTyped
  /\ flushing => cancelled
  /\ drainPc = "done" => flushing
  /\ drainPc \in {"return", "done"} /\ flushing /\ ~flushExpired
       => Len(buffer) + Arriving <= 1

\* An Enqueue adds at most one snapshot.
LEMMA EnqueueLength ==
  ASSUME QueueTyped, Buffer!Enqueue
  PROVE  QueueTyped' /\ Len(buffer') <= Len(buffer) + 1
<1>1. CASE Buffer!EnqueueFree
  BY <1>1, AgentAssumption DEF Buffer!Enqueue, Buffer!EnqueueFree, QueueTyped
<1>2. CASE Buffer!EnqueueFull
  BY <1>2, AgentAssumption DEF Buffer!Enqueue, Buffer!EnqueueFull, QueueTyped
<1> QED BY <1>1, <1>2 DEF Buffer!Enqueue

\* A Dequeue takes one.
LEMMA DequeueLength ==
  ASSUME QueueTyped, Buffer!Dequeue
  PROVE  QueueTyped' /\ Len(buffer') <= Len(buffer)
BY AgentAssumption DEF Buffer!Dequeue, QueueTyped

\* Every step preserves FlushInv.
LEMMA FlushStep == FlushInv /\ [Next]_vars => FlushInv'
<1> SUFFICES ASSUME FlushInv, [Next]_vars PROVE FlushInv'
  OBVIOUS
<1> USE DEF FlushInv, Arriving
<1>1. Len(buffer) \in Nat /\ Capacity \in Nat \ {0}
  BY AgentAssumption DEF QueueTyped
<1>2. CASE Signal
  BY <1>2 DEF Signal, bufferVars, collectVars, flushVars, QueueTyped
<1>3. CASE CollectLoop
  <2>1. CASE Enqueue
    <3>1. /\ collectPc = "info" /\ collectPc' = "wake"
          /\ UNCHANGED <<cancelled, drainPc, flushing, flushExpired>>
      BY <2>1 DEF Enqueue, CollectOnly, flushVars
    <3>2. QueueTyped' /\ Len(buffer') <= Len(buffer) + 1
      BY <2>1, EnqueueLength DEF Enqueue
    <3>3. Len(buffer') \in Nat
      BY <3>2 DEF QueueTyped
    <3> QED BY <1>1, <3>1, <3>2, <3>3
  <2>2. CASE SendInfo
    BY <1>1, <2>2 DEF SendInfo, CollectOnly, bufferVars, flushVars, QueueTyped
  <2>3. CASE Tick \/ CollectError \/ SendWake \/ CollectStop
    <3>1. collectPc' # "info" /\ UNCHANGED <<cancelled, drainPc, flushing, flushExpired,
                                            buffer, collected>>
      BY <2>3 DEF Tick, CollectError, SendWake, CollectStop, CollectOnly,
                  bufferVars, flushVars
    <3> QED BY <1>1, <3>1 DEF QueueTyped
  <2> QED BY <1>3, <2>1, <2>2, <2>3 DEF CollectLoop
<1>4. CASE DrainLoop
  <2>1. CASE SelectWake \/ SelectTick \/ SelectDone
    BY <2>1 DEF SelectWake, SelectTick, SelectDone, StartDrain, NoTransfer, DrainOnly,
                flushVars, QueueTyped
  <2>2. CASE DequeueEmpty
    <3>1. Len(buffer) = 0
      BY <2>2 DEF DequeueEmpty
    <3> QED BY <2>2, <3>1 DEF DequeueEmpty, NoTransfer, DrainOnly, collectVars,
                              flushVars, QueueTyped
  <2>6. CASE DrainReturns
    BY <2>6 DEF DrainReturns, Return, NoTransfer, DrainOnly, collectVars, flushVars,
                QueueTyped
  <2>3. CASE DequeueOne
    <3>1. QueueTyped'
      BY <2>3, DequeueLength DEF DequeueOne
    <3> QED BY <2>3, <3>1 DEF DequeueOne, flushVars
  <2>4. CASE CheckContext
    <3>1. drainPc' # "return" /\ (drainPc' = "done" => flushing /\ flushExpired)
      BY <2>4 DEF CheckContext, CtxDone, Return
    <3> QED BY <2>4, <3>1 DEF CheckContext, InShip, NoTransfer, DrainOnly, flushVars,
                              QueueTyped
  <2>5. CASE \/ CannotPrepare \/ ShipRefused \/ SendRequest
             \/ (\E code \in StatusCodes : Reply(code)) \/ NetworkError
             \/ BackoffElapsed \/ BackoffCancelled
    <3>1. /\ drainPc' \notin {"return", "done"}
          /\ UNCHANGED <<cancelled, flushing, flushExpired, buffer, collected>>
      BY <2>5 DEF CannotPrepare, ShipRefused, SendRequest, Reply, NetworkError,
                  BackoffElapsed, BackoffCancelled, AttemptFails, Settle, GoTo,
                  InShip, NoTransfer, DrainOnly, flushVars
    <3> QED BY <3>1 DEF QueueTyped
  <2> QED BY <1>4, <2>1, <2>2, <2>3, <2>4, <2>5, <2>6 DEF DrainLoop
<1>5. CASE FlushExpire
  BY <1>5 DEF FlushExpire, NoTransfer, DrainOnly, QueueTyped
<1>6. CASE Terminating \/ UNCHANGED vars
  BY <1>6 DEF Terminating, vars, collectVars, bufferVars, flushVars, QueueTyped
<1> QED BY <1>2, <1>3, <1>4, <1>5, <1>6 DEF Next

\* FlushInv holds in every reachable state.
LEMMA FlushInvHolds == Spec => []FlushInv
<1>1. Init => FlushInv
  BY AgentAssumption DEF Init, FlushInv, QueueTyped
<1> QED BY <1>1, FlushStep, PTL DEF Spec

\* After an exit whose flush was not cut short, at most one snapshot is left
\* in the ring buffer.
THEOREM FlushStrandsAtMostOne == Spec => []AtMostOneStranded
<1>1. FlushInv => AtMostOneStranded
  BY DEF FlushInv, AtMostOneStranded, Terminated, Arriving, QueueTyped
<1> QED BY <1>1, FlushInvHolds, PTL
-----------------------------------------------------------------------------
(* The pipeline: what is known of every snapshot from its place in it.     *)

\* Snapshots that have left the buffer have numbers up to Front.
Front == collected - Len(buffer)

Shipping == drainPc \in {"ship", "inflight", "backoff"}

\* The buffer holds the newest snapshots, in order.
BufferIsWindow ==
  /\ Len(buffer) <= collected
  /\ \A i \in 1 .. Len(buffer) : buffer[i] = collected - Len(buffer) + i

\* What is still buffered, or not collected yet, has no history.
BufferUntouched ==
  \A s \in Snapshots : s > Front => fate[s] = "none" /\ sends[s] = 0

\* What shipWithRetry works on has left the buffer, is unsettled, and is the
\* newest snapshot that was ever sent.
HandInv ==
  IF Shipping
    THEN /\ current \in 1 .. Front
         /\ attempt \in 1 .. MaxAttempts
         /\ fate[current] = "none"
         /\ \A s \in Snapshots : s > current => sends[s] = 0
    ELSE current = NoSnapshot /\ attempt = 0

\* Each attempt sends at most one request, and exactly one while the agent runs.
AttemptsSend ==
  /\ drainPc = "ship" => /\ sends[current] <= attempt - 1
                         /\ ~cancelled => sends[current] = attempt - 1
  /\ drainPc \in {"inflight", "backoff"} => /\ sends[current] <= attempt
                                            /\ ~cancelled => sends[current] = attempt
  /\ drainPc = "backoff" => attempt < MaxAttempts

PipelineInv ==
  /\ TypeOK
  /\ BufferIsWindow
  /\ BufferUntouched
  /\ HandInv
  /\ AttemptsSend

\* Enqueue keeps the buffer a window and moves its front at most by one.
LEMMA EnqueueWindow ==
  ASSUME TypeOK, BufferIsWindow, Buffer!Enqueue
  PROVE  /\ buffer' \in Seq(Snapshots) /\ Len(buffer') <= Capacity
         /\ collected' \in 0 .. MaxTicks /\ evicted' \in Nat
         /\ UNCHANGED <<taken, current>>
         /\ BufferIsWindow'
         /\ Front \in Nat /\ Front' \in Nat /\ Front <= Front'
         /\ collected' = collected + 1
         /\ \/ Len(buffer') = Len(buffer) + 1 /\ evicted' = evicted
            \/ Len(buffer') = Len(buffer) /\ evicted' = evicted + 1
<1> DEFINE n == Len(buffer)
<1>1. /\ n \in Nat /\ n <= Capacity /\ collected \in Nat /\ n <= collected
      /\ collected < MaxTicks /\ collected' = collected + 1 /\ evicted \in Nat
      /\ buffer \in Seq(Snapshots) /\ Capacity \in Nat \ {0} /\ MaxTicks \in Nat
      /\ UNCHANGED <<taken, current>>
  BY AgentAssumption DEF TypeOK, BufferIsWindow, Buffer!Enqueue
<1>2. \A i \in 1 .. n : buffer[i] = collected - n + i
  BY DEF BufferIsWindow
<1>3. collected + 1 \in Snapshots
  BY <1>1 DEF Snapshots
<1>4. CASE Buffer!EnqueueFree
  <2>1. n < Capacity /\ buffer' = Append(buffer, collected + 1) /\ evicted' = evicted
    BY <1>4 DEF Buffer!EnqueueFree
  <2>2. Len(buffer') = n + 1 /\ buffer' \in Seq(Snapshots)
    BY <1>1, <1>3, <2>1
  <2>3. \A i \in 1 .. n + 1 : buffer'[i] = (collected + 1) - (n + 1) + i
    BY <1>1, <1>2, <2>1
  <2>4. BufferIsWindow'
    BY <1>1, <2>2, <2>3 DEF BufferIsWindow
  <2> QED BY <1>1, <2>1, <2>2, <2>4 DEF Front
<1>5. CASE Buffer!EnqueueFull
  <2>1. /\ n = Capacity /\ buffer' = Append(Tail(buffer), collected + 1)
        /\ evicted' = evicted + 1
    BY <1>5 DEF Buffer!EnqueueFull
  <2>2. buffer # <<>>
    BY <1>1, <2>1
  <2> DEFINE t == Tail(buffer)
  <2>3. t \in Seq(Snapshots) /\ Len(t) = n - 1
    BY <1>1, <2>2
  <2>4. \A i \in 1 .. n - 1 : t[i] = collected - n + (i + 1)
    BY <1>1, <1>2, <2>2
  <2> HIDE DEF t
  <2>5. Len(buffer') = n /\ buffer' \in Seq(Snapshots)
    BY <1>1, <1>3, <2>1, <2>3 DEF t
  <2>6. \A i \in 1 .. n : buffer'[i] = (collected + 1) - n + i
    <3>1. buffer' = Append(t, collected + 1)
      BY <2>1 DEF t
    <3>2. n - 1 \in Nat /\ \A i \in 1 .. n : i \in 1 .. n - 1 \/ i = n
      BY <1>1, <2>1
    <3>3. \A i \in 1 .. n - 1 : buffer'[i] = t[i]
      BY <2>3, <3>1, <3>2
    <3>4. buffer'[n] = collected + 1
      BY <1>1, <2>3, <3>1
    <3>5. ASSUME NEW i \in 1 .. n PROVE buffer'[i] = (collected + 1) - n + i
      <4>1. CASE i \in 1 .. n - 1
        <5>1. buffer'[i] = collected - n + (i + 1)
          BY <2>4, <3>3, <4>1
        <5> QED BY <1>1, <5>1
      <4>2. CASE i = n
        BY <1>1, <3>4, <4>2
      <4> QED BY <3>2, <4>1, <4>2
    <3> QED BY <3>5
  <2>7. BufferIsWindow'
    BY <1>1, <2>5, <2>6 DEF BufferIsWindow
  <2> QED BY <1>1, <2>1, <2>5, <2>7 DEF Front
<1> QED BY <1>4, <1>5 DEF Buffer!Enqueue

\* Dequeue hands out the snapshot behind the front.
LEMMA DequeueWindow ==
  ASSUME TypeOK, BufferIsWindow, Buffer!Dequeue
  PROVE  /\ buffer' \in Seq(Snapshots) /\ Len(buffer') <= Capacity
         /\ Len(buffer) \in Nat /\ Len(buffer') = Len(buffer) - 1
         /\ taken' \in Nat
         /\ UNCHANGED <<collected, evicted>>
         /\ BufferIsWindow'
         /\ Front \in Nat /\ Front' = Front + 1
         /\ current' = Front' /\ current' \in Snapshots
<1> DEFINE n == Len(buffer)
<1>1. /\ n \in Nat \ {0} /\ n <= Capacity /\ collected \in Nat /\ n <= collected
      /\ collected <= MaxTicks
      /\ buffer \in Seq(Snapshots) /\ Capacity \in Nat /\ MaxTicks \in Nat
      /\ buffer # <<>> /\ buffer' = Tail(buffer) /\ current' = Head(buffer)
      /\ taken' \in Nat /\ UNCHANGED <<collected, evicted>>
  BY AgentAssumption DEF TypeOK, BufferIsWindow, Buffer!Dequeue
<1>2. \A i \in 1 .. n : buffer[i] = collected - n + i
  BY DEF BufferIsWindow
<1>3. buffer' \in Seq(Snapshots) /\ Len(buffer') = n - 1
  BY <1>1
<1>4. /\ Head(buffer) = collected - n + 1
      /\ \A i \in 1 .. n - 1 : buffer'[i] = collected - (n - 1) + i
  BY <1>1, <1>2
<1>5. BufferIsWindow'
  BY <1>1, <1>3, <1>4 DEF BufferIsWindow
<1> QED BY <1>1, <1>3, <1>4, <1>5 DEF Front, Snapshots

\* The steps that move neither a snapshot nor an attempt, and leave the drain
\* loop inside or outside shipWithRetry as it was.
Quiet ==
  /\ UNCHANGED <<bufferVars, settleVars, sends>>
  /\ drainPc' = drainPc \/ (~Shipping /\ ~Shipping')
  /\ cancelled => cancelled'

\* The variables outside the pipeline keep their types.
LEMMA QuietSteps ==
  ASSUME TypeOK, FlushInv, HandInv,
         \/ Signal \/ FlushExpire
         \/ Tick \/ SendInfo \/ CollectError \/ SendWake \/ CollectStop
         \/ SelectWake \/ SelectTick \/ SelectDone \/ DequeueEmpty
         \/ DrainReturns \/ CheckContext
         \/ Terminating \/ UNCHANGED vars
  PROVE  Quiet /\ TypeOK'
<1> USE DEF Quiet, Shipping, bufferVars, collectVars, flushVars, settleVars
<1>1. CASE Signal \/ FlushExpire
  BY <1>1 DEF Signal, FlushExpire, DrainOnly, NoTransfer, TypeOK
<1>2. CASE Tick
  BY <1>2, AgentAssumption DEF Tick, CollectOnly, TypeOK, CollectPcs
<1>3. CASE SendInfo \/ CollectError \/ SendWake \/ CollectStop
  BY <1>3 DEF SendInfo, CollectError, SendWake, CollectStop, CollectOnly, TypeOK,
              CollectPcs
<1>4. CASE SelectWake \/ SelectTick \/ SelectDone
  BY <1>4 DEF SelectWake, SelectTick, SelectDone, StartDrain, DrainOnly, NoTransfer,
              TypeOK, DrainPcs
<1>5. CASE DequeueEmpty \/ DrainReturns \/ CheckContext
  BY <1>5 DEF DequeueEmpty, DrainReturns, CheckContext, Return, InShip,
              DrainOnly, NoTransfer,
              TypeOK, DrainPcs
<1>6. CASE Terminating \/ UNCHANGED vars
  BY <1>6 DEF Terminating, vars, TypeOK
<1> QED BY <1>1, <1>2, <1>3, <1>4, <1>5, <1>6

\* A quiet step preserves what is known of the snapshots.
LEMMA QuietPreserves ==
  ASSUME PipelineInv, Quiet
  PROVE  BufferIsWindow' /\ BufferUntouched' /\ HandInv' /\ AttemptsSend'
<1>1. /\ buffer' = buffer /\ collected' = collected /\ current' = current
      /\ attempt' = attempt /\ fate' = fate /\ sends' = sends /\ Front' = Front
  BY DEF Quiet, bufferVars, settleVars, Front
<1>2. Shipping' = Shipping /\ (Shipping => drainPc' = drainPc)
  BY DEF Quiet, Shipping
<1>3. BufferIsWindow' /\ BufferUntouched'
  BY <1>1 DEF PipelineInv, BufferIsWindow, BufferUntouched
<1>4. HandInv'
  BY <1>1, <1>2 DEF PipelineInv, HandInv
<1>5. AttemptsSend'
  BY <1>1, <1>2 DEF PipelineInv, AttemptsSend, Quiet, Shipping
<1> QED BY <1>3, <1>4, <1>5

\* The two steps of the buffer.
LEMMA EnqueuePreserves ==
  ASSUME PipelineInv, Enqueue
  PROVE  PipelineInv'
<1>1. /\ buffer' \in Seq(Snapshots) /\ Len(buffer') <= Capacity
      /\ collected' \in 0 .. MaxTicks /\ evicted' \in Nat
      /\ UNCHANGED <<taken, current>>
      /\ BufferIsWindow'
      /\ Front \in Nat /\ Front' \in Nat /\ Front <= Front'
  BY EnqueueWindow DEF PipelineInv, Enqueue
<1>2. /\ collectPc' = "wake" /\ UNCHANGED <<ticks, wake>>
      /\ UNCHANGED <<cancelled, drainPc, flushing, flushExpired, attempt, droppedTotal,
                     fate, sends>>
  BY DEF Enqueue, CollectOnly, flushVars
<1>3. TypeOK'
  BY <1>1, <1>2 DEF PipelineInv, TypeOK, CollectPcs
<1>4. BufferUntouched'
  BY <1>1, <1>2 DEF PipelineInv, BufferUntouched, Snapshots
<1>5. HandInv'
  BY <1>1, <1>2 DEF PipelineInv, HandInv, Shipping
<1>6. AttemptsSend'
  BY <1>1, <1>2 DEF PipelineInv, AttemptsSend
<1> QED BY <1>1, <1>3, <1>4, <1>5, <1>6 DEF PipelineInv

\* A Dequeue takes the oldest snapshot in hand, at its first attempt.
LEMMA DequeuePreserves ==
  ASSUME PipelineInv, DequeueOne
  PROVE  PipelineInv'
<1>1. /\ buffer' \in Seq(Snapshots) /\ Len(buffer') <= Capacity
      /\ taken' \in Nat
      /\ UNCHANGED <<collected, evicted>>
      /\ BufferIsWindow'
      /\ Front \in Nat /\ Front' = Front + 1
      /\ current' = Front' /\ current' \in Snapshots
  BY DequeueWindow DEF PipelineInv, DequeueOne
<1>2. /\ attempt' = 1 /\ drainPc' = "ship"
      /\ UNCHANGED <<cancelled, collectPc, ticks, wake, flushing, flushExpired,
                     droppedTotal, fate, sends>>
  BY DEF DequeueOne, collectVars, flushVars
<1>3. MaxAttempts \in Nat \ {0}
  BY AgentAssumption
<1>4. TypeOK'
  BY <1>1, <1>2, <1>3 DEF PipelineInv, TypeOK, DrainPcs
<1>5. \A s \in Snapshots : s > Front => fate[s] = "none" /\ sends[s] = 0
  BY DEF PipelineInv, BufferUntouched
<1>6. BufferUntouched'
  BY <1>1, <1>2, <1>5 DEF BufferUntouched, Snapshots
<1>7. current' > Front /\ current' \in 1 .. Front'
  BY <1>1
<1>8. HandInv'
  BY <1>1, <1>2, <1>3, <1>5, <1>7 DEF HandInv, Shipping, Snapshots
<1>9. AttemptsSend'
  BY <1>1, <1>2, <1>5, <1>7 DEF AttemptsSend
<1> QED BY <1>1, <1>4, <1>6, <1>8, <1>9 DEF PipelineInv

\* The end of shipWithRetry.
LEMMA SettlePreserves ==
  ASSUME PipelineInv, Shipping, NEW outcome \in Fates \ {"none"},
         Settle(outcome), InShip
  PROVE  PipelineInv'
<1> USE DEF PipelineInv
<1>1. /\ UNCHANGED <<cancelled, collectPc, ticks, buffer, collected, evicted, taken,
                     wake, flushing, flushExpired, sends>>
      /\ Front' = Front
  BY DEF InShip, NoTransfer, DrainOnly, collectVars, flushVars, Front
<1>2. /\ current \in 1 .. Front /\ current \in Snapshots
      /\ current' = NoSnapshot /\ attempt' = 0 /\ drainPc' = "between"
      /\ fate' = [fate EXCEPT ![current] = outcome]
      /\ droppedTotal' \in Nat
  BY DEF HandInv, Settle, TypeOK, NoSnapshot
<1>3. TypeOK'
  BY <1>1, <1>2, AgentAssumption DEF TypeOK, DrainPcs
<1>4. BufferIsWindow'
  BY <1>1 DEF BufferIsWindow
<1>5. BufferUntouched'
  BY <1>1, <1>2 DEF BufferUntouched, TypeOK, Front, Snapshots
<1>6. HandInv' /\ AttemptsSend'
  BY <1>2 DEF HandInv, AttemptsSend, Shipping
<1> QED BY <1>3, <1>4, <1>5, <1>6

\* A failed attempt that is not the last one.  Its request went out, unless the
\* context is done.
LEMMA BackoffPreserves ==
  ASSUME PipelineInv, drainPc \in {"ship", "inflight"}, drainPc = "ship" => cancelled,
         attempt < MaxAttempts, GoTo("backoff"), InShip
  PROVE  PipelineInv'
<1> USE DEF PipelineInv
<1>1. /\ UNCHANGED <<cancelled, collectPc, ticks, buffer, collected, evicted, taken,
                     wake, flushing, flushExpired, sends, current, attempt,
                     droppedTotal, fate>>
      /\ drainPc' = "backoff" /\ Front' = Front
  BY DEF InShip, NoTransfer, DrainOnly, collectVars, flushVars, settleVars, GoTo, Front
<1>2. Shipping /\ Shipping'
  BY <1>1 DEF Shipping
<1>3. TypeOK'
  BY <1>1 DEF TypeOK, DrainPcs
<1>4. BufferIsWindow' /\ BufferUntouched'
  BY <1>1 DEF BufferIsWindow, BufferUntouched
<1>5. HandInv'
  BY <1>1, <1>2 DEF HandInv
<1>6. current \in Snapshots /\ sends[current] \in Nat /\ attempt \in Nat
  BY <1>2, AgentAssumption DEF HandInv, TypeOK, NoSnapshot
<1>7. AttemptsSend'
  BY <1>1, <1>6 DEF AttemptsSend
<1> QED BY <1>3, <1>4, <1>5, <1>7

\* A request goes out.
LEMMA SendPreserves ==
  ASSUME PipelineInv, SendRequest
  PROVE  PipelineInv'
<1> USE DEF PipelineInv
<1>1. /\ UNCHANGED <<cancelled, collectPc, ticks, buffer, collected, evicted, taken,
                     wake, flushing, flushExpired, current, attempt, droppedTotal, fate>>
      /\ drainPc = "ship" /\ drainPc' = "inflight" /\ Front' = Front
      /\ sends' = [sends EXCEPT ![current] = @ + 1]
  BY DEF SendRequest, NoTransfer, DrainOnly, collectVars, flushVars, settleVars, GoTo,
         Front
<1>2. Shipping /\ Shipping'
  BY <1>1 DEF Shipping
<1>3. /\ current \in 1 .. Front /\ current \in Snapshots
      /\ attempt \in 1 .. MaxAttempts
      /\ sends[current] \in Nat /\ sends[current] <= attempt - 1
      /\ ~cancelled => sends[current] = attempt - 1
      /\ sends \in [Snapshots -> 0 .. MaxAttempts]
      /\ MaxAttempts \in Nat
  BY <1>1, <1>2, AgentAssumption DEF HandInv, AttemptsSend, TypeOK, NoSnapshot
<1>4. /\ sends' \in [Snapshots -> 0 .. MaxAttempts]
      /\ sends'[current] = sends[current] + 1
      /\ \A s \in Snapshots : s # current => sends'[s] = sends[s]
  BY <1>1, <1>3
<1>5. TypeOK'
  BY <1>1, <1>4 DEF TypeOK, DrainPcs
<1>6. BufferIsWindow'
  BY <1>1 DEF BufferIsWindow
<1>7. BufferUntouched'
  BY <1>1, <1>3, <1>4 DEF BufferUntouched, TypeOK, Front, Snapshots
<1>8. HandInv'
  BY <1>1, <1>2, <1>3, <1>4 DEF HandInv, Snapshots
<1>9. AttemptsSend'
  BY <1>1, <1>3, <1>4 DEF AttemptsSend
<1> QED BY <1>5, <1>6, <1>7, <1>8, <1>9

\* The next attempt begins.
LEMMA BackoffElapsedPreserves ==
  ASSUME PipelineInv, BackoffElapsed
  PROVE  PipelineInv'
<1> USE DEF PipelineInv
<1>1. /\ UNCHANGED <<cancelled, collectPc, ticks, buffer, collected, evicted, taken,
                     wake, flushing, flushExpired, sends, current, droppedTotal, fate>>
      /\ drainPc = "backoff" /\ drainPc' = "ship" /\ attempt' = attempt + 1
      /\ Front' = Front
  BY DEF BackoffElapsed, InShip, NoTransfer, DrainOnly, collectVars, flushVars, Front
<1>2. Shipping /\ Shipping'
  BY <1>1 DEF Shipping
<1>3. /\ attempt \in 1 .. MaxAttempts /\ attempt < MaxAttempts /\ MaxAttempts \in Nat
      /\ current \in Snapshots /\ sends[current] \in Nat
  BY <1>1, <1>2, AgentAssumption DEF HandInv, AttemptsSend, TypeOK, NoSnapshot
<1>4. TypeOK'
  BY <1>1, <1>3 DEF TypeOK, DrainPcs
<1>5. BufferIsWindow' /\ BufferUntouched'
  BY <1>1 DEF BufferIsWindow, BufferUntouched
<1>6. HandInv'
  BY <1>1, <1>2, <1>3 DEF HandInv
<1>7. AttemptsSend'
  BY <1>1, <1>3 DEF AttemptsSend
<1> QED BY <1>4, <1>5, <1>6, <1>7

\* What a step of shipWithRetry does, and under which context.
ShipStep ==
  \/ CannotPrepare \/ ShipRefused
  \/ (\E code \in StatusCodes : Reply(code)) \/ NetworkError
  \/ BackoffCancelled

\* Each of them settles the snapshot or backs off.
LEMMA ShipSteps ==
  ASSUME PipelineInv, FlushInv, ShipStep
  PROVE  /\ InShip /\ Shipping
         /\ \/ \E outcome \in Fates \ {"none"} :
                 /\ Settle(outcome)
                 /\ outcome = "shutdown" => cancelled
                 /\ outcome = "exhausted" => /\ attempt = MaxAttempts
                                             /\ drainPc = "inflight" \/ cancelled
            \/ /\ drainPc \in {"ship", "inflight"} /\ (drainPc = "ship" => cancelled)
               /\ attempt < MaxAttempts /\ GoTo("backoff")
<1> DEFINE Ends(outcome) ==
             /\ Settle(outcome)
             /\ outcome = "shutdown" => cancelled
             /\ outcome = "exhausted" => /\ attempt = MaxAttempts
                                         /\ drainPc = "inflight" \/ cancelled
           Backs == /\ drainPc \in {"ship", "inflight"} /\ (drainPc = "ship" => cancelled)
                    /\ attempt < MaxAttempts /\ GoTo("backoff")
<1> SUFFICES /\ InShip /\ Shipping
             /\ (\E outcome \in Fates \ {"none"} : Ends(outcome)) \/ Backs
  OBVIOUS
<1>1. CtxDone => cancelled
  BY DEF CtxDone, FlushInv
<1>2. {"delivered", "rejected", "exhausted", "shutdown"} \subseteq Fates \ {"none"}
  BY DEF Fates, Drops
<1>3. CASE CannotPrepare
  <2>1. Ends("rejected")
    BY <1>3 DEF CannotPrepare
  <2> QED BY <1>2, <1>3, <2>1 DEF CannotPrepare, Shipping
<1>4. CASE ShipRefused
  <2>1. drainPc = "ship" /\ cancelled /\ InShip /\ AttemptFails
    BY <1>1, <1>4 DEF ShipRefused
  <2>2. Ends("exhausted") \/ Backs
    BY <2>1 DEF AttemptFails
  <2> QED BY <1>2, <2>1, <2>2 DEF Shipping
<1>5. CASE NetworkError
  <2>1. drainPc = "inflight" /\ InShip /\ AttemptFails
    BY <1>5 DEF NetworkError
  <2>2. Ends("exhausted") \/ Backs
    BY <2>1 DEF AttemptFails
  <2> QED BY <1>2, <2>1, <2>2 DEF Shipping
<1>6. CASE \E code \in StatusCodes : Reply(code)
  <2>1. drainPc = "inflight" /\ InShip
        /\ (Settle("delivered") \/ Settle("rejected") \/ AttemptFails)
    BY <1>6 DEF Reply
  <2>2. Ends("delivered") \/ Ends("rejected") \/ Ends("exhausted") \/ Backs
    BY <2>1 DEF AttemptFails
  <2> QED BY <1>2, <2>1, <2>2 DEF Shipping
<1>7. CASE BackoffCancelled
  <2>1. drainPc = "backoff" /\ InShip /\ Ends("shutdown")
    BY <1>1, <1>7 DEF BackoffCancelled
  <2> QED BY <1>2, <2>1 DEF Shipping
<1> QED BY <1>3, <1>4, <1>5, <1>6, <1>7 DEF ShipStep

\* The actions sorted by what they do to the pipeline.
LEMMA NextSteps ==
  ASSUME [Next]_vars
  PROVE  \/ Enqueue \/ DequeueOne \/ SendRequest \/ BackoffElapsed \/ ShipStep
         \/ Signal \/ FlushExpire
         \/ Tick \/ SendInfo \/ CollectError \/ SendWake \/ CollectStop
         \/ SelectWake \/ SelectTick \/ SelectDone \/ DequeueEmpty
         \/ DrainReturns \/ CheckContext
         \/ Terminating \/ UNCHANGED vars
BY DEF Next, CollectLoop, DrainLoop, ShipStep

\* Every step preserves PipelineInv.
LEMMA PipelineStep == FlushInv /\ PipelineInv /\ [Next]_vars => PipelineInv'
<1> SUFFICES ASSUME FlushInv, PipelineInv, [Next]_vars PROVE PipelineInv'
  OBVIOUS
<1>1. CASE Enqueue
  BY <1>1, EnqueuePreserves
<1>2. CASE DequeueOne
  BY <1>2, DequeuePreserves
<1>3. CASE SendRequest
  BY <1>3, SendPreserves
<1>4. CASE BackoffElapsed
  BY <1>4, BackoffElapsedPreserves
<1>5. CASE ShipStep
  BY <1>5, ShipSteps, SettlePreserves, BackoffPreserves
<1>6. CASE \/ Signal \/ FlushExpire
           \/ Tick \/ SendInfo \/ CollectError \/ SendWake \/ CollectStop
           \/ SelectWake \/ SelectTick \/ SelectDone \/ DequeueEmpty
           \/ DrainReturns \/ CheckContext
           \/ Terminating \/ UNCHANGED vars
  <2>1. Quiet /\ TypeOK'
    BY <1>6, QuietSteps DEF PipelineInv
  <2> QED BY <2>1, QuietPreserves DEF PipelineInv
<1> QED BY <1>1, <1>2, <1>3, <1>4, <1>5, <1>6, NextSteps

\* PipelineInv holds in every reachable state.
LEMMA PipelineInvHolds == Spec => []PipelineInv
<1>1. Init => PipelineInv
  <2> SUFFICES ASSUME Init PROVE PipelineInv
    OBVIOUS
  <2> USE AgentAssumption DEF Init
  <2>1. TypeOK
    <3>1. buffer \in Seq(Snapshots) /\ Len(buffer) <= Capacity
      OBVIOUS
    <3>2. 0 \in 0 .. MaxTicks /\ 0 \in 0 .. MaxAttempts /\ 1 \in 1 .. MaxTicks
      OBVIOUS
    <3>3. fate \in [Snapshots -> Fates] /\ sends \in [Snapshots -> 0 .. MaxAttempts]
      BY <3>2 DEF Fates
    <3> QED BY <3>1, <3>2, <3>3 DEF TypeOK, CollectPcs, DrainPcs
  <2>2. BufferIsWindow
    BY DEF BufferIsWindow
  <2>3. BufferUntouched /\ HandInv /\ AttemptsSend
    BY DEF BufferUntouched, HandInv, AttemptsSend, Shipping
  <2> QED BY <2>1, <2>2, <2>3 DEF PipelineInv
<1> QED BY <1>1, PipelineStep, FlushInvHolds, PTL DEF Spec

\* Type correctness: no buffer beyond its capacity, no attempt and no request
\* beyond max_attempts.
THEOREM TypeCorrect == Spec => []TypeOK
BY PipelineInvHolds, PTL DEF PipelineInv

\* Every step preserves NoEarlyGivingUp.
LEMMA GivingUpStep ==
  FlushInv /\ PipelineInv /\ NoEarlyGivingUp /\ [Next]_vars => NoEarlyGivingUp'
<1> SUFFICES ASSUME FlushInv, PipelineInv, NoEarlyGivingUp, [Next]_vars,
                    ~cancelled'
             PROVE  \A s \in Snapshots :
                      /\ fate'[s] # "shutdown"
                      /\ fate'[s] = "exhausted" => sends'[s] = MaxAttempts
  BY DEF NoEarlyGivingUp
<1> USE DEF NoEarlyGivingUp
<1>1. CASE ShipStep
  <2>1. InShip /\ Shipping /\ ~cancelled /\ sends' = sends
    BY <1>1, ShipSteps DEF InShip, DrainOnly
  <2>2. /\ current \in Snapshots /\ fate \in [Snapshots -> Fates]
        /\ sends[current] \in Nat
        /\ drainPc = "inflight" => sends[current] = attempt
    BY <2>1, AgentAssumption
       DEF PipelineInv, HandInv, AttemptsSend, TypeOK, NoSnapshot
  <2>3. CASE GoTo("backoff")
    BY <2>1, <2>3 DEF GoTo, settleVars
  <2>4. ASSUME NEW outcome \in Fates \ {"none"}, Settle(outcome),
               outcome = "shutdown" => cancelled,
               outcome = "exhausted" => /\ attempt = MaxAttempts
                                        /\ drainPc = "inflight" \/ cancelled
        PROVE  \A s \in Snapshots :
                 /\ fate'[s] # "shutdown"
                 /\ fate'[s] = "exhausted" => sends'[s] = MaxAttempts
    BY <2>1, <2>2, <2>4 DEF Settle
  <2> QED BY <1>1, <2>3, <2>4, ShipSteps
<1>2. CASE SendRequest
  <2>1. /\ fate' = fate /\ ~cancelled /\ current \in Snapshots
        /\ fate[current] = "none"
        /\ \A s \in Snapshots : s # current => sends'[s] = sends[s]
    BY <1>2 DEF SendRequest, GoTo, settleVars, DrainOnly, PipelineInv, HandInv, TypeOK,
                Shipping, NoSnapshot, Front
  <2> QED BY <2>1
<1>3. CASE Enqueue \/ DequeueOne \/ BackoffElapsed
  BY <1>3 DEF Enqueue, CollectOnly, DequeueOne, BackoffElapsed, InShip, DrainOnly
<1>4. CASE \/ Signal \/ FlushExpire
           \/ Tick \/ SendInfo \/ CollectError \/ SendWake \/ CollectStop
           \/ SelectWake \/ SelectTick \/ SelectDone \/ DequeueEmpty
           \/ DrainReturns \/ CheckContext
           \/ Terminating \/ UNCHANGED vars
  BY <1>4, QuietSteps DEF Quiet, settleVars, PipelineInv
<1> QED BY <1>1, <1>2, <1>3, <1>4, NextSteps

\* While the agent runs, only max_attempts real requests or a rejection make it
\* give a payload up.
THEOREM DropsAreEarned == Spec => []NoEarlyGivingUp
<1>1. Init => NoEarlyGivingUp
  BY DEF Init, NoEarlyGivingUp
<1> QED BY <1>1, GivingUpStep, FlushInvHolds, PipelineInvHolds, PTL DEF Spec

\* Requests leave in the order of collection.
THEOREM SendsAreOrdered == Spec => OrderedSends
<1> DEFINE Ordered == \A s \in Snapshots : sends'[s] # sends[s] =>
                        \A later \in Snapshots : later > s => sends[later] = 0
<1>1. FlushInv /\ PipelineInv /\ [Next]_vars => [Ordered]_vars
  <2> SUFFICES ASSUME FlushInv, PipelineInv, [Next]_vars PROVE Ordered
    OBVIOUS
  <2>1. CASE SendRequest
    <3>1. /\ sends \in [Snapshots -> 0 .. MaxAttempts]
          /\ sends' = [sends EXCEPT ![current] = @ + 1]
          /\ \A later \in Snapshots : later > current => sends[later] = 0
      BY <2>1 DEF SendRequest, PipelineInv, HandInv, TypeOK, Shipping
    <3> QED BY <3>1
  <2>2. CASE ShipStep
    BY <2>2, ShipSteps DEF InShip
  <2>3. CASE Enqueue \/ DequeueOne \/ BackoffElapsed
    BY <2>3 DEF Enqueue, CollectOnly, DequeueOne, BackoffElapsed, InShip
  <2>4. CASE \/ Signal \/ FlushExpire
             \/ Tick \/ SendInfo \/ CollectError \/ SendWake \/ CollectStop
             \/ SelectWake \/ SelectTick \/ SelectDone \/ DequeueEmpty
             \/ DrainReturns \/ CheckContext
             \/ Terminating \/ UNCHANGED vars
    BY <2>4, QuietSteps DEF Quiet, PipelineInv
  <2> QED BY <2>1, <2>2, <2>3, <2>4, NextSteps
<1> QED BY <1>1, FlushInvHolds, PipelineInvHolds, PTL DEF Spec, OrderedSends
-----------------------------------------------------------------------------
(* Accounting: every snapshot is in exactly one place.                     *)

Delivered == Cardinality(Fated({"delivered"}))
Dropped == Cardinality(Fated(Drops))

\* The sets counted are finite.
LEMMA FatedFinite ==
  ASSUME NEW outcomes
  PROVE  IsFiniteSet(Fated(outcomes)) /\ Cardinality(Fated(outcomes)) \in Nat
<1>1. IsFiniteSet(Snapshots)
  BY FS_Interval, AgentAssumption DEF Snapshots
<1>2. IsFiniteSet(Fated(outcomes))
  BY <1>1, FS_Subset DEF Fated
<1> QED BY <1>2, FS_CardinalityType

\* Settling adds the snapshot in hand to the sets of its outcome, and to no
\* other.
LEMMA SettleCounts ==
  ASSUME PipelineInv, Shipping, NEW outcome \in Fates \ {"none"}, Settle(outcome),
         NEW outcomes \in SUBSET (Fates \ {"none"})
  PROVE  Cardinality(Fated(outcomes))' =
           Cardinality(Fated(outcomes)) + (IF outcome \in outcomes THEN 1 ELSE 0)
<1>1. /\ current \in Snapshots /\ fate \in [Snapshots -> Fates]
      /\ fate[current] = "none"
      /\ fate' = [fate EXCEPT ![current] = outcome]
  BY DEF PipelineInv, HandInv, TypeOK, NoSnapshot, Settle
<1>2. current \notin Fated(outcomes)
  BY <1>1 DEF Fated
<1>3. CASE outcome \in outcomes
  <2>1. Fated(outcomes)' = Fated(outcomes) \union {current}
    BY <1>1, <1>3 DEF Fated
  <2> QED BY <1>2, <1>3, <2>1, FatedFinite, FS_AddElement
<1>4. CASE outcome \notin outcomes
  <2>1. Fated(outcomes)' = Fated(outcomes)
    BY <1>1, <1>2, <1>4 DEF Fated
  <2> QED BY <1>4, <2>1, FatedFinite
<1> QED BY <1>3, <1>4

\* Every step preserves Accounting.
LEMMA AccountingStep ==
  FlushInv /\ PipelineInv /\ Accounting /\ [Next]_vars => Accounting'
<1> SUFFICES ASSUME FlushInv, PipelineInv, Accounting, [Next]_vars
             PROVE  Accounting'
  OBVIOUS
<1>1. /\ Delivered \in Nat /\ Dropped \in Nat
      /\ collected \in Nat /\ droppedTotal \in Nat /\ evicted \in Nat
      /\ Len(buffer) \in Nat
      /\ collected = Delivered + droppedTotal + evicted + InHand + Len(buffer)
      /\ droppedTotal = Dropped
  BY FatedFinite DEF Accounting, Delivered, Dropped, PipelineInv, TypeOK
<1>2. InHand = IF Shipping THEN 1 ELSE 0
  BY DEF InHand, PipelineInv, HandInv, NoSnapshot
<1>3. fate' = fate => Delivered' = Delivered /\ Dropped' = Dropped
  BY DEF Delivered, Dropped, Fated
<1>4. SUFFICES /\ collected' = Delivered' + droppedTotal' + evicted' + InHand'
                                 + Len(buffer')
               /\ droppedTotal' = Dropped'
  BY DEF Accounting, Delivered, Dropped
<1>5. CASE Enqueue
  <2>1. /\ UNCHANGED <<current, droppedTotal, fate>>
        /\ collected' = collected + 1
        /\ \/ Len(buffer') = Len(buffer) + 1 /\ evicted' = evicted
           \/ Len(buffer') = Len(buffer) /\ evicted' = evicted + 1
    BY <1>5, EnqueueWindow DEF Enqueue, CollectOnly, PipelineInv
  <2>2. InHand' = InHand /\ InHand \in Nat
    BY <1>2, <2>1 DEF InHand
  <2> QED BY <1>1, <1>3, <2>1, <2>2
<1>6. CASE DequeueOne
  <2>1. /\ UNCHANGED <<collected, evicted, droppedTotal, fate>>
        /\ drainPc = "dequeue" /\ current' \in Snapshots
        /\ Len(buffer') = Len(buffer) - 1
    BY <1>6, DequeueWindow DEF DequeueOne, PipelineInv
  <2>2. InHand = 0 /\ InHand' = 1
    BY <1>2, <2>1 DEF Shipping, InHand, Snapshots, NoSnapshot
  <2> QED BY <1>1, <1>3, <2>1, <2>2
<1>7. CASE ShipStep
  <2>1. UNCHANGED <<collected, evicted, buffer>> /\ Shipping
    BY <1>7, ShipSteps DEF InShip, DrainOnly, NoTransfer
  <2>2. CASE GoTo("backoff")
    BY <1>1, <1>3, <2>1, <2>2 DEF GoTo, settleVars, InHand
  <2>3. ASSUME NEW outcome \in Fates \ {"none"}, Settle(outcome)
        PROVE  /\ collected' = Delivered' + droppedTotal' + evicted' + InHand'
                                 + Len(buffer')
               /\ droppedTotal' = Dropped'
    <3>1. /\ Delivered' = Delivered + (IF outcome \in {"delivered"} THEN 1 ELSE 0)
          /\ Dropped' = Dropped + (IF outcome \in Drops THEN 1 ELSE 0)
      BY <2>1, <2>3, SettleCounts DEF Delivered, Dropped, Fates, Drops
    <3>2. droppedTotal' = droppedTotal + (IF outcome \in Drops THEN 1 ELSE 0)
      BY <1>1, <2>3 DEF Settle
    <3>3. InHand = 1 /\ InHand' = 0
      BY <1>2, <2>1, <2>3 DEF Settle, InHand
    <3>4. outcome \in {"delivered"} <=> outcome \notin Drops
      BY DEF Fates, Drops
    <3> QED BY <1>1, <2>1, <3>1, <3>2, <3>3, <3>4
  <2> QED BY <1>7, <2>2, <2>3, ShipSteps
<1>8. CASE SendRequest \/ BackoffElapsed
  <2>1. UNCHANGED <<collected, evicted, buffer, current, droppedTotal, fate>>
    BY <1>8 DEF SendRequest, BackoffElapsed, GoTo, settleVars, InShip, DrainOnly,
                NoTransfer
  <2> QED BY <1>1, <1>3, <2>1 DEF InHand
<1>9. CASE \/ Signal \/ FlushExpire
           \/ Tick \/ SendInfo \/ CollectError \/ SendWake \/ CollectStop
           \/ SelectWake \/ SelectTick \/ SelectDone \/ DequeueEmpty
           \/ DrainReturns \/ CheckContext
           \/ Terminating \/ UNCHANGED vars
  <2>1. UNCHANGED <<collected, evicted, buffer, current, droppedTotal, fate>>
    BY <1>9, QuietSteps DEF Quiet, bufferVars, settleVars, PipelineInv
  <2> QED BY <1>1, <1>3, <2>1 DEF InHand
<1> QED BY <1>5, <1>6, <1>7, <1>8, <1>9, NextSteps

\* Every collected snapshot is delivered, counted as dropped by the drain loop
\* or by the buffer, in hand, or still buffered.
THEOREM NothingLostUncounted == Spec => []Accounting
<1>1. Init => Accounting
  <2> SUFFICES ASSUME Init PROVE Accounting
    OBVIOUS
  <2>1. Fated({"delivered"}) = {} /\ Fated(Drops) = {}
    BY DEF Init, Fated, Drops
  <2>2. Cardinality({}) = 0
    BY FS_EmptySet
  <2>3. Len(buffer) = 0 /\ InHand = 0
    BY DEF Init, InHand
  <2>4. Cardinality(Fated({"delivered"})) = 0 /\ Cardinality(Fated(Drops)) = 0
    BY <2>1, <2>2
  <2> QED BY <2>3, <2>4 DEF Init, Accounting
<1> QED BY <1>1, AccountingStep, FlushInvHolds, PipelineInvHolds, PTL DEF Spec
-----------------------------------------------------------------------------
(* The two loops implement Delivery.                                       *)

\* The mapping of the refinement.
Places == [s \in Snapshots |-> Status(s)]

\* A snapshot's place, from the numbers alone: what is not collected yet, the
\* buffer's window, and behind its front the snapshot in hand and the settled.
Place(s) ==
  IF s > collected THEN "future"
  ELSE IF s > Front THEN "buffered"
  ELSE IF s = current THEN "shipping"
  ELSE IF fate[s] = "delivered" THEN "delivered"
  ELSE IF fate[s] \in Drops THEN "dropped" ELSE "evicted"

Numbers ==
  /\ collected \in 0 .. MaxTicks /\ Front \in Nat
  /\ Len(buffer) \in Nat /\ collected - Front = Len(buffer)
  /\ current = NoSnapshot \/ current \in 1 .. Front
  /\ fate \in [Snapshots -> Fates]
  /\ \A s \in Snapshots : s > Front => fate[s] = "none"

\* What PipelineInv says about the numbers.
LEMMA NumbersHold == PipelineInv => Numbers
BY AgentAssumption
   DEF PipelineInv, TypeOK, BufferIsWindow, BufferUntouched, HandInv, Front, Numbers

\* The mapping gives every snapshot the place its number says.
LEMMA PlaceIsStatus == PipelineInv => \A s \in Snapshots : Status(s) = Place(s)
<1> SUFFICES ASSUME PipelineInv, NEW s \in Snapshots PROVE Status(s) = Place(s)
  OBVIOUS
<1>1. /\ s \in Int /\ collected \in Nat /\ Front \in Nat
      /\ Len(buffer) \in Nat /\ collected - Front = Len(buffer)
  BY NumbersHold DEF Numbers, Snapshots
<1>2. \A i \in 1 .. Len(buffer) : buffer[i] = Front + i
  BY DEF PipelineInv, BufferIsWindow, Front
<1>3. Buffered(s) <=> s > Front /\ s <= collected
  <2>1. DOMAIN buffer = 1 .. Len(buffer)
    BY DEF PipelineInv, TypeOK
  <2>2. ASSUME s > Front, s <= collected PROVE Buffered(s)
    <3>1. s - Front \in 1 .. Len(buffer) /\ Front + (s - Front) = s
      BY <1>1, <2>2
    <3>2. buffer[s - Front] = s
      BY <1>2, <3>1
    <3> QED BY <2>1, <3>1, <3>2 DEF Buffered
  <2>3. ASSUME Buffered(s) PROVE s > Front /\ s <= collected
    <3>1. PICK i \in 1 .. Len(buffer) : buffer[i] = s
      BY <2>1, <2>3 DEF Buffered
    <3> QED BY <1>1, <1>2, <3>1
  <2> QED BY <2>2, <2>3
<1> QED BY <1>1, <1>3 DEF Status, Place

\* The instance counts as the library does.
LEMMA CardinalityIsPromises ==
  ASSUME NEW S
  PROVE  Promise!Cardinality(S) = Cardinality(S)
BY DEF Promise!Cardinality, Cardinality

\* Where nothing that Status looks at changes, no place does.
LEMMA PlacesStay ==
  ASSUME UNCHANGED <<buffer, collected, current, fate>>
  PROVE  UNCHANGED Places
BY DEF Places, Status, Buffered

\* The snapshots that wait are the buffer's window, and its front is the oldest.
LEMMA WaitingIs ==
  ASSUME PipelineInv
  PROVE  /\ Cardinality(Promise!Waiting) = Len(buffer)
         /\ \A s \in Snapshots : Promise!Oldest(s) <=> s = Front + 1 /\ s <= collected
<1>1. Numbers /\ \A s \in Snapshots : Status(s) = Place(s)
  BY NumbersHold, PlaceIsStatus
<1>2. /\ Front \in Int /\ collected \in Int /\ collected <= MaxTicks /\ MaxTicks \in Int
      /\ Len(buffer) \in Nat /\ collected - Front = Len(buffer) /\ Front >= 0
  BY <1>1, AgentAssumption DEF Numbers
<1>3. Promise!Waiting = {s \in Snapshots : Status(s) = "buffered"}
  BY DEF Promise!Waiting, Promise!Snapshots, Snapshots
<1>4. Promise!Waiting = Front + 1 .. collected
  <2>1. \A s \in Snapshots : s \in Int /\ s >= 1 /\ s <= MaxTicks
    BY <1>2 DEF Snapshots
  <2>2. \A s \in Snapshots : Status(s) = "buffered" <=> s > Front /\ s <= collected
    BY <1>1, <1>2, <2>1 DEF Place
  <2>3. Front + 1 .. collected \subseteq Snapshots
    BY <1>2 DEF Snapshots
  <2>4. \A s \in Snapshots : s \in Front + 1 .. collected <=> s > Front /\ s <= collected
    BY <1>2, <2>1
  <2> QED BY <1>3, <2>2, <2>3, <2>4
<1>5. Cardinality(Promise!Waiting) = Len(buffer)
  <2>1. Cardinality(Front + 1 .. collected) =
          IF Front + 1 > collected THEN 0 ELSE collected - (Front + 1) + 1
    <3>1. Front + 1 \in Int
      BY <1>2
    <3> QED BY <1>2, <3>1, FS_Interval
  <2> QED BY <1>2, <1>4, <2>1
<1>6. ASSUME NEW s \in Snapshots
      PROVE  Promise!Oldest(s) <=> s = Front + 1 /\ s <= collected
  <2>1. s \in Int
    BY DEF Snapshots
  <2>2. Promise!Oldest(s) <=> s \in Promise!Waiting /\ \A t \in Promise!Waiting : s <= t
    BY DEF Promise!Oldest
  <2> QED BY <1>2, <1>4, <2>1, <2>2
<1> QED BY <1>5, <1>6

\* What the step lemmas below need before and after a step.
Placed == Numbers /\ (\A s \in Snapshots : Status(s) = Place(s))

\* And PipelineInv gives it.
LEMMA PlacedHolds == PipelineInv => Placed
BY NumbersHold, PlaceIsStatus DEF Placed

\* Enqueue collects the next snapshot, and evicts the oldest from a full buffer.
LEMMA EnqueueCollects ==
  ASSUME PipelineInv, PipelineInv', Enqueue
  PROVE  Promise!Next
<1> DEFINE new == collected + 1
<1>1. Placed /\ Placed'
  BY PlacedHolds, PTL
<1>2. /\ collected \in Int /\ Front \in Int /\ MaxTicks \in Int
      /\ Len(buffer) \in Nat /\ collected - Front = Len(buffer) /\ Front >= 0
      /\ collected' = new /\ collected < MaxTicks
      /\ current' = current /\ fate' = fate
  BY <1>1, AgentAssumption DEF Placed, Numbers, Enqueue, CollectOnly, Buffer!Enqueue
<1>3. new \in Snapshots
  BY <1>2 DEF Snapshots
<1>4. Capacity \in Nat \ {0} /\ buffer \in Seq(Snapshots)
  BY AgentAssumption DEF PipelineInv, TypeOK
<1>5. \/ Len(buffer) < Capacity /\ Front' = Front
      \/ Len(buffer) = Capacity /\ Front' = Front + 1
  <2>1. CASE Buffer!EnqueueFree
    <3>1. Len(buffer) < Capacity /\ buffer' = Append(buffer, new)
      BY <2>1 DEF Buffer!EnqueueFree
    <3>2. Len(buffer') = Len(buffer) + 1
      BY <1>3, <1>4, <3>1
    <3> QED BY <1>2, <3>1, <3>2 DEF Front
  <2>2. CASE Buffer!EnqueueFull
    <3>1. Len(buffer) = Capacity /\ buffer' = Append(Tail(buffer), new) /\ buffer # <<>>
      BY <1>4, <2>2 DEF Buffer!EnqueueFull
    <3>2. Len(buffer') = Len(buffer)
      BY <1>3, <1>4, <3>1
    <3> QED BY <1>2, <3>1, <3>2 DEF Front
  <2> QED BY <2>1, <2>2 DEF Enqueue, Buffer!Enqueue
<1>6. Status(new) = "future" /\ \A t \in Snapshots : t < new => Status(t) # "future"
  BY <1>1, <1>2, <1>3 DEF Placed, Place, Snapshots
<1>7. ASSUME NEW t \in Snapshots
      PROVE  Status(t)' = IF t = new THEN "buffered"
                          ELSE IF Promise!Full /\ Promise!Oldest(t) THEN "evicted"
                          ELSE Status(t)
  <2>1. /\ t \in Int /\ t >= 1 /\ Status(t) = Place(t) /\ Status(t)' = Place(t)'
        /\ (t > Front => fate[t] = "none")
        /\ (current = t => t <= Front)
    BY <1>1, <1>2 DEF Placed, Numbers, Snapshots, NoSnapshot
  <2>2. Promise!Full /\ Promise!Oldest(t) <=>
          Len(buffer) = Capacity /\ t = Front + 1
    <3>1. Cardinality(Promise!Waiting) = Len(buffer)
      BY WaitingIs
    <3>2. Promise!Full <=> Len(buffer) = Capacity
      BY <3>1, CardinalityIsPromises DEF Promise!Full
    <3>3. Promise!Oldest(t) <=> t = Front + 1 /\ t <= collected
      BY WaitingIs
    <3> QED BY <1>2, <1>4, <3>2, <3>3
  <2>3. Place(t)' = IF t > new THEN "future"
                    ELSE IF t > Front' THEN "buffered"
                    ELSE IF t = current THEN "shipping"
                    ELSE IF fate[t] = "delivered" THEN "delivered"
                    ELSE IF fate[t] \in Drops THEN "dropped" ELSE "evicted"
    BY <1>2 DEF Place
  <2>4. fate[t] = "none" => fate[t] # "delivered" /\ fate[t] \notin Drops
    BY DEF Drops
  <2>5. Place(t) = IF t > collected THEN "future"
                   ELSE IF t > Front THEN "buffered"
                   ELSE IF t = current THEN "shipping"
                   ELSE IF fate[t] = "delivered" THEN "delivered"
                   ELSE IF fate[t] \in Drops THEN "dropped" ELSE "evicted"
    BY DEF Place
  <2>6. Place(t)' = IF t = new THEN "buffered"
                    ELSE IF Len(buffer) = Capacity /\ t = Front + 1 THEN "evicted"
                    ELSE Place(t)
    <3>1. CASE t > Front
      BY <1>2, <1>4, <1>5, <2>1, <2>3, <2>4, <2>5, <3>1
    <3>2. CASE t <= Front
      BY <1>2, <1>4, <1>5, <2>1, <2>3, <2>5, <3>2
    <3> QED BY <1>2, <2>1, <3>1, <3>2
  <2> QED BY <2>1, <2>2, <2>6
<1>8. Promise!Collect(new)
  <2>1. new \in Promise!Snapshots /\ Promise!Snapshots = Snapshots
    BY <1>3 DEF Promise!Snapshots, Snapshots
  <2> QED BY <1>3, <1>6, <1>7, <2>1 DEF Promise!Collect
<1> QED BY <1>3, <1>8 DEF Promise!Next, Promise!Snapshots, Snapshots

\* DequeueOne ships the oldest snapshot that waits, and no other is shipping.
LEMMA DequeueShips ==
  ASSUME PipelineInv, PipelineInv', DequeueOne
  PROVE  Promise!Next
<1> DEFINE oldest == Front + 1
<1>1. Placed /\ Placed'
  BY PlacedHolds, PTL
<1>2. /\ collected' = collected /\ Front' = oldest /\ current' = oldest
      /\ current' \in Snapshots /\ fate' = fate
  BY DequeueWindow DEF PipelineInv, DequeueOne
<1>3. /\ collected \in Int /\ Front \in Int /\ MaxTicks \in Int
      /\ oldest \in Snapshots /\ oldest <= collected
      /\ current = NoSnapshot
  <2>1. current = NoSnapshot
    BY DEF DequeueOne, PipelineInv, HandInv, Shipping
  <2>2. /\ Front \in Nat /\ collected \in 0 .. MaxTicks
        /\ Len(buffer') \in Nat /\ collected' - Front' = Len(buffer')
    BY <1>1 DEF Placed, Numbers
  <2>3. oldest \in Snapshots /\ MaxTicks \in Int
    BY <1>2, AgentAssumption
  <2> QED BY <1>2, <2>1, <2>2, <2>3
<1>4. \A t \in Snapshots : Status(t) # "shipping"
  BY <1>1, <1>3 DEF Placed, Place, Snapshots, NoSnapshot
<1>5. Promise!Oldest(oldest)
  BY <1>3, WaitingIs
<1>6. ASSUME NEW t \in Snapshots
      PROVE  Status(t)' = IF t = oldest THEN "shipping" ELSE Status(t)
  <2>1. t \in Int /\ t # NoSnapshot /\ Status(t) = Place(t) /\ Status(t)' = Place(t)'
    BY <1>1, <1>3 DEF Placed, Snapshots, NoSnapshot
  <2>2. Place(t)' = IF t > collected THEN "future"
                    ELSE IF t > oldest THEN "buffered"
                    ELSE IF t = oldest THEN "shipping"
                    ELSE IF fate[t] = "delivered" THEN "delivered"
                    ELSE IF fate[t] \in Drops THEN "dropped" ELSE "evicted"
    BY <1>2 DEF Place
  <2> QED BY <1>3, <2>1, <2>2 DEF Place
<1>7. Promise!Ship(oldest)
  <2>1. Promise!Snapshots = Snapshots
    BY DEF Promise!Snapshots, Snapshots
  <2> QED BY <1>3, <1>4, <1>5, <1>6, <2>1 DEF Promise!Ship
<1> QED BY <1>3, <1>7 DEF Promise!Next, Promise!Snapshots, Snapshots

\* The end of shipWithRetry settles the snapshot in hand.
LEMMA SettleSettles ==
  ASSUME PipelineInv, PipelineInv', Shipping, InShip,
         NEW outcome \in Fates \ {"none"}, Settle(outcome)
  PROVE  Promise!Next
<1> DEFINE settled == IF outcome = "delivered" THEN "delivered" ELSE "dropped"
<1>1. Placed /\ Placed'
  BY PlacedHolds, PTL
<1>2. /\ collected' = collected /\ Front' = Front /\ current' = NoSnapshot
      /\ fate' = [fate EXCEPT ![current] = outcome]
  BY DEF InShip, NoTransfer, DrainOnly, Front, Settle
<1>3. /\ collected \in Int /\ Front \in Int /\ current \in Snapshots
      /\ current \in Int /\ current <= Front /\ Front <= collected
      /\ fate \in [Snapshots -> Fates]
  <2>1. /\ collected \in Int /\ Front \in Int
        /\ Len(buffer) \in Nat /\ collected - Front = Len(buffer)
        /\ fate \in [Snapshots -> Fates]
    BY <1>1 DEF Placed, Numbers
  <2>2. current \in 1 .. Front /\ current \in Snapshots
    BY DEF PipelineInv, HandInv, TypeOK, NoSnapshot
  <2> QED BY <2>1, <2>2
<1>4. Status(current) = "shipping"
  BY <1>1, <1>3 DEF Placed, Place
<1>5. ASSUME NEW t \in Snapshots
      PROVE  Status(t)' = IF t = current THEN settled ELSE Status(t)
  <2>1. t \in Int /\ t # NoSnapshot /\ Status(t) = Place(t) /\ Status(t)' = Place(t)'
    BY <1>1 DEF Placed, Snapshots, NoSnapshot
  <2>2. fate'[t] = IF t = current THEN outcome ELSE fate[t]
    BY <1>2, <1>3
  <2>3. Place(t)' = IF t > collected THEN "future"
                    ELSE IF t > Front THEN "buffered"
                    ELSE IF fate'[t] = "delivered" THEN "delivered"
                    ELSE IF fate'[t] \in Drops THEN "dropped" ELSE "evicted"
    BY <1>2, <2>1 DEF Place
  <2>4. outcome # "delivered" => outcome \in Drops
    BY DEF Fates
  <2> QED BY <1>3, <2>1, <2>2, <2>3, <2>4 DEF Place
<1>6. Promise!Settle(current)
  <2>1. settled \in Promise!Settled /\ Promise!Snapshots = Snapshots
    BY DEF Promise!Settled, Promise!Snapshots, Snapshots
  <2> QED BY <1>3, <1>4, <1>5, <2>1 DEF Promise!Settle
<1> QED BY <1>3, <1>6 DEF Promise!Next, Promise!Snapshots, Snapshots

\* Every step of the agent is a step of Delivery or moves no snapshot.
LEMMA StepRefines ==
  ASSUME FlushInv, PipelineInv, PipelineInv', [Next]_vars
  PROVE  Promise!Next \/ UNCHANGED Places
<1>1. CASE Enqueue
  BY <1>1, EnqueueCollects
<1>2. CASE DequeueOne
  BY <1>2, DequeueShips
<1>3. CASE ShipStep
  <2>1. CASE GoTo("backoff")
    <3>1. UNCHANGED <<buffer, collected, current, fate>>
      BY <1>3, <2>1, ShipSteps DEF GoTo, settleVars, InShip, NoTransfer, DrainOnly
    <3> QED BY <3>1, PlacesStay
  <2>2. ASSUME NEW outcome \in Fates \ {"none"}, Settle(outcome) PROVE Promise!Next
    BY <1>3, <2>2, ShipSteps, SettleSettles
  <2> QED BY <1>3, <2>1, <2>2, ShipSteps
<1>4. CASE SendRequest \/ BackoffElapsed
  <2>1. UNCHANGED <<buffer, collected, current, fate>>
    BY <1>4 DEF SendRequest, BackoffElapsed, GoTo, settleVars, InShip, DrainOnly, NoTransfer
  <2> QED BY <2>1, PlacesStay
<1>5. CASE \/ Signal \/ FlushExpire
           \/ Tick \/ SendInfo \/ CollectError \/ SendWake \/ CollectStop
           \/ SelectWake \/ SelectTick \/ SelectDone \/ DequeueEmpty
           \/ DrainReturns \/ CheckContext
           \/ Terminating \/ UNCHANGED vars
  <2>1. UNCHANGED <<buffer, collected, current, fate>>
    BY <1>5, QuietSteps DEF Quiet, bufferVars, settleVars, PipelineInv
  <2> QED BY <2>1, PlacesStay
<1> QED BY <1>1, <1>2, <1>3, <1>4, <1>5, NextSteps

\* The two loops, with their buffer, wakes, retries, drops and shutdown, keep
\* every promise of Delivery (cmd/agent/main.go, ship_usecase.go).
THEOREM AgentDelivers == Spec => ImplementsDelivery
<1>1. Init => Promise!Init
  <2> SUFFICES ASSUME Init PROVE Promise!Init
    OBVIOUS
  <2>1. \A s \in Snapshots : Status(s) = "future"
    BY AgentAssumption DEF Init, Status, Snapshots
  <2> QED BY <2>1 DEF Promise!Init, Promise!Snapshots, Snapshots
<1>2. FlushInv /\ PipelineInv /\ PipelineInv' /\ [Next]_vars
      => [Promise!Next]_([s \in Snapshots |-> Status(s)])
  BY StepRefines DEF Places
<1> QED BY <1>1, <1>2, FlushInvHolds, PipelineInvHolds, PTL
        DEF Spec, ImplementsDelivery, Promise!Spec
=============================================================================
