------------------------------- MODULE Backoff -------------------------------
(***************************************************************************)
(* How long things take when the Ingestion API fails: the retries of       *)
(* shipWithRetry and the delays of backoffDelay (internal/app/             *)
(* ship_usecase.go) over outages of any length, in time.  The agent is not *)
(* stopping here and the buffer is a supply of snapshots: both are in      *)
(* Agent.                                                                  *)
(*                                                                         *)
(* The unit of time is small enough for a fifth of a delay to be whole.    *)
(***************************************************************************)
EXTENDS Integers, FiniteSetsExt

CONSTANTS
  BaseDelays,    \* values of retry.base_delay: validate does not look at it,
  MaxDelays,     \* nor at retry.max_delay, so either may be zero or less
  MaxAttempts,   \* retry.max_attempts
  Timeout,       \* the HTTP client's, which bounds one request
  MaxLost,       \* bound on the snapshots given up in one stall
  MaxTime        \* bound on the time that passes

ASSUME BackoffAssumption ==
  /\ BaseDelays \subseteq Int /\ MaxDelays \subseteq Int
  /\ MaxAttempts \in Nat \ {0}
  /\ Timeout \in Nat \ {0}
  /\ MaxLost \in Nat /\ MaxTime \in Nat

VARIABLES
  baseDelay, maxDelay,   \* the settings
  api,       \* whether the API answers requests: "up" or "down"
  drainPc,   \* where the drain loop is
  attempt,   \* the attempt shipWithRetry is at
  met,       \* the states the API has been in since the request in flight left
  left,      \* until the request times out, or until the backoff is over
  time,      \* history: time passed
  upFor,     \* history: how long the API has been up
  stalled,   \* history: time since the drain loop last got a snapshot off its
             \* hands other than by giving up, or had nothing to do
  lost       \* history: snapshots given up in that time

settings == <<baseDelay, maxDelay>>
histories == <<stalled, lost>>
vars == <<settings, api, drainPc, attempt, met, left, time, upFor, histories>>

DrainPcs == {"idle", "dequeue", "inflight", "backoff"}

Capped(delay, cap) == IF delay > cap THEN cap ELSE delay
Abs(n) == IF n < 0 THEN -n ELSE n

BadNominal(k) == baseDelay * 2 ^ (k - 1)   \* mutant: no cap
\* The delay after attempt k before jitter.  The code computes in floating
\* point, where an exponent out of range is infinite, and so capped as well.
Nominal(k) == Capped(baseDelay * 2 ^ (k - 1), maxDelay)

BadJitters(delay) == {j \in -Abs(delay) .. Abs(delay) : 2 * Abs(j) <= Abs(delay)}  \* mutant: half
\* A fifth of the delay either way.
Jitters(delay) == {j \in -Abs(delay) .. Abs(delay) : 5 * Abs(j) <= Abs(delay)}

Delays(k) ==
  {IF Nominal(k) + j < 0 THEN 0 ELSE Nominal(k) + j : j \in Jitters(Nominal(k))}

Init ==
  /\ baseDelay \in BaseDelays /\ maxDelay \in MaxDelays
  /\ api \in {"up", "down"}
  /\ drainPc = "idle" /\ attempt = 0 /\ met = {} /\ left = 0
  /\ time = 0 /\ upFor = 0 /\ stalled = 0 /\ lost = 0
-----------------------------------------------------------------------------
(* The API and time.                                                       *)

ApiBecomes(state) ==
  /\ api # state
  /\ api' = state /\ upFor' = 0
  /\ met' = IF drainPc = "inflight" THEN met \union {state} ELSE met
  /\ UNCHANGED <<settings, drainPc, attempt, left, time, histories>>

Outage == ApiBecomes("down")
Recovery == ApiBecomes("up")

Waiting == drainPc \in {"inflight", "backoff"}

\* Time passes while the drain loop waits: for a wake, for a reply no longer
\* than the timeout, for the end of a backoff.
Wait ==
  /\ time < MaxTime
  /\ drainPc # "dequeue" /\ (Waiting => left > 0)
  /\ time' = time + 1
  /\ upFor' = IF api = "up" THEN upFor + 1 ELSE 0
  /\ left' = IF Waiting THEN left - 1 ELSE left
  /\ stalled' = IF Waiting THEN stalled + 1 ELSE stalled
  /\ UNCHANGED <<settings, api, drainPc, attempt, met, lost>>
-----------------------------------------------------------------------------
(* The drain loop.                                                         *)

World == UNCHANGED <<settings, api, time, upFor>>

Wake ==
  /\ drainPc = "idle"
  /\ drainPc' = "dequeue"
  /\ UNCHANGED <<attempt, met, left, histories>> /\ World

DequeueEmpty ==
  /\ drainPc = "dequeue"
  /\ drainPc' = "idle"
  /\ stalled' = 0 /\ lost' = 0
  /\ UNCHANGED <<attempt, met, left>> /\ World

Request(n) ==
  /\ drainPc' = "inflight"
  /\ attempt' = n
  /\ met' = {api}
  /\ left' = Timeout
  /\ UNCHANGED histories /\ World

DequeueOne == drainPc = "dequeue" /\ lost < MaxLost /\ Request(1)

\* Delivered, or refused for good (2xx or a status that is not retried), by an
\* API that was up at some moment of the request.
Settled ==
  /\ drainPc = "inflight" /\ "up" \in met
  /\ drainPc' = "dequeue" /\ attempt' = 0 /\ met' = {} /\ left' = 0
  /\ stalled' = 0 /\ lost' = 0
  /\ World

\* A request that met the API down at some moment may fail until its timeout,
\* even after the API is back: its packets are lost or its 503 is on the way.
Fails == drainPc = "inflight" /\ "down" \in met

BadGivesUp == attempt + 1 = MaxAttempts   \* mutant: one attempt early
LateGivesUp == attempt > MaxAttempts   \* mutant: one attempt more
GivesUp == attempt = MaxAttempts

Exhausted ==
  /\ Fails /\ GivesUp
  /\ drainPc' = "dequeue" /\ attempt' = 0 /\ met' = {} /\ left' = 0
  /\ lost' = lost + 1
  /\ UNCHANGED stalled /\ World

BackOff ==
  /\ Fails /\ ~GivesUp
  /\ drainPc' = "backoff" /\ met' = {}
  /\ left' \in Delays(attempt)
  /\ UNCHANGED <<attempt, histories>> /\ World

BackoffElapsed == drainPc = "backoff" /\ left = 0 /\ Request(attempt + 1)

Next ==
  \/ Outage \/ Recovery \/ Wait
  \/ Wake \/ DequeueEmpty \/ DequeueOne \/ Settled
  \/ Exhausted \/ BackOff \/ BackoffElapsed

Spec == Init /\ [][Next]_vars
-----------------------------------------------------------------------------
\* The longest wait of a backoff is a fifth over the cap: jitter comes after it.
TypeOK ==
  /\ baseDelay \in BaseDelays /\ maxDelay \in MaxDelays
  /\ api \in {"up", "down"}
  /\ drainPc \in DrainPcs
  /\ attempt \in 0 .. MaxAttempts /\ (attempt = 0 <=> ~Waiting)
  /\ met \subseteq {"up", "down"} /\ (met = {} <=> drainPc # "inflight")
  /\ left \in Nat /\ (left > 0 => Waiting)
  /\ drainPc = "inflight" => left <= Timeout
  /\ drainPc = "backoff" => 5 * left <= 6 * Max({0, maxDelay})
  /\ time \in 0 .. MaxTime /\ upFor \in 0 .. time /\ stalled \in 0 .. time
  /\ lost \in 0 .. MaxLost

\* The delays after the first n attempts of one snapshot, without jitter.
PlannedDelay(k) == Max({0, Capped(baseDelay * 2 ^ (k - 1), maxDelay)})
PlannedUpTo[n \in 0 .. MaxAttempts - 1] ==
  IF n = 0 THEN 0 ELSE PlannedUpTo[n - 1] + PlannedDelay(n)

Planned == PlannedUpTo[MaxAttempts - 1]

\* What an outage costs: whatever the jitter and however often the API comes
\* and goes, a stall loses at most one snapshot for every four fifths of the
\* planned delays.  So no outage shorter than that loses any (12 s with the
\* defaults), and a long one loses them at that rate although the buffer has
\* room.  With a max_delay of zero Planned is zero, and nothing bounds the rate.
LossRate == 4 * Planned * lost <= 5 * stalled

\* Retries do not outlast an outage by much: when the API has been back for
\* the longest backoff, a fifth over max_delay, and two requests, the drain
\* loop has got a snapshot off its hands or has nothing to do.  The first of
\* the two left in the outage and fails only after it; the second is answered.
ResumesPromptly ==
  5 * (Min({upFor, stalled}) - 2 * Timeout) <= 6 * Max({0, maxDelay})
=============================================================================
