--------------------------- MODULE CollectSchedule ---------------------------
(***************************************************************************)
(* When the collect loop polls: the ticker of runCollectLoop, the deadline *)
(* of Collect and the way the two settings reach them from config.yaml     *)
(* (config.Load, validate, main, redis.New).  Time passes in seconds.      *)
(*                                                                         *)
(* The agent is not stopping here; that is in Agent.                       *)
(***************************************************************************)
EXTENDS Integers

CONSTANTS
  MaxInterval,   \* bound on collect_interval
  MaxTimeout,    \* bound on collect_timeout
  Overrun        \* seconds a command already sent may outlive its deadline:
                 \* go-redis notices the context when it takes a connection

ASSUME ScheduleAssumption ==
  /\ MaxInterval \in Nat \ {0}
  /\ MaxTimeout \in Nat
  /\ Overrun \in Nat

VARIABLES
  interval,    \* collect_interval as Load accepted it
  timeout,     \* collect_timeout as Load accepted it
  untilTick,   \* seconds to the ticker's next tick
  tick,        \* a tick waits in the ticker's channel, which holds one
  collecting,
  elapsed,     \* seconds the running cycle has taken
  late,        \* history: seconds the waiting tick has waited
  dropped      \* history: ticks dropped since the running cycle started

configVars == <<interval, timeout>>
vars == <<configVars, untilTick, tick, collecting, elapsed, late, dropped>>

\* redis.New falls back to ten seconds.
CollectorTimeout(given) == IF given <= 0 THEN 10 ELSE given

\* Load builds a RedisConfig without a CollectTimeout, and that is what main
\* hands to New: collect_timeout is not used.
GivenTimeout == 0

EffectiveTimeout == CollectorTimeout(GivenTimeout)

\* The longest a cycle takes.
Longest == EffectiveTimeout + Overrun

\* validate wants an interval of a second or more and does not look at the
\* timeout.  runCollectLoop polls at once.
Init ==
  /\ interval \in 1 .. MaxInterval
  /\ timeout \in 0 .. MaxTimeout
  /\ untilTick = interval
  /\ tick = FALSE
  /\ collecting = TRUE
  /\ elapsed = 0
  /\ late = 0
  /\ dropped = 0

\* A loop that waits takes a tick at once.
Start ==
  /\ ~collecting
  /\ tick
  /\ tick' = FALSE
  /\ collecting' = TRUE
  /\ elapsed' = 0 /\ late' = 0 /\ dropped' = 0
  /\ UNCHANGED <<configVars, untilTick>>

\* Redis answered, or failed, or the deadline passed.
Finish ==
  /\ collecting
  /\ collecting' = FALSE
  /\ elapsed' = 0
  /\ UNCHANGED <<configVars, untilTick, tick, late, dropped>>

\* The ticker does not wait for a slow loop: a tick that finds one is dropped.
Fire ==
  /\ untilTick = 1
  /\ untilTick' = interval
  /\ tick' = TRUE
  /\ dropped' = IF tick THEN dropped + 1 ELSE dropped

NoFire ==
  /\ untilTick > 1
  /\ untilTick' = untilTick - 1
  /\ UNCHANGED <<tick, dropped>>

BadSecond ==   \* mutant: no deadline
  /\ ~(tick /\ ~collecting)
  /\ collecting => elapsed < 2 * Longest
  /\ Fire \/ NoFire
  /\ elapsed' = IF collecting THEN elapsed + 1 ELSE elapsed
  /\ late' = IF tick THEN late + 1 ELSE late
  /\ UNCHANGED <<configVars, collecting>>
Second ==
  /\ ~(tick /\ ~collecting)
  /\ collecting => elapsed < Longest
  /\ Fire \/ NoFire
  /\ elapsed' = IF collecting THEN elapsed + 1 ELSE elapsed
  /\ late' = IF tick THEN late + 1 ELSE late
  /\ UNCHANGED <<configVars, collecting>>

Next == Start \/ Finish \/ Second

Spec == Init /\ [][Next]_vars
-----------------------------------------------------------------------------
TypeOK ==
  /\ interval \in 1 .. MaxInterval /\ timeout \in 0 .. MaxTimeout
  /\ untilTick \in 1 .. interval
  /\ tick \in BOOLEAN /\ collecting \in BOOLEAN
  /\ elapsed \in 0 .. Longest
  /\ late \in Nat /\ dropped \in Nat

\* A cycle that fits into the interval costs the schedule nothing: every tick
\* finds the loop waiting.
TicksOnTime == Longest < interval => ~(tick /\ collecting) /\ dropped = 0

\* A slow Redis delays the schedule by one cycle at most and never stops it:
\* the tick that waits is never older than the running cycle, and a cycle
\* drops no more ticks than fit into it beside the one that waits.
DelayIsBounded ==
  /\ late <= Longest
  /\ collecting => late <= elapsed /\ dropped <= elapsed \div interval

\* "Must be less than CollectInterval so a slow Redis cannot block the
\* scheduler" (app/config.go:22; README.md:72): with a collect_timeout below
\* the collect_interval no tick is ever late.
TimeoutProtectsSchedule ==
  0 < timeout /\ timeout + Overrun < interval => ~(tick /\ collecting)
=============================================================================
