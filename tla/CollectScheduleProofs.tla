----------------------- MODULE CollectScheduleProofs -----------------------
(* Proofs about CollectSchedule, for every interval, timeout and overrun: a  *)
(* slow Redis delays the schedule by one cycle at most, and a cycle that     *)
(* fits into the interval does not delay it at all.                          *)
EXTENDS CollectSchedule, TLAPS

\* The length of a cycle is a number of seconds.
LEMMA LongestIsNat == Longest \in Nat
BY ScheduleAssumption DEF Longest, EffectiveTimeout, GivenTimeout, CollectorTimeout

\* Every variable has its type, and nothing waits or was dropped before a tick
\* came.
Typed ==
  /\ TypeOK
  /\ ~tick => late = 0 /\ dropped = 0

\* The age of the waiting tick counts the intervals since it came, and it came
\* during the running cycle.
Ages ==
  /\ tick => late = dropped * interval + (interval - untilTick)
  /\ collecting => late <= elapsed
  /\ late <= Longest

\* When a cycle fits into the interval it runs in the time since the last tick,
\* which it took at once.
InStep ==
  Longest < interval =>
    /\ collecting => ~tick /\ elapsed + untilTick = interval
    /\ tick => untilTick = interval /\ dropped = 0

ScheduleInv == Typed /\ Ages /\ InStep

\* One more tick is one more interval.
LEMMA OneMore ==
  ASSUME NEW d \in Nat, NEW n \in Nat
  PROVE  (d + 1) * n = d * n + n /\ d * n \in Nat
OBVIOUS

\* Every step preserves ScheduleInv.
LEMMA ScheduleStep == ScheduleInv /\ [Next]_vars => ScheduleInv'
<1> SUFFICES ASSUME ScheduleInv, [Next]_vars PROVE ScheduleInv'
  OBVIOUS
<1> USE LongestIsNat DEF ScheduleInv
<1>1. /\ interval \in 1 .. MaxInterval /\ timeout \in 0 .. MaxTimeout
      /\ interval \in Nat \ {0} /\ untilTick \in 1 .. interval
      /\ tick \in BOOLEAN /\ collecting \in BOOLEAN
      /\ elapsed \in 0 .. Longest /\ late \in Nat /\ dropped \in Nat
  BY ScheduleAssumption DEF Typed, TypeOK
<1>2. Longest' = Longest
  BY DEF Longest, EffectiveTimeout, GivenTimeout, CollectorTimeout
<1>3. CASE Start
  <2>1. /\ ~collecting /\ tick /\ tick' = FALSE /\ collecting' = TRUE
        /\ elapsed' = 0 /\ late' = 0 /\ dropped' = 0
        /\ interval' = interval /\ timeout' = timeout /\ untilTick' = untilTick
    BY <1>3 DEF Start, configVars
  <2>2. Typed'
    <3>1. tick' \in BOOLEAN /\ collecting' \in BOOLEAN
      BY <1>1, <2>1, Zenon
    <3> QED BY <1>1, <1>2, <2>1, <3>1 DEF Typed, TypeOK
  <2>3. Ages'
    BY <1>1, <1>2, <2>1 DEF Ages
  <2>4. InStep'
    BY <1>1, <1>2, <2>1 DEF InStep
  <2> QED BY <2>2, <2>3, <2>4
<1>4. CASE Finish
  <2>1. /\ collecting /\ collecting' = FALSE /\ elapsed' = 0
        /\ interval' = interval /\ timeout' = timeout /\ untilTick' = untilTick
        /\ tick' = tick /\ late' = late /\ dropped' = dropped
    BY <1>4 DEF Finish, configVars
  <2>2. Typed'
    <3>1. tick' \in BOOLEAN /\ collecting' \in BOOLEAN
      BY <1>1, <2>1, Zenon
    <3> QED BY <1>1, <1>2, <2>1, <3>1 DEF Typed, TypeOK
  <2>3. Ages'
    BY <1>1, <1>2, <2>1 DEF Ages
  <2>4. InStep'
    BY <1>1, <1>2, <2>1 DEF InStep
  <2> QED BY <2>2, <2>3, <2>4
<1>5. CASE Second
  <2>1. /\ ~(tick /\ ~collecting) /\ (collecting => elapsed < Longest)
        /\ elapsed' = (IF collecting THEN elapsed + 1 ELSE elapsed)
        /\ late' = (IF tick THEN late + 1 ELSE late)
        /\ interval' = interval /\ timeout' = timeout /\ collecting' = collecting
    BY <1>5 DEF Second, configVars
  <2>2. CASE Fire
    <3>1. /\ untilTick = 1 /\ untilTick' = interval /\ tick' = TRUE
          /\ dropped' = (IF tick THEN dropped + 1 ELSE dropped)
      BY <2>2 DEF Fire
    <3>2. Typed'
      BY <1>1, <1>2, <2>1, <3>1 DEF Typed, TypeOK
    <3>3. Ages'
      <4>1. late' = dropped' * interval
        <5>1. CASE tick
          BY <1>1, <2>1, <3>1, <5>1, OneMore DEF Ages
        <5>2. CASE ~tick
          BY <1>1, <2>1, <3>1, <5>2 DEF Typed
        <5> QED BY <5>1, <5>2
      <4>2. (collecting' => late' <= elapsed') /\ late' <= Longest
        BY <1>1, <2>1, <3>1 DEF Ages, Typed
      <4>3. dropped' \in Nat /\ dropped' * interval \in Nat
        BY <1>1, <3>1, OneMore
      <4> QED BY <1>1, <1>2, <2>1, <3>1, <4>1, <4>2, <4>3 DEF Ages
    <3>4. InStep'
      BY <1>1, <1>2, <2>1, <3>1 DEF InStep, Typed
    <3> QED BY <3>2, <3>3, <3>4
  <2>3. CASE NoFire
    <3>1. /\ untilTick > 1 /\ untilTick' = untilTick - 1
          /\ tick' = tick /\ dropped' = dropped
      BY <2>3 DEF NoFire
    <3>2. Typed'
      BY <1>1, <1>2, <2>1, <3>1 DEF Typed, TypeOK
    <3>3. Ages'
      <4>1. dropped * interval \in Nat
        BY <1>1, OneMore
      <4>2. (collecting' => late' <= elapsed') /\ late' <= Longest
        BY <1>1, <2>1, <3>1 DEF Ages, Typed
      <4> QED BY <1>1, <1>2, <2>1, <3>1, <4>1, <4>2 DEF Ages
    <3>4. InStep'
      BY <1>1, <1>2, <2>1, <3>1 DEF InStep, Typed
    <3> QED BY <3>2, <3>3, <3>4
  <2> QED BY <1>5, <2>2, <2>3 DEF Second
<1>6. CASE UNCHANGED vars
  BY <1>2, <1>6 DEF vars, configVars, Typed, TypeOK, Ages, InStep
<1> QED BY <1>3, <1>4, <1>5, <1>6 DEF Next

\* ScheduleInv holds in every reachable state.
LEMMA ScheduleInvariant == Spec => []ScheduleInv
<1>1. Init => ScheduleInv
  <2> SUFFICES ASSUME Init PROVE ScheduleInv
    OBVIOUS
  <2>1. tick \in BOOLEAN /\ collecting \in BOOLEAN
    BY Zenon DEF Init
  <2> QED BY <2>1, ScheduleAssumption, LongestIsNat
          DEF Init, ScheduleInv, Typed, TypeOK, Ages, InStep
<1> QED BY <1>1, ScheduleStep, PTL DEF Spec

\* Type correctness: no cycle is longer than the collector's own timeout and
\* the overrun of a command already sent.
THEOREM CycleIsBounded == Spec => []TypeOK
BY ScheduleInvariant, PTL DEF ScheduleInv, Typed

\* A cycle that fits into the interval costs no tick (cmd/agent/main.go:120-146).
THEOREM FittingCyclesAreOnTime == Spec => []TicksOnTime
<1>1. ScheduleInv => TicksOnTime
  BY DEF ScheduleInv, Typed, InStep, TicksOnTime
<1> QED BY <1>1, ScheduleInvariant, PTL

\* Whatever Redis does, a waiting tick is never older than the cycle it waits
\* for, and no more ticks are dropped than fit into that cycle.
THEOREM SlowRedisCostsOneCycle == Spec => []DelayIsBounded
<1>1. ASSUME NEW d \in Nat, NEW e \in Nat, NEW n \in Nat \ {0}, d * n <= e
      PROVE  d <= e \div n
  BY <1>1
<1>2. ScheduleInv => DelayIsBounded
  <2> SUFFICES ASSUME ScheduleInv
               PROVE  /\ late <= Longest
                      /\ collecting => late <= elapsed /\ dropped <= elapsed \div interval
    BY DEF DelayIsBounded
  <2>1. /\ interval \in Nat \ {0} /\ untilTick \in 1 .. interval
        /\ elapsed \in Nat /\ late \in Nat /\ dropped \in Nat
        /\ late <= Longest /\ (collecting => late <= elapsed)
    BY LongestIsNat, ScheduleAssumption DEF ScheduleInv, Typed, TypeOK, Ages
  <2>2. dropped * interval \in Nat /\ dropped * interval <= late
    <3>1. dropped * interval \in Nat
      BY <2>1, OneMore
    <3>2. CASE tick
      <4>1. late = dropped * interval + (interval - untilTick)
        BY <3>2 DEF ScheduleInv, Ages
      <4> QED BY <2>1, <3>1, <4>1
    <3>3. CASE ~tick
      BY <2>1, <3>3 DEF ScheduleInv, Typed
    <3> QED BY <3>1, <3>2, <3>3
  <2>3. collecting => dropped * interval <= elapsed
    BY <2>1, <2>2
  <2> QED BY <1>1, <2>1, <2>3
<1> QED BY <1>2, ScheduleInvariant, PTL
=============================================================================
