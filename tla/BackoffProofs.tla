---------------------------- MODULE BackoffProofs ----------------------------
(***************************************************************************)
(* Proofs about Backoff, for every setting of the delays, the timeout and  *)
(* the number of attempts.                                                 *)
(*                                                                         *)
(* Each property speaks of the moments when the drain loop is done with a  *)
(* snapshot.  What makes them inductive says the same of the time that is  *)
(* left: of a stall's time, the delays already planned for this snapshot   *)
(* are accounted for, up to what the backoff still has to wait (LossInv);  *)
(* and the API has been up for no longer than a request that was in the    *)
(* outage, a backoff and another request, but for what is left of them     *)
(* (PromptInv).                                                            *)
(***************************************************************************)
EXTENDS Backoff, WellFoundedInduction, TLAPS

-----------------------------------------------------------------------------
(* The invariants.                                                         *)

LongestDelay == IF maxDelay > 0 THEN maxDelay ELSE 0

BackoffInv ==
  /\ TypeOK
  /\ Waiting => lost < MaxLost
  /\ drainPc = "backoff" => attempt < MaxAttempts
  /\ drainPc = "inflight" => api \in met
  /\ api = "down" => upFor = 0

\* TypeOK, with a name for the cap.
Typed ==
  /\ baseDelay \in BaseDelays /\ maxDelay \in MaxDelays
  /\ api \in {"up", "down"}
  /\ drainPc \in DrainPcs
  /\ attempt \in 0 .. MaxAttempts /\ (attempt = 0 <=> ~Waiting)
  /\ met \subseteq {"up", "down"} /\ (met = {} <=> drainPc # "inflight")
  /\ left \in Nat /\ (left > 0 => Waiting)
  /\ drainPc = "inflight" => left <= Timeout
  /\ drainPc = "backoff" => 5 * left <= 6 * LongestDelay
  /\ time \in 0 .. MaxTime /\ upFor \in 0 .. time /\ stalled \in 0 .. time
  /\ lost \in 0 .. MaxLost

LossInv ==
  /\ 5 * stalled >= 4 * (Planned * lost)
  /\ drainPc = "inflight" => 5 * stalled >= 4 * (Planned * lost + PlannedUpTo[attempt - 1])
  /\ drainPc = "backoff" => 5 * (stalled + left) >= 4 * (Planned * lost + PlannedUpTo[attempt])

Resumed == IF upFor < stalled THEN upFor ELSE stalled

PromptInv ==
  /\ drainPc = "idle" => stalled = 0
  /\ drainPc = "dequeue" => Resumed <= Timeout
  /\ Fails => Resumed + left <= Timeout
  /\ drainPc = "inflight" => 5 * (Resumed + left - 2 * Timeout) <= 6 * LongestDelay
  /\ drainPc = "backoff" => 5 * (Resumed + left - Timeout) <= 6 * LongestDelay

-----------------------------------------------------------------------------
(* The operators.                                                          *)

LEMMA MaxOfTwo == ASSUME NEW n \in Int PROVE Max({0, n}) = IF n > 0 THEN n ELSE 0
<1>1. \A x \in {0, n} : (\A y \in {0, n} : x >= y) <=> x = IF n > 0 THEN n ELSE 0
  OBVIOUS
<1> QED BY <1>1 DEF Max

LEMMA MinOfTwo ==
  ASSUME NEW m \in Int, NEW n \in Int
  PROVE  Min({m, n}) = IF m < n THEN m ELSE n
<1>1. \A x \in {m, n} : (\A y \in {m, n} : x =< y) <=> x = IF m < n THEN m ELSE n
  OBVIOUS
<1> QED BY <1>1 DEF Min

LEMMA SettingsTyped ==
  ASSUME TypeOK
  PROVE  baseDelay \in Int /\ maxDelay \in Int
BY BackoffAssumption DEF TypeOK

\* A delay is as planned, a fifth more or less; none is far over max_delay.
LEMMA DelayBounds ==
  ASSUME TypeOK, NEW k \in Nat \ {0}, NEW d \in Delays(k)
  PROVE  /\ d \in Nat
         /\ PlannedDelay(k) \in Nat
         /\ 5 * d >= 4 * PlannedDelay(k)
         /\ 5 * d <= 6 * LongestDelay
<1> DEFINE n == Nominal(k)
<1>1. baseDelay * 2 ^ (k - 1) \in Int /\ maxDelay \in Int
  BY SettingsTyped, k - 1 \in Nat
<1>2. n \in Int /\ n <= maxDelay
  BY <1>1 DEF Nominal, Capped
<1>3. PlannedDelay(k) = IF n > 0 THEN n ELSE 0
  BY <1>1, <1>2, MaxOfTwo DEF PlannedDelay, Nominal
<1> HIDE DEF n
<1>4. PICK j \in Int : /\ 5 * Abs(j) <= Abs(n)
                       /\ d = IF n + j < 0 THEN 0 ELSE n + j
  BY <1>2 DEF Delays, Jitters, Abs, n
<1> QED BY <1>1, <1>2, <1>3, <1>4 DEF Abs, LongestDelay

LEMMA PlannedDelayIsNat ==
  ASSUME TypeOK, NEW k \in Nat \ {0}
  PROVE  PlannedDelay(k) \in Nat
<1>1. baseDelay * 2 ^ (k - 1) \in Int /\ maxDelay \in Int
  BY SettingsTyped, k - 1 \in Nat
<1>2. Capped(baseDelay * 2 ^ (k - 1), maxDelay) \in Int
  BY <1>1 DEF Capped
<1> QED BY <1>2, MaxOfTwo DEF PlannedDelay

\* A set of naturals that is not empty has a least element: what stands for
\* induction here.
LEMMA LeastNat ==
  ASSUME NEW S, S \subseteq Nat, S # {}
  PROVE  \E n \in S : \A m \in S : n <= m
<1>1. \E n \in S : \A m \in S : <<m, n>> \notin OpToRel(<, Nat)
  BY NatLessThanWellFounded, WFMin, Zenon
<1>2. \A m, n \in Nat : <<m, n>> \notin OpToRel(<, Nat) => n <= m
  BY DEF OpToRel
<1> QED BY <1>1, <1>2

\* The recursion of PlannedUpTo has a solution, so that it defines the sums.
LEMMA PlannedUpToIs ==
  ASSUME TypeOK
  PROVE  PlannedUpTo = [n \in 0 .. MaxAttempts - 1 |->
                          IF n = 0 THEN 0 ELSE PlannedUpTo[n - 1] + PlannedDelay(n)]
<1> DEFINE Sums(f, m) ==
             /\ f \in [0 .. m -> Nat]
             /\ f[0] = 0
             /\ \A n \in 1 .. m : f[n] = f[n - 1] + PlannedDelay(n)
           None == {m \in Nat : ~ \E f : Sums(f, m)}
<1> HIDE DEF Sums
<1>1. None = {}
  <2> SUFFICES ASSUME None # {} PROVE FALSE
    OBVIOUS
  <2>1. PICK m \in None : \A l \in None : m <= l
    <3>1. None \subseteq Nat
      OBVIOUS
    <3> HIDE DEF None
    <3> QED BY <3>1, LeastNat
  <2>2. CASE m = 0
    <3> DEFINE zero == [n \in 0 .. 0 |-> 0]
    <3>1. zero \in [0 .. 0 -> Nat] /\ zero[0] = 0 /\ 1 .. 0 = {}
      OBVIOUS
    <3> HIDE DEF zero
    <3>2. Sums(zero, 0)
      BY <3>1 DEF Sums
    <3> QED BY <2>1, <2>2, <3>2
  <2>3. CASE m # 0
    <3>1. m \in Nat /\ m - 1 \in Nat
      BY <2>3
    <3>2. m - 1 \notin None
      BY <2>1, <3>1
    <3>3. PICK f : Sums(f, m - 1)
      BY <3>1, <3>2
    <3>4. PlannedDelay(m) \in Nat
      BY <2>3, <3>1, PlannedDelayIsNat
    <3> DEFINE g == [n \in 0 .. m |-> IF n = m THEN f[m - 1] + PlannedDelay(m) ELSE f[n]]
    <3>5. g \in [0 .. m -> Nat] /\ g[0] = 0
      BY <2>3, <3>1, <3>3, <3>4 DEF Sums
    <3>6. ASSUME NEW n \in 1 .. m PROVE g[n] = g[n - 1] + PlannedDelay(n)
      <4>1. g[n - 1] = f[n - 1]
        BY <3>1
      <4>2. n # m => g[n] = f[n] /\ n \in 1 .. m - 1
        BY <3>1
      <4> QED BY <3>1, <3>3, <4>1, <4>2 DEF Sums
    <3> HIDE DEF g
    <3>7. Sums(g, m)
      BY <3>5, <3>6 DEF Sums
    <3> QED BY <2>1, <3>7
  <2> QED BY <2>2, <2>3
<1>2. MaxAttempts - 1 \in Nat
  BY BackoffAssumption
<1>3. PICK f : Sums(f, MaxAttempts - 1)
  BY <1>1, <1>2
<1>4. f = [n \in 0 .. MaxAttempts - 1 |-> IF n = 0 THEN 0 ELSE f[n - 1] + PlannedDelay(n)]
  BY <1>2, <1>3 DEF Sums
<1> QED BY <1>4 DEF PlannedUpTo

LEMMA PlannedTyped ==
  ASSUME TypeOK
  PROVE  /\ \A n \in 0 .. MaxAttempts - 1 : PlannedUpTo[n] \in Nat
         /\ PlannedUpTo[0] = 0
         /\ \A n \in 1 .. MaxAttempts - 1 :
              PlannedUpTo[n] = PlannedUpTo[n - 1] + PlannedDelay(n)
         /\ Planned \in Nat /\ Planned = PlannedUpTo[MaxAttempts - 1]
<1> DEFINE Odd == {n \in 0 .. MaxAttempts - 1 : PlannedUpTo[n] \notin Nat}
<1>1. MaxAttempts - 1 \in Nat
  BY BackoffAssumption
<1>2. /\ PlannedUpTo[0] = 0
      /\ \A n \in 1 .. MaxAttempts - 1 : PlannedUpTo[n] = PlannedUpTo[n - 1] + PlannedDelay(n)
  <2> DEFINE f == PlannedUpTo
  <2>1. f = [n \in 0 .. MaxAttempts - 1 |-> IF n = 0 THEN 0 ELSE f[n - 1] + PlannedDelay(n)]
    BY PlannedUpToIs
  <2> HIDE DEF f
  <2>2. /\ f[0] = 0
        /\ \A n \in 1 .. MaxAttempts - 1 : f[n] = f[n - 1] + PlannedDelay(n)
    BY <1>1, <2>1
  <2> QED BY <2>2 DEF f
<1>3. Odd = {}
  <2> SUFFICES ASSUME Odd # {} PROVE FALSE
    OBVIOUS
  <2>1. PICK n \in Odd : \A m \in Odd : n <= m
    <3>1. Odd \subseteq Nat
      BY <1>1
    <3> HIDE DEF Odd
    <3> QED BY <3>1, LeastNat
  <2>2. n # 0
    BY <1>2, <2>1
  <2>3. n \in 1 .. MaxAttempts - 1 /\ n \in Nat \ {0} /\ n - 1 \in 0 .. MaxAttempts - 1
    BY <1>1, <2>1, <2>2
  <2>4. PlannedUpTo[n - 1] \in Nat
    BY <2>1, <2>3
  <2> QED BY <1>2, <2>1, <2>3, <2>4, PlannedDelayIsNat
<1>4. \A n \in 0 .. MaxAttempts - 1 : PlannedUpTo[n] \in Nat
  BY <1>3
<1> QED BY <1>1, <1>2, <1>4 DEF Planned

\* The plan depends on the settings only, which stay.
LEMMA PlanStays ==
  ASSUME UNCHANGED settings
  PROVE  Planned' = Planned /\ PlannedUpTo' = PlannedUpTo /\ LongestDelay' = LongestDelay
BY DEF settings, Planned, PlannedUpTo, PlannedDelay, LongestDelay

-----------------------------------------------------------------------------
(* Types.                                                                  *)

LEMMA BackoffStep == BackoffInv /\ [Next]_vars => BackoffInv'
<1> SUFFICES ASSUME BackoffInv, [Next]_vars PROVE BackoffInv'
  OBVIOUS
<1> USE DEF BackoffInv, Waiting, DrainPcs
<1>a. MaxAttempts \in Nat \ {0} /\ Timeout \in Nat \ {0} /\ MaxLost \in Nat /\ MaxTime \in Nat
  BY BackoffAssumption
<1>b. LongestDelay' = LongestDelay /\ LongestDelay \in Nat /\ maxDelay' = maxDelay
  <2>1. UNCHANGED settings
    BY DEF Next, Outage, Recovery, ApiBecomes, Wait, Wake, DequeueEmpty, DequeueOne, Request,
           Settled, Exhausted, BackOff, BackoffElapsed, World, vars
  <2> QED BY <2>1, SettingsTyped DEF LongestDelay, settings
<1>c. Typed
  BY SettingsTyped, MaxOfTwo DEF TypeOK, Typed, LongestDelay
<1>d. SUFFICES /\ Typed'
               /\ (Waiting => lost < MaxLost)'
               /\ (drainPc = "backoff" => attempt < MaxAttempts)'
               /\ (drainPc = "inflight" => api \in met)'
               /\ (api = "down" => upFor = 0)'
  <2>1. maxDelay' \in Int /\ Max({0, maxDelay'}) = LongestDelay'
    BY <1>b, SettingsTyped, MaxOfTwo DEF LongestDelay
  <2> QED BY <2>1 DEF TypeOK, Typed
<1> USE DEF Typed
<1>1. CASE Outage \/ Recovery
  <2>1. PICK state \in {"up", "down"} : ApiBecomes(state)
    BY <1>1 DEF Outage, Recovery
  <2> QED BY <1>a, <1>b, <1>c, <2>1 DEF ApiBecomes, settings, histories
<1>2. CASE Wait
  <2>1. left' \in Nat /\ time' \in 0 .. MaxTime /\ left' <= left /\ (left' > 0 => Waiting)
    BY <1>2, <1>a, <1>c DEF Wait
  <2>2. upFor' \in 0 .. time' /\ stalled' \in 0 .. time'
    BY <1>2, <1>a, <1>c DEF Wait
  <2> QED BY <1>2, <1>a, <1>b, <1>c, <2>1, <2>2 DEF Wait, settings
<1>3. CASE Wake \/ DequeueEmpty
  <2>1. CASE Wake
    BY <1>a, <1>b, <1>c, <2>1 DEF Wake, World, settings, histories
  <2>2. CASE DequeueEmpty
    BY <1>a, <1>b, <1>c, <2>2 DEF DequeueEmpty, World, settings
  <2> QED BY <1>3, <2>1, <2>2
<1>4. CASE DequeueOne
  BY <1>4, <1>a, <1>b, <1>c DEF DequeueOne, Request, World, settings, histories
<1>5. CASE Settled
  BY <1>5, <1>a, <1>b, <1>c DEF Settled, World, settings
<1>6. CASE Exhausted
  BY <1>6, <1>a, <1>b, <1>c DEF Exhausted, Fails, World, settings
<1>7. CASE BackOff
  <2>1. attempt \in Nat \ {0} /\ attempt < MaxAttempts
    BY <1>7, <1>a, <1>c DEF BackOff, Fails, GivesUp
  <2>2. left' \in Nat /\ 5 * left' <= 6 * LongestDelay
    BY <1>7, <2>1, DelayBounds DEF BackOff
  <2> QED BY <1>7, <1>a, <1>b, <1>c, <2>1, <2>2 DEF BackOff, Fails, World, settings, histories
<1>8. CASE BackoffElapsed
  BY <1>8, <1>a, <1>b, <1>c DEF BackoffElapsed, Request, World, settings, histories
<1>9. CASE UNCHANGED vars
  BY <1>9, <1>b, <1>c DEF vars, settings, histories
<1> QED BY <1>1, <1>2, <1>3, <1>4, <1>5, <1>6, <1>7, <1>8, <1>9 DEF Next

LEMMA BackoffInvariant == Spec => []BackoffInv
<1>1. Init => BackoffInv
  BY BackoffAssumption, MaxOfTwo DEF Init, BackoffInv, TypeOK, Waiting, DrainPcs
<1> QED BY <1>1, BackoffStep, PTL DEF Spec

\* The state has its type; among the rest, no attempt after the last one, no
\* request older than its timeout and no wait beyond the jittered cap.
THEOREM BackoffTyped == Spec => []TypeOK
BY BackoffInvariant, PTL DEF BackoffInv

-----------------------------------------------------------------------------
(* LossRate.                                                               *)

\* The one product of two variables, kept away from the rest of the arithmetic.
LEMMA OneMoreLost ==
  ASSUME NEW p \in Nat, NEW n \in Nat
  PROVE  p * n \in Nat /\ p * 0 = 0 /\ p * (n + 1) = p * n + p
<1>1. p * n \in Nat
  OBVIOUS
<1>2. p * 0 = 0
  OBVIOUS
<1>3. p * (n + 1) = p * n + p
  OBVIOUS
<1> QED BY <1>1, <1>2, <1>3

LEMMA LossStep == BackoffInv /\ LossInv /\ [Next]_vars => LossInv'
<1> SUFFICES ASSUME BackoffInv, LossInv, [Next]_vars PROVE LossInv'
  OBVIOUS
<1> USE DEF Waiting
<1>a. /\ TypeOK /\ attempt \in 0 .. MaxAttempts /\ MaxAttempts \in Nat \ {0}
      /\ (attempt = 0 <=> ~Waiting) /\ (drainPc = "backoff" => attempt < MaxAttempts)
      /\ stalled \in Nat /\ left \in Nat /\ lost \in Nat /\ drainPc \in DrainPcs
  BY BackoffAssumption DEF BackoffInv, TypeOK
<1>b. PICK P : /\ P = Planned /\ P' = Planned' /\ P \in Nat
               /\ Planned' = P /\ PlannedUpTo' = PlannedUpTo
  <2>1. UNCHANGED settings
    BY DEF Next, Outage, Recovery, ApiBecomes, Wait, Wake, DequeueEmpty, DequeueOne, Request, Settled,
           Exhausted, BackOff, BackoffElapsed, World, vars
  <2> QED BY <1>a, <2>1, PlanStays, PlannedTyped
<1>c. /\ \A n \in 0 .. MaxAttempts - 1 : PlannedUpTo[n] \in Nat
      /\ PlannedUpTo[0] = 0 /\ P = PlannedUpTo[MaxAttempts - 1]
      /\ \A n \in 1 .. MaxAttempts - 1 :
           PlannedUpTo[n] = PlannedUpTo[n - 1] + PlannedDelay(n)
  BY <1>a, <1>b, PlannedTyped
<1>d. P * lost \in Nat /\ P * 0 = 0 /\ P * (lost + 1) = P * lost + P
  BY <1>a, <1>b, OneMoreLost
<1>1. CASE Outage \/ Recovery \/ Wake \/ UNCHANGED vars
  BY <1>1, <1>b DEF LossInv, Outage, Recovery, ApiBecomes, Wake, World, vars, histories
<1>2. CASE Wait
  <2>a. /\ attempt' = attempt /\ lost' = lost /\ drainPc' = drainPc
        /\ Waiting => stalled' = stalled + 1 /\ left' = left - 1
    BY <1>2 DEF Wait
  <2>b. 5 * stalled >= 4 * (P * lost)
    BY <1>b DEF LossInv
  <2>1. CASE drainPc = "inflight"
    <3>1. 5 * stalled >= 4 * (P * lost + PlannedUpTo[attempt - 1])
          /\ PlannedUpTo[attempt - 1] \in Nat
      BY <1>a, <1>b, <1>c, <2>1 DEF LossInv
    <3>2. 5 * (stalled + 1) >= 4 * (P * lost + PlannedUpTo[attempt - 1])
      BY <1>a, <1>d, <3>1
    <3>3. 5 * (stalled + 1) >= 4 * (P * lost)
      BY <1>a, <1>d, <2>b
    <3> QED BY <1>b, <2>a, <2>1, <3>2, <3>3 DEF LossInv
  <2>2. CASE drainPc = "backoff"
    <3>1. (stalled + 1) + (left - 1) = stalled + left
      BY <1>a
    <3>2. 5 * (stalled + left) >= 4 * (P * lost + PlannedUpTo[attempt])
      BY <1>b, <2>2 DEF LossInv
    <3>3. 5 * (stalled + 1) >= 4 * (P * lost)
      BY <1>a, <1>d, <2>b
    <3> QED BY <1>b, <2>a, <2>2, <3>1, <3>2, <3>3 DEF LossInv
  <2>3. CASE drainPc = "idle"
    BY <1>2, <1>b, <2>3 DEF LossInv, Wait
  <2> QED BY <1>2, <1>a, <2>1, <2>2, <2>3 DEF Wait, DrainPcs
<1>3. CASE DequeueEmpty \/ Settled
  BY <1>3, <1>b, <1>d DEF LossInv, DequeueEmpty, Settled
<1>4. CASE DequeueOne
  <2>1. /\ drainPc' = "inflight" /\ attempt' - 1 = 0 /\ lost' = lost /\ stalled' = stalled
    BY <1>4 DEF DequeueOne, Request, histories
  <2> QED BY <1>b, <1>c, <1>d, <2>1 DEF LossInv
<1>5. CASE Exhausted
  <2>1. /\ attempt = MaxAttempts /\ drainPc = "inflight" /\ drainPc' = "dequeue"
        /\ lost' = lost + 1 /\ stalled' = stalled
    BY <1>5 DEF Exhausted, Fails, GivesUp
  <2>2. 5 * stalled >= 4 * (P * lost + P)
    BY <1>b, <1>c, <2>1 DEF LossInv
  <2> QED BY <1>b, <1>d, <2>1, <2>2 DEF LossInv
<1>6. CASE BackOff
  <2>1. /\ attempt \in 1 .. MaxAttempts - 1 /\ attempt \in Nat \ {0}
        /\ drainPc = "inflight" /\ drainPc' = "backoff"
        /\ lost' = lost /\ stalled' = stalled /\ attempt' = attempt
    BY <1>6, <1>a DEF BackOff, Fails, GivesUp, histories
  <2>2. left' \in Nat /\ PlannedDelay(attempt) \in Nat
        /\ 5 * left' >= 4 * PlannedDelay(attempt)
    BY <1>6, <1>a, <2>1, DelayBounds DEF BackOff
  <2>3. /\ PlannedUpTo[attempt - 1] \in Nat
        /\ PlannedUpTo[attempt] = PlannedUpTo[attempt - 1] + PlannedDelay(attempt)
    BY <1>a, <1>c, <2>1
  <2>4. 5 * stalled >= 4 * (P * lost + PlannedUpTo[attempt - 1])
    BY <1>b, <2>1 DEF LossInv
  <2>5. 5 * (stalled + left') >= 4 * (P * lost + PlannedUpTo[attempt])
    BY <1>a, <1>d, <2>2, <2>3, <2>4
  <2> QED BY <1>b, <2>1, <2>5 DEF LossInv
<1>7. CASE BackoffElapsed
  <2>1. /\ drainPc = "backoff" /\ left = 0 /\ drainPc' = "inflight"
        /\ attempt' - 1 = attempt /\ lost' = lost /\ stalled' = stalled
    BY <1>7, <1>a DEF BackoffElapsed, Request, histories
  <2>2. 5 * stalled >= 4 * (P * lost + PlannedUpTo[attempt])
    BY <1>a, <1>b, <2>1 DEF LossInv
  <2> QED BY <1>b, <2>1, <2>2 DEF LossInv
<1> QED BY <1>1, <1>2, <1>3, <1>4, <1>5, <1>6, <1>7 DEF Next

\* A stall loses at most one snapshot for every four fifths of the planned
\* delays, whatever the settings, the jitter and the course of the outage: an
\* outage shorter than that loses none.
THEOREM LossIsSlow == Spec => []LossRate
<1>1. Init /\ BackoffInv => LossInv
  <2> SUFFICES ASSUME Init, BackoffInv PROVE LossInv
    OBVIOUS
  <2>1. Planned \in Nat
    BY PlannedTyped DEF BackoffInv
  <2> QED BY <2>1 DEF Init, LossInv, Waiting
<1>2. BackoffInv /\ LossInv => LossRate
  <2> SUFFICES ASSUME BackoffInv, LossInv PROVE 4 * Planned * lost <= 5 * stalled
    BY DEF LossRate
  <2>1. Planned \in Nat /\ lost \in Nat /\ stalled \in Nat
    BY PlannedTyped DEF BackoffInv, TypeOK
  <2>2. 4 * Planned * lost = 4 * (Planned * lost)
    BY <2>1
  <2> QED BY <2>1, <2>2 DEF LossInv
<1> QED BY <1>1, <1>2, BackoffInvariant, LossStep, PTL DEF Spec

-----------------------------------------------------------------------------
(* ResumesPromptly.                                                        *)

LEMMA PromptStep == BackoffInv /\ PromptInv /\ [Next]_vars => PromptInv'
<1> SUFFICES ASSUME BackoffInv, PromptInv, [Next]_vars PROVE PromptInv'
  OBVIOUS
<1>a. /\ TypeOK /\ attempt \in 0 .. MaxAttempts /\ MaxAttempts \in Nat \ {0}
      /\ (attempt = 0 <=> ~Waiting) /\ Timeout \in Nat
      /\ stalled \in Nat /\ upFor \in Nat /\ left \in Nat /\ drainPc \in DrainPcs
      /\ met \subseteq {"up", "down"} /\ api \in {"up", "down"}
      /\ drainPc = "inflight" => left <= Timeout /\ api \in met
      /\ api = "down" => upFor = 0
  BY BackoffAssumption DEF BackoffInv, TypeOK
<1>b. LongestDelay \in Nat /\ LongestDelay' = LongestDelay
  <2>1. UNCHANGED settings
    BY DEF Next, Outage, Recovery, ApiBecomes, Wait, Wake, DequeueEmpty, DequeueOne, Request,
           Settled, Exhausted, BackOff, BackoffElapsed, World, vars
  <2> QED BY <1>a, <2>1, SettingsTyped DEF LongestDelay, settings
<1>c. drainPc = "backoff" => 5 * left <= 6 * LongestDelay
  BY SettingsTyped, MaxOfTwo DEF BackoffInv, TypeOK, LongestDelay
<1> USE DEF Fails
<1>1. CASE Outage \/ Recovery
  <2>1. /\ upFor' = 0 /\ stalled' = stalled /\ drainPc' = drainPc /\ left' = left
    BY <1>1 DEF Outage, Recovery, ApiBecomes, histories
  <2>2. Resumed' = 0
    BY <1>a, <2>1 DEF Resumed
  <2> QED BY <1>a, <1>b, <1>c, <2>1, <2>2 DEF PromptInv
<1>2. CASE Wait
  <2>1. /\ drainPc' = drainPc /\ met' = met
        /\ upFor' = IF api = "up" THEN upFor + 1 ELSE 0
        /\ Waiting => stalled' = stalled + 1 /\ left' = left - 1 /\ left > 0
        /\ ~Waiting => stalled' = stalled /\ drainPc = "idle"
    BY <1>2, <1>a DEF Wait, Waiting, DrainPcs
  <2>2. Waiting => Resumed' = 0 \/ Resumed' = Resumed + 1
    BY <1>a, <2>1 DEF Resumed
  <2>3. Waiting => Resumed' + left' <= left \/ Resumed' + left' = Resumed + left
    BY <1>a, <2>1, <2>2 DEF Resumed
  <2>4. Resumed \in Nat /\ (Waiting => Resumed' \in Nat /\ left' \in Nat)
    BY <1>a, <2>1, <2>2 DEF Resumed
  <2>5. CASE drainPc = "inflight"
    BY <1>a, <1>b, <2>1, <2>3, <2>4, <2>5 DEF PromptInv, Waiting
  <2>6. CASE drainPc = "backoff"
    BY <1>a, <1>b, <1>c, <2>1, <2>3, <2>4, <2>6 DEF PromptInv, Waiting
  <2>7. CASE drainPc = "idle"
    BY <1>a, <2>1, <2>7 DEF PromptInv, Waiting
  <2> QED BY <1>a, <1>2, <2>5, <2>6, <2>7 DEF Wait, DrainPcs
<1>3. CASE Wake \/ DequeueEmpty \/ Settled
  BY <1>3, <1>a, <1>b DEF PromptInv, Resumed, Wake, DequeueEmpty, Settled, World, histories
<1>4. CASE DequeueOne \/ BackoffElapsed
  <2>1. /\ drainPc' = "inflight" /\ met' = {api} /\ left' = Timeout /\ Resumed' = Resumed
        /\ 5 * (Resumed - Timeout) <= 6 * LongestDelay
    BY <1>4, <1>a, <1>b
       DEF DequeueOne, BackoffElapsed, Request, World, histories, Resumed, PromptInv
  <2>2. Resumed \in Nat /\ (api = "down" => Resumed = 0)
    BY <1>a DEF Resumed
  <2> QED BY <1>a, <1>b, <2>1, <2>2 DEF PromptInv
<1>5. CASE Exhausted
  <2>1. /\ drainPc' = "dequeue" /\ Resumed' = Resumed /\ Resumed + left <= Timeout
    BY <1>5 DEF PromptInv, Resumed, Exhausted, World
  <2>2. Resumed \in Nat
    BY <1>a DEF Resumed
  <2> QED BY <1>a, <2>1, <2>2 DEF PromptInv
<1>6. CASE BackOff
  <2>1. /\ attempt \in Nat \ {0} /\ drainPc' = "backoff"
        /\ Resumed' = Resumed /\ Resumed + left <= Timeout
    BY <1>6, <1>a DEF BackOff, Waiting, World, histories, Resumed, PromptInv
  <2>2. PICK d \in Nat : left' = d /\ 5 * d <= 6 * LongestDelay
    BY <1>6, <1>a, <2>1, DelayBounds DEF BackOff
  <2>3. Resumed \in Nat
    BY <1>a DEF Resumed
  <2> QED BY <1>a, <1>b, <2>1, <2>2, <2>3 DEF PromptInv
<1>7. CASE UNCHANGED vars
  BY <1>7, <1>b DEF vars, PromptInv, Resumed, histories
<1> QED BY <1>1, <1>2, <1>3, <1>4, <1>5, <1>6, <1>7 DEF Next

\* Retries do not outlast an outage by more than a request that was in it, the
\* longest backoff, a fifth over max_delay, and one further request.
THEOREM RetriesEndSoon == Spec => []ResumesPromptly
<1>1. Init /\ BackoffInv => PromptInv
  BY SettingsTyped DEF Init, BackoffInv, PromptInv, Fails, Resumed, LongestDelay
<1>2. BackoffInv /\ PromptInv => ResumesPromptly
  <2> SUFFICES ASSUME BackoffInv, PromptInv PROVE ResumesPromptly
    OBVIOUS
  <2>1. /\ stalled \in Nat /\ upFor \in Nat /\ left \in Nat /\ Timeout \in Nat
        /\ drainPc \in DrainPcs /\ maxDelay \in Int
    BY BackoffAssumption, SettingsTyped DEF BackoffInv, TypeOK
  <2>2. Min({upFor, stalled}) = Resumed /\ Max({0, maxDelay}) = LongestDelay
    BY <2>1, MinOfTwo, MaxOfTwo DEF Resumed, LongestDelay
  <2>3. 5 * (Resumed - 2 * Timeout) <= 6 * LongestDelay
    BY <2>1 DEF PromptInv, Resumed, LongestDelay, DrainPcs
  <2> QED BY <2>2, <2>3 DEF ResumesPromptly
<1> QED BY <1>1, <1>2, BackoffInvariant, PromptStep, PTL DEF Spec
=============================================================================
