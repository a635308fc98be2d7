------------------------- MODULE CollectHealthProofs -------------------------
(***************************************************************************)
(* Proofs about CollectHealth, for every pair of thresholds.  The code     *)
(* decides to write a hint from the flag `escalated' and to announce a     *)
(* recovery from the failure count; FlagMatchesCount ties the two.         *)
(***************************************************************************)
EXTENDS CollectHealth, TLAPS

CountsTyped == consecutiveFailures \in Nat

FlagMatchesCount ==
  IF consecutiveFailures >= ErrorThreshold THEN escalated = TRUE
                                           ELSE escalated = FALSE

HealthInv == CountsTyped /\ FlagMatchesCount /\ OneHintPerOutage

\* The tracker starts without failures and without a hint.
LEMMA HealthInit == Init => HealthInv
<1> SUFFICES ASSUME Init PROVE HealthInv
  OBVIOUS
<1> USE HealthAssumption DEF Init
<1>1. CountsTyped
  BY DEF CountsTyped
<1>2. ~(consecutiveFailures >= ErrorThreshold)
  OBVIOUS
<1>3. FlagMatchesCount
  BY <1>2 DEF FlagMatchesCount
<1>4. OneHintPerOutage
  BY <1>2 DEF OneHintPerOutage
<1> QED BY <1>1, <1>3, <1>4 DEF HealthInv

\* Every collect cycle preserves HealthInv.
LEMMA HealthStep == HealthInv /\ [Next]_vars => HealthInv'
<1> SUFFICES ASSUME HealthInv, [Next]_vars PROVE HealthInv'
  OBVIOUS
<1> USE HealthAssumption
    DEF HealthInv, CountsTyped, FlagMatchesCount, OneHintPerOutage
<1>1. AlreadyEscalated <=> consecutiveFailures >= ErrorThreshold
  BY DEF AlreadyEscalated
<1>2. CASE FailedCycle
  <2>1. /\ consecutiveFailures' = consecutiveFailures + 1 /\ cycles' = cycles + 1
        /\ (\E error \in Errors : SustainedError(error)) \/ TransientError
    BY <1>2 DEF FailedCycle
  <2>2. ASSUME NEW error \in Errors, SustainedError(error) PROVE HealthInv'
    <3>1. escalated' = TRUE /\ consecutiveFailures' >= ErrorThreshold
      BY <2>2 DEF SustainedError
    <3>2. hints' = IF AlreadyEscalated THEN hints ELSE hints + 1
      BY <2>2 DEF SustainedError
    <3>3. hints' = 1
      BY <1>1, <2>1, <3>2
    <3> QED BY <2>1, <3>1, <3>3
  <2>3. CASE TransientError
    <3>1. /\ consecutiveFailures' < ErrorThreshold /\ hints' = hints
          /\ escalated' = AlreadyEscalated
      BY <2>3 DEF TransientError
    <3>2. consecutiveFailures < ErrorThreshold
      BY <2>1, <3>1
    <3>3. escalated' = FALSE
      <4>1. escalated = FALSE
        BY <3>2
      <4>2. AlreadyEscalated = FALSE
        BY <4>1, Zenon DEF AlreadyEscalated
      <4> QED BY <3>1, <4>2
    <3>4. hints' = 0 /\ ~(consecutiveFailures' >= ErrorThreshold)
      BY <2>1, <3>1, <3>2
    <3> QED BY <2>1, <3>3, <3>4
  <2> QED BY <2>1, <2>2, <2>3
<1>3. CASE SuccessfulCycle
  <2>1. /\ consecutiveFailures' = 0 /\ hints' = 0 /\ cycles' = cycles + 1
        /\ escalated' = FALSE
    <3>1. CASE consecutiveFailures = 0
      <4>1. escalated = FALSE
        BY <3>1
      <4> QED BY <1>3, <3>1, <4>1 DEF SuccessfulCycle
    <3>2. CASE consecutiveFailures # 0
      BY <1>3, <3>2 DEF SuccessfulCycle
    <3> QED BY <3>1, <3>2
  <2>2. ~(consecutiveFailures' >= ErrorThreshold)
    BY <2>1
  <2> QED BY <2>1, <2>2
<1>4. CASE UNCHANGED vars
  BY <1>4 DEF vars
<1> QED BY <1>2, <1>3, <1>4 DEF Next

\* One actionable hint per outage, whatever the thresholds.
THEOREM OneHint == Spec => []OneHintPerOutage
<1>1. HealthInv => OneHintPerOutage
  BY DEF HealthInv
<1> QED BY <1>1, HealthInit, HealthStep, PTL DEF Spec

\* A recovery is announced exactly after the outages that wrote a hint.
THEOREM RecoveryMatchesHint == Spec => RecoveryAnnounced
<1>1. HealthInv /\ [Next]_vars =>
        [SuccessfulCycle =>
           (log' = <<Line("INFO", "recovered")>>) = (hints > 0)]_vars
  <2> SUFFICES ASSUME HealthInv, SuccessfulCycle
               PROVE  (log' = <<Line("INFO", "recovered")>>) = (hints > 0)
    OBVIOUS
  <2>1. hints > 0 <=> consecutiveFailures >= ErrorThreshold
    BY HealthAssumption DEF HealthInv, CountsTyped, OneHintPerOutage
  <2>2. <<Line("INFO", "recovered")>> # <<>>
    OBVIOUS
  <2>3. CASE consecutiveFailures = 0
    <3>1. log' = <<>> /\ ~(consecutiveFailures >= ErrorThreshold)
      BY <2>3, HealthAssumption DEF SuccessfulCycle
    <3> QED BY <2>1, <2>2, <3>1
  <2>4. CASE consecutiveFailures # 0
    <3>1. log' = RecoveryLines
      BY <2>4 DEF SuccessfulCycle
    <3> QED BY <2>1, <2>2, <3>1 DEF RecoveryLines
  <2> QED BY <2>3, <2>4
<1> QED BY <1>1, HealthInit, HealthStep, PTL DEF Spec, RecoveryAnnounced

-----------------------------------------------------------------------------
Lines == [level : Levels, message : Messages]

\* Every error leads to one of the four hints.
LEMMA HintTyped == ASSUME NEW error \in Errors PROVE Hint(error) \in HintMessages
<1>1. CASE "auth" \in error
  <2>1. error # {"timeout"} /\ error # {}
    BY <1>1
  <2>2. Hint(error) = "auth"
    BY <1>1, <2>1, Zenon DEF Hint
  <2> QED BY <2>2 DEF HintMessages
<1>2. CASE "auth" \notin error /\ "connection" \in error
  <2>1. error # {"timeout"} /\ error # {}
    BY <1>2
  <2>2. Hint(error) = "connection"
    BY <1>2, <2>1, Zenon DEF Hint
  <2> QED BY <2>2 DEF HintMessages
<1>3. CASE error = {"timeout"}
  <2>1. "auth" \notin error /\ "connection" \notin error /\ error # {}
    BY <1>3
  <2>2. Hint(error) = "timeout"
    BY <1>3, <2>1, Zenon DEF Hint
  <2> QED BY <2>2 DEF HintMessages
<1>4. CASE error = {}
  <2>1. "auth" \notin error /\ "connection" \notin error /\ error # {"timeout"}
    BY <1>4
  <2>2. Hint(error) = "other"
    BY <1>4, <2>1, Zenon DEF Hint
  <2> QED BY <2>2 DEF HintMessages
<1> QED BY <1>1, <1>2, <1>3, <1>4 DEF Errors, Markers

\* What the tracker and collectTick write are lines of the log.
LEMMA LinesTyped ==
  /\ TickLine \in Lines
  /\ \A level \in Levels, message \in Messages : Line(level, message) \in Lines
BY DEF Lines, TickLine, Line, Levels, Messages

\* A cycle writes at most three lines.
LEMMA ShortSeqs ==
  ASSUME NEW S, NEW a \in S, NEW b \in S, NEW c \in S
  PROVE  <<>> \in Seq(S) /\ <<a>> \in Seq(S) /\ <<a, b>> \in Seq(S) /\ <<a, b, c>> \in Seq(S)
OBVIOUS

\* What a failed cycle writes is a sequence of lines.
LEMMA FailureLinesTyped ==
  ASSUME (\E error \in Errors : SustainedError(error)) \/ TransientError
  PROVE  log' \in Seq(Lines)
<1>1. CASE \E error \in Errors : SustainedError(error)
  <2>1. PICK error \in Errors : SustainedError(error)
    BY <1>1
  <2>2. /\ Line("ERROR", "failing") \in Lines
        /\ Line("ERROR", Hint(error)) \in Lines
    BY LinesTyped, HintTyped DEF Levels, Messages, HintMessages
  <2>3. \/ log' = <<Line("ERROR", "failing"), TickLine>>
        \/ log' = <<Line("ERROR", "failing"), Line("ERROR", Hint(error)), TickLine>>
    BY <2>1 DEF SustainedError
  <2> QED BY <2>2, <2>3, LinesTyped, ShortSeqs
<1>2. CASE TransientError
  <2>1. Line("WARN", "failed") \in Lines
    BY LinesTyped DEF Levels, Messages
  <2> QED BY <1>2, <2>1, LinesTyped, ShortSeqs DEF TransientError
<1> QED BY <1>1, <1>2

\* Every collect cycle preserves the types.
LEMMA TypeStep == HealthInv /\ TypeOK /\ [Next]_vars => TypeOK'
<1> SUFFICES ASSUME HealthInv, TypeOK, [Next]_vars PROVE TypeOK'
  OBVIOUS
<1>1. /\ cycles \in Nat /\ consecutiveFailures \in 0 .. cycles
      /\ MaxCycles \in Nat /\ hints \in Nat /\ log \in Seq(Lines)
  BY HealthAssumption DEF TypeOK, Lines
<1>2. escalated' \in BOOLEAN
  BY HealthStep, Zenon DEF HealthInv, FlagMatchesCount
<1>3. CASE FailedCycle
  <2>1. /\ cycles < MaxCycles /\ cycles' = cycles + 1
        /\ consecutiveFailures' = consecutiveFailures + 1
        /\ (\E error \in Errors : SustainedError(error)) \/ TransientError
    BY <1>3 DEF FailedCycle
  <2>2. hints' \in Nat
    <3>1. hints' \in {hints, hints + 1}
      BY <2>1 DEF SustainedError, TransientError
    <3> QED BY <1>1, <3>1
  <2>3. log' \in Seq(Lines)
    BY <2>1, FailureLinesTyped
  <2>4. /\ consecutiveFailures' \in 0 .. cycles' /\ cycles' \in 0 .. MaxCycles
    BY <1>1, <2>1 DEF TypeOK
  <2> QED BY <1>2, <2>2, <2>3, <2>4 DEF TypeOK, Lines
<1>4. CASE SuccessfulCycle
  <2>1. /\ cycles < MaxCycles /\ cycles' = cycles + 1 /\ hints' = 0
        /\ consecutiveFailures' = 0
        /\ log' = <<>> \/ log' = RecoveryLines
    BY <1>4 DEF SuccessfulCycle
  <2>2. Line("INFO", "recovered") \in Lines
    BY LinesTyped DEF Levels, Messages
  <2>3. log' \in Seq(Lines)
    BY <2>1, <2>2, ShortSeqs DEF RecoveryLines
  <2>4. /\ consecutiveFailures' \in 0 .. cycles' /\ cycles' \in 0 .. MaxCycles
    BY <1>1, <2>1 DEF TypeOK
  <2> QED BY <1>2, <2>1, <2>3, <2>4 DEF TypeOK, Lines
<1>5. CASE UNCHANGED vars
  BY <1>1, <1>2, <1>5 DEF TypeOK, vars
<1> QED BY <1>3, <1>4, <1>5 DEF Next

\* Type correctness: what a cycle logs is a sequence of lines, the hint of
\* emitActionableHint included whatever the error text holds.
THEOREM HealthTyped == Spec => []TypeOK
<1>1. Init => TypeOK
  <2> SUFFICES ASSUME Init PROVE TypeOK
    OBVIOUS
  <2>1. escalated \in BOOLEAN
    BY Zenon DEF Init
  <2> QED BY <2>1, HealthAssumption DEF Init, TypeOK
<1> QED BY <1>1, HealthInit, HealthStep, TypeStep, PTL DEF Spec
=============================================================================
