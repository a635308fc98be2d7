---------------------------- MODULE CollectHealth ----------------------------
(***************************************************************************)
(* What an operator sees of a failing Redis: the collect cycle of          *)
(* cmd/agent/main.go (collectTick), the use case it calls and the failure  *)
(* tracker of internal/app/collect_health.go.  One step is one cycle: the  *)
(* tracker is only touched by the collect goroutine.                       *)
(*                                                                         *)
(* An error is the set of markers its text contains, because the hint is   *)
(* chosen by searching the text; a line of the log is a record.            *)
(***************************************************************************)
EXTENDS Integers, Sequences, FiniteSets

CONSTANTS
  WarnThreshold,    \* failures in a row before a cycle warns
  ErrorThreshold,   \* failures in a row before it is an error
  MaxCycles         \* bound on the number of collect cycles

ASSUME HealthAssumption ==
  /\ WarnThreshold \in Nat \ {0}
  /\ ErrorThreshold \in Nat \ {0}
  /\ MaxCycles \in Nat

VARIABLES
  consecutiveFailures,
  escalated,   \* the hint of this streak was emitted
  log,         \* lines written by the last cycle, in order
  cycles,      \* history: collect cycles so far
  hints        \* history: hints emitted since the last successful cycle

vars == <<consecutiveFailures, escalated, log, cycles, hints>>

Markers == {"auth", "connection", "timeout"}
Errors == SUBSET Markers

\* The order in which emitActionableHint tries the markers.
Hint(error) ==
  CASE "auth" \in error -> "auth"
    [] "auth" \notin error /\ "connection" \in error -> "connection"
    [] error = {"timeout"} -> "timeout"
    [] error = {} -> "other"

Line(level, message) == [level |-> level, message |-> message]
Messages == {"failing", "failed", "recovered", "cycle failed",
             "auth", "connection", "timeout", "other"}
HintMessages == {"auth", "connection", "timeout", "other"}
Levels == {"INFO", "WARN", "ERROR"}

Init ==
  /\ consecutiveFailures = 0
  /\ escalated = FALSE
  /\ log = <<>>
  /\ cycles = 0
  /\ hints = 0

\* collectTick logs the error Execute returns.
TickLine == Line("ERROR", "cycle failed")

\* A streak starts unescalated: RecordError clears the flag on its first error.
BadAlreadyEscalated == FALSE  \* mutant: the flag is not consulted
AlreadyEscalated == consecutiveFailures # 0 /\ escalated

SustainedError(error) ==
  /\ consecutiveFailures' >= ErrorThreshold
  /\ escalated' = TRUE
  /\ IF AlreadyEscalated
       THEN /\ log' = <<Line("ERROR", "failing"), TickLine>>
            /\ UNCHANGED hints
       ELSE /\ log' = <<Line("ERROR", "failing"), Line("ERROR", Hint(error)), TickLine>>
            /\ hints' = hints + 1

TransientError ==
  /\ consecutiveFailures' < ErrorThreshold
  /\ escalated' = AlreadyEscalated
  /\ log' = IF consecutiveFailures' >= WarnThreshold
              THEN <<Line("WARN", "failed"), TickLine>>
              ELSE <<TickLine>>
  /\ UNCHANGED hints

\* Mutant: the failure is counted by the use case and by the tracker.
BadFailedCycle ==
  /\ cycles < MaxCycles
  /\ cycles' = cycles + 1
  /\ consecutiveFailures' = consecutiveFailures + 2
  /\ \/ \E error \in Errors : SustainedError(error)
     \/ TransientError

\* A cycle whose Collect returns an error.
FailedCycle ==
  /\ cycles < MaxCycles
  /\ cycles' = cycles + 1
  /\ consecutiveFailures' = consecutiveFailures + 1
  /\ \/ \E error \in Errors : SustainedError(error)
     \/ TransientError

RecoveryLines == IF consecutiveFailures >= ErrorThreshold
                   THEN <<Line("INFO", "recovered")>> ELSE <<>>
\* Mutant of SuccessfulCycle: the failure count is reset before it is
\* compared with the threshold, so that no recovery is ever announced.
BadSuccessfulCycle ==
  /\ cycles < MaxCycles
  /\ cycles' = cycles + 1
  /\ consecutiveFailures' = 0
  /\ escalated' = FALSE
  /\ hints' = 0
  /\ log' = <<>>

\* A cycle whose Collect returns a snapshot.
SuccessfulCycle ==
  /\ cycles < MaxCycles
  /\ cycles' = cycles + 1
  /\ hints' = 0
  /\ \/ /\ consecutiveFailures = 0
        /\ log' = <<>>
        /\ UNCHANGED <<consecutiveFailures, escalated>>
     \/ /\ consecutiveFailures # 0
        /\ log' = RecoveryLines
        /\ consecutiveFailures' = 0
        /\ escalated' = FALSE

Next == FailedCycle \/ SuccessfulCycle

Spec == Init /\ [][Next]_vars
-----------------------------------------------------------------------------
TypeOK ==
  /\ consecutiveFailures \in 0 .. cycles
  /\ escalated \in BOOLEAN
  /\ log \in Seq([level : Levels, message : Messages])
  /\ cycles \in 0 .. MaxCycles
  /\ hints \in Nat

\* One actionable hint per outage, no later than the failure that makes it an
\* outage: once ErrorThreshold failures have been counted exactly one hint was
\* written since the last success, and before that none.
OneHintPerOutage ==
  hints = IF consecutiveFailures >= ErrorThreshold THEN 1 ELSE 0

\* Recovery is announced exactly to the operators who were told of an outage:
\* the two halves read different variables (escalated when the hint is written,
\* the failure count when the recovery is), so this relates them.
RecoveryAnnounced ==
  [][SuccessfulCycle =>
       (log' = <<Line("INFO", "recovered")>>) = (hints > 0)]_vars
=============================================================================
