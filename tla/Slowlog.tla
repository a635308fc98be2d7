------------------------------- MODULE Slowlog -------------------------------
(***************************************************************************)
(* collectSlowlog of internal/infra/redis/collector.go: the agent reads    *)
(* the newest entries of Redis's slowlog and tells new ones from old ones  *)
(* by a watermark in memory.  Redis's side (its numbering, its bounded     *)
(* log, restarts and SLOWLOG RESET) is external.  A batch is reported when *)
(* it is put in a snapshot; SlowlogDelivery follows it from there.         *)
(*                                                                         *)
(* A slow command is named by the order in which Redis logged it, over all *)
(* restarts; Redis numbers them from 0 in every process.                   *)
(***************************************************************************)
EXTENDS Integers, FiniteSetsExt

CONSTANTS
  FetchWindow,   \* slowlogFetchWindow
  LogLength,     \* Redis's slowlog-max-len
  MaxCommands    \* bound on the slow commands logged

ASSUME SlowlogAssumption ==
  /\ FetchWindow \in Nat \ {0}
  /\ LogLength \in Nat \ {0}
  /\ MaxCommands \in Nat

VARIABLES
  executed,       \* Redis: slow commands logged so far
  epochStart,     \* Redis: those logged by earlier processes
  logged,         \* Redis: the commands in the log
  lastSlowlogID,  \* the agent's watermark
  reported,       \* history: commands put in a batch by this agent process
  restarted,      \* history: Redis restarted since the watermark was set
  masked          \* history: the highest ID of this Redis process that the
                  \* watermark hides although nobody reported it

redisVars == <<executed, epochStart, logged>>
vars == <<redisVars, lastSlowlogID, reported, restarted, masked>>

Commands == 1 .. MaxCommands

\* The ID Redis gave to a command of its current process.
ID(command) == command - epochStart - 1

Newest(n, commands) ==
  {c \in commands : Cardinality({d \in commands : d > c}) < n}

Init ==
  /\ executed = 0 /\ epochStart = 0 /\ logged = {}
  /\ lastSlowlogID = 0
  /\ reported = {}
  /\ restarted = FALSE
  /\ masked = 0
-----------------------------------------------------------------------------
(* Redis.                                                                  *)

SlowCommand ==
  /\ executed < MaxCommands
  /\ executed' = executed + 1
  /\ logged' = Newest(LogLength, logged \union {executed + 1})
  /\ UNCHANGED <<epochStart, lastSlowlogID, reported, restarted, masked>>

RedisRestart ==
  /\ executed > epochStart
  /\ epochStart' = executed
  /\ logged' = {}
  /\ restarted' = TRUE
  /\ masked' = 0
  /\ UNCHANGED <<executed, lastSlowlogID, reported>>

\* SLOWLOG RESET empties the log; the numbering goes on.
SlowlogReset ==
  /\ logged # {}
  /\ logged' = {}
  /\ UNCHANGED <<executed, epochStart, lastSlowlogID, reported, restarted, masked>>
-----------------------------------------------------------------------------
(* The agent.                                                              *)

\* The reply of SLOWLOG GET.
Fetched == Newest(FetchWindow, logged)
newestID == ID(Max(Fetched))

BadRollover == newestID <= lastSlowlogID   \* mutant: an idle Redis looks restarted
Rollover == newestID < lastSlowlogID

BadNewEntries == {c \in Fetched : ID(c) > lastSlowlogID}   \* mutant: Rollover ignored
NewEntries == {c \in Fetched : Rollover \/ ID(c) > lastSlowlogID}

BadWatermark == newestID + 1   \* mutant: the next ID instead of the last one
Watermark == newestID

\* An empty reply leaves the watermark alone, and so does a failed call.
CollectSlowlog ==
  /\ Fetched # {}
  /\ reported' = reported \union NewEntries
  /\ lastSlowlogID' = Watermark
  /\ restarted' = FALSE
  /\ masked' = IF restarted /\ ~Rollover THEN lastSlowlogID ELSE masked
  /\ UNCHANGED redisVars

\* The watermark is memory only.
AgentRestart ==
  /\ lastSlowlogID # 0 \/ reported # {}
  /\ lastSlowlogID' = 0
  /\ reported' = {}
  /\ restarted' = FALSE
  /\ masked' = 0
  /\ UNCHANGED redisVars

Next ==
  \/ SlowCommand \/ RedisRestart \/ SlowlogReset
  \/ CollectSlowlog \/ AgentRestart

Spec == Init /\ [][Next]_vars
-----------------------------------------------------------------------------
TypeOK ==
  /\ executed \in 0 .. MaxCommands
  /\ epochStart \in 0 .. executed
  /\ logged \subseteq epochStart + 1 .. executed
  /\ lastSlowlogID \in Nat /\ (lastSlowlogID > 0 => lastSlowlogID < executed)
  /\ reported \subseteq Commands
  /\ restarted \in BOOLEAN
  /\ masked \in 0 .. MaxCommands

\* "which can only happen after the Redis process restarts" (collector.go:31):
\* no reset of the log, no overflow and no idle period looks like a rollover,
\* so the re-report it triggers happens only after a restart.
RolloverMeansRestart == Fetched # {} /\ Rollover => restarted

\* A command is put in at most one batch of an agent process, across cycles,
\* resets of the log and restarts of Redis, detected or not.
NoDuplicates ==
  [][CollectSlowlog => NewEntries \intersect reported = {}]_vars

\* A command that SLOWLOG GET returned is reported, then or before, unless its
\* ID is hidden: 0 in any process, and after a restart that the watermark did
\* not betray everything up to the old watermark.  Nothing else is skipped, on
\* an overflow of the window neither.
FetchedIsReported ==
  [][CollectSlowlog => \A c \in Fetched \ reported' : ID(c) <= masked']_vars
=============================================================================
