---------------------------- MODULE SlowlogProofs ----------------------------
(* Proofs about SlowlogDelivery: a rollover means a restart, no command is   *)
(* put in two batches, the API gets batches in order but for late requests,  *)
(* and no command is lost uncounted.                                         *)
EXTENDS SlowlogDelivery, FiniteSetTheorems, TLAPS

-----------------------------------------------------------------------------
(* Redis's log and the watermark.                                            *)

\* The newest of some commands are among them, and the very newest is there.
LEMMA NewestKept ==
  ASSUME NEW n \in Nat \ {0}, NEW C \in SUBSET Int
  PROVE  /\ Newest(n, C) \subseteq C
         /\ \A c \in C : (\A d \in C : d <= c) => c \in Newest(n, C)
<1>1. Newest(n, C) \subseteq C
  BY DEF Newest
<1>2. ASSUME NEW c \in C, \A d \in C : d <= c PROVE c \in Newest(n, C)
  <2>1. {d \in C : d > c} = {}
    <3>1. c \in Int /\ \A d \in C : d \in Int
      OBVIOUS
    <3>2. \A d \in C : ~(d > c)
      BY <1>2, <3>1
    <3> QED BY <3>2
  <2>2. Cardinality({d \in C : d > c}) < n
    BY <2>1, FS_EmptySet
  <2> QED BY <2>2 DEF Newest
<1> QED BY <1>1, <1>2

\* Max is the greatest element, where there is one.
LEMMA MaxIs ==
  ASSUME NEW C \in SUBSET Int, NEW c \in C, \A d \in C : d <= c
  PROVE  Max(C) = c
<1>1. \A d \in C : d \in Int /\ c >= d
  OBVIOUS
<1>2. \A x \in C : (\A y \in C : x >= y) => x = c
  <2> SUFFICES ASSUME NEW x \in C, \A y \in C : x >= y PROVE x = c
    OBVIOUS
  <2>1. x \in Int /\ c \in Int /\ x >= c /\ c >= x
    BY <1>1
  <2> QED BY <2>1
<1> QED BY <1>1, <1>2 DEF Max

\* The log holds commands of the current process, the last one among them; the
\* watermark is no higher than the last command's ID, unless Redis restarted
\* since it was set; and the batches are behind the watermark, or older than
\* the process.
LogOK ==
  /\ executed \in Nat /\ epochStart \in Nat /\ epochStart <= executed
  /\ logged \subseteq epochStart + 1 .. executed
  /\ logged # {} => executed \in logged

WatermarkOK ==
  /\ lastSlowlogID \in Nat
  /\ ~restarted => lastSlowlogID = 0 \/ lastSlowlogID < executed - epochStart

ReportedOK ==
  /\ reported \subseteq 1 .. executed
  /\ restarted => reported \subseteq 1 .. epochStart
  /\ \A c \in reported : c > epochStart => ID(c) <= lastSlowlogID

SlowlogInv == LogOK /\ WatermarkOK /\ ReportedOK

\* What SLOWLOG GET returns, and its first entry.
LEMMA FetchedHead ==
  ASSUME LogOK, Fetched # {}
  PROVE  /\ Fetched \subseteq logged
         /\ newestID = executed - epochStart - 1
         /\ newestID \in Nat
<1>1. FetchWindow \in Nat \ {0} /\ logged \in SUBSET Int
  BY SlowlogAssumption DEF LogOK
<1>2. Fetched \subseteq logged
  BY <1>1, NewestKept DEF Fetched
<1>3. executed \in logged /\ \A d \in logged : d <= executed
  <2>1. logged # {}
    BY <1>2
  <2>2. \A d \in logged : d \in epochStart + 1 .. executed
    BY DEF LogOK
  <2> QED BY <2>1, <2>2 DEF LogOK
<1>4. executed \in Fetched
  BY <1>1, <1>3, NewestKept DEF Fetched
<1>5. Max(Fetched) = executed
  BY <1>1, <1>2, <1>3, <1>4, MaxIs
<1>6. executed >= epochStart + 1
  BY <1>3 DEF LogOK
<1>7. newestID = executed - epochStart - 1
  BY <1>5 DEF newestID, ID
<1>8. executed \in Nat /\ epochStart \in Nat
  BY DEF LogOK
<1>9. executed - epochStart - 1 \in Nat
  BY <1>6, <1>8
<1> QED BY <1>2, <1>7, <1>9

\* A new entry is newer than everything reported.
LEMMA NewIsNewer ==
  ASSUME SlowlogInv, Fetched # {}
  PROVE  /\ NewEntries \subseteq logged
         /\ \A c \in NewEntries, d \in reported : d < c
<1>1. NewEntries \subseteq logged
  BY FetchedHead DEF NewEntries, SlowlogInv
<1>2. ASSUME NEW c \in NewEntries, NEW d \in reported PROVE d < c
  <2>1. c \in Int /\ c > epochStart /\ d \in Int /\ epochStart \in Int
    BY <1>1, <1>2 DEF SlowlogInv, LogOK, ReportedOK
  <2>2. CASE d <= epochStart
    BY <2>1, <2>2
  <2>3. CASE d > epochStart
    <3>1. ~restarted
      BY <2>1, <2>3 DEF SlowlogInv, ReportedOK
    <3>2. ~Rollover
      BY <3>1, FetchedHead DEF Rollover, SlowlogInv, WatermarkOK, LogOK
    <3>3. ID(c) > lastSlowlogID
      BY <1>2, <3>2 DEF NewEntries
    <3>4. ID(d) <= lastSlowlogID
      BY <2>3 DEF SlowlogInv, ReportedOK
    <3> QED BY <2>1, <3>3, <3>4 DEF ID, SlowlogInv, WatermarkOK
  <2> QED BY <2>1, <2>2, <2>3
<1> QED BY <1>1, <1>2

\* Every step of Redis and of the collector preserves the invariant.
LEMMA SlowlogStep == SlowlogInv /\ [Next]_vars => SlowlogInv'
<1> SUFFICES ASSUME SlowlogInv, [Next]_vars PROVE SlowlogInv'
  OBVIOUS
<1>1. CASE SlowCommand
  <2>1. executed' = executed + 1 /\ logged' = Newest(LogLength, logged \union {executed + 1})
        /\ UNCHANGED <<epochStart, lastSlowlogID, reported, restarted>>
    BY <1>1 DEF SlowCommand
  <2>2. LogLength \in Nat \ {0}
    BY SlowlogAssumption
  <2>3. logged \union {executed + 1} \in SUBSET Int
        /\ \A d \in logged \union {executed + 1} : d <= executed + 1
    BY DEF SlowlogInv, LogOK
  <2>4. logged' \subseteq logged \union {executed + 1} /\ executed + 1 \in logged'
    BY <2>1, <2>2, <2>3, NewestKept
  <2>5. LogOK'
    <3>1. executed' \in Nat /\ epochStart' \in Nat /\ epochStart' <= executed'
      BY <2>1 DEF SlowlogInv, LogOK
    <3>2. ASSUME NEW d \in logged' PROVE d \in epochStart' + 1 .. executed'
      <4>1. d \in epochStart + 1 .. executed \/ d = executed + 1
        BY <2>4 DEF SlowlogInv, LogOK
      <4> QED BY <2>1, <3>1, <4>1 DEF SlowlogInv, LogOK
    <3>3. executed' \in logged'
      BY <2>1, <2>4
    <3> QED BY <3>1, <3>2, <3>3 DEF LogOK
  <2>6. WatermarkOK'
    BY <2>1 DEF SlowlogInv, LogOK, WatermarkOK
  <2>7. ReportedOK'
    BY <2>1 DEF SlowlogInv, LogOK, ReportedOK, ID
  <2> QED BY <2>5, <2>6, <2>7 DEF SlowlogInv
<1>2. CASE RedisRestart
  BY <1>2 DEF RedisRestart, SlowlogInv, LogOK, WatermarkOK, ReportedOK, ID
<1>3. CASE SlowlogReset
  BY <1>3 DEF SlowlogReset, SlowlogInv, LogOK, WatermarkOK, ReportedOK, ID
<1>4. CASE CollectSlowlog
  <2>1. /\ Fetched # {}
        /\ reported' = reported \union NewEntries
        /\ lastSlowlogID' = newestID
        /\ restarted' = FALSE
        /\ UNCHANGED <<executed, epochStart, logged>>
    BY <1>4 DEF CollectSlowlog, Watermark, redisVars
  <2>2. newestID = executed - epochStart - 1 /\ newestID \in Nat
    BY <2>1, FetchedHead DEF SlowlogInv
  <2>3. NewEntries \subseteq epochStart + 1 .. executed
    BY <2>1, NewIsNewer DEF SlowlogInv, LogOK
  <2>4. LogOK'
    BY <2>1 DEF SlowlogInv, LogOK
  <2>5. WatermarkOK'
    <3>1. lastSlowlogID' \in Nat /\ lastSlowlogID' = executed - epochStart - 1
      BY <2>1, <2>2
    <3>2. executed' = executed /\ epochStart' = epochStart
          /\ executed \in Nat /\ epochStart \in Nat
      BY <2>1 DEF SlowlogInv, LogOK
    <3> QED BY <3>1, <3>2 DEF WatermarkOK
  <2>6. ReportedOK'
    BY <2>1, <2>2, <2>3 DEF SlowlogInv, LogOK, ReportedOK, ID
  <2> QED BY <2>4, <2>5, <2>6 DEF SlowlogInv
<1>5. CASE AgentRestart
  BY <1>5 DEF AgentRestart, redisVars, SlowlogInv, LogOK, WatermarkOK, ReportedOK
<1>6. CASE UNCHANGED vars
  BY <1>6 DEF vars, redisVars, SlowlogInv, LogOK, WatermarkOK, ReportedOK, ID
<1> QED BY <1>1, <1>2, <1>3, <1>4, <1>5, <1>6 DEF Next

\* The pipeline leaves the slowlog to itself.
LEMMA PipelineRefines == [PipelineNext]_allVars => [Next]_vars
<1> SUFFICES ASSUME [PipelineNext]_allVars PROVE [Next]_vars
  OBVIOUS
<1>1. CASE RedisLogs
  BY <1>1 DEF RedisLogs, Next
<1>2. CASE RedisWipes
  BY <1>2 DEF RedisWipes, Next
<1>3. CASE RestartEmpty
  BY <1>3 DEF RestartEmpty, Next
<1>4. ASSUME NEW s \in Pipe!Snapshots,
             \/ CollectWithSlowlog(s) \/ CollectWithoutSlowlog(s)
             \/ ShipOldest(s) \/ Send(s) \/ Store(s) \/ RequestFails(s) \/ SettleShipped(s)
      PROVE  [Next]_vars
  BY <1>4 DEF CollectWithSlowlog, CollectWithoutSlowlog, ShipOldest, Send, Store, RequestFails,
              SettleShipped, Next
<1>5. CASE UNCHANGED allVars
  BY <1>5 DEF allVars
<1> QED BY <1>1, <1>2, <1>3, <1>4, <1>5 DEF PipelineNext

\* The invariant holds whatever happens to the batches (collector.go:164-200).
LEMMA SlowlogInvariant == PipelineSpec => []SlowlogInv
<1>1. PipelineInit => SlowlogInv
  BY DEF PipelineInit, Init, SlowlogInv, LogOK, WatermarkOK, ReportedOK
<1>2. SlowlogInv /\ [PipelineNext]_allVars => SlowlogInv'
  BY PipelineRefines, SlowlogStep
<1> QED BY <1>1, <1>2, PTL DEF PipelineSpec

\* A rollover of the IDs is never anything but a restart of Redis: no reset of
\* the log, overflow or idle period triggers the re-report (collector.go:175).
THEOREM RolloverIsARestart == PipelineSpec => []RolloverMeansRestart
<1>1. SlowlogInv => RolloverMeansRestart
  <2> SUFFICES ASSUME SlowlogInv, Fetched # {}, Rollover PROVE restarted
    BY DEF RolloverMeansRestart
  <2> QED BY FetchedHead DEF SlowlogInv, LogOK, WatermarkOK, Rollover
<1> QED BY <1>1, SlowlogInvariant, PTL

\* No command is put in two batches of an agent process (collector.go:183).
THEOREM EachCommandOnce == PipelineSpec => NoDuplicates
<1>1. SlowlogInv /\ [PipelineNext]_allVars
      => [CollectSlowlog => NewEntries \intersect reported = {}]_vars
  <2> SUFFICES ASSUME SlowlogInv, CollectSlowlog PROVE NewEntries \intersect reported = {}
    OBVIOUS
  <2>1. Fetched # {}
    BY DEF CollectSlowlog
  <2>2. \A c \in NewEntries, d \in reported : d < c
    BY <2>1, NewIsNewer
  <2>3. reported \subseteq Int
    BY DEF SlowlogInv, LogOK, ReportedOK
  <2>4. NewEntries \subseteq logged /\ logged \subseteq Int
    BY <2>1, NewIsNewer DEF SlowlogInv, LogOK
  <2>5. \A c \in NewEntries : c \notin reported
    <3> SUFFICES ASSUME NEW c \in NewEntries, c \in reported PROVE FALSE
      OBVIOUS
    <3>1. c < c /\ c \in Int
      BY <2>2, <2>3
    <3> QED BY <3>1
  <2> QED BY <2>5
<1> QED BY <1>1, SlowlogInvariant, PTL DEF PipelineSpec, NoDuplicates
\* The window of a log that got one more command, and that may have lost its
\* oldest for it, holds that command and what it held before.
LEMMA WindowMoves ==
  ASSUME LogOK, SlowCommand
  PROVE  Fetched' \subseteq Fetched \union {executed + 1}
<1> DEFINE grown == logged \union {executed + 1}
           Above(c, C) == {d \in C : d > c}
<1>1. /\ logged' = Newest(LogLength, grown) /\ executed \in Nat /\ epochStart \in Nat
      /\ epochStart <= executed /\ logged \subseteq epochStart + 1 .. executed
      /\ FetchWindow \in Nat /\ LogLength \in Nat
  BY SlowlogAssumption DEF LogOK, SlowCommand
<1>2. grown \subseteq epochStart + 1 .. executed + 1
  BY <1>1
<1>3. IsFiniteSet(grown) /\ \A c \in grown : c \in Int
  <2>1. epochStart + 1 \in Int /\ executed + 1 \in Int
    BY <1>1
  <2> QED BY <1>2, <2>1, FS_Interval, FS_Subset
<1> SUFFICES ASSUME NEW c \in Fetched', c # executed + 1 PROVE c \in Fetched
  OBVIOUS
<1>4. c \in logged' /\ Cardinality(Above(c, logged')) < FetchWindow
  BY DEF Fetched, Newest
<1>5. c \in grown /\ Cardinality(Above(c, grown)) < LogLength
  BY <1>1, <1>4 DEF Newest
<1>6. \A C \in SUBSET grown : IsFiniteSet(C) /\ Cardinality(C) \in Nat
  BY <1>3, FS_Subset, FS_CardinalityType
<1>7. Above(c, logged) \subseteq Above(c, logged')
  <2> SUFFICES ASSUME NEW d \in logged, d > c PROVE d \in logged'
    OBVIOUS
  <2>1. Above(d, grown) \subseteq Above(c, grown)
    <3>1. d \in grown /\ d \in Int /\ c \in Int
      BY <1>3, <1>5
    <3>2. \A e \in grown : e > d => e > c
      BY <1>3, <3>1
    <3> QED BY <3>2
  <2>2. Cardinality(Above(d, grown)) <= Cardinality(Above(c, grown))
    BY <1>6, <2>1, FS_Subset
  <2>3. Cardinality(Above(d, grown)) < LogLength
    <3>1. Cardinality(Above(d, grown)) \in Nat /\ Cardinality(Above(c, grown)) \in Nat
      BY <1>6
    <3> QED BY <1>1, <1>5, <2>2, <3>1
  <2> QED BY <1>1, <2>3 DEF Newest
<1>8. Cardinality(Above(c, logged)) <= Cardinality(Above(c, logged'))
      /\ Cardinality(Above(c, logged)) \in Nat /\ Cardinality(Above(c, logged')) \in Nat
  <2>1. logged' \subseteq grown
    BY <1>1 DEF Newest
  <2>2. Above(c, logged) \in SUBSET grown /\ Above(c, logged') \in SUBSET grown
    BY <2>1
  <2> QED BY <1>6, <1>7, <2>2, FS_Subset
<1>9. c \in logged
  BY <1>5
<1>10. Cardinality(Above(c, logged)) < FetchWindow
  BY <1>1, <1>4, <1>8
<1> QED BY <1>9, <1>10 DEF Fetched, Newest

\* What the window shows and the watermark hides was reported, or is masked by
\* a restart that went undetected; the watermark says nothing after one.
FetchedInv ==
  /\ masked \in Nat
  /\ ~restarted => \A c \in Fetched :
       ID(c) <= lastSlowlogID => c \in reported \/ ID(c) <= masked

\* Every step of Redis and of the collector preserves FetchedInv.
LEMMA FetchedStep == SlowlogInv /\ FetchedInv /\ [Next]_vars => FetchedInv'
<1> SUFFICES ASSUME SlowlogInv, FetchedInv, [Next]_vars PROVE FetchedInv'
  OBVIOUS
<1> USE DEF FetchedInv
<1>1. CASE SlowCommand
  <2>1. UNCHANGED <<epochStart, lastSlowlogID, reported, restarted, masked>>
    BY <1>1 DEF SlowCommand
  <2>2. SUFFICES ASSUME ~restarted, NEW c \in Fetched', ID(c)' <= lastSlowlogID
                 PROVE  c \in reported \/ ID(c)' <= masked
    BY <2>1
  <2>3. ID(c)' = ID(c)
    BY <2>1 DEF ID
  <2>4. CASE c = executed + 1
    BY <2>1, <2>2, <2>3, <2>4 DEF SlowlogInv, LogOK, WatermarkOK, ID
  <2>5. CASE c \in Fetched
    BY <2>2, <2>3, <2>5
  <2> QED BY <1>1, <2>4, <2>5, WindowMoves DEF SlowlogInv
<1>2. CASE RedisRestart
  BY <1>2 DEF RedisRestart
<1>3. CASE SlowlogReset
  <2>1. Fetched' = {}
    BY <1>3 DEF SlowlogReset, Fetched, Newest
  <2> QED BY <1>3, <2>1 DEF SlowlogReset
<1>4. CASE CollectSlowlog
  <2>1. /\ reported' = reported \union NewEntries /\ Fetched' = Fetched
        /\ masked' = IF restarted /\ ~Rollover THEN lastSlowlogID ELSE masked
        /\ epochStart' = epochStart
    BY <1>4 DEF CollectSlowlog, redisVars, Fetched
  <2>2. masked' \in Nat
    BY <2>1 DEF SlowlogInv, WatermarkOK
  <2>3. ASSUME NEW c \in Fetched, c \notin reported' PROVE ID(c) <= masked'
    <3>1. ~Rollover /\ ~(ID(c) > lastSlowlogID) /\ c \notin reported
      BY <2>1, <2>3 DEF NewEntries
    <3>2. ID(c) <= lastSlowlogID
      <4>1. c \in Int /\ epochStart \in Int /\ lastSlowlogID \in Int
        <5>1. c \in logged
          BY <2>3 DEF Fetched, Newest
        <5> QED BY <5>1 DEF SlowlogInv, LogOK, WatermarkOK
      <4> QED BY <3>1, <4>1 DEF ID
    <3> QED BY <2>1, <3>1, <3>2
  <2>4. \A c \in Fetched : ID(c)' = ID(c)
    BY <2>1 DEF ID
  <2> QED BY <2>1, <2>2, <2>3, <2>4
<1>5. CASE AgentRestart
  <2>1. lastSlowlogID' = 0 /\ masked' = 0
    BY <1>5 DEF AgentRestart
  <2> QED BY <2>1
<1>6. CASE UNCHANGED vars
  BY <1>6 DEF vars, redisVars, Fetched, ID
<1> QED BY <1>1, <1>2, <1>3, <1>4, <1>5, <1>6 DEF Next

\* A command that SLOWLOG GET returns is reported, then or before, unless its ID
\* is 0 or an undetected restart hides it (collector.go:183-189).
THEOREM NothingFetchedIsSkipped == PipelineSpec => FetchedIsReported
<1>1. PipelineInit => FetchedInv
  BY DEF PipelineInit, Init, FetchedInv, Fetched, Newest
<1>2. SlowlogInv /\ FetchedInv /\ [PipelineNext]_allVars => FetchedInv'
  BY PipelineRefines, FetchedStep
<1>3. SlowlogInv /\ FetchedInv /\ [PipelineNext]_allVars
      => [CollectSlowlog => \A c \in Fetched \ reported' : ID(c) <= masked']_vars
  <2> SUFFICES ASSUME SlowlogInv, FetchedInv, CollectSlowlog,
                      NEW c \in Fetched, c \notin reported'
               PROVE  ID(c) <= masked'
    OBVIOUS
  <2>1. /\ reported' = reported \union NewEntries
        /\ masked' = IF restarted /\ ~Rollover THEN lastSlowlogID ELSE masked
    BY DEF CollectSlowlog
  <2>2. ~Rollover /\ ~(ID(c) > lastSlowlogID) /\ c \notin reported
    BY <2>1 DEF NewEntries
  <2>3. ID(c) <= lastSlowlogID
    <3>1. c \in logged
      BY DEF Fetched, Newest
    <3>2. c \in Int /\ epochStart \in Int /\ lastSlowlogID \in Int
      BY <3>1 DEF SlowlogInv, LogOK, WatermarkOK
    <3> QED BY <2>2, <3>2 DEF ID
  <2> QED BY <2>1, <2>2, <2>3 DEF FetchedInv
<1> QED BY <1>1, <1>2, <1>3, SlowlogInvariant, PTL DEF PipelineSpec, FetchedIsReported
-----------------------------------------------------------------------------
(* The pipeline.                                                             *)

\* Snapshots are made in order, and what is not made yet is empty.
MadeInOrder ==
  /\ status \in [Pipe!Snapshots -> Pipe!Statuses]
  /\ \A s, t \in Pipe!Snapshots : s < t /\ status[s] = "future" => status[t] = "future"
  /\ \A s \in Pipe!Snapshots : status[s] = "future" => batch[s] = {}

\* Batches hold the reported commands, later ones in later snapshots.
BatchesInOrder ==
  /\ batch \in [Pipe!Snapshots -> SUBSET reported]
  /\ \A c \in reported : \E s \in Pipe!Snapshots : c \in batch[s]
  /\ \A s, t \in Pipe!Snapshots :
       s < t => \A c \in batch[s], d \in batch[t] : c < d

\* The API stored the snapshot, or may store it by a request given up.
Requested(s) == copies[s] > 0 \/ late[s] > 0

\* One snapshot is shipped at a time, before those that wait, and what was
\* requested is not after it.
ShippedInOrder ==
  /\ \A s, t \in Pipe!Snapshots :
       status[s] = "shipping" /\ status[t] = "shipping" => s = t
  /\ \A s, t \in Pipe!Snapshots :
       status[s] = "shipping" /\ status[t] = "buffered" => s < t
  /\ \A s, t \in Pipe!Snapshots :
       status[s] \in {"buffered", "shipping"} /\ Requested(t) => t <= s

\* Each request is one attempt at the snapshot that is being shipped, and only
\* a stored one delivers it.
Waited == IF request = "open" THEN 1 ELSE 0
RequestsOK ==
  /\ attempt \in 0 .. MaxAttempts
  /\ request \in {"none", "open", "stored"}
  /\ late \in [Pipe!Snapshots -> Nat] /\ copies \in [Pipe!Snapshots -> Nat]
  /\ \A s \in Pipe!Snapshots : copies[s] + late[s] <= MaxAttempts
  /\ \A s \in Pipe!Snapshots :
       status[s] = "shipping" =>
         /\ copies[s] + late[s] + Waited <= attempt
         /\ request = "stored" => copies[s] > 0
  /\ (\A s \in Pipe!Snapshots : status[s] # "shipping") => request = "none" /\ attempt = 0
  /\ \A s \in Pipe!Snapshots :
       status[s] \in {"future", "buffered", "evicted"} => copies[s] = 0 /\ late[s] = 0
  /\ \A s \in Pipe!Snapshots : status[s] = "delivered" => copies[s] > 0

PipelineInv == MadeInOrder /\ BatchesInOrder /\ ShippedInOrder /\ RequestsOK

\* Snapshots are named by integers, so that the later one is the greater.
LEMMA SnapshotsAreInts == Pipe!Snapshots \subseteq Int
BY SlowlogDeliveryAssumption DEF Pipe!Snapshots

\* A step that leaves the pipeline alone.
LEMMA PipelineIdle ==
  ASSUME PipelineInv, UNCHANGED pipeline, reported' = reported
  PROVE  PipelineInv'
<1>1. /\ status' = status /\ batch' = batch /\ copies' = copies
      /\ attempt' = attempt /\ request' = request /\ late' = late
  BY DEF pipeline, requests
<1>2. MadeInOrder' /\ BatchesInOrder'
  BY <1>1 DEF PipelineInv, MadeInOrder, BatchesInOrder
<1>3. ShippedInOrder' /\ RequestsOK'
  BY <1>1 DEF PipelineInv, ShippedInOrder, RequestsOK, Requested, Waited
<1> QED BY <1>2, <1>3 DEF PipelineInv

\* What a new snapshot does to the places of all.
LEMMA CollectPlaces ==
  ASSUME MadeInOrder, ShippedInOrder, RequestsOK,
         NEW s \in Pipe!Snapshots, Pipe!Collect(s), UNCHANGED <<requests, copies>>,
         \A t \in Pipe!Snapshots \ {s} : batch'[t] = batch[t]
  PROVE  MadeInOrder' /\ ShippedInOrder' /\ RequestsOK'
<1> USE SnapshotsAreInts
<1>1. status[s] = "future" /\ \A t \in Pipe!Snapshots : t < s => status[t] # "future"
  BY DEF Pipe!Collect
<1>2. status' = [t \in Pipe!Snapshots |->
                   IF t = s THEN "buffered"
                   ELSE IF Pipe!Full /\ Pipe!Oldest(t) THEN "evicted" ELSE status[t]]
  BY DEF Pipe!Collect
<1>3. status' \in [Pipe!Snapshots -> Pipe!Statuses]
  BY <1>2 DEF MadeInOrder, Pipe!Statuses
<1>4. \A t \in Pipe!Snapshots : Pipe!Oldest(t) => status[t] = "buffered"
  BY DEF Pipe!Oldest, Pipe!Waiting
<1>5. /\ status'[s] = "buffered"
      /\ \A t \in Pipe!Snapshots \ {s} :
           \/ status'[t] = status[t]
           \/ status'[t] = "evicted" /\ status[t] = "buffered"
  BY <1>2, <1>4
<1>6. \A t \in Pipe!Snapshots : t > s => status[t] = "future"
  BY <1>1 DEF MadeInOrder
<1>7. attempt' = attempt /\ request' = request /\ late' = late /\ copies' = copies
  BY DEF requests
<1>8. \A t \in Pipe!Snapshots : Requested(t)' = Requested(t)
  BY <1>7 DEF Requested
<1>9. MadeInOrder'
  <2>1. ASSUME NEW t \in Pipe!Snapshots, NEW u \in Pipe!Snapshots,
               t < u, status'[t] = "future"
        PROVE  status'[u] = "future"
    <3>1. t # s /\ status[t] = "future"
      BY <1>5, <2>1
    <3>2. t > s /\ u > s
      BY <1>1, <2>1, <3>1
    <3> QED BY <1>5, <1>6, <3>2
  <2>2. ASSUME NEW t \in Pipe!Snapshots, status'[t] = "future" PROVE batch'[t] = {}
    <3>1. t # s /\ status[t] = "future"
      BY <1>5, <2>2
    <3> QED BY <3>1 DEF MadeInOrder
  <2> QED BY <1>3, <2>1, <2>2 DEF MadeInOrder
<1>10. ShippedInOrder'
  <2>1. ASSUME NEW t \in Pipe!Snapshots, NEW u \in Pipe!Snapshots,
               status'[t] = "shipping", status'[u] = "shipping"
        PROVE  t = u
    BY <1>5, <2>1 DEF ShippedInOrder
  <2>2. ASSUME NEW t \in Pipe!Snapshots, NEW u \in Pipe!Snapshots,
               status'[t] = "shipping", status'[u] = "buffered"
        PROVE  t < u
    <3>1. t # s /\ status[t] = "shipping"
      BY <1>5, <2>2
    <3>2. CASE u = s
      <4>1. ~(t > s)
        BY <1>6, <3>1
      <4>2. t \in Int /\ s \in Int
        OBVIOUS
      <4> QED BY <3>1, <3>2, <4>1, <4>2
    <3>3. CASE u # s
      BY <1>5, <2>2, <3>1, <3>3 DEF ShippedInOrder
    <3> QED BY <3>2, <3>3
  <2>3. ASSUME NEW t \in Pipe!Snapshots, NEW u \in Pipe!Snapshots,
               status'[t] \in {"buffered", "shipping"}, Requested(u)
        PROVE  u <= t
    <3>1. CASE t = s
      <4>1. status[u] # "future"
        BY <2>3 DEF RequestsOK, Requested
      <4> QED BY <1>6, <3>1, <4>1
    <3>2. CASE t # s
      BY <1>5, <2>3, <3>2 DEF ShippedInOrder
    <3> QED BY <3>1, <3>2
  <2> QED BY <1>8, <2>1, <2>2, <2>3 DEF ShippedInOrder
<1>11. RequestsOK'
  <2>1. \A t \in Pipe!Snapshots : status'[t] = "shipping" <=> status[t] = "shipping"
    BY <1>1, <1>5
  <2>2. \A t \in Pipe!Snapshots :
          status'[t] \in {"future", "buffered", "evicted"} =>
            status[t] \in {"future", "buffered", "evicted"}
    BY <1>1, <1>5
  <2>3. \A t \in Pipe!Snapshots : status'[t] = "delivered" => status[t] = "delivered"
    BY <1>5
  <2> QED BY <1>7, <2>1, <2>2, <2>3 DEF RequestsOK, Waited
<1> QED BY <1>9, <1>10, <1>11

\* What the drain loop, the network and the API do to the snapshot in hand, or
\* to one of which a request is late, leaves the batches alone.
LEMMA ShippingStep ==
  ASSUME PipelineInv, NEW s \in Pipe!Snapshots,
         Send(s) \/ Store(s) \/ RequestFails(s)
  PROVE  PipelineInv'
<1> USE SnapshotsAreInts
<1>1. /\ MaxAttempts \in Nat \ {0} /\ attempt \in Nat /\ attempt' \in 0 .. MaxAttempts
      /\ request \in {"none", "open", "stored"} /\ request' \in {"none", "open", "stored"}
      /\ copies \in [Pipe!Snapshots -> Nat] /\ late \in [Pipe!Snapshots -> Nat]
      /\ copies[s] \in Nat /\ late[s] \in Nat
  BY SlowlogDeliveryAssumption
     DEF PipelineInv, RequestsOK, Send, Store, StoreOpen, StoreLate, RequestFails
<1>2. status' = status /\ batch' = batch /\ reported' = reported
  BY DEF Send, Store, RequestFails, vars
<1>3. /\ copies' \in [Pipe!Snapshots -> Nat] /\ late' \in [Pipe!Snapshots -> Nat]
      /\ \A t \in Pipe!Snapshots \ {s} : copies'[t] = copies[t] /\ late'[t] = late[t]
  BY <1>1 DEF Send, Store, StoreOpen, StoreLate, RequestFails
<1>4. status[s] = "shipping" \/ late[s] > 0
  BY DEF Send, Store, StoreOpen, StoreLate, RequestFails
<1>5. status[s] # "shipping" =>
        /\ request' = request /\ attempt' = attempt
        /\ copies'[s] = copies[s] + 1 /\ late'[s] = late[s] - 1
  BY <1>1 DEF Send, Store, StoreOpen, StoreLate, RequestFails
<1>6. copies'[s] >= copies[s] /\ (request' = "stored" /\ request # "stored" => copies'[s] > 0)
  BY <1>1 DEF Send, Store, StoreOpen, StoreLate, RequestFails
<1>7. status[s] = "shipping" /\ copies[s] + late[s] + Waited <= attempt =>
        copies'[s] + late'[s] + Waited' <= attempt'
  <2>1. CASE Send(s)
    BY <1>1, <2>1 DEF Send, Waited
  <2>2. CASE Store(s)
    BY <1>1, <2>2 DEF Store, StoreOpen, StoreLate, Waited
  <2>3. CASE RequestFails(s)
    BY <1>1, <2>3 DEF RequestFails, Waited
  <2> QED BY <2>1, <2>2, <2>3
<1>8. MadeInOrder' /\ BatchesInOrder'
  BY <1>2 DEF PipelineInv, MadeInOrder, BatchesInOrder
<1>9. ShippedInOrder'
  <2>1. \A t, u \in Pipe!Snapshots :
          status[u] \in {"buffered", "shipping"} /\ Requested(t)' => t <= u
    <3> SUFFICES ASSUME NEW t \in Pipe!Snapshots, NEW u \in Pipe!Snapshots,
                        status[u] \in {"buffered", "shipping"}, Requested(t)'
                 PROVE  t <= u
      OBVIOUS
    <3>1. CASE t # s
      <4>1. Requested(t)
        BY <1>3, <3>1 DEF Requested
      <4> QED BY <4>1 DEF PipelineInv, ShippedInOrder
    <3>2. CASE t = s
      <4>1. CASE late[s] > 0
        BY <3>2, <4>1 DEF PipelineInv, ShippedInOrder, Requested
      <4>2. CASE status[s] = "shipping"
        BY <3>2, <4>2 DEF PipelineInv, ShippedInOrder
      <4> QED BY <1>4, <4>1, <4>2
    <3> QED BY <3>1, <3>2
  <2> QED BY <1>2, <2>1 DEF PipelineInv, ShippedInOrder
<1>10. RequestsOK'
  <2>1. ASSUME NEW t \in Pipe!Snapshots, status[t] = "shipping"
        PROVE  /\ copies'[t] + late'[t] + Waited' <= attempt'
               /\ request' = "stored" => copies'[t] > 0
    <3>1. CASE t = s
      <4>1. /\ copies[s] + late[s] + Waited <= attempt
            /\ request = "stored" => copies[s] > 0
        BY <2>1, <3>1 DEF PipelineInv, RequestsOK
      <4>2. copies'[s] \in Nat
        BY <1>3
      <4> QED BY <1>1, <1>6, <1>7, <2>1, <3>1, <4>1, <4>2
    <3>2. CASE t # s
      <4>1. status[s] # "shipping"
        BY <2>1, <3>2 DEF PipelineInv, ShippedInOrder
      <4>2. request' = request /\ attempt' = attempt /\ Waited' = Waited
        BY <1>5, <4>1 DEF Waited
      <4> QED BY <1>3, <2>1, <3>2, <4>2 DEF PipelineInv, RequestsOK
    <3> QED BY <3>1, <3>2
  <2>2. ASSUME NEW t \in Pipe!Snapshots PROVE copies'[t] + late'[t] <= MaxAttempts
    <3>1. CASE t # s
      BY <1>3, <3>1 DEF PipelineInv, RequestsOK
    <3>2. CASE t = s /\ status[s] = "shipping"
      <4>1. copies'[s] \in Nat /\ late'[s] \in Nat /\ Waited' \in Nat
        BY <1>3 DEF Waited
      <4> QED BY <1>1, <2>1, <3>2, <4>1
    <3>3. CASE t = s /\ status[s] # "shipping"
      BY <1>1, <1>5, <3>3 DEF PipelineInv, RequestsOK
    <3> QED BY <3>1, <3>2, <3>3
  <2>3. (\A t \in Pipe!Snapshots : status[t] # "shipping") => request' = "none" /\ attempt' = 0
    BY <1>5 DEF PipelineInv, RequestsOK
  <2>4. ASSUME NEW t \in Pipe!Snapshots, status[t] \in {"future", "buffered", "evicted"}
        PROVE  copies'[t] = 0 /\ late'[t] = 0
    <3>1. copies[t] = 0 /\ late[t] = 0
      BY <2>4 DEF PipelineInv, RequestsOK
    <3>2. t # s
      BY <1>4, <2>4, <3>1
    <3> QED BY <1>3, <3>1, <3>2
  <2>5. ASSUME NEW t \in Pipe!Snapshots, status[t] = "delivered" PROVE copies'[t] > 0
    <3>1. copies[t] > 0 /\ copies[t] \in Nat /\ copies'[t] \in Nat
      BY <1>1, <1>3, <2>5 DEF PipelineInv, RequestsOK
    <3> QED BY <1>3, <1>6, <3>1
  <2> QED BY <1>1, <1>2, <1>3, <2>1, <2>2, <2>3, <2>4, <2>5 DEF RequestsOK
<1> QED BY <1>8, <1>9, <1>10 DEF PipelineInv

\* Every step of the pipeline preserves its order.
LEMMA PipelineStep == SlowlogInv /\ PipelineInv /\ [PipelineNext]_allVars => PipelineInv'
<1> SUFFICES ASSUME SlowlogInv, PipelineInv, [PipelineNext]_allVars PROVE PipelineInv'
  OBVIOUS
<1> USE SnapshotsAreInts
<1>1. CASE RedisLogs \/ RedisWipes
  <2>1. UNCHANGED pipeline /\ reported' = reported
    BY <1>1 DEF RedisLogs, RedisWipes, SlowCommand, RedisRestart, SlowlogReset
  <2> QED BY <2>1, PipelineIdle
<1>2. CASE RestartEmpty
  <2>1. /\ status' = [s \in Pipe!Snapshots |-> "future"]
        /\ batch' = [s \in Pipe!Snapshots |-> {}] /\ reported' = {}
        /\ copies' = [s \in Pipe!Snapshots |-> 0]
        /\ late' = [s \in Pipe!Snapshots |-> 0] /\ attempt' = 0 /\ request' = "none"
        /\ MaxAttempts \in Nat
    BY <1>2, SlowlogDeliveryAssumption DEF RestartEmpty, AgentRestart, NoBatches, NoCopies
  <2>2. MadeInOrder' /\ BatchesInOrder'
    BY <2>1 DEF MadeInOrder, BatchesInOrder, Pipe!Statuses
  <2>3. ShippedInOrder' /\ RequestsOK'
    BY <2>1 DEF ShippedInOrder, RequestsOK, Requested
  <2> QED BY <2>2, <2>3 DEF PipelineInv
<1>3. ASSUME NEW s \in Pipe!Snapshots, CollectWithSlowlog(s) PROVE PipelineInv'
  <2>1. /\ Fetched # {} /\ reported' = reported \union NewEntries
        /\ batch' = [batch EXCEPT ![s] = NewEntries]
        /\ UNCHANGED <<requests, copies>> /\ Pipe!Collect(s) /\ status[s] = "future"
    BY <1>3 DEF CollectWithSlowlog, CollectSlowlog, Pipe!Collect
  <2>2. batch'[s] = NewEntries /\ \A t \in Pipe!Snapshots \ {s} : batch'[t] = batch[t]
    BY <2>1 DEF PipelineInv, BatchesInOrder
  <2>3. MadeInOrder' /\ ShippedInOrder' /\ RequestsOK'
    BY <2>1, <2>2, CollectPlaces DEF PipelineInv
  <2>4. batch' \in [Pipe!Snapshots -> SUBSET reported']
    BY <2>1 DEF PipelineInv, BatchesInOrder
  <2>5. ASSUME NEW t \in Pipe!Snapshots, NEW u \in Pipe!Snapshots, t < u,
               NEW c \in batch'[t], NEW d \in batch'[u]
        PROVE  c < d
    <3>1. CASE t # s /\ u # s
      BY <2>2, <2>5, <3>1 DEF PipelineInv, BatchesInOrder
    <3>2. CASE t = s
      <4>1. batch'[u] = {}
        BY <2>1, <2>2, <2>5, <3>2 DEF PipelineInv, MadeInOrder
      <4> QED BY <2>5, <4>1
    <3>3. CASE u = s
      <4>1. c \in reported /\ d \in NewEntries
        BY <2>2, <2>5, <3>3 DEF PipelineInv, BatchesInOrder
      <4> QED BY <2>1, <4>1, NewIsNewer
    <3> QED BY <3>1, <3>2, <3>3
  <2>6. ASSUME NEW c \in reported' PROVE \E t \in Pipe!Snapshots : c \in batch'[t]
    <3>1. CASE c \in NewEntries
      BY <2>2, <3>1
    <3>2. CASE c \in reported
      <4>1. PICK t \in Pipe!Snapshots : c \in batch[t]
        BY <3>2 DEF PipelineInv, BatchesInOrder
      <4>2. t # s
        BY <2>1, <4>1 DEF PipelineInv, MadeInOrder
      <4> QED BY <2>2, <4>1, <4>2
    <3> QED BY <2>1, <3>1, <3>2
  <2> QED BY <2>3, <2>4, <2>5, <2>6 DEF PipelineInv, BatchesInOrder
<1>4. ASSUME NEW s \in Pipe!Snapshots, CollectWithoutSlowlog(s) PROVE PipelineInv'
  <2>1. /\ Pipe!Collect(s) /\ batch' = batch /\ UNCHANGED <<requests, copies>>
        /\ reported' = reported
    BY <1>4 DEF CollectWithoutSlowlog, vars
  <2>2. MadeInOrder' /\ ShippedInOrder' /\ RequestsOK'
    BY <2>1, CollectPlaces DEF PipelineInv
  <2> QED BY <2>1, <2>2 DEF PipelineInv, BatchesInOrder
<1>5. ASSUME NEW s \in Pipe!Snapshots, ShipOldest(s) PROVE PipelineInv'
  <2>1. /\ \A t \in Pipe!Snapshots : status[t] # "shipping"
        /\ status' = [status EXCEPT ![s] = "shipping"]
        /\ batch' = batch /\ copies' = copies /\ late' = late
        /\ attempt' = attempt /\ request' = request /\ reported' = reported
    BY <1>5 DEF ShipOldest, Pipe!Ship, vars, requests
  <2>2. /\ status[s] = "buffered"
        /\ \A t \in Pipe!Snapshots : status[t] = "buffered" => s <= t
    BY <1>5 DEF ShipOldest, Pipe!Ship, Pipe!Oldest, Pipe!Waiting
  <2>3. status'[s] = "shipping" /\ \A t \in Pipe!Snapshots \ {s} : status'[t] = status[t]
    BY <2>1 DEF PipelineInv, MadeInOrder
  <2>4. status' \in [Pipe!Snapshots -> Pipe!Statuses]
    BY <2>1 DEF PipelineInv, MadeInOrder, Pipe!Statuses
  <2>5. MadeInOrder'
    BY <2>1, <2>2, <2>3, <2>4 DEF PipelineInv, MadeInOrder
  <2>6. ShippedInOrder'
    BY <2>1, <2>2, <2>3 DEF PipelineInv, ShippedInOrder, Requested
  <2>7. request = "none" /\ attempt = 0 /\ copies[s] = 0 /\ late[s] = 0
    BY <2>1, <2>2 DEF PipelineInv, RequestsOK
  <2>8. RequestsOK'
    BY <2>1, <2>3, <2>7 DEF PipelineInv, RequestsOK, Waited
  <2> QED BY <2>1, <2>5, <2>6, <2>8 DEF PipelineInv, BatchesInOrder
<1>6. ASSUME NEW s \in Pipe!Snapshots, SettleShipped(s) PROVE PipelineInv'
  <2>1. PICK outcome \in {"delivered", "dropped"} :
          status[s] = "shipping" /\ status' = [status EXCEPT ![s] = outcome]
    BY <1>6 DEF SettleShipped, Pipe!Settle, Pipe!Settled
  <2>2. /\ batch' = batch /\ copies' = copies /\ late' = late /\ reported' = reported
        /\ attempt' = 0 /\ request' = "none"
        /\ status'[s] = "delivered" <=> request = "stored"
    BY <1>6 DEF SettleShipped, vars
  <2>3. status'[s] = outcome /\ \A t \in Pipe!Snapshots \ {s} : status'[t] = status[t]
    BY <2>1 DEF PipelineInv, MadeInOrder
  <2>4. status' \in [Pipe!Snapshots -> Pipe!Statuses]
    BY <2>1 DEF PipelineInv, MadeInOrder, Pipe!Statuses, Pipe!Settled
  <2>5. MadeInOrder'
    BY <2>1, <2>2, <2>3, <2>4 DEF PipelineInv, MadeInOrder
  <2>6. ShippedInOrder'
    BY <2>1, <2>2, <2>3 DEF PipelineInv, ShippedInOrder, Requested
  <2>7. \A t \in Pipe!Snapshots : status'[t] # "shipping"
    BY <2>1, <2>3 DEF PipelineInv, ShippedInOrder
  <2>8. \A t \in Pipe!Snapshots : status'[t] = "delivered" => copies[t] > 0
    BY <2>1, <2>2, <2>3 DEF PipelineInv, RequestsOK
  <2>9. RequestsOK'
    <3>1. MaxAttempts \in Nat
      BY SlowlogDeliveryAssumption
    <3>2. \A t \in Pipe!Snapshots :
            status'[t] \in {"future", "buffered", "evicted"} => status'[t] = status[t]
      BY <2>3
    <3> QED BY <2>2, <2>7, <2>8, <3>1, <3>2 DEF PipelineInv, RequestsOK
  <2> QED BY <2>2, <2>5, <2>6, <2>9 DEF PipelineInv, BatchesInOrder
<1>7. CASE UNCHANGED allVars
  BY <1>7, PipelineIdle DEF allVars, vars
<1> QED BY <1>1, <1>2, <1>3, <1>4, <1>5, <1>6, <1>7, ShippingStep DEF PipelineNext

\* The order of the pipeline holds in every reachable state.
LEMMA PipelineInvariant == PipelineSpec => []PipelineInv
<1>1. PipelineInit => PipelineInv
  BY SlowlogDeliveryAssumption
     DEF PipelineInit, Init, Pipe!Init, NoBatches, NoCopies, PipelineInv, MadeInOrder,
         BatchesInOrder, ShippedInOrder, RequestsOK, Requested, Pipe!Statuses
<1> QED BY <1>1, PipelineStep, SlowlogInvariant, PTL DEF PipelineSpec

\* The copies of a snapshot grow by a request that the API stores, only.
LEMMA CopiesGrow ==
  ASSUME PipelineInv, [PipelineNext]_allVars, NEW s \in Pipe!Snapshots, copies'[s] > copies[s]
  PROVE  Store(s)
<1>1. copies \in [Pipe!Snapshots -> Nat]
  BY DEF PipelineInv, RequestsOK
<1>2. ~ RestartEmpty
  BY <1>1 DEF RestartEmpty, NoCopies
<1>3. copies' # copies
  BY <1>1
<1>4. PICK t \in Pipe!Snapshots : Store(t)
  BY <1>2, <1>3
     DEF PipelineNext, RedisLogs, RedisWipes, CollectWithSlowlog, CollectWithoutSlowlog,
         ShipOldest, Send, RequestFails, SettleShipped, allVars, pipeline
<1>5. t = s
  BY <1>1, <1>4 DEF Store
<1> QED BY <1>4, <1>5

\* No command is stored from two snapshots of an agent process, and the batches
\* are stored in order, but for requests that arrive after their snapshot was
\* settled: copies of what the API has, or dropped ones.
THEOREM StoredOnceAndInOrder == PipelineSpec => BackendInOrder
<1> DEFINE InOrder(s, t) ==
             \A c \in batch[s], d \in batch[t] :
               /\ c # d
               /\ \/ d < c
                  \/ status[s] = "delivered" /\ copies[s] > 0
                  \/ status[s] = "dropped"
<1>1. SlowlogInv /\ PipelineInv /\ [PipelineNext]_allVars =>
        \A s \in Pipe!Snapshots :
          copies'[s] > copies[s] =>
            \A t \in Pipe!Snapshots \ {s} : copies[t] > 0 => InOrder(s, t)
  <2> SUFFICES ASSUME SlowlogInv, PipelineInv, [PipelineNext]_allVars,
                      NEW s \in Pipe!Snapshots, copies'[s] > copies[s],
                      NEW t \in Pipe!Snapshots \ {s}, copies[t] > 0,
                      NEW c \in batch[s], NEW d \in batch[t]
               PROVE  /\ c # d
                      /\ \/ d < c
                         \/ status[s] = "delivered" /\ copies[s] > 0
                         \/ status[s] = "dropped"
    OBVIOUS
  <2>1. s \in Int /\ t \in Int
    BY SnapshotsAreInts
  <2>2. s < t => c < d
    BY DEF PipelineInv, BatchesInOrder
  <2>3. t < s => d < c
    BY DEF PipelineInv, BatchesInOrder
  <2>4. c # d
    <3>1. c \in reported /\ d \in reported
      BY DEF PipelineInv, BatchesInOrder
    <3>2. executed \in Int /\ reported \subseteq 1 .. executed
      BY DEF SlowlogInv, LogOK, ReportedOK
    <3> QED BY <2>1, <2>2, <2>3, <3>1, <3>2
  <2>5. status[s] = "shipping" \/ late[s] > 0
    BY CopiesGrow DEF Store, StoreOpen, StoreLate
  <2>6. CASE status[s] \in {"buffered", "shipping"}
    <3>1. t <= s
      BY <2>6 DEF PipelineInv, ShippedInOrder, Requested
    <3> QED BY <2>1, <2>3, <2>4, <3>1
  <2>7. CASE status[s] \notin {"buffered", "shipping"}
    <3>1. status[s] \in {"delivered", "dropped"}
      <4>1. status[s] \in Pipe!Statuses /\ late[s] \in Nat
        BY DEF PipelineInv, MadeInOrder, RequestsOK
      <4>2. status[s] \notin {"future", "evicted"}
        BY <2>5, <2>7 DEF PipelineInv, RequestsOK
      <4> QED BY <2>7, <4>1, <4>2 DEF Pipe!Statuses, Pipe!Settled
    <3>2. status[s] = "delivered" => copies[s] > 0
      BY DEF PipelineInv, RequestsOK
    <3> QED BY <2>4, <3>1, <3>2
  <2> QED BY <2>6, <2>7
<1>2. SlowlogInv /\ PipelineInv /\ [PipelineNext]_allVars =>
        [\A s \in Pipe!Snapshots :
           copies'[s] > copies[s] => \A t \in Pipe!Snapshots \ {s} :
             copies[t] > 0 => \A c \in batch[s], d \in batch[t] :
               /\ c # d
               /\ \/ d < c
                  \/ status[s] = "delivered" /\ copies[s] > 0
                  \/ status[s] = "dropped"]_allVars
  BY <1>1
<1> QED BY <1>2, SlowlogInvariant, PipelineInvariant, PTL DEF PipelineSpec, BackendInOrder

\* A command behind the watermark is stored, on its way, or lost with a snapshot
\* that was evicted or dropped, and so counted (collector.go:198).
THEOREM NoUncountedLoss == PipelineSpec => []LossIsCounted
<1>1. PipelineInv => LossIsCounted
  <2> SUFFICES ASSUME PipelineInv, NEW c \in reported
               PROVE  \E s \in Pipe!Snapshots :
                        /\ c \in batch[s]
                        /\ \/ status[s] \in {"buffered", "shipping"}
                           \/ copies[s] > 0
                           \/ status[s] \in {"evicted", "dropped"}
    BY DEF LossIsCounted
  <2>1. PICK s \in Pipe!Snapshots : c \in batch[s]
    BY DEF PipelineInv, BatchesInOrder
  <2>2. status[s] \in Pipe!Statuses /\ status[s] # "future"
    BY <2>1 DEF PipelineInv, MadeInOrder
  <2>3. status[s] = "delivered" => copies[s] > 0
    BY DEF PipelineInv, RequestsOK
  <2> QED BY <2>1, <2>2, <2>3 DEF Pipe!Statuses, Pipe!Settled
<1> QED BY <1>1, PipelineInvariant, PTL

\* What the histories and the bounds add to the invariants.
HistoriesTyped ==
  /\ executed \in 0 .. MaxCommands
  /\ lastSlowlogID > 0 => lastSlowlogID < executed
  /\ restarted \in BOOLEAN
  /\ masked \in 0 .. MaxCommands
  /\ seen \in 0 .. executed
  /\ wiped \in BOOLEAN

\* Every step of Redis and of the collector keeps what is of them.
LEMMA CollectorTyped ==
  ASSUME SlowlogInv, HistoriesTyped, [Next]_vars
  PROVE  /\ executed' \in 0 .. MaxCommands /\ executed <= executed'
         /\ lastSlowlogID' > 0 => lastSlowlogID' < executed'
         /\ restarted' \in BOOLEAN /\ masked' \in 0 .. MaxCommands
<1>1. /\ MaxCommands \in Nat /\ executed \in Nat /\ executed <= MaxCommands
      /\ epochStart \in Nat /\ epochStart <= executed
      /\ lastSlowlogID \in Nat /\ (lastSlowlogID > 0 => lastSlowlogID < executed)
      /\ restarted \in BOOLEAN /\ masked \in 0 .. MaxCommands
  BY SlowlogAssumption DEF SlowlogInv, LogOK, WatermarkOK, HistoriesTyped
<1>2. CASE CollectSlowlog
  <2>1. /\ Fetched # {} /\ lastSlowlogID' = newestID /\ executed' = executed
        /\ restarted' = FALSE
        /\ masked' = IF restarted /\ ~Rollover THEN lastSlowlogID ELSE masked
    BY <1>2 DEF CollectSlowlog, Watermark, redisVars
  <2>2. newestID = executed - epochStart - 1 /\ newestID \in Nat
    BY <2>1, FetchedHead DEF SlowlogInv
  <2>3. newestID < executed /\ lastSlowlogID \in 0 .. MaxCommands
    BY <1>1, <2>2
  <2>4. restarted' \in BOOLEAN
    BY <2>1, Zenon
  <2> QED BY <1>1, <2>1, <2>3, <2>4
<1>3. CASE SlowCommand
  BY <1>1, <1>3 DEF SlowCommand
<1>4. CASE RedisRestart \/ SlowlogReset \/ AgentRestart \/ UNCHANGED vars
  <2>1. restarted' = TRUE \/ restarted' = FALSE \/ restarted' = restarted
    BY <1>4 DEF RedisRestart, SlowlogReset, AgentRestart, vars
  <2>2. restarted' \in BOOLEAN
    BY <1>1, <2>1, Zenon
  <2> QED BY <1>1, <1>4, <2>2
          DEF RedisRestart, SlowlogReset, AgentRestart, vars, redisVars
<1> QED BY <1>2, <1>3, <1>4 DEF Next

\* Type correctness of the pipeline, with its bounds: no snapshot is stored more
\* than max_attempts times, the late requests included, and the watermark is
\* below the number of commands that all processes of Redis have logged.
THEOREM PipelineTyped == PipelineSpec => []PipelineTypeOK
<1>1. PipelineInit => HistoriesTyped
  <2> SUFFICES ASSUME PipelineInit PROVE HistoriesTyped
    OBVIOUS
  <2>1. restarted \in BOOLEAN /\ wiped \in BOOLEAN
    BY Zenon DEF PipelineInit, Init
  <2> QED BY <2>1, SlowlogAssumption, SlowlogDeliveryAssumption
          DEF PipelineInit, Init, HistoriesTyped
<1>2. SlowlogInv /\ PipelineInv /\ HistoriesTyped /\ [PipelineNext]_allVars => HistoriesTyped'
  <2> SUFFICES ASSUME SlowlogInv, PipelineInv, HistoriesTyped, [PipelineNext]_allVars
               PROVE  HistoriesTyped'
    OBVIOUS
  <2>1. /\ executed' \in 0 .. MaxCommands /\ executed <= executed'
        /\ lastSlowlogID' > 0 => lastSlowlogID' < executed'
        /\ restarted' \in BOOLEAN /\ masked' \in 0 .. MaxCommands
    BY PipelineRefines, CollectorTyped
  <2>2. seen' \in 0 .. executed' /\ wiped' \in BOOLEAN
    <3>1. /\ executed \in Nat /\ executed' \in Nat /\ executed <= executed'
          /\ epochStart \in 0 .. executed /\ seen \in 0 .. executed /\ wiped \in BOOLEAN
      BY <2>1 DEF SlowlogInv, LogOK, HistoriesTyped
    <3>2. seen' \in {seen, executed, epochStart} /\ wiped' \in BOOLEAN
      BY <3>1 DEF PipelineNext, RedisLogs, RedisWipes, RestartEmpty, CollectWithSlowlog,
                  CollectWithoutSlowlog, ShipOldest, Send, Store, RequestFails, SettleShipped,
                  allVars
    <3> QED BY <3>1, <3>2
  <2> QED BY <2>1, <2>2 DEF HistoriesTyped
<1>3. SlowlogInv /\ PipelineInv /\ HistoriesTyped => PipelineTypeOK
  <2> SUFFICES ASSUME SlowlogInv, PipelineInv, HistoriesTyped PROVE PipelineTypeOK
    OBVIOUS
  <2>1. MaxCommands \in Nat /\ executed \in 0 .. MaxCommands
    BY SlowlogAssumption DEF HistoriesTyped
  <2>2. reported \subseteq Commands
    BY <2>1 DEF SlowlogInv, ReportedOK, Commands
  <2>3. TypeOK
    BY <2>1, <2>2 DEF SlowlogInv, LogOK, WatermarkOK, HistoriesTyped, TypeOK
  <2> QED BY <2>2, <2>3
          DEF PipelineInv, MadeInOrder, BatchesInOrder, RequestsOK, HistoriesTyped, PipelineTypeOK
<1> QED BY <1>1, <1>2, <1>3, SlowlogInvariant, PipelineInvariant, PTL DEF PipelineSpec

-----------------------------------------------------------------------------
(* Keeping up with Redis.                                                    *)

\* As long as the log was not emptied since the watermark was set, the watermark
\* is at most the last command seen then, and of the commands since then the
\* newest LogLength are in the log.
KeepingUp ==
  /\ seen \in Nat /\ seen <= executed
  /\ ~wiped =>
       /\ ~restarted /\ epochStart <= seen
       /\ lastSlowlogID = 0 \/ lastSlowlogID <= ID(seen)
       /\ \A c \in seen + 1 .. executed : executed - c < LogLength => c \in logged

\* A command that fewer than n others came after is among the newest n.
LEMMA RecentIsNewest ==
  ASSUME NEW n \in Nat, NEW last \in Int, NEW C \in SUBSET Int,
         \A d \in C : d <= last, NEW c \in C, last - c < n
  PROVE  c \in Newest(n, C)
<1>1. c + 1 \in Int /\ c \in Int /\ c <= last
  OBVIOUS
<1>2. {d \in C : d > c} \subseteq c + 1 .. last
  <2> SUFFICES ASSUME NEW d \in C, d > c PROVE d \in c + 1 .. last
    OBVIOUS
  <2>1. d \in Int /\ d <= last
    OBVIOUS
  <2> QED BY <1>1, <2>1
<1>3. IsFiniteSet(c + 1 .. last) /\ Cardinality(c + 1 .. last) = last - c
  <2>1. /\ IsFiniteSet(c + 1 .. last)
        /\ Cardinality(c + 1 .. last) = IF c + 1 > last THEN 0 ELSE last - (c + 1) + 1
    BY <1>1, FS_Interval
  <2> QED BY <1>1, <2>1
<1>4. /\ Cardinality({d \in C : d > c}) <= last - c
      /\ Cardinality({d \in C : d > c}) \in Nat
  BY <1>2, <1>3, FS_Subset, FS_CardinalityType
<1> QED BY <1>1, <1>4 DEF Newest

\* The smaller of two bounds.
LEMMA MinOfTwo ==
  ASSUME NEW a \in Int, NEW b \in Int
  PROVE  Min({a, b}) \in Int /\ Min({a, b}) <= a /\ Min({a, b}) <= b
<1> DEFINE least == IF a <= b THEN a ELSE b
<1>1. least \in {a, b} /\ \A y \in {a, b} : least =< y
  OBVIOUS
<1>2. Min({a, b}) \in {a, b} /\ \A y \in {a, b} : Min({a, b}) =< y
  BY <1>1 DEF Min
<1> QED BY <1>2

\* Every step of the pipeline preserves KeepingUp.
LEMMA KeepingUpStep ==
  SlowlogInv /\ KeepingUp /\ [PipelineNext]_allVars => KeepingUp'
<1> SUFFICES ASSUME SlowlogInv, KeepingUp, [PipelineNext]_allVars PROVE KeepingUp'
  OBVIOUS
<1>1. /\ executed \in Nat /\ epochStart \in Nat /\ epochStart <= executed
      /\ logged \subseteq epochStart + 1 .. executed
      /\ lastSlowlogID \in Nat /\ seen \in Nat /\ seen <= executed
      /\ LogLength \in Nat
  BY SlowlogAssumption DEF SlowlogInv, LogOK, WatermarkOK, KeepingUp
<1>2. CASE RedisLogs
  <2>1. /\ executed' = executed + 1 /\ logged' = Newest(LogLength, logged \union {executed + 1})
        /\ UNCHANGED <<epochStart, lastSlowlogID, restarted, seen, wiped>>
    BY <1>2 DEF RedisLogs, SlowCommand
  <2>2. SUFFICES ASSUME ~wiped, NEW c \in seen + 1 .. executed + 1,
                        executed + 1 - c < LogLength
                 PROVE  c \in logged'
    BY <1>1, <2>1 DEF KeepingUp, ID
  <2>3. c \in logged \union {executed + 1}
    <3>1. CASE c = executed + 1
      BY <3>1
    <3>2. CASE c # executed + 1
      <4>1. c \in seen + 1 .. executed /\ executed - c < LogLength
        BY <1>1, <2>2, <3>2
      <4> QED BY <2>2, <4>1 DEF KeepingUp
    <3> QED BY <3>1, <3>2
  <2>4. /\ logged \union {executed + 1} \in SUBSET Int
        /\ \A d \in logged \union {executed + 1} : d <= executed + 1
        /\ executed + 1 \in Int
    BY <1>1
  <2>5. c \in Newest(LogLength, logged \union {executed + 1})
    <3>1. \A C \in SUBSET Int : \A d \in C :
            (\A e \in C : e <= executed + 1) /\ executed + 1 - d < LogLength
              => d \in Newest(LogLength, C)
      BY <1>1, <2>4, RecentIsNewest
    <3> QED BY <2>2, <2>3, <2>4, <3>1
  <2> QED BY <2>1, <2>5
<1>3. CASE RedisWipes
  <2>1. wiped' = TRUE /\ UNCHANGED <<executed, seen>>
    BY <1>3 DEF RedisWipes, RedisRestart, SlowlogReset
  <2> QED BY <1>1, <2>1 DEF KeepingUp
<1>4. CASE RestartEmpty
  <2>1. /\ seen' = epochStart /\ wiped' = (logged # epochStart + 1 .. executed)
        /\ lastSlowlogID' = 0 /\ restarted' = FALSE
        /\ UNCHANGED <<executed, epochStart, logged>>
    BY <1>4 DEF RestartEmpty, AgentRestart, redisVars
  <2>2. wiped' = FALSE => logged = epochStart + 1 .. executed
    BY <2>1, Zenon
  <2>3. wiped' \in BOOLEAN
    BY <2>1, Zenon
  <2>4. ~wiped' => logged = epochStart + 1 .. executed
    BY <2>2, <2>3, Zenon
  <2>5. seen' \in Nat /\ seen' <= executed' /\ epochStart' <= seen'
    BY <1>1, <2>1
  <2>6. ~wiped' => \A c \in seen' + 1 .. executed' : c \in logged'
    BY <2>1, <2>4, Zenon
  <2> QED BY <2>1, <2>5, <2>6 DEF KeepingUp
<1>5. ASSUME NEW s \in Pipe!Snapshots, CollectWithSlowlog(s) PROVE KeepingUp'
  <2>1. /\ Fetched # {} /\ lastSlowlogID' = newestID /\ restarted' = FALSE
        /\ UNCHANGED <<executed, epochStart, logged>>
        /\ seen' = executed
    BY <1>5 DEF CollectWithSlowlog, CollectSlowlog, Watermark, redisVars
  <2>2. newestID = executed - epochStart - 1
    BY <2>1, FetchedHead DEF SlowlogInv
  <2>3. \A c \in seen' + 1 .. executed' : FALSE
    BY <1>1, <2>1
  <2>4. lastSlowlogID' = ID(seen)'
    BY <2>1, <2>2 DEF ID
  <2>5. lastSlowlogID' <= ID(seen)'
    <3>1. ID(seen)' \in Int
      BY <1>1, <2>1, <2>2, <2>4
    <3> QED BY <2>4, <3>1
  <2> QED BY <1>1, <2>1, <2>3, <2>5 DEF KeepingUp
<1>6. CASE UNCHANGED <<executed, epochStart, logged, lastSlowlogID, restarted, seen, wiped>>
  BY <1>6 DEF KeepingUp, ID
<1>7. ASSUME NEW s \in Pipe!Snapshots,
             \/ CollectWithoutSlowlog(s) \/ ShipOldest(s) \/ Send(s)
             \/ Store(s) \/ RequestFails(s) \/ SettleShipped(s)
      PROVE  KeepingUp'
  BY <1>6, <1>7 DEF CollectWithoutSlowlog, ShipOldest, Send, Store, RequestFails, SettleShipped,
                    vars, redisVars
<1>8. CASE UNCHANGED allVars
  BY <1>6, <1>8 DEF allVars, vars, redisVars
<1> QED BY <1>2, <1>3, <1>4, <1>5, <1>7, <1>8 DEF PipelineNext

\* A cycle that gets to the slowlog in time takes every command since the last
\* one along, except one with ID 0 (collector.go:164-200).
THEOREM NothingIsMissed == PipelineSpec => KeepsUp
<1>1. PipelineInit => KeepingUp
  BY SlowlogAssumption DEF PipelineInit, Init, KeepingUp
<1>2. SlowlogInv /\ PipelineInv /\ KeepingUp =>
        \A s \in Pipe!Snapshots :
          /\ CollectWithSlowlog(s)
          /\ ~wiped /\ executed - seen <= Min({FetchWindow, LogLength})
          => {c \in seen + 1 .. executed : ID(c) > 0} \subseteq batch'[s]
  <2> SUFFICES ASSUME SlowlogInv, PipelineInv, KeepingUp, NEW s \in Pipe!Snapshots,
                      CollectWithSlowlog(s), ~wiped,
                      executed - seen <= Min({FetchWindow, LogLength}),
                      NEW c \in seen + 1 .. executed, ID(c) > 0
               PROVE  c \in batch'[s]
    OBVIOUS
  <2>1. /\ executed \in Nat /\ epochStart \in Nat /\ seen \in Nat
        /\ logged \subseteq epochStart + 1 .. executed /\ lastSlowlogID \in Nat
        /\ FetchWindow \in Nat /\ LogLength \in Nat /\ c \in Int
    BY SlowlogAssumption DEF SlowlogInv, LogOK, WatermarkOK, KeepingUp
  <2>2. executed - c < FetchWindow /\ executed - c < LogLength
    <3>0. FetchWindow \in Int /\ LogLength \in Int
      BY <2>1
    <3>1. \E m \in Int : /\ m = Min({FetchWindow, LogLength})
                         /\ m <= FetchWindow /\ m <= LogLength
      BY <3>0, MinOfTwo, Zenon
    <3> PICK m \in Int : /\ m = Min({FetchWindow, LogLength})
                         /\ m <= FetchWindow /\ m <= LogLength
      BY <3>1
    <3>2. executed - seen <= m
      OBVIOUS
    <3> QED BY <2>1, <3>2
  <2>3. c \in logged
    BY <2>2 DEF KeepingUp
  <2>4. c \in Fetched
    <3>1. logged \in SUBSET Int /\ \A d \in logged : d <= executed
      BY <2>1
    <3> QED BY <2>1, <2>2, <2>3, <3>1, RecentIsNewest DEF Fetched
  <2>5. ID(c) > lastSlowlogID
    <3>1. lastSlowlogID = 0 \/ lastSlowlogID <= ID(seen)
      BY DEF KeepingUp
    <3>2. CASE lastSlowlogID = 0
      BY <3>2
    <3>3. CASE lastSlowlogID <= ID(seen)
      BY <2>1, <3>3 DEF ID
    <3> QED BY <3>1, <3>2, <3>3
  <2>6. c \in NewEntries
    BY <2>4, <2>5 DEF NewEntries
  <2>7. batch'[s] = NewEntries
    BY DEF CollectWithSlowlog, PipelineInv, BatchesInOrder
  <2> QED BY <2>6, <2>7
<1>3. SlowlogInv /\ PipelineInv /\ KeepingUp =>
        [\A s \in Pipe!Snapshots :
          /\ CollectWithSlowlog(s)
          /\ ~wiped /\ executed - seen <= Min({FetchWindow, LogLength})
          => {c \in seen + 1 .. executed : ID(c) > 0} \subseteq batch'[s]]_allVars
  BY <1>2
<1> QED BY <1>1, <1>3, KeepingUpStep, SlowlogInvariant, PipelineInvariant, PTL
        DEF PipelineSpec, KeepsUp
=============================================================================
