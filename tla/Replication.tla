----------------------------- MODULE Replication -----------------------------
(***************************************************************************)
(* What a snapshot says of replication: parseInfoOutput, parseSlaveLine,   *)
(* buildReplicationLag and buildMetrics of internal/infra/redis/           *)
(* collector.go, over the lines of INFO, while replicas come, synchronise, *)
(* acknowledge and go, and the instance changes its role.  Redis's side is *)
(* external.  The agent keeps nothing from cycle to cycle, and INFO is one *)
(* command: Snapshot is what a cycle reports at the moment.                *)
(*                                                                         *)
(* A line of INFO is a key and a value; keys are sequences, <<"role">> and *)
(* <<"slave", 0>>; section headings and blank lines have the empty key.    *)
(* Names that Capabilities has too carry the prefix Repl.                  *)
(***************************************************************************)
EXTENDS Integers, SequencesExt

CONSTANTS
  MaxReplicas,   \* bound on the replicas attached at a time
  MaxOffset,     \* bound on the bytes written
  MaxSilence     \* bound on the seconds since the master was heard

ASSUME ReplicationAssumption ==
  MaxReplicas \in Nat /\ MaxOffset \in Nat /\ MaxSilence \in Nat

VARIABLES
  role,      \* Redis: "master", "slave", or "none" if INFO does not tell
  offset,    \* Redis: master_repl_offset
  slaves,    \* Redis: the replicas attached to it, in the order they came
  linkUp,    \* Redis, as a replica: it is connected to its master
  silence    \* Redis, as a replica: seconds since it heard its master

replVars == <<role, offset, slaves, linkUp, silence>>

Roles == {"master", "slave", "none"}

\* A replica waits for a dump, has it transmitted, and is online.
States == {"wait_bgsave", "rdb_transmitted", "online"}
Slaves == [state : States,
           applied : 0 .. MaxOffset,   \* what it has
           acked : 0 .. MaxOffset]     \* what it said it has, at first nothing

\* The replicas INFO has a line for, of the first n and of all: those in a state
\* it has a name for.
ListedUpTo[n \in 0 .. Len(slaves)] ==
  IF n = 0 THEN <<>>
  ELSE ListedUpTo[n - 1]
       \o (IF slaves[n].state = "rdb_transmitted" THEN <<>> ELSE <<slaves[n]>>)
Listed == ListedUpTo[Len(slaves)]

Line(k, v) == [key |-> k, value |-> v]
Heading == Line(<<>>, "# Replication")

\* The reply, as far as it is about replication.
Info ==
  <<Heading>>
  \o (IF role = "none" THEN <<>> ELSE <<Line(<<"role">>, role)>>)
  \o (IF role = "slave"
        THEN <<Line(<<"master_last_io_seconds_ago">>, IF linkUp THEN silence ELSE -1)>>
        ELSE <<>>)
  \o <<Line(<<"connected_slaves">>, Len(slaves))>>
  \o [i \in DOMAIN Listed |->
        Line(<<"slave", i - 1>>,
             <<Line("state", Listed[i].state), Line("offset", Listed[i].acked)>>)]
  \o <<Line(<<"master_repl_offset">>, offset)>>
-----------------------------------------------------------------------------
(* The agent.                                                              *)

\* A map from lines: the last one with a key counts.
LastWins(lines) ==
  [k \in {lines[i].key : i \in DOMAIN lines} |->
     lines[CHOOSE i \in DOMAIN lines :
             lines[i].key = k /\ \A j \in DOMAIN lines : lines[j].key = k => j <= i].value]

\* Lines without a key are passed over.
parseInfoOutput(raw) ==
  LET all == LastWins(raw) IN [k \in DOMAIN all \ {<<>>} |-> all[k]]
parseSlaveLine(raw) == LastWins(raw)

\* What is missing, or no number, reads as zero.
parseInt(f, k) == IF k \in DOMAIN f THEN f[k] ELSE 0

SlaveIndices(f) == 0 .. parseInt(f, <<"connected_slaves">>) - 1

\* The lines of the replicas that have one.
Reported(f) == {f[<<"slave", i>>] : i \in {j \in SlaveIndices(f) : <<"slave", j>> \in DOMAIN f}}

BadMaxLag(f) ==   \* mutant: no line counts as offset zero
  Max({0} \union {parseInt(f, <<"master_repl_offset">>)
                  - (IF <<"slave", i>> \in DOMAIN f
                       THEN parseInt(parseSlaveLine(f[<<"slave", i>>]), "offset") ELSE 0) :
                  i \in SlaveIndices(f)})
MaxLag(f) ==
  Max({0} \union {parseInt(f, <<"master_repl_offset">>) - parseInt(parseSlaveLine(raw), "offset") :
                  raw \in Reported(f)})

Role(f) == IF <<"role">> \in DOMAIN f THEN f[<<"role">>] ELSE ""

BadReplicationLag(f) ==   \* mutant: a replica's two results swapped
  CASE Role(f) = "master" -> [bytes |-> MaxLag(f), seconds |-> 0]
    [] Role(f) = "slave"  -> [bytes |-> parseInt(f, <<"master_last_io_seconds_ago">>), seconds |-> 0]
    [] OTHER              -> [bytes |-> 0, seconds |-> 0]
buildReplicationLag(f) ==
  CASE Role(f) = "master" -> [bytes |-> MaxLag(f), seconds |-> 0]
    [] Role(f) = "slave"  -> [bytes |-> 0, seconds |-> parseInt(f, <<"master_last_io_seconds_ago">>)]
    [] OTHER              -> [bytes |-> 0, seconds |-> 0]

\* The fields about replication; the others are copied one by one.
buildMetrics(f) ==
  [Role |-> Role(f),
   ConnectedSlaves |-> parseInt(f, <<"connected_slaves">>),
   ReplicationLagBytes |-> buildReplicationLag(f).bytes,
   ReplicationLagSeconds |-> buildReplicationLag(f).seconds]

Snapshot == buildMetrics(parseInfoOutput(Info))
-----------------------------------------------------------------------------
(* Redis.                                                                  *)

Attach ==
  /\ Len(slaves) < MaxReplicas
  /\ slaves' = Append(slaves, [state |-> "wait_bgsave", applied |-> 0, acked |-> 0])
  /\ UNCHANGED <<role, offset, linkUp, silence>>

\* The others move up, and their lines are renumbered.
Detach ==
  /\ \E i \in DOMAIN slaves : slaves' = RemoveAt(slaves, i)
  /\ UNCHANGED <<role, offset, linkUp, silence>>

Update(i, slave) ==
  /\ slaves' = [slaves EXCEPT ![i] = slave]
  /\ UNCHANGED <<role, offset, linkUp, silence>>

Transmitted(i) ==
  /\ slaves[i].state = "wait_bgsave"
  /\ Update(i, [slaves[i] EXCEPT !.state = "rdb_transmitted"])

\* It has what was written up to the dump, and says so only later.
PutOnline(i) ==
  /\ slaves[i].state = "rdb_transmitted"
  /\ \E n \in 0 .. offset :
       Update(i, [state |-> "online", applied |-> n, acked |-> slaves[i].acked])

Apply(i) ==
  /\ slaves[i].state = "online" /\ slaves[i].applied < offset
  /\ Update(i, [slaves[i] EXCEPT !.applied = @ + 1])

Acknowledge(i) ==
  /\ slaves[i].state = "online"
  /\ Update(i, [slaves[i] EXCEPT !.acked = slaves[i].applied])

\* From its clients or from its master.
Write ==
  /\ offset < MaxOffset
  /\ role = "slave" => linkUp
  /\ offset' = offset + 1
  /\ silence' = 0
  /\ UNCHANGED <<role, slaves, linkUp>>

Failover ==
  /\ role # "none"
  /\ role' = (IF role = "master" THEN "slave" ELSE "master")
  /\ slaves' = <<>> /\ linkUp' = FALSE /\ silence' = 0
  /\ UNCHANGED <<offset>>

LinkChanges ==
  /\ role = "slave"
  /\ linkUp' = ~linkUp /\ silence' = 0
  /\ UNCHANGED <<role, offset, slaves>>

Second ==
  /\ role = "slave" /\ linkUp /\ silence < MaxSilence
  /\ silence' = silence + 1
  /\ UNCHANGED <<role, offset, slaves, linkUp>>

ReplInit ==
  /\ role \in Roles
  /\ offset = 0 /\ slaves = <<>>
  /\ linkUp = FALSE /\ silence = 0

ReplNext ==
  \/ Attach \/ Detach
  \/ \E i \in DOMAIN slaves : Transmitted(i) \/ PutOnline(i) \/ Apply(i) \/ Acknowledge(i)
  \/ Write \/ Failover \/ LinkChanges \/ Second

ReplSpec == ReplInit /\ [][ReplNext]_replVars
-----------------------------------------------------------------------------
\* The types, and what the lags mean.  "Only meaningful when Role =="
\* (domain/metric.go:53, :59): each is zero in the other role, whatever replicas a
\* replica has of its own; no replica lags by more than was written; seconds below
\* zero are those of a replica without its master, and others those since the
\* connected master was heard.
ReplTypeOK ==
  /\ role \in Roles
  /\ offset \in 0 .. MaxOffset
  /\ slaves \in Seq(Slaves) /\ Len(slaves) <= MaxReplicas
  /\ linkUp \in BOOLEAN /\ silence \in 0 .. MaxSilence
  /\ Snapshot \in [Role : {"master", "slave", ""},
                   ConnectedSlaves : 0 .. MaxReplicas,
                   ReplicationLagBytes : 0 .. MaxOffset,
                   ReplicationLagSeconds : -1 .. MaxSilence]
  /\ Snapshot.ReplicationLagBytes <= offset
  /\ role # "master" => Snapshot.ReplicationLagBytes = 0
  /\ role # "slave" => Snapshot.ReplicationLagSeconds = 0
  /\ role = "slave" =>
       IF Snapshot.ReplicationLagSeconds < 0 THEN ~ linkUp
       ELSE linkUp /\ silence = Snapshot.ReplicationLagSeconds

ListedNow == {Listed[i] : i \in DOMAIN Listed}

\* "that is the one furthest behind" (collector.go:303): no replica with a line
\* is further behind its master than the snapshot says, whatever it has not
\* acknowledged yet, so a lag of zero means that they have everything; and the
\* lag is that of one of them: one that said so, or that is still synchronising
\* or silent, which counts as if it had nothing.
FurthestBehind ==
  role = "master" =>
    /\ \A slave \in ListedNow : offset - slave.applied <= Snapshot.ReplicationLagBytes
    /\ Snapshot.ReplicationLagBytes > 0 =>
         \E slave \in ListedNow : Snapshot.ReplicationLagBytes = offset - slave.acked
=============================================================================
