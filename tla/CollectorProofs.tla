-------------------------- MODULE CollectorProofs --------------------------
(* Proofs about the Redis collector.  Capabilities: what is declared disabled *)
(* is left alone, a missing permission that surfaces later has one of two     *)
(* explanations, and no gap is unexplained.  Replication: what a snapshot     *)
(* says of the replicas, for any number of them.                              *)
EXTENDS Capabilities, Replication, WellFoundedInduction, TLAPS

\* Before the probe is over Collect has sent nothing.
QuietBeforeStart == stage \in {"probe", "refused"} => asked = {}

QuietInv == QuietBeforeStart /\ DisabledStaysQuiet

\* Every step preserves QuietInv.
LEMMA QuietStep == QuietInv /\ [Next]_vars => QuietInv'
<1> SUFFICES ASSUME QuietInv, [Next]_vars PROVE QuietInv'
  OBVIOUS
<1> USE DEF QuietInv, QuietBeforeStart, DisabledStaysQuiet, Probed, Disabled
<1>1. CASE \E command \in Commands : Grant(command) \/ Revoke(command)
  BY <1>1 DEF Grant, Revoke, probeVars, cycleVars
<1>2. CASE Restart
  BY <1>2 DEF Restart, NewProcess
<1>3. CASE ProbeInfoDenied
  BY <1>3 DEF ProbeInfoDenied, probeVars, cycleVars
<1>4. CASE Probe
  <2>1. asked = {} /\ asked' = {}
    BY <1>4 DEF Probe, cycleVars
  <2> QED BY <2>1
<1>5. CASE CollectInfo
  <2>1. asked' = asked \union {"INFO"} /\ caps' = caps /\ stage' \in {"idle", "collect"}
    BY <1>5 DEF CollectInfo, probeVars
  <2>2. "INFO" \notin Optional
    BY DEF Optional
  <2>3. asked \intersect Disabled = {}
    BY <1>5 DEF CollectInfo
  <2> QED BY <2>1, <2>2, <2>3
<1>6. CASE CollectOptional
  <2>1. PICK command : /\ command \in caps
                       /\ asked' = asked \union {command}
    BY <1>6 DEF CollectOptional, Ask
  <2>2. caps' = caps /\ stage' \in {"idle", "collect"}
    BY <1>6 DEF CollectOptional, NextCommand, probeVars
  <2>3. asked \intersect Disabled = {}
    BY <1>6 DEF CollectOptional
  <2> QED BY <2>1, <2>2, <2>3
<1>7. CASE SkipOptional
  BY <1>7 DEF SkipOptional, NextCommand, probeVars, cycleVars
<1>8. CASE UNCHANGED vars
  BY <1>8 DEF vars, probeVars, cycleVars
<1> QED BY <1>1, <1>2, <1>3, <1>4, <1>5, <1>6, <1>7, <1>8 DEF Next

\* A command that snapshots declare disabled is never sent by Collect, whatever
\* the ACL becomes: "silently skipped for the lifetime of the process".
THEOREM DisabledIsLeftAlone == Spec => []DisabledStaysQuiet
<1>1. Init => QuietInv
  BY DEF Init, QuietInv, QuietBeforeStart, DisabledStaysQuiet, Probed
<1>2. QuietInv => DisabledStaysQuiet
  BY DEF QuietInv
<1> QED BY <1>1, <1>2, QuietStep, PTL DEF Spec
-----------------------------------------------------------------------------
\* A command taken for permitted is permitted, or there is a reason why not.
CapsExplained == caps \subseteq acl \union unanswered \union revoked

NoiseInv == CapsExplained /\ NoiseExplained

\* A command that may not run is one the ACL does not hold.
LEMMA DenialIsReal ==
  ASSUME NEW command, "noperm" \in Replies(command) PROVE command \notin acl
BY DEF Replies

\* A probe that does not deny a command was answered by a Redis that permits it,
\* or was not answered.
LEMMA ProbeExplains ==
  ASSUME NEW command, NEW reply \in Replies(command),
         Permit(command, reply), Note(command, reply), CapsExplained,
         UNCHANGED <<acl, revoked>>
  PROVE  CapsExplained'
<1>1. unanswered \subseteq unanswered'
  BY DEF Note
<1>2. CASE reply = "noperm"
  <2>1. caps' = caps
    BY <1>2 DEF Permit, IsACLDenied
  <2> QED BY <1>1, <2>1 DEF CapsExplained
<1>3. CASE reply = "ok"
  <2>1. command \in acl
    BY <1>3 DEF Replies
  <2>2. caps' = caps \union {command}
    BY <1>3 DEF Permit, IsACLDenied
  <2> QED BY <1>1, <2>1, <2>2 DEF CapsExplained
<1>4. CASE reply = "transient"
  <2>1. caps' = caps \union {command} /\ unanswered' = unanswered \union {command}
    BY <1>4 DEF Permit, IsACLDenied, Note
  <2> QED BY <2>1 DEF CapsExplained
<1> QED BY <1>2, <1>3, <1>4 DEF Replies

\* Every step preserves NoiseInv.
LEMMA NoiseStep == NoiseInv /\ [Next]_vars => NoiseInv'
<1> SUFFICES ASSUME NoiseInv, [Next]_vars PROVE NoiseInv'
  OBVIOUS
<1> USE DEF NoiseInv
<1>1. CASE \E command \in Commands : Grant(command) \/ Revoke(command)
  BY <1>1 DEF Grant, Revoke, probeVars, cycleVars, CapsExplained, NoiseExplained
<1>2. CASE Restart
  BY <1>2 DEF Restart, NewProcess, CapsExplained, NoiseExplained
<1>3. CASE ProbeInfoDenied
  BY <1>3 DEF ProbeInfoDenied, probeVars, cycleVars, CapsExplained, NoiseExplained
<1>4. CASE Probe
  <2>1. PICK reply \in Replies(ProbeOrder[position]) :
          Permit(ProbeOrder[position], reply) /\ Note(ProbeOrder[position], reply)
    BY <1>4 DEF Probe
  <2>2. UNCHANGED <<acl, noise, revoked>>
    BY <1>4 DEF Probe, cycleVars
  <2>3. CapsExplained'
    BY <2>1, <2>2, ProbeExplains
  <2>4. unanswered \subseteq unanswered'
    BY <2>1 DEF Note
  <2>5. NoiseExplained'
    BY <2>2, <2>4 DEF NoiseExplained
  <2> QED BY <2>3, <2>5
<1>5. CASE CollectInfo
  BY <1>5 DEF CollectInfo, probeVars, CapsExplained, NoiseExplained
<1>6. CASE CollectOptional
  <2>1. PICK command : command \in caps /\ Ask(command)
    BY <1>6 DEF CollectOptional
  <2>2. UNCHANGED <<acl, caps, unanswered, revoked>>
    BY <1>6 DEF CollectOptional, probeVars
  <2>3. PICK reply \in Replies(command) :
          noise' \in {noise, noise \union {<<command, reply>>}}
    BY <2>1 DEF Ask
  <2>4. reply = "noperm" => command \in unanswered \union revoked
    BY <2>1, DenialIsReal DEF CapsExplained
  <2>5. ASSUME NEW c \in Optional, <<c, "noperm">> \in noise'
        PROVE  c \in unanswered \union revoked
    <3>1. <<c, "noperm">> \in noise \/ <<c, "noperm">> = <<command, reply>>
      BY <2>3, <2>5
    <3>2. CASE <<c, "noperm">> \in noise
      BY <3>2 DEF NoiseExplained
    <3>3. CASE <<c, "noperm">> = <<command, reply>>
      BY <3>3, <2>4
    <3> QED BY <3>1, <3>2, <3>3
  <2>6. NoiseExplained'
    BY <2>2, <2>5 DEF NoiseExplained
  <2>7. CapsExplained'
    BY <2>2 DEF CapsExplained
  <2> QED BY <2>6, <2>7
<1>7. CASE SkipOptional
  BY <1>7 DEF SkipOptional, probeVars, cycleVars, CapsExplained, NoiseExplained
<1>8. CASE UNCHANGED vars
  BY <1>8 DEF vars, probeVars, cycleVars, CapsExplained, NoiseExplained
<1> QED BY <1>1, <1>2, <1>3, <1>4, <1>5, <1>6, <1>7, <1>8 DEF Next

\* A cycle meets a missing permission only where the probe went unanswered or
\* the permission was revoked after the start.
THEOREM NoiseHasACause == Spec => []NoiseExplained
<1>1. Init => NoiseInv
  BY DEF Init, NoiseInv, CapsExplained, NoiseExplained
<1>2. NoiseInv => NoiseExplained
  BY DEF NoiseInv
<1> QED BY <1>1, <1>2, NoiseStep, PTL DEF Spec

-----------------------------------------------------------------------------
\* The commands this cycle has warned about, and those it has come to.
Warned == {c \in Optional : \E reply \in {"noperm", "transient"} : <<c, reply>> \in noise}
Handled == {CollectOrder[i] : i \in 2 .. position - 1}

\* Once the first command of the probe is behind it, INFO is permitted.
InfoPermitted == stage = "probe" /\ position # 1 => "INFO" \in caps

\* Half-way through a cycle the permitted commands it has come to, and no other,
\* have either given their part of the snapshot or a warning.
HandledAreExplained ==
  stage = "collect" =>
    /\ position \in 2 .. 4
    /\ parts \union Warned = caps \intersect Handled
    /\ parts \intersect Warned = {}

GapsInv == TypeOK /\ InfoPermitted /\ HandledAreExplained

\* Every position is one of the four commands; the first is INFO for both.
LEMMA Positions ==
  ASSUME position \in 1 .. 4
  PROVE  /\ ProbeOrder[position] \in Commands
         /\ position = 1 => ProbeOrder[position] = "INFO"
         /\ position # 1 => CollectOrder[position] \in Optional
         /\ (position % 4) + 1 = IF position = 4 THEN 1 ELSE position + 1
         /\ (position % 4) + 1 \in 1 .. 4
<1>1. position = 1 \/ position = 2 \/ position = 3 \/ position = 4
  OBVIOUS
<1>2. /\ (1 % 4) + 1 = 2 /\ (2 % 4) + 1 = 3 /\ (3 % 4) + 1 = 4 /\ (4 % 4) + 1 = 1
  OBVIOUS
<1> QED BY <1>1, <1>2 DEF ProbeOrder, CollectOrder, Commands, Optional

\* The command a cycle asks has not been handled before in this cycle; after the
\* last one every optional command has been.
LEMMA HandledGrows ==
  ASSUME position \in 2 .. 4
  PROVE  /\ CollectOrder[position] \notin Handled
         /\ Handled \union {CollectOrder[position]}
              = {CollectOrder[i] : i \in 2 .. position}
         /\ position = 4 => {CollectOrder[i] : i \in 2 .. position} = Optional
<1>1. CollectOrder[2] = "CONFIG" /\ CollectOrder[3] = "SLOWLOG" /\ CollectOrder[4] = "LATENCY"
  BY DEF CollectOrder
<1>2. CASE position = 2
  <2>1. Handled = {} /\ \A i \in 2 .. position : i = 2
    BY <1>2 DEF Handled
  <2> QED BY <1>2, <2>1
<1>3. CASE position = 3
  <2>1. \A i \in 2 .. 2 : i = 2
    OBVIOUS
  <2>2. \A i \in 2 .. 3 : i = 2 \/ i = 3
    OBVIOUS
  <2> QED BY <1>1, <1>3, <2>1, <2>2 DEF Handled
<1>4. CASE position = 4
  <2>1. \A i \in 2 .. 3 : i = 2 \/ i = 3
    OBVIOUS
  <2>2. \A i \in 2 .. 4 : i = 2 \/ i = 3 \/ i = 4
    OBVIOUS
  <2> QED BY <1>1, <1>4, <2>1, <2>2 DEF Handled, Optional
<1> QED BY <1>2, <1>3, <1>4

\* What one command of Collect does to the snapshot and to the warnings: it adds
\* the command to one of the two.
LEMMA AskExplains ==
  ASSUME NEW command \in Optional, Ask(command), TypeOK
  PROVE  /\ parts' \union Warned' = (parts \union Warned) \union {command}
         /\ command \notin parts \union Warned =>
              (parts \intersect Warned = {} => parts' \intersect Warned' = {})
         /\ noise' \subseteq Optional \X {"noperm", "transient"}
         /\ asked' = asked \union {command}
<1>1. PICK reply \in Replies(command) :
        \/ reply = "ok" /\ parts' = parts \union {command} /\ noise' = noise
        \/ /\ reply # "ok" /\ noise' = noise \union {<<command, reply>>}
           /\ parts' = parts
  BY DEF Ask
<1>2. asked' = asked \union {command}
  BY DEF Ask
<1>3. CASE reply = "ok"
  <2>1. parts' = parts \union {command} /\ noise' = noise
    BY <1>1, <1>3
  <2>2. Warned' = Warned
    BY <2>1 DEF Warned
  <2> QED BY <1>2, <2>1, <2>2 DEF TypeOK
<1>4. CASE reply # "ok"
  <2>1. noise' = noise \union {<<command, reply>>} /\ parts' = parts
    BY <1>1, <1>4
  <2>2. reply \in {"noperm", "transient"}
    BY <1>4 DEF Replies
  <2>3. Warned' = Warned \union {command}
    BY <2>1, <2>2 DEF Warned
  <2>4. noise' \subseteq Optional \X {"noperm", "transient"}
    BY <2>1, <2>2 DEF TypeOK
  <2> QED BY <1>2, <2>1, <2>3, <2>4
<1> QED BY <1>3, <1>4

\* Every step preserves GapsInv.
LEMMA GapsStep == GapsInv /\ [Next]_vars => GapsInv'
<1> SUFFICES ASSUME GapsInv, [Next]_vars PROVE GapsInv'
  OBVIOUS
<1> USE DEF GapsInv
<1>0. Optional \subseteq Commands /\ "INFO" \in Commands
  BY DEF Commands
<1>1. CASE \E command \in Commands : Grant(command) \/ Revoke(command)
  <2>1. /\ UNCHANGED <<stage, position, caps, unanswered, parts, noise, asked>>
        /\ acl' \subseteq Commands /\ revoked' \subseteq Commands
    BY <1>1 DEF Grant, Revoke, probeVars, cycleVars, TypeOK
  <2> QED BY <2>1 DEF TypeOK, Probed, InfoPermitted, HandledAreExplained, Warned, Handled
<1>2. CASE Restart
  <2>1. /\ acl' = acl /\ stage' = "probe" /\ position' = 1
        /\ caps' = {} /\ unanswered' = {} /\ revoked' = {}
        /\ parts' = {} /\ noise' = {} /\ asked' = {}
    BY <1>2 DEF Restart, NewProcess
  <2> QED BY <2>1 DEF TypeOK, Probed, Stages, InfoPermitted, HandledAreExplained
<1>3. CASE ProbeInfoDenied
  <2>1. /\ UNCHANGED <<acl, position, caps, unanswered, parts, noise, asked, revoked>>
        /\ stage' = "refused"
    BY <1>3 DEF ProbeInfoDenied, probeVars, cycleVars
  <2> QED BY <2>1 DEF TypeOK, Probed, Stages, InfoPermitted, HandledAreExplained
<1>4. CASE Probe
  <2>1. PICK reply \in Replies(ProbeOrder[position]) :
          /\ ~(position = 1 /\ IsACLDenied(reply))
          /\ Permit(ProbeOrder[position], reply) /\ Note(ProbeOrder[position], reply)
    BY <1>4 DEF Probe
  <2>2. /\ UNCHANGED <<acl, parts, noise, asked, revoked>> /\ stage = "probe"
        /\ position' = (position % 4) + 1
        /\ stage' = IF position = 4 THEN "idle" ELSE "probe"
    BY <1>4 DEF Probe, cycleVars
  <2>3. position \in 1 .. 4
    BY DEF TypeOK
  <2>4. /\ caps \subseteq caps' /\ caps' \subseteq Commands /\ unanswered' \subseteq Commands
        /\ position = 1 => "INFO" \in caps'
    BY <2>1, <2>3, Positions DEF Permit, Note, TypeOK
  <2>5. "INFO" \in caps'
    BY <2>2, <2>4 DEF InfoPermitted
  <2> QED BY <2>2, <2>3, <2>4, <2>5, Positions
          DEF TypeOK, Probed, Stages, InfoPermitted, HandledAreExplained
<1>5. CASE CollectInfo
  <2>1. /\ stage = "idle" /\ parts' = {} /\ noise' = {}
        /\ asked' = asked \union {"INFO"}
        /\ UNCHANGED <<acl, caps, unanswered, revoked>>
        /\ \/ stage' = "collect" /\ position' = 2
           \/ UNCHANGED <<stage, position>>
    BY <1>5 DEF CollectInfo, probeVars
  <2>2. TypeOK'
    BY <1>0, <2>1 DEF TypeOK, Probed, Stages
  <2>3. stage' = "collect" => Handled' = {} /\ Warned' = {}
    BY <2>1 DEF Handled, Warned
  <2> QED BY <2>1, <2>2, <2>3 DEF InfoPermitted, HandledAreExplained
<1>6. CASE CollectOptional
  <2> DEFINE command == CollectOrder[position]
  <2>1. /\ stage = "collect" /\ command \in caps /\ Ask(command) /\ NextCommand
        /\ UNCHANGED <<acl, caps, unanswered, revoked>>
    BY <1>6 DEF CollectOptional, probeVars
  <2>2. position \in 2 .. 4 /\ parts \union Warned = caps \intersect Handled
        /\ parts \intersect Warned = {}
    BY <2>1 DEF HandledAreExplained
  <2>3. command \in Optional /\ command \notin Handled
    BY <2>2, Positions, HandledGrows
  <2>4. /\ parts' \union Warned' = (parts \union Warned) \union {command}
        /\ parts' \intersect Warned' = {}
        /\ noise' \subseteq Optional \X {"noperm", "transient"}
        /\ asked' = asked \union {command}
    BY <2>1, <2>2, <2>3, AskExplains
  <2>5. parts' \subseteq caps' \intersect Optional
    BY <2>1, <2>3 DEF Ask, TypeOK
  <2>6. position' = IF position = 4 THEN 1 ELSE position + 1
    BY <2>1, <2>2, Positions DEF NextCommand
  <2>7. stage' = IF position = 4 THEN "idle" ELSE "collect"
    BY <2>1 DEF NextCommand
  <2>8. TypeOK'
    BY <1>0, <2>1, <2>2, <2>3, <2>4, <2>5, <2>6, <2>7 DEF TypeOK, Probed, Stages
  <2>9. stage' = "collect" => position' = position + 1 /\ position' \in 2 .. 4
    BY <2>2, <2>6, <2>7
  <2>10. stage' = "collect" => Handled' = Handled \union {command}
    <3>1. position' = position + 1 => position' - 1 = position
      BY <2>2
    <3> QED BY <2>2, <2>9, <3>1, HandledGrows DEF Handled
  <2> QED BY <2>1, <2>2, <2>4, <2>7, <2>8, <2>9, <2>10
          DEF InfoPermitted, HandledAreExplained
<1>7. CASE SkipOptional
  <2> DEFINE command == CollectOrder[position]
  <2>1. /\ stage = "collect" /\ command \notin caps /\ NextCommand
        /\ UNCHANGED <<acl, caps, unanswered, parts, noise, asked, revoked>>
    BY <1>7 DEF SkipOptional, probeVars, cycleVars
  <2>2. position \in 2 .. 4 /\ parts \union Warned = caps \intersect Handled
        /\ parts \intersect Warned = {}
    BY <2>1 DEF HandledAreExplained
  <2>3. position' = IF position = 4 THEN 1 ELSE position + 1
    BY <2>1, <2>2, Positions DEF NextCommand
  <2>4. stage' = IF position = 4 THEN "idle" ELSE "collect"
    BY <2>1 DEF NextCommand
  <2>5. TypeOK'
    BY <2>1, <2>2, <2>3, <2>4 DEF TypeOK, Probed, Stages
  <2>6. stage' = "collect" => position' = position + 1 /\ position' \in 2 .. 4
    BY <2>2, <2>3, <2>4
  <2>7. stage' = "collect" => Handled' = Handled \union {command}
    <3>1. position' = position + 1 => position' - 1 = position
      BY <2>2
    <3> QED BY <2>2, <2>6, <3>1, HandledGrows DEF Handled
  <2>8. Warned' = Warned
    BY <2>1 DEF Warned
  <2> QED BY <2>1, <2>2, <2>4, <2>5, <2>6, <2>7, <2>8
          DEF InfoPermitted, HandledAreExplained
<1>8. CASE UNCHANGED vars
  BY <1>8 DEF vars, probeVars, cycleVars, TypeOK, Probed, InfoPermitted,
              HandledAreExplained, Warned, Handled
<1> QED BY <1>1, <1>2, <1>3, <1>4, <1>5, <1>6, <1>7, <1>8 DEF Next

\* GapsInv holds in every reachable state.
LEMMA GapsInvariant == Spec => []GapsInv
<1>1. Init => GapsInv
  BY DEF Init, GapsInv, TypeOK, Probed, Stages, InfoPermitted, HandledAreExplained
<1> QED BY <1>1, GapsStep, PTL DEF Spec

\* Type correctness: only commands the probe permits give a snapshot its parts,
\* and nothing is collected before INFO was permitted.
THEOREM CapabilitiesTyped == Spec => []TypeOK
BY GapsInvariant, PTL DEF GapsInv

\* Each part a finished snapshot lacks is declared disabled in it or was warned
\* about in the agent's log in that cycle (collector.go:134-156), never both,
\* whatever the ACL did during the cycle.
THEOREM NoGapIsUnexplained == Spec => GapsExplained
<1> DEFINE Explained == /\ parts' \union Warned' \union Disabled' = Optional
                        /\ parts' \intersect Warned' = {}
                        /\ Disabled' \intersect (parts' \union Warned') = {}
<1>1. GapsInv /\ [Next]_vars =>
        [stage = "collect" /\ stage' = "idle" =>
           LET warned == {c \in Optional : \E reply \in {"noperm", "transient"} :
                                            <<c, reply>> \in noise'}
           IN  /\ parts' \union warned \union Disabled' = Optional
               /\ parts' \intersect warned = {}
               /\ Disabled' \intersect (parts' \union warned) = {}]_vars
  <2> SUFFICES ASSUME GapsInv, Next, stage = "collect", stage' = "idle" PROVE Explained
    BY DEF Warned
  <2> DEFINE command == CollectOrder[position]
  <2>1. /\ position \in 2 .. 4 /\ parts \union Warned = caps \intersect Handled
        /\ parts \intersect Warned = {} /\ TypeOK
    BY DEF GapsInv, HandledAreExplained
  <2>2. CollectOptional \/ SkipOptional
    BY DEF Next, Grant, Revoke, Restart, ProbeInfoDenied, Probe, CollectInfo
  <2>3. position = 4 /\ caps' = caps
    BY <2>2 DEF CollectOptional, SkipOptional, NextCommand, probeVars
  <2>4. /\ Handled \union {command} = Optional /\ command \in Optional
        /\ command \notin Handled
    BY <2>1, <2>3, HandledGrows, Positions
  <2>5. CASE CollectOptional
    <3>1. command \in caps /\ Ask(command)
      BY <2>5 DEF CollectOptional
    <3>2. /\ parts' \union Warned' = (parts \union Warned) \union {command}
          /\ parts' \intersect Warned' = {}
      BY <2>1, <2>4, <3>1, AskExplains
    <3> QED BY <2>1, <2>3, <2>4, <3>1, <3>2 DEF Disabled
  <2>6. CASE SkipOptional
    <3>1. command \notin caps /\ UNCHANGED <<parts, noise>>
      BY <2>6 DEF SkipOptional, cycleVars
    <3>2. Warned' = Warned
      BY <3>1 DEF Warned
    <3> QED BY <2>1, <2>3, <2>4, <3>1, <3>2 DEF Disabled
  <2> QED BY <2>2, <2>5, <2>6
<1> QED BY <1>1, GapsInvariant, PTL DEF Spec, GapsExplained

-----------------------------------------------------------------------------
(* Replication.                                                              *)

\* Every set of naturals has a least element.
LEMMA LeastNat ==
  ASSUME NEW S, S \subseteq Nat, S # {}
  PROVE  \E n \in S : \A m \in S : n <= m
<1>1. \E n \in S : \A m \in S : <<m, n>> \notin OpToRel(<, Nat)
  BY NatLessThanWellFounded, WFMin, Zenon
<1>2. \A m, n \in Nat : <<m, n>> \notin OpToRel(<, Nat) => n <= m
  BY DEF OpToRel
<1> QED BY <1>1, <1>2

\* A set of integers with a bound has a greatest element, its Max.
LEMMA MaxOfBounded ==
  ASSUME NEW S, S \subseteq Int, S # {}, NEW b \in Int, \A t \in S : t <= b
  PROVE  Max(S) \in S /\ \A t \in S : t <= Max(S)
<1> DEFINE Distances == {b - t : t \in S}
<1>1. \A t \in S : t \in Int /\ b - t \in Nat
  OBVIOUS
<1>2. Distances \subseteq Nat /\ Distances # {}
  BY <1>1
<1>3. PICK d \in Distances : \A e \in Distances : d <= e
  BY <1>2, LeastNat
<1>4. PICK h \in S : d = b - h
  OBVIOUS
<1>5. \A t \in S : h >= t
  <2> SUFFICES ASSUME NEW t \in S PROVE h >= t
    OBVIOUS
  <2>1. b - h <= b - t
    BY <1>3, <1>4
  <2> QED BY <1>1, <2>1
<1>6. Max(S) \in S /\ \A t \in S : Max(S) >= t
  BY <1>5 DEF Max
<1>7. \A t \in S : t \in Int
  OBVIOUS
<1> QED BY <1>6, <1>7

\* What a concatenation holds.
LEMMA RangeOfConcat ==
  ASSUME NEW S, NEW s \in Seq(S), NEW t \in Seq(S)
  PROVE  s \o t \in Seq(S) /\ Range(s \o t) = Range(s) \union Range(t)
<1>1. /\ s \o t \in Seq(S) /\ Len(s) \in Nat /\ Len(t) \in Nat
      /\ Len(s \o t) = Len(s) + Len(t)
      /\ DOMAIN s = 1 .. Len(s) /\ DOMAIN t = 1 .. Len(t)
      /\ DOMAIN (s \o t) = 1 .. Len(s) + Len(t)
      /\ \A i \in 1 .. Len(s) + Len(t) :
           (s \o t)[i] = IF i <= Len(s) THEN s[i] ELSE t[i - Len(s)]
  OBVIOUS
<1>2. ASSUME NEW x \in Range(s \o t) PROVE x \in Range(s) \union Range(t)
  <2>1. PICK i \in 1 .. Len(s) + Len(t) : x = (s \o t)[i]
    BY <1>1 DEF Range
  <2>2. CASE i <= Len(s)
    <3>1. i \in DOMAIN s /\ x = s[i]
      BY <1>1, <2>1, <2>2
    <3> QED BY <3>1 DEF Range
  <2>3. CASE ~(i <= Len(s))
    <3>1. i - Len(s) \in DOMAIN t /\ x = t[i - Len(s)]
      BY <1>1, <2>1, <2>3
    <3> QED BY <3>1 DEF Range
  <2> QED BY <2>2, <2>3
<1>3. ASSUME NEW x \in Range(s) PROVE x \in Range(s \o t)
  <2>1. PICK i \in 1 .. Len(s) : x = s[i]
    BY <1>1 DEF Range
  <2>2. i \in DOMAIN (s \o t) /\ x = (s \o t)[i]
    BY <1>1, <2>1
  <2> QED BY <2>2 DEF Range
<1>4. ASSUME NEW x \in Range(t) PROVE x \in Range(s \o t)
  <2>1. PICK i \in 1 .. Len(t) : x = t[i]
    BY <1>1 DEF Range
  <2>2. /\ Len(s) + i \in DOMAIN (s \o t) /\ ~(Len(s) + i <= Len(s))
        /\ (Len(s) + i) - Len(s) = i
    BY <1>1
  <2>3. x = (s \o t)[Len(s) + i]
    BY <1>1, <2>1, <2>2
  <2> QED BY <2>2, <2>3 DEF Range
<1> QED BY <1>1, <1>2, <1>3, <1>4

\* Where all lines with a key agree, the map made from the lines agrees with them.
LEMMA LastWinsIs ==
  ASSUME NEW S, NEW lines \in Seq(S), NEW k
  PROVE  /\ k \in DOMAIN LastWins(lines) <=> \E line \in Range(lines) : line.key = k
         /\ \A v : /\ \E line \in Range(lines) : line.key = k
                   /\ \A line \in Range(lines) : line.key = k => line.value = v
                   => LastWins(lines)[k] = v
<1> DEFINE With == {i \in DOMAIN lines : lines[i].key = k}
           last == CHOOSE i \in DOMAIN lines :
                     lines[i].key = k /\ \A j \in DOMAIN lines : lines[j].key = k => j <= i
<1>1. DOMAIN lines = 1 .. Len(lines) /\ Len(lines) \in Nat
  OBVIOUS
<1>2. DOMAIN LastWins(lines) = {lines[i].key : i \in DOMAIN lines}
  BY DEF LastWins
<1>3. k \in DOMAIN LastWins(lines) <=> \E line \in Range(lines) : line.key = k
  BY <1>2 DEF Range
<1>4. ASSUME \E line \in Range(lines) : line.key = k
      PROVE  last \in DOMAIN lines /\ lines[last].key = k
  <2>1. With # {} /\ With \subseteq Int
    BY <1>1, <1>4 DEF Range
  <2>2. \A i \in With : i <= Len(lines)
    BY <1>1
  <2>3. PICK h \in With : \A j \in With : j <= h
    <3>1. Len(lines) \in Int
      BY <1>1
    <3> HIDE DEF With
    <3>2. Max(With) \in With /\ \A j \in With : j <= Max(With)
      BY <2>1, <2>2, <3>1, MaxOfBounded
    <3> QED BY <3>2
  <2> QED BY <2>3
<1>5. ASSUME NEW v, \E line \in Range(lines) : line.key = k,
             \A line \in Range(lines) : line.key = k => line.value = v
      PROVE  LastWins(lines)[k] = v
  <2>1. LastWins(lines)[k] = lines[last].value
    BY <1>2, <1>3, <1>5 DEF LastWins
  <2>2. lines[last] \in Range(lines) /\ lines[last].key = k
    BY <1>4, <1>5 DEF Range
  <2> QED BY <1>5, <2>1, <2>2
<1> QED BY <1>3, <1>5

\* What the n-th replica adds to the lines.
LineOf(n) == IF slaves[n].state = "rdb_transmitted" THEN <<>> ELSE <<slaves[n]>>

WithLineOf(n, lines) == lines \o LineOf(n)

\* The replicas with a line are counted through as the definition says.
LEMMA ListedUpToIs ==
  ASSUME slaves \in Seq(Slaves)
  PROVE  /\ ListedUpTo[0] = <<>>
         /\ \A n \in 1 .. Len(slaves) : ListedUpTo[n] = WithLineOf(n, ListedUpTo[n - 1])
<1> DEFINE Counts(f, m) ==
             /\ f = [n \in 0 .. m |-> f[n]]
             /\ f[0] = <<>>
             /\ \A n \in 1 .. m : f[n] = WithLineOf(n, f[n - 1])
           None == {m \in Nat : ~ \E f : Counts(f, m)}
<1>0. Len(slaves) \in Nat
  OBVIOUS
<1> HIDE DEF Counts
<1>1. None = {}
  <2> SUFFICES ASSUME None # {} PROVE FALSE
    OBVIOUS
  <2>1. PICK m \in None : \A l \in None : m <= l
    <3>1. None \subseteq Nat
      OBVIOUS
    <3> HIDE DEF None
    <3> QED BY <3>1, LeastNat
  <2>2. CASE m = 0
    <3> DEFINE nothing == [n \in 0 .. 0 |-> <<>>]
    <3>1. nothing = [n \in 0 .. 0 |-> nothing[n]] /\ nothing[0] = <<>> /\ 1 .. 0 = {}
      OBVIOUS
    <3> HIDE DEF nothing
    <3>2. Counts(nothing, 0)
      BY <3>1 DEF Counts
    <3> QED BY <2>1, <2>2, <3>2
  <2>3. CASE m # 0
    <3>1. m \in Nat /\ m - 1 \in Nat
      BY <2>3
    <3>2. m - 1 \notin None
      BY <2>1, <3>1
    <3>3. PICK f : Counts(f, m - 1)
      BY <3>1, <3>2
    <3> DEFINE g == [n \in 0 .. m |-> IF n = m THEN WithLineOf(m, f[m - 1]) ELSE f[n]]
    <3>4. g = [n \in 0 .. m |-> g[n]] /\ g[0] = <<>>
      BY <2>3, <3>1, <3>3 DEF Counts
    <3>5. ASSUME NEW n \in 1 .. m PROVE g[n] = WithLineOf(n, g[n - 1])
      <4>1. g[n - 1] = f[n - 1]
        BY <3>1
      <4>2. n # m => g[n] = f[n] /\ n \in 1 .. m - 1
        BY <3>1
      <4>3. CASE n = m
        BY <3>1, <4>1, <4>3
      <4>4. CASE n # m
        BY <3>3, <4>1, <4>2, <4>4 DEF Counts
      <4> QED BY <4>3, <4>4
    <3> HIDE DEF g
    <3>6. Counts(g, m)
      BY <3>4, <3>5 DEF Counts
    <3> QED BY <2>1, <3>6
  <2> QED BY <2>2, <2>3
<1>2. PICK f : Counts(f, Len(slaves))
  BY <1>0, <1>1
<1>3. f = [n \in 0 .. Len(slaves) |-> IF n = 0 THEN <<>> ELSE WithLineOf(n, f[n - 1])]
  BY <1>0, <1>2 DEF Counts
<1>4. ListedUpTo = [n \in 0 .. Len(slaves) |->
                      IF n = 0 THEN <<>> ELSE WithLineOf(n, ListedUpTo[n - 1])]
  BY <1>3 DEF ListedUpTo, WithLineOf, LineOf
<1> DEFINE h == ListedUpTo
<1>5. h = [n \in 0 .. Len(slaves) |-> IF n = 0 THEN <<>> ELSE WithLineOf(n, h[n - 1])]
  BY <1>4
<1> HIDE DEF h
<1>6. h[0] = <<>> /\ \A n \in 1 .. Len(slaves) : h[n] = WithLineOf(n, h[n - 1])
  BY <1>0, <1>5
<1> QED BY <1>6 DEF h

\* The lines are those of the replicas whose dump is not just transmitted, and no
\* more than there are replicas.
LEMMA ListedIs ==
  ASSUME slaves \in Seq(Slaves)
  PROVE  /\ Listed \in Seq(Slaves) /\ Len(Listed) <= Len(slaves)
         /\ Range(Listed) \subseteq Range(slaves)
<1> DEFINE Fine(n) == /\ ListedUpTo[n] \in Seq(Slaves) /\ Len(ListedUpTo[n]) <= n
                      /\ Range(ListedUpTo[n]) \subseteq Range(slaves)
           Odd == {n \in 0 .. Len(slaves) : ~Fine(n)}
<1>0. Len(slaves) \in Nat /\ DOMAIN slaves = 1 .. Len(slaves)
  OBVIOUS
<1>1. Odd = {}
  <2> SUFFICES ASSUME Odd # {} PROVE FALSE
    OBVIOUS
  <2>1. PICK n \in Odd : \A m \in Odd : n <= m
    <3>1. Odd \subseteq Nat
      BY <1>0
    <3> HIDE DEF Odd
    <3> QED BY <3>1, LeastNat
  <2>2. CASE n = 0
    <3>1. <<>> \in Seq(Slaves) /\ Len(<<>>) = 0 /\ Range(<<>>) = {}
      BY DEF Range
    <3> QED BY <2>1, <2>2, <3>1, ListedUpToIs
  <2>3. CASE n # 0
    <3>1. n \in 1 .. Len(slaves) /\ n - 1 \in 0 .. Len(slaves) /\ n \in Nat /\ n - 1 < n
      BY <1>0, <2>1, <2>3
    <3>2. Fine(n - 1)
      BY <2>1, <3>1
    <3>3. /\ LineOf(n) \in Seq(Slaves) /\ Len(LineOf(n)) <= 1 /\ Len(LineOf(n)) \in Nat
          /\ Range(LineOf(n)) \subseteq Range(slaves)
      <4>1. slaves[n] \in Slaves /\ slaves[n] \in Range(slaves)
        BY <1>0, <3>1 DEF Range
      <4>2. CASE LineOf(n) = <<>>
        BY <4>2 DEF Range
      <4>3. CASE LineOf(n) = <<slaves[n]>>
        <5>1. /\ <<slaves[n]>> \in Seq(Slaves) /\ Len(<<slaves[n]>>) = 1
              /\ Range(<<slaves[n]>>) = {slaves[n]}
          BY <4>1 DEF Range
        <5> QED BY <4>1, <4>3, <5>1
      <4> QED BY <4>2, <4>3 DEF LineOf
    <3>4. ListedUpTo[n] = ListedUpTo[n - 1] \o LineOf(n)
      BY <3>1, ListedUpToIs DEF WithLineOf
    <3>5. /\ ListedUpTo[n] \in Seq(Slaves)
          /\ Range(ListedUpTo[n]) = Range(ListedUpTo[n - 1]) \union Range(LineOf(n))
      BY <3>2, <3>3, <3>4, RangeOfConcat
    <3>6. Len(ListedUpTo[n]) <= n
      <4>1. Len(ListedUpTo[n]) = Len(ListedUpTo[n - 1]) + Len(LineOf(n))
        BY <3>2, <3>3, <3>4
      <4>2. Len(ListedUpTo[n - 1]) \in Nat
        BY <3>2
      <4> QED BY <3>1, <3>2, <3>3, <4>1, <4>2
    <3> QED BY <2>1, <3>2, <3>3, <3>5, <3>6
  <2> QED BY <2>2, <2>3
<1> QED BY <1>0, <1>1 DEF Listed

\* The lines of INFO as a set.
Raw(slave) == <<Line("state", slave.state), Line("offset", slave.acked)>>
RoleLines == IF role = "none" THEN {} ELSE {Line(<<"role">>, role)}
HeardLines ==
  IF role = "slave"
    THEN {Line(<<"master_last_io_seconds_ago">>, IF linkUp THEN silence ELSE -1)}
    ELSE {}
SlaveLines == {Line(<<"slave", i - 1>>, Raw(Listed[i])) : i \in DOMAIN Listed}
InfoLines ==
  {Heading} \union RoleLines \union HeardLines \union {Line(<<"connected_slaves">>, Len(slaves))}
  \union SlaveLines \union {Line(<<"master_repl_offset">>, offset)}

\* No line and one line as sequences.
LEMMA OneLine ==
  ASSUME NEW S
  PROVE  /\ <<>> \in Seq(S) /\ Range(<<>>) = {}
         /\ \A x \in S : <<x>> \in Seq(S) /\ Range(<<x>>) = {x}
BY DEF Range

\* The reply to INFO consists of these lines.
LEMMA InfoHolds ==
  ASSUME slaves \in Seq(Slaves)
  PROVE  Info \in Seq(InfoLines) /\ Range(Info) = InfoLines
<1> DEFINE a == <<Heading>>
           b == IF role = "none" THEN <<>> ELSE <<Line(<<"role">>, role)>>
           c == IF role = "slave"
                  THEN <<Line(<<"master_last_io_seconds_ago">>, IF linkUp THEN silence ELSE -1)>>
                  ELSE <<>>
           d == <<Line(<<"connected_slaves">>, Len(slaves))>>
           e == [i \in DOMAIN Listed |-> Line(<<"slave", i - 1>>, Raw(Listed[i]))]
           g == <<Line(<<"master_repl_offset">>, offset)>>
<1>1. a \in Seq(InfoLines) /\ Range(a) = {Heading}
  BY OneLine DEF InfoLines
<1>2. b \in Seq(InfoLines) /\ Range(b) = RoleLines
  <2>1. CASE role = "none"
    BY <2>1, OneLine DEF RoleLines
  <2>2. CASE role # "none"
    <3>1. Line(<<"role">>, role) \in InfoLines
      BY <2>2 DEF InfoLines, RoleLines
    <3> HIDE DEF Line
    <3> QED BY <2>2, <3>1, OneLine DEF RoleLines
  <2> QED BY <2>1, <2>2
<1>3. c \in Seq(InfoLines) /\ Range(c) = HeardLines
  <2> DEFINE line == Line(<<"master_last_io_seconds_ago">>, IF linkUp THEN silence ELSE -1)
  <2>1. CASE role = "slave"
    <3>1. line \in InfoLines /\ HeardLines = {line}
      BY <2>1 DEF InfoLines, HeardLines
    <3>2. c = <<line>>
      BY <2>1
    <3> HIDE DEF line
    <3> QED BY <3>1, <3>2, OneLine
  <2>2. CASE role # "slave"
    BY <2>2, OneLine DEF HeardLines
  <2> QED BY <2>1, <2>2
<1>4. d \in Seq(InfoLines) /\ Range(d) = {Line(<<"connected_slaves">>, Len(slaves))}
  BY OneLine DEF InfoLines
<1>5. e \in Seq(InfoLines) /\ Range(e) = SlaveLines
  <2>1. DOMAIN Listed = 1 .. Len(Listed) /\ Len(Listed) \in Nat
    BY ListedIs
  <2>2. \A i \in DOMAIN Listed : e[i] \in InfoLines
    BY DEF InfoLines, SlaveLines
  <2>3. e \in Seq(InfoLines)
    BY <2>1, <2>2
  <2>4. Range(e) = SlaveLines
    BY DEF Range, SlaveLines
  <2> QED BY <2>3, <2>4
<1>6. g \in Seq(InfoLines) /\ Range(g) = {Line(<<"master_repl_offset">>, offset)}
  BY OneLine DEF InfoLines
<1>7. Info = a \o b \o c \o d \o e \o g
  BY DEF Info, Raw
<1> HIDE DEF a, b, c, d, e, g
<1>0. \A s, t \in Seq(InfoLines) :
        s \o t \in Seq(InfoLines) /\ Range(s \o t) = Range(s) \union Range(t)
  BY RangeOfConcat
<1>8. /\ a \o b \in Seq(InfoLines) /\ Range(a \o b) = Range(a) \union Range(b)
  BY <1>0, <1>1, <1>2, Zenon
<1>9. /\ a \o b \o c \in Seq(InfoLines)
      /\ Range(a \o b \o c) = Range(a \o b) \union Range(c)
  BY <1>0, <1>3, <1>8, Zenon
<1>10. /\ a \o b \o c \o d \in Seq(InfoLines)
       /\ Range(a \o b \o c \o d) = Range(a \o b \o c) \union Range(d)
  BY <1>0, <1>4, <1>9, Zenon
<1>11. /\ a \o b \o c \o d \o e \in Seq(InfoLines)
       /\ Range(a \o b \o c \o d \o e) = Range(a \o b \o c \o d) \union Range(e)
  BY <1>0, <1>5, <1>10, Zenon
<1>12. /\ Info \in Seq(InfoLines)
       /\ Range(Info) = Range(a \o b \o c \o d \o e) \union Range(g)
  BY <1>0, <1>6, <1>7, <1>11, Zenon
<1> QED BY <1>1, <1>2, <1>3, <1>4, <1>5, <1>6, <1>8, <1>9, <1>10, <1>11, <1>12
        DEF InfoLines

Fields == parseInfoOutput(Info)

\* The map that the agent makes of the reply has a key when a line has it, and the
\* value of the only line with it.
LEMMA Parsed ==
  ASSUME slaves \in Seq(Slaves), NEW k, k # <<>>
  PROVE  /\ k \in DOMAIN Fields <=> \E line \in InfoLines : line.key = k
         /\ \A v : /\ Line(k, v) \in InfoLines
                   /\ \A line \in InfoLines : line.key = k => line = Line(k, v)
                   => Fields[k] = v
<1>1. Info \in Seq(InfoLines) /\ Range(Info) = InfoLines
  BY InfoHolds
<1>2. \A lines \in Seq(InfoLines) :
        /\ k \in DOMAIN LastWins(lines) <=> \E line \in Range(lines) : line.key = k
        /\ \A v : /\ \E line \in Range(lines) : line.key = k
                  /\ \A line \in Range(lines) : line.key = k => line.value = v
                  => LastWins(lines)[k] = v
  <2> SUFFICES ASSUME NEW lines \in Seq(InfoLines)
               PROVE  /\ k \in DOMAIN LastWins(lines) <=> \E line \in Range(lines) : line.key = k
                      /\ \A v : /\ \E line \in Range(lines) : line.key = k
                                /\ \A line \in Range(lines) : line.key = k => line.value = v
                                => LastWins(lines)[k] = v
    OBVIOUS
  <2> QED BY LastWinsIs
<1>3. /\ k \in DOMAIN LastWins(Info) <=> \E line \in InfoLines : line.key = k
      /\ \A v : /\ \E line \in InfoLines : line.key = k
                /\ \A line \in InfoLines : line.key = k => line.value = v
                => LastWins(Info)[k] = v
  BY <1>1, <1>2, Zenon
<1>4. /\ DOMAIN Fields = DOMAIN LastWins(Info) \ {<<>>}
      /\ \A key \in DOMAIN Fields : Fields[key] = LastWins(Info)[key]
  BY DEF Fields, parseInfoOutput
<1>5. k \in DOMAIN Fields <=> \E line \in InfoLines : line.key = k
  BY <1>3, <1>4, Zenon
<1>6. ASSUME NEW v, Line(k, v) \in InfoLines,
             \A line \in InfoLines : line.key = k => line = Line(k, v)
      PROVE  Fields[k] = v
  <2>1. Line(k, v).key = k /\ Line(k, v).value = v
    BY DEF Line
  <2>2. \A line \in InfoLines : line.key = k => line.value = v
    BY <1>6, <2>1, Zenon
  <2>3. \E line \in InfoLines : line.key = k
    BY <1>6, <2>1, Zenon
  <2> QED BY <1>3, <1>4, <1>5, <2>2, <2>3, Zenon
<1> QED BY <1>5, <1>6

\* No key is another one.
LEMMA KeysDiffer ==
  /\ <<"role">> # <<>> /\ <<"connected_slaves">> # <<>> /\ <<"master_repl_offset">> # <<>>
  /\ <<"master_last_io_seconds_ago">> # <<>>
  /\ <<"role">> # <<"connected_slaves">> /\ <<"role">> # <<"master_repl_offset">>
  /\ <<"role">> # <<"master_last_io_seconds_ago">>
  /\ <<"connected_slaves">> # <<"master_repl_offset">>
  /\ <<"connected_slaves">> # <<"master_last_io_seconds_ago">>
  /\ <<"master_repl_offset">> # <<"master_last_io_seconds_ago">>
  /\ \A i : /\ <<"slave", i>> # <<>> /\ <<"slave", i>> # <<"role">>
            /\ <<"slave", i>> # <<"connected_slaves">>
            /\ <<"slave", i>> # <<"master_repl_offset">>
            /\ <<"slave", i>> # <<"master_last_io_seconds_ago">>
            /\ \A j : <<"slave", i>> = <<"slave", j>> => i = j
<1>1. \A a, b : <<a>> = <<b>> => a = b
  OBVIOUS
<1>2. \A a, i : <<"slave", i>> # <<a>> /\ <<"slave", i>> # <<>> /\ <<a>> # <<>>
  <2> SUFFICES ASSUME NEW a, NEW i
               PROVE  <<"slave", i>> # <<a>> /\ <<"slave", i>> # <<>> /\ <<a>> # <<>>
    OBVIOUS
  <2>1. Len(<<"slave", i>>) = 2 /\ Len(<<a>>) = 1 /\ Len(<<>>) = 0
    OBVIOUS
  <2> QED BY <2>1
<1>3. \A i, j : <<"slave", i>> = <<"slave", j>> => i = j
  OBVIOUS
<1>4. /\ "role" # "connected_slaves" /\ "role" # "master_repl_offset"
      /\ "role" # "master_last_io_seconds_ago"
      /\ "connected_slaves" # "master_repl_offset"
      /\ "connected_slaves" # "master_last_io_seconds_ago"
      /\ "master_repl_offset" # "master_last_io_seconds_ago"
  OBVIOUS
<1> QED BY <1>1, <1>2, <1>3, <1>4, Zenon

\* What the reply says, field by field.
LEMMA FieldsAre ==
  ASSUME slaves \in Seq(Slaves), role \in Roles
  PROVE  /\ Role(Fields) = (IF role = "none" THEN "" ELSE role)
         /\ parseInt(Fields, <<"connected_slaves">>) = Len(slaves)
         /\ parseInt(Fields, <<"master_repl_offset">>) = offset
         /\ role = "slave" =>
              parseInt(Fields, <<"master_last_io_seconds_ago">>)
              = (IF linkUp THEN silence ELSE -1)
         /\ \A i : <<"slave", i>> \in DOMAIN Fields <=> \E j \in DOMAIN Listed : i = j - 1
         /\ \A j \in DOMAIN Listed : Fields[<<"slave", j - 1>>] = Raw(Listed[j])
<1> DEFINE heard == IF linkUp THEN silence ELSE -1
           roleKey == <<"role">>
           heardKey == <<"master_last_io_seconds_ago">>
           countKey == <<"connected_slaves">>
           offsetKey == <<"master_repl_offset">>
           slaveKey(i) == <<"slave", i>>
<1>0. \A k, v : Line(k, v).key = k
  BY DEF Line
<1>1. \A line : line \in InfoLines <=>
        \/ line = Heading
        \/ role # "none" /\ line = Line(roleKey, role)
        \/ role = "slave" /\ line = Line(heardKey, heard)
        \/ line = Line(countKey, Len(slaves))
        \/ \E j \in DOMAIN Listed : line = Line(slaveKey(j - 1), Raw(Listed[j]))
        \/ line = Line(offsetKey, offset)
  BY DEF InfoLines, RoleLines, HeardLines, SlaveLines
<1>2. Heading.key = <<>>
  BY <1>0 DEF Heading
<1> HIDE DEF heard
<1>3. \A k : k # <<>> =>
        /\ k \in DOMAIN Fields <=> \E line \in InfoLines : line.key = k
        /\ \A v : /\ Line(k, v) \in InfoLines
                  /\ \A line \in InfoLines : line.key = k => line = Line(k, v)
                  => Fields[k] = v
  BY Parsed
<1>k. \A line \in InfoLines :
        \/ line.key = <<>>
        \/ role # "none" /\ line = Line(roleKey, role) /\ line.key = roleKey
        \/ role = "slave" /\ line = Line(heardKey, heard) /\ line.key = heardKey
        \/ line = Line(countKey, Len(slaves)) /\ line.key = countKey
        \/ \E j \in DOMAIN Listed :
             line = Line(slaveKey(j - 1), Raw(Listed[j])) /\ line.key = slaveKey(j - 1)
        \/ line = Line(offsetKey, offset) /\ line.key = offsetKey
  <2> HIDE DEF roleKey, heardKey, countKey, offsetKey, slaveKey, Line
  <2> QED BY <1>0, <1>1, <1>2
<1>d. /\ roleKey # <<>> /\ heardKey # <<>> /\ countKey # <<>> /\ offsetKey # <<>>
      /\ roleKey # heardKey /\ roleKey # countKey /\ roleKey # offsetKey
      /\ heardKey # countKey /\ heardKey # offsetKey /\ countKey # offsetKey
      /\ \A i : /\ slaveKey(i) # <<>> /\ slaveKey(i) # roleKey /\ slaveKey(i) # heardKey
                /\ slaveKey(i) # countKey /\ slaveKey(i) # offsetKey
      /\ \A i, j : slaveKey(i) = slaveKey(j) => i = j
  BY KeysDiffer, Zenon
<1>4. Role(Fields) = (IF role = "none" THEN "" ELSE role)
  <2>1. \A line \in InfoLines : line.key = roleKey =>
          role # "none" /\ line = Line(roleKey, role)
    <3> HIDE DEF roleKey, heardKey, countKey, offsetKey, slaveKey, Line
    <3> QED BY <1>k, <1>d
  <2>2. role # "none" => Line(<<"role">>, role) \in InfoLines
    BY <1>1, Zenon
  <2>3. /\ <<"role">> \in DOMAIN Fields <=> role # "none"
        /\ role # "none" => Fields[<<"role">>] = role
    BY <1>0, <1>3, <2>1, <2>2, KeysDiffer, Zenon
  <2> QED BY <2>3 DEF Role
<1>5. parseInt(Fields, <<"connected_slaves">>) = Len(slaves)
  <2>1. \A line \in InfoLines : line.key = countKey =>
          line = Line(countKey, Len(slaves))
    <3> HIDE DEF roleKey, heardKey, countKey, offsetKey, slaveKey, Line
    <3> QED BY <1>k, <1>d
  <2>2. Line(<<"connected_slaves">>, Len(slaves)) \in InfoLines
    BY <1>1, Zenon
  <2> QED BY <1>0, <1>3, <2>1, <2>2, KeysDiffer, Zenon DEF parseInt
<1>6. parseInt(Fields, <<"master_repl_offset">>) = offset
  <2>1. \A line \in InfoLines : line.key = offsetKey =>
          line = Line(offsetKey, offset)
    <3> HIDE DEF roleKey, heardKey, countKey, offsetKey, slaveKey, Line
    <3> QED BY <1>k, <1>d
  <2>2. Line(<<"master_repl_offset">>, offset) \in InfoLines
    BY <1>1, Zenon
  <2> QED BY <1>0, <1>3, <2>1, <2>2, KeysDiffer, Zenon DEF parseInt
<1>7. ASSUME role = "slave"
      PROVE  parseInt(Fields, <<"master_last_io_seconds_ago">>) = heard
  <2>1. \A line \in InfoLines : line.key = heardKey =>
          line = Line(heardKey, heard)
    <3> HIDE DEF roleKey, heardKey, countKey, offsetKey, slaveKey, Line
    <3> QED BY <1>k, <1>d
  <2>2. Line(<<"master_last_io_seconds_ago">>, heard) \in InfoLines
    BY <1>1, <1>7, Zenon
  <2> QED BY <1>0, <1>3, <2>1, <2>2, KeysDiffer, Zenon DEF parseInt
<1>8. ASSUME NEW i
      PROVE  <<"slave", i>> \in DOMAIN Fields <=> \E j \in DOMAIN Listed : i = j - 1
  <2>1. \A line \in InfoLines : line.key = slaveKey(i) => \E j \in DOMAIN Listed : i = j - 1
    <3> HIDE DEF roleKey, heardKey, countKey, offsetKey, slaveKey, Line
    <3> QED BY <1>k, <1>d
  <2>2. \A j \in DOMAIN Listed : i = j - 1 =>
          /\ Line(<<"slave", j - 1>>, Raw(Listed[j])) \in InfoLines
          /\ Line(<<"slave", j - 1>>, Raw(Listed[j])).key = <<"slave", i>>
    BY <1>0, <1>1, Zenon
  <2> QED BY <1>3, <2>1, <2>2, KeysDiffer, Zenon
<1>9. ASSUME NEW j \in DOMAIN Listed
      PROVE  Fields[<<"slave", j - 1>>] = Raw(Listed[j])
  <2>0. \A l \in DOMAIN Listed : l - 1 = j - 1 => l = j
    BY ListedIs
  <2>1. \A line \in InfoLines : line.key = slaveKey(j - 1) =>
          line = Line(slaveKey(j - 1), Raw(Listed[j]))
    <3> HIDE DEF roleKey, heardKey, countKey, offsetKey, slaveKey, Line
    <3> QED BY <1>k, <1>d, <2>0
  <2>2. Line(<<"slave", j - 1>>, Raw(Listed[j])) \in InfoLines
    BY <1>1, Zenon
  <2> QED BY <1>3, <2>1, <2>2, KeysDiffer, Zenon
<1> QED BY <1>4, <1>5, <1>6, <1>7, <1>8, <1>9 DEF heard

\* An online replica's line: its offset is what it acknowledged.
LEMMA LineSays ==
  ASSUME NEW slave
  PROVE  parseInt(parseSlaveLine(Raw(slave)), "offset") = slave.acked
<1> DEFINE lines == {Line("state", slave.state), Line("offset", slave.acked)}
<1>1. Raw(slave) \in Seq(lines) /\ Range(Raw(slave)) = lines
  <2> DEFINE one == Line("state", slave.state)
             two == Line("offset", slave.acked)
  <2>1. Raw(slave) = <<one, two>> /\ lines = {one, two}
    BY DEF Raw
  <2> HIDE DEF one, two, lines
  <2>2. \A a, b : <<a, b>> \in Seq({a, b}) /\ Range(<<a, b>>) = {a, b}
    <3> SUFFICES ASSUME NEW a, NEW b
                 PROVE  <<a, b>> \in Seq({a, b}) /\ Range(<<a, b>>) = {a, b}
      OBVIOUS
    <3>1. DOMAIN <<a, b>> = 1 .. 2 /\ <<a, b>>[1] = a /\ <<a, b>>[2] = b
      OBVIOUS
    <3>2. Range(<<a, b>>) = {<<a, b>>[i] : i \in 1 .. 2}
      BY <3>1, Zenon DEF Range
    <3>3. {<<a, b>>[i] : i \in 1 .. 2} = {a, b}
      BY <3>1
    <3> QED BY <3>2, <3>3
  <2>3. <<one, two>> \in Seq({one, two}) /\ Range(<<one, two>>) = {one, two}
    BY <2>2
  <2> QED BY <2>1, <2>3
<1>2. \A s \in Seq(lines) :
        /\ "offset" \in DOMAIN LastWins(s) <=> \E line \in Range(s) : line.key = "offset"
        /\ \A v : /\ \E line \in Range(s) : line.key = "offset"
                  /\ \A line \in Range(s) : line.key = "offset" => line.value = v
                  => LastWins(s)["offset"] = v
  <2> HIDE DEF lines
  <2> QED BY LastWinsIs
<1>3. /\ \E line \in lines : line.key = "offset"
      /\ \A line \in lines : line.key = "offset" => line.value = slave.acked
  BY DEF Line
<1>4. LastWins(Raw(slave))["offset"] = slave.acked /\ "offset" \in DOMAIN LastWins(Raw(slave))
  BY <1>1, <1>2, <1>3, Zenon
<1> QED BY <1>4 DEF parseInt, parseSlaveLine

Lags == {0} \union {offset - slave.acked : slave \in ListedNow}

\* A master's lag is the greatest distance of an acknowledgement, if not zero.
LEMMA LagIs ==
  ASSUME slaves \in Seq(Slaves), role \in Roles, offset \in 0 .. MaxOffset
  PROVE  /\ MaxLag(Fields) = Max(Lags)
         /\ Max(Lags) \in Lags /\ \A lag \in Lags : lag <= Max(Lags)
         /\ Max(Lags) \in 0 .. MaxOffset
         /\ ListedNow \subseteq Range(slaves) /\ ListedNow \subseteq Slaves
<1>1. /\ Len(slaves) \in Nat /\ Len(Listed) \in Nat /\ Len(Listed) <= Len(slaves)
      /\ DOMAIN Listed = 1 .. Len(Listed) /\ Range(Listed) \subseteq Range(slaves)
      /\ Range(slaves) \subseteq Slaves
  BY ListedIs DEF Range
<1>2. ListedNow = Range(Listed)
  BY DEF ListedNow, Range
<1>3. Reported(Fields) = {Raw(slave) : slave \in ListedNow}
  <2> DEFINE said == {i \in SlaveIndices(Fields) : <<"slave", i>> \in DOMAIN Fields}
  <2>1. SlaveIndices(Fields) = 0 .. Len(slaves) - 1
    BY FieldsAre DEF SlaveIndices
  <2>2. \A i : i \in said <=> \E j \in DOMAIN Listed : i = j - 1
    <3>1. \A i : <<"slave", i>> \in DOMAIN Fields <=> \E j \in DOMAIN Listed : i = j - 1
      BY FieldsAre, Zenon
    <3>2. \A j \in DOMAIN Listed : j - 1 \in 0 .. Len(slaves) - 1
      BY <1>1
    <3> QED BY <2>1, <3>1, <3>2, Zenon
  <2>3. \A j \in DOMAIN Listed : Fields[<<"slave", j - 1>>] = Raw(Listed[j])
    BY FieldsAre, Zenon
  <2>4. Reported(Fields) = {Fields[<<"slave", i>>] : i \in said}
    BY Zenon DEF Reported
  <2> HIDE DEF said
  <2>5. {Fields[<<"slave", i>>] : i \in said} = {Raw(Listed[j]) : j \in DOMAIN Listed}
    <3> DEFINE at(i) == Fields[<<"slave", i>>]
    <3>1. \A j \in DOMAIN Listed : at(j - 1) = Raw(Listed[j])
      BY <2>3
    <3> HIDE DEF at, Raw
    <3>2. {at(i) : i \in said} = {Raw(Listed[j]) : j \in DOMAIN Listed}
      BY <2>2, <3>1
    <3> QED BY <3>2 DEF at
  <2>6. {Raw(slave) : slave \in ListedNow} = {Raw(Listed[j]) : j \in DOMAIN Listed}
    BY DEF ListedNow
  <2> QED BY <2>4, <2>5, <2>6
<1>4. MaxLag(Fields) = Max(Lags)
  <2>1. parseInt(Fields, <<"master_repl_offset">>) = offset
    BY FieldsAre
  <2>2. \A slave : parseInt(parseSlaveLine(Raw(slave)), "offset") = slave.acked
    BY LineSays
  <2>3. {parseInt(Fields, <<"master_repl_offset">>) - parseInt(parseSlaveLine(raw), "offset") :
           raw \in Reported(Fields)}
        = {offset - slave.acked : slave \in ListedNow}
    <3> HIDE DEF Raw
    <3> QED BY <1>3, <2>1, <2>2, Zenon
  <2> QED BY <2>3 DEF MaxLag, Lags
<1>5. \A slave \in ListedNow : slave \in Slaves /\ slave.acked \in 0 .. MaxOffset
  BY <1>1, <1>2 DEF Slaves
<1>6. offset \in Int /\ MaxOffset \in Int
  BY ReplicationAssumption
<1>7. Lags \subseteq Int /\ 0 \in Lags /\ \A lag \in Lags : lag <= offset
  BY <1>5, <1>6 DEF Lags
<1>8. Max(Lags) \in Lags /\ \A lag \in Lags : lag <= Max(Lags)
  <2> HIDE DEF Lags
  <2> QED BY <1>6, <1>7, MaxOfBounded
<1>9. Max(Lags) \in 0 .. MaxOffset
  <2>1. Max(Lags) \in Int /\ 0 <= Max(Lags) /\ Max(Lags) <= offset
    BY <1>7, <1>8
  <2> QED BY <1>6, <2>1
<1> QED BY <1>1, <1>2, <1>4, <1>5, <1>8, <1>9

\* The four fields of a snapshot.
LEMMA SnapshotIs ==
  ASSUME slaves \in Seq(Slaves), role \in Roles, offset \in 0 .. MaxOffset
  PROVE  /\ Snapshot = [Role |-> Snapshot.Role,
                        ConnectedSlaves |-> Snapshot.ConnectedSlaves,
                        ReplicationLagBytes |-> Snapshot.ReplicationLagBytes,
                        ReplicationLagSeconds |-> Snapshot.ReplicationLagSeconds]
         /\ Snapshot.Role = (IF role = "none" THEN "" ELSE role)
         /\ Snapshot.ConnectedSlaves = Len(slaves)
         /\ Snapshot.ReplicationLagBytes = (IF role = "master" THEN Max(Lags) ELSE 0)
         /\ Snapshot.ReplicationLagSeconds
            = (IF role = "slave" THEN (IF linkUp THEN silence ELSE -1) ELSE 0)
<1> DEFINE lag == buildReplicationLag(Fields)
           heard == IF linkUp THEN silence ELSE -1
<1>1. Snapshot = [Role |-> Role(Fields),
                  ConnectedSlaves |-> parseInt(Fields, <<"connected_slaves">>),
                  ReplicationLagBytes |-> lag.bytes,
                  ReplicationLagSeconds |-> lag.seconds]
  BY DEF Snapshot, buildMetrics, Fields
<1>2. /\ Role(Fields) = (IF role = "none" THEN "" ELSE role)
      /\ parseInt(Fields, <<"connected_slaves">>) = Len(slaves)
      /\ role = "slave" => parseInt(Fields, <<"master_last_io_seconds_ago">>) = heard
  BY FieldsAre
<1>3. MaxLag(Fields) = Max(Lags)
  BY LagIs
<1>4. role = "master" => lag = [bytes |-> Max(Lags), seconds |-> 0]
  <2> SUFFICES ASSUME role = "master" PROVE lag = [bytes |-> Max(Lags), seconds |-> 0]
    OBVIOUS
  <2>1. Role(Fields) = "master"
    BY <1>2
  <2> QED BY <1>3, <2>1 DEF buildReplicationLag
<1>5. role = "slave" => lag = [bytes |-> 0, seconds |-> heard]
  <2> SUFFICES ASSUME role = "slave" PROVE lag = [bytes |-> 0, seconds |-> heard]
    OBVIOUS
  <2>1. Role(Fields) = "slave"
    BY <1>2
  <2> QED BY <1>2, <2>1 DEF buildReplicationLag
<1>6. role = "none" => lag = [bytes |-> 0, seconds |-> 0]
  <2> SUFFICES ASSUME role = "none" PROVE lag = [bytes |-> 0, seconds |-> 0]
    OBVIOUS
  <2>1. Role(Fields) = ""
    BY <1>2
  <2> QED BY <2>1 DEF buildReplicationLag
<1>7. role = "master" \/ role = "slave" \/ role = "none"
  BY DEF Roles
<1> HIDE DEF lag, heard
<1>8. /\ lag.bytes = (IF role = "master" THEN Max(Lags) ELSE 0)
      /\ lag.seconds = (IF role = "slave" THEN heard ELSE 0)
  BY <1>4, <1>5, <1>6, <1>7
<1> QED BY <1>1, <1>2, <1>8 DEF heard

\* What a replica has acknowledged it has, and it has no more than was written;
\* before it is online it has acknowledged nothing.
Follows(slave) ==
  /\ slave.acked <= slave.applied /\ slave.applied <= offset
  /\ slave.state # "online" => slave.acked = 0

ReplInv ==
  /\ role \in Roles /\ offset \in 0 .. MaxOffset
  /\ slaves \in Seq(Slaves) /\ Len(slaves) <= MaxReplicas
  /\ linkUp \in BOOLEAN /\ silence \in 0 .. MaxSilence
  /\ \A slave \in Range(slaves) : Follows(slave)

\* Replacing one replica by another that follows, nothing else changing.
LEMMA UpdateFollows ==
  ASSUME ReplInv, NEW i \in DOMAIN slaves, NEW slave \in Slaves, Follows(slave),
         Update(i, slave)
  PROVE  ReplInv'
<1>1. slaves' \in Seq(Slaves) /\ Len(slaves') = Len(slaves)
  BY DEF ReplInv, Update
<1>2. \A s \in Range(slaves') : s = slave \/ s \in Range(slaves)
  BY DEF Range, ReplInv, Update
<1>3. UNCHANGED <<role, offset, linkUp, silence>>
  BY DEF Update
<1>4. \A s : Follows(s) => Follows(s)'
  BY <1>3 DEF Follows
<1>5. \A s \in Range(slaves') : Follows(s)
  BY <1>2 DEF ReplInv
<1>6. Range(slaves)' = Range(slaves')
  BY DEF Range
<1>7. \A s \in Range(slaves)' : Follows(s)'
  BY <1>4, <1>5, <1>6, Zenon
<1> QED BY <1>1, <1>3, <1>7 DEF ReplInv

\* The replicas that are left when one goes.
LEMMA Remaining ==
  ASSUME slaves \in Seq(Slaves), NEW i \in DOMAIN slaves
  PROVE  /\ RemoveAt(slaves, i) \in Seq(Slaves)
         /\ Len(RemoveAt(slaves, i)) <= Len(slaves)
         /\ Range(RemoveAt(slaves, i)) \subseteq Range(slaves)
<1> DEFINE front == SubSeq(slaves, 1, i - 1)
           back == SubSeq(slaves, i + 1, Len(slaves))
<1>1. Len(slaves) \in Nat /\ i \in 1 .. Len(slaves) /\ DOMAIN slaves = 1 .. Len(slaves)
  OBVIOUS
<1>2. /\ front \in Seq(Slaves) /\ Len(front) = i - 1
      /\ \A j \in 1 .. Len(front) : front[j] = slaves[j]
  BY <1>1
<1>3. /\ back \in Seq(Slaves) /\ Len(back) = Len(slaves) - i
      /\ \A j \in 1 .. Len(back) : back[j] = slaves[i + j]
  BY <1>1
<1>4. RemoveAt(slaves, i) = front \o back
  BY DEF RemoveAt
<1> HIDE DEF front, back
<1>5. Range(front) \subseteq Range(slaves)
  BY <1>1, <1>2 DEF Range
<1>6. Range(back) \subseteq Range(slaves)
  <2> SUFFICES ASSUME NEW j \in 1 .. Len(back) PROVE back[j] \in Range(slaves)
    BY <1>3 DEF Range
  <2>1. i + j \in DOMAIN slaves /\ back[j] = slaves[i + j]
    BY <1>1, <1>3
  <2> QED BY <2>1 DEF Range
<1>7. front \o back \in Seq(Slaves) /\ Range(front \o back) = Range(front) \union Range(back)
  BY <1>2, <1>3, RangeOfConcat
<1>8. Len(front \o back) = Len(slaves) - 1
  <2>1. Len(front \o back) = Len(front) + Len(back)
    <3>1. \A s, t \in Seq(Slaves) : Len(s \o t) = Len(s) + Len(t)
      OBVIOUS
    <3> QED BY <1>2, <1>3, <3>1, Zenon
  <2>2. Len(front) = i - 1 /\ Len(back) = Len(slaves) - i
    BY <1>2, <1>3
  <2> HIDE DEF front, back
  <2> QED BY <1>1, <2>1, <2>2
<1> QED BY <1>1, <1>4, <1>5, <1>6, <1>7, <1>8

LEMMA ReplInit_Inv == ReplInit => ReplInv
<1> SUFFICES ASSUME ReplInit PROVE ReplInv
  OBVIOUS
<1>1. Range(slaves) = {} /\ slaves \in Seq(Slaves) /\ Len(slaves) = 0
  BY DEF ReplInit, Range
<1>2. \A slave \in Range(slaves) : Follows(slave)
  BY <1>1, Zenon
<1>3. role \in Roles /\ offset = 0 /\ silence = 0
  BY DEF ReplInit
<1>4. linkUp \in BOOLEAN
  BY Zenon DEF ReplInit
<1> QED BY <1>1, <1>2, <1>3, <1>4, ReplicationAssumption DEF ReplInv

LEMMA ReplNext_Inv == ReplInv /\ [ReplNext]_replVars => ReplInv'
<1> SUFFICES ASSUME ReplInv, [ReplNext]_replVars PROVE ReplInv'
  OBVIOUS
<1> USE ReplicationAssumption
<1>0. \A i \in DOMAIN slaves :
        /\ slaves[i] \in Slaves /\ Follows(slaves[i])
        /\ slaves[i] = [state |-> slaves[i].state, applied |-> slaves[i].applied,
                        acked |-> slaves[i].acked]
        /\ slaves[i].applied \in 0 .. MaxOffset /\ slaves[i].acked \in 0 .. MaxOffset
        /\ slaves[i].state \in States
  <2> SUFFICES ASSUME NEW i \in DOMAIN slaves
               PROVE  /\ slaves[i] \in Slaves /\ Follows(slaves[i])
                      /\ slaves[i] = [state |-> slaves[i].state, applied |-> slaves[i].applied,
                                      acked |-> slaves[i].acked]
                      /\ slaves[i].applied \in 0 .. MaxOffset /\ slaves[i].acked \in 0 .. MaxOffset
                      /\ slaves[i].state \in States
    OBVIOUS
  <2>1. slaves[i] \in Slaves
    BY DEF ReplInv
  <2>2. Follows(slaves[i])
    BY DEF ReplInv, Range
  <2>3. \A s \in Slaves : /\ s = [state |-> s.state, applied |-> s.applied, acked |-> s.acked]
                          /\ s.applied \in 0 .. MaxOffset /\ s.acked \in 0 .. MaxOffset
                          /\ s.state \in States
    BY DEF Slaves
  <2> QED BY <2>1, <2>2, <2>3, Zenon
<1>1. CASE Attach
  <2> DEFINE new == [state |-> "wait_bgsave", applied |-> 0, acked |-> 0]
  <2>1. new \in Slaves /\ Follows(new)
    BY DEF Slaves, States, Follows, ReplInv
  <2>2. slaves' = Append(slaves, new) /\ Len(slaves) < MaxReplicas
    BY <1>1 DEF Attach
  <2> HIDE DEF new
  <2>3. slaves' \in Seq(Slaves) /\ Len(slaves') <= MaxReplicas
    BY <2>1, <2>2 DEF ReplInv
  <2>4. \A s \in Range(slaves') : s = new \/ s \in Range(slaves)
    BY <2>2 DEF ReplInv, Range
  <2>5. UNCHANGED <<role, offset, linkUp, silence>>
    BY <1>1 DEF Attach
  <2>6. \A s \in Range(slaves)' : Follows(s)'
    BY <2>1, <2>4, <2>5 DEF ReplInv, Follows, Range
  <2> QED BY <2>3, <2>5, <2>6 DEF ReplInv
<1>2. CASE Detach
  <2>1. PICK i \in DOMAIN slaves : slaves' = RemoveAt(slaves, i)
    BY <1>2 DEF Detach
  <2>2. UNCHANGED <<role, offset, linkUp, silence>>
    BY <1>2 DEF Detach
  <2>3. /\ slaves' \in Seq(Slaves) /\ Len(slaves') <= Len(slaves)
        /\ Range(slaves') \subseteq Range(slaves)
    BY <2>1, Remaining DEF ReplInv
  <2>4. Range(slaves)' = Range(slaves')
    BY DEF Range
  <2>5. \A s \in Range(slaves)' : Follows(s)'
    BY <2>2, <2>3, <2>4 DEF ReplInv, Follows
  <2>6. Len(slaves') <= MaxReplicas
    BY <2>3 DEF ReplInv
  <2> QED BY <2>2, <2>3, <2>5, <2>6 DEF ReplInv
<1>3. ASSUME NEW i \in DOMAIN slaves, Transmitted(i) PROVE ReplInv'
  <2> DEFINE new == [slaves[i] EXCEPT !.state = "rdb_transmitted"]
  <2>1. new \in Slaves /\ Follows(new)
    BY <1>0, <1>3 DEF Slaves, States, Follows, Transmitted
  <2>2. Update(i, new)
    BY <1>3 DEF Transmitted
  <2> HIDE DEF new
  <2> QED BY <2>1, <2>2, UpdateFollows
<1>4. ASSUME NEW i \in DOMAIN slaves, PutOnline(i) PROVE ReplInv'
  <2>1. PICK n \in 0 .. offset :
          Update(i, [state |-> "online", applied |-> n, acked |-> slaves[i].acked])
    BY <1>4 DEF PutOnline
  <2> DEFINE new == [state |-> "online", applied |-> n, acked |-> slaves[i].acked]
  <2>2. slaves[i].acked = 0
    BY <1>0, <1>4 DEF Follows, PutOnline
  <2>3. new = [state |-> "online", applied |-> n, acked |-> 0]
    BY <2>2
  <2>4. new \in Slaves /\ Follows(new)
    <3>1. n \in 0 .. MaxOffset /\ n <= offset
      BY DEF ReplInv
    <3>2. [state |-> "online", applied |-> n, acked |-> 0] \in Slaves
      BY <3>1 DEF Slaves, States
    <3>3. Follows([state |-> "online", applied |-> n, acked |-> 0])
      BY <3>1 DEF Follows
    <3> HIDE DEF new
    <3> QED BY <2>3, <3>2, <3>3
  <2> HIDE DEF new
  <2>5. Update(i, new)
    BY <2>1 DEF new
  <2> QED BY <2>4, <2>5, UpdateFollows
<1>5. ASSUME NEW i \in DOMAIN slaves, Apply(i) PROVE ReplInv'
  <2> DEFINE new == [slaves[i] EXCEPT !.applied = @ + 1]
  <2>1. slaves[i].state = "online" /\ slaves[i].applied < offset
    BY <1>5 DEF Apply
  <2>2. new = [state |-> "online", applied |-> slaves[i].applied + 1, acked |-> slaves[i].acked]
    BY <1>0, <2>1
  <2>3. new \in Slaves /\ Follows(new)
    BY <1>0, <2>1, <2>2 DEF Slaves, States, Follows, ReplInv
  <2>4. Update(i, new)
    BY <1>5 DEF Apply
  <2> HIDE DEF new
  <2> QED BY <2>3, <2>4, UpdateFollows
<1>6. ASSUME NEW i \in DOMAIN slaves, Acknowledge(i) PROVE ReplInv'
  <2> DEFINE new == [slaves[i] EXCEPT !.acked = slaves[i].applied]
  <2>1. slaves[i].state = "online"
    BY <1>6 DEF Acknowledge
  <2>2. new = [state |-> "online", applied |-> slaves[i].applied, acked |-> slaves[i].applied]
    BY <1>0, <2>1
  <2>3. new \in Slaves /\ Follows(new)
    BY <1>0, <2>2 DEF Slaves, States, Follows, ReplInv
  <2>4. Update(i, new)
    BY <1>6 DEF Acknowledge
  <2> HIDE DEF new
  <2> QED BY <2>3, <2>4, UpdateFollows
<1>7. CASE Write
  <2>1. /\ offset' = offset + 1 /\ offset < MaxOffset /\ silence' = 0
        /\ UNCHANGED <<role, slaves, linkUp>>
    BY <1>7 DEF Write
  <2>2. \A i \in DOMAIN slaves : Follows(slaves[i])'
    BY <1>0, <2>1 DEF Follows, ReplInv
  <2>3. \A s \in Range(slaves)' : Follows(s)'
    BY <2>1, <2>2 DEF Range, Follows
  <2> QED BY <2>1, <2>3 DEF ReplInv
<1>8. CASE Failover
  <2>1. /\ role' \in Roles /\ slaves' = <<>> /\ silence' = 0
        /\ UNCHANGED offset
    BY <1>8 DEF Failover, Roles
  <2>0. linkUp' \in BOOLEAN
    BY <1>8, Zenon DEF Failover
  <2>2. Range(slaves)' = {} /\ slaves' \in Seq(Slaves) /\ Len(slaves') = 0
    BY <2>1 DEF Range
  <2>3. \A s \in Range(slaves)' : Follows(s)'
    BY <2>2, Zenon
  <2>4. silence' \in 0 .. MaxSilence /\ Len(slaves') <= MaxReplicas
    BY <2>1, <2>2
  <2>5. offset' \in 0 .. MaxOffset
    BY <2>1 DEF ReplInv
  <2> QED BY <2>0, <2>1, <2>2, <2>3, <2>4, <2>5 DEF ReplInv
<1>9. CASE LinkChanges
  <2>1. linkUp' \in BOOLEAN /\ silence' = 0 /\ UNCHANGED <<role, offset, slaves>>
    BY <1>9 DEF LinkChanges, ReplInv
  <2> QED BY <2>1 DEF ReplInv, Follows, Range
<1>10. CASE Second
  <2>1. silence' \in 0 .. MaxSilence /\ UNCHANGED <<role, offset, slaves, linkUp>>
    BY <1>10 DEF Second, ReplInv
  <2> QED BY <2>1 DEF ReplInv, Follows, Range
<1>11. CASE UNCHANGED replVars
  BY <1>11 DEF replVars, ReplInv, Follows, Range
<1> QED BY <1>1, <1>2, <1>3, <1>4, <1>5, <1>6, <1>7, <1>8, <1>9, <1>10, <1>11 DEF ReplNext

LEMMA ReplAlways == ReplSpec => []ReplInv
BY ReplInit_Inv, ReplNext_Inv, PTL DEF ReplSpec

\* Replicas, offsets and what a snapshot says of them stay within their types: the
\* lag in bytes is between zero and what the master wrote, and zero of a replica;
\* seconds are negative only of a replica that lost its master
\* (collector.go:309-333).
THEOREM ReplicationTyped == ReplSpec => []ReplTypeOK
<1>1. ReplInv => ReplTypeOK
  <2> SUFFICES ASSUME ReplInv PROVE ReplTypeOK
    OBVIOUS
  <2>1. Max(Lags) \in 0 .. MaxOffset
    BY LagIs DEF ReplInv
  <2>2. Len(slaves) \in 0 .. MaxReplicas
    BY ReplicationAssumption DEF ReplInv
  <2>0. /\ Snapshot.Role = (IF role = "none" THEN "" ELSE role)
        /\ Snapshot.ConnectedSlaves = Len(slaves)
        /\ Snapshot.ReplicationLagBytes = (IF role = "master" THEN Max(Lags) ELSE 0)
        /\ Snapshot.ReplicationLagSeconds
           = (IF role = "slave" THEN (IF linkUp THEN silence ELSE -1) ELSE 0)
    BY SnapshotIs DEF ReplInv
  <2>3. /\ Snapshot.Role \in {"master", "slave", ""}
        /\ Snapshot.ConnectedSlaves \in 0 .. MaxReplicas
        /\ Snapshot.ReplicationLagBytes \in 0 .. MaxOffset
        /\ Snapshot.ReplicationLagSeconds \in -1 .. MaxSilence
    <3>1. \/ Snapshot.ReplicationLagSeconds = silence
          \/ Snapshot.ReplicationLagSeconds = -1
          \/ Snapshot.ReplicationLagSeconds = 0
      BY <2>0, Zenon
    <3>2. /\ Snapshot.Role = (IF role = "none" THEN "" ELSE role)
          /\ Snapshot.ConnectedSlaves = Len(slaves)
          /\ Snapshot.ReplicationLagBytes = Max(Lags) \/ Snapshot.ReplicationLagBytes = 0
      BY <2>0, Zenon
    <3>3. role \in Roles /\ silence \in 0 .. MaxSilence
      BY DEF ReplInv
    <3>4. Snapshot.ReplicationLagSeconds \in -1 .. MaxSilence
      BY <3>1, <3>3, ReplicationAssumption
    <3>5. Snapshot.ReplicationLagBytes \in 0 .. MaxOffset
      <4>1. 0 \in 0 .. MaxOffset
        BY ReplicationAssumption
      <4> QED BY <2>1, <3>2, <4>1, Zenon
    <3> QED BY <2>2, <3>2, <3>3, <3>4, <3>5 DEF Roles
  <2>4. Snapshot = [Role |-> Snapshot.Role,
                    ConnectedSlaves |-> Snapshot.ConnectedSlaves,
                    ReplicationLagBytes |-> Snapshot.ReplicationLagBytes,
                    ReplicationLagSeconds |-> Snapshot.ReplicationLagSeconds]
    BY SnapshotIs DEF ReplInv
  <2>5. Snapshot \in [Role : {"master", "slave", ""},
                      ConnectedSlaves : 0 .. MaxReplicas,
                      ReplicationLagBytes : 0 .. MaxOffset,
                      ReplicationLagSeconds : -1 .. MaxSilence]
    BY <2>3, <2>4
  <2>6. Snapshot.ReplicationLagBytes <= offset
    <3>1. \A lag \in Lags : lag <= offset
      <4>1. \A slave \in ListedNow : slave.acked \in Nat
        BY LagIs DEF ReplInv, Slaves
      <4> QED BY <4>1 DEF ReplInv, Lags
    <3>2. Max(Lags) \in Lags
      BY LagIs DEF ReplInv
    <3>3. Max(Lags) <= offset /\ 0 <= offset
      BY <3>1, <3>2 DEF ReplInv
    <3> QED BY <2>0, <3>3, Zenon
  <2>7. /\ role # "master" => Snapshot.ReplicationLagBytes = 0
        /\ role # "slave" => Snapshot.ReplicationLagSeconds = 0
    BY <2>0
  <2>8. ASSUME role = "slave"
        PROVE  IF Snapshot.ReplicationLagSeconds < 0 THEN ~ linkUp
               ELSE linkUp /\ silence = Snapshot.ReplicationLagSeconds
    <3>1. Snapshot.ReplicationLagSeconds = (IF linkUp THEN silence ELSE -1)
      BY <2>0, <2>8, Zenon
    <3> QED BY <3>1 DEF ReplInv
  <2>9. /\ role \in Roles /\ offset \in 0 .. MaxOffset
        /\ slaves \in Seq(Slaves) /\ Len(slaves) <= MaxReplicas
        /\ linkUp \in BOOLEAN /\ silence \in 0 .. MaxSilence
    BY DEF ReplInv
  <2> QED BY <2>5, <2>6, <2>7, <2>8, <2>9 DEF ReplTypeOK
<1> QED BY <1>1, ReplAlways, PTL

\* The lag in bytes (collector.go:303) is that of the listed replica furthest behind
\* by its acknowledgement, and no listed replica is really further behind.
THEOREM NoReplicaIsFurther == ReplSpec => []FurthestBehind
<1>1. ReplInv => FurthestBehind
  <2> SUFFICES ASSUME ReplInv, role = "master"
               PROVE  /\ \A slave \in ListedNow :
                           offset - slave.applied <= Snapshot.ReplicationLagBytes
                      /\ Snapshot.ReplicationLagBytes > 0 =>
                           \E slave \in ListedNow :
                             Snapshot.ReplicationLagBytes = offset - slave.acked
    BY DEF FurthestBehind
  <2>1. Snapshot.ReplicationLagBytes = Max(Lags)
    BY SnapshotIs DEF ReplInv
  <2>2. /\ Max(Lags) \in Lags /\ Max(Lags) \in 0 .. MaxOffset
        /\ \A lag \in Lags : lag <= Max(Lags)
        /\ ListedNow \subseteq Range(slaves) /\ ListedNow \subseteq Slaves
    BY LagIs DEF ReplInv
  <2>3. ASSUME NEW slave \in ListedNow PROVE offset - slave.applied <= Max(Lags)
    <3>1. offset - slave.acked <= Max(Lags)
      BY <2>2 DEF Lags
    <3>2. /\ slave.acked <= slave.applied
          /\ slave.acked \in Int /\ slave.applied \in Int /\ offset \in Int
      BY <2>2 DEF ReplInv, Follows, Slaves
    <3>3. Max(Lags) \in Int
      BY <2>2
    <3> QED BY <3>1, <3>2, <3>3
  <2>4. Max(Lags) > 0 => \E slave \in ListedNow : Max(Lags) = offset - slave.acked
    <3>1. Max(Lags) = 0 \/ \E slave \in ListedNow : Max(Lags) = offset - slave.acked
      BY <2>2 DEF Lags
    <3> QED BY <3>1
  <2> QED BY <2>1, <2>3, <2>4
<1> QED BY <1>1, ReplAlways, PTL
=============================================================================
