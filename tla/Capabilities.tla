---------------------------- MODULE Capabilities ----------------------------
(***************************************************************************)
(* What the agent may ask of Redis: the probe that New runs once, and the  *)
(* Collect calls that rely on what it found (internal/infra/redis/         *)
(* capabilities.go and collector.go).  A step is one command and its       *)
(* reply, because the ACL of the agent's user may change between any two.  *)
(*                                                                         *)
(* A reply is "ok", "noperm" (the error starts with NOPERM) or             *)
(* "transient" (every other error: timeout, network, loading, ...).  What  *)
(* the replies of Collect contain is left out (the slowlog is in Slowlog). *)
(***************************************************************************)
EXTENDS Naturals, Sequences

Optional == {"SLOWLOG", "LATENCY", "CONFIG"}
Commands == Optional \union {"INFO"}

ProbeOrder == <<"INFO", "SLOWLOG", "LATENCY", "CONFIG">>
CollectOrder == <<"INFO", "CONFIG", "SLOWLOG", "LATENCY">>

VARIABLES
  acl,         \* Redis: the commands the agent's user may run
  stage,       \* what the collector is doing
  position,    \* the next command of the probe or of the collect cycle
  caps,        \* Capabilities: the fields that are true
  parts,       \* optional parts of the snapshot being built or built last
  noise,       \* optional commands this cycle logged a warning about -> reply
  asked,       \* history: commands Collect has sent since the start
  unanswered,  \* history: commands whose probe met a transient error
  revoked      \* history: commands the ACL took away since the start

probeVars == <<caps, unanswered>>
cycleVars == <<parts, noise, asked>>
vars == <<acl, stage, position, probeVars, cycleVars, revoked>>

Stages == {"probe", "refused", "idle", "collect"}

\* How Redis, or the network, may answer a command.
Replies(command) == {"transient", IF command \in acl THEN "ok" ELSE "noperm"}

BadIsACLDenied(reply) == FALSE   \* mutant: NOPERM is looked for where it is not
IsACLDenied(reply) == reply = "noperm"

\* Capabilities.Disabled, which every snapshot carries.
BadDisabled == {"SLOWLOG", "LATENCY"} \ caps   \* mutant: CONFIG was added later
Disabled == Optional \ caps

NewProcess ==
  /\ stage' = "probe" /\ position' = 1
  /\ caps' = {} /\ unanswered' = {}
  /\ parts' = {} /\ noise' = {} /\ asked' = {}
  /\ revoked' = {}

Init ==
  /\ acl \in SUBSET Commands
  /\ stage = "probe" /\ position = 1
  /\ caps = {} /\ unanswered = {}
  /\ parts = {} /\ noise = {} /\ asked = {}
  /\ revoked = {}
-----------------------------------------------------------------------------
(* The operator and the service manager.                                   *)

\* ACL SETUSER, at any time.
Grant(command) ==
  /\ command \notin acl
  /\ acl' = acl \union {command}
  /\ UNCHANGED <<stage, position, probeVars, cycleVars, revoked>>

Revoke(command) ==
  /\ command \in acl
  /\ acl' = acl \ {command}
  /\ revoked' = revoked \union {command}
  /\ UNCHANGED <<stage, position, probeVars, cycleVars>>

Restart ==
  /\ stage \in {"refused", "idle"}
  /\ NewProcess
  /\ UNCHANGED acl
-----------------------------------------------------------------------------
(* New: the probe.                                                         *)

Note(command, reply) ==
  unanswered' = IF reply = "transient" THEN unanswered \union {command} ELSE unanswered

\* INFO denied: New fails and main exits.
ProbeInfoDenied ==
  /\ stage = "probe" /\ position = 1
  /\ \E reply \in Replies("INFO") : IsACLDenied(reply)
  /\ stage' = "refused"
  /\ UNCHANGED <<acl, position, probeVars, cycleVars, revoked>>

\* Any other answer, an error included, is taken for a permission.
Permit(command, reply) ==
  caps' = IF IsACLDenied(reply) THEN caps ELSE caps \union {command}

Probe ==
  /\ stage = "probe"
  /\ \E reply \in Replies(ProbeOrder[position]) :
       /\ ~(position = 1 /\ IsACLDenied(reply))
       /\ Permit(ProbeOrder[position], reply)
       /\ Note(ProbeOrder[position], reply)
  /\ position' = (position % 4) + 1
  /\ stage' = IF position = 4 THEN "idle" ELSE "probe"
  /\ UNCHANGED <<acl, cycleVars, revoked>>
-----------------------------------------------------------------------------
(* Collect.                                                                *)

\* INFO: without it there is no snapshot in this cycle.
CollectInfo ==
  /\ stage = "idle"
  /\ \E reply \in Replies("INFO") :
       IF reply = "ok" THEN stage' = "collect" /\ position' = 2
                       ELSE UNCHANGED <<stage, position>>
  /\ parts' = {} /\ noise' = {}
  /\ asked' = asked \union {"INFO"}
  /\ UNCHANGED <<acl, probeVars, revoked>>

\* The snapshot is complete after the last command of the cycle.
NextCommand ==
  /\ stage' = IF position = 4 THEN "idle" ELSE "collect"
  /\ position' = (position % 4) + 1

Ask(command) ==
  /\ asked' = asked \union {command}
  /\ \E reply \in Replies(command) :
       \/ /\ reply = "ok"
          /\ parts' = parts \union {command}
          /\ UNCHANGED noise
       \/ /\ reply # "ok"
          /\ noise' = noise \union {<<command, reply>>}
          /\ UNCHANGED parts

BadCollectOptional ==   \* mutant: the capability is not consulted
  /\ stage = "collect"
  /\ Ask(CollectOrder[position])
  /\ NextCommand
  /\ UNCHANGED <<acl, probeVars, revoked>>

CollectOptional ==
  /\ stage = "collect"
  /\ CollectOrder[position] \in caps
  /\ Ask(CollectOrder[position])
  /\ NextCommand
  /\ UNCHANGED <<acl, probeVars, revoked>>

SkipOptional ==
  /\ stage = "collect"
  /\ CollectOrder[position] \notin caps
  /\ NextCommand
  /\ UNCHANGED <<acl, probeVars, cycleVars, revoked>>

Next ==
  \/ \E command \in Commands : Grant(command) \/ Revoke(command)
  \/ Restart
  \/ ProbeInfoDenied \/ Probe
  \/ CollectInfo \/ CollectOptional \/ SkipOptional

Spec == Init /\ [][Next]_vars
-----------------------------------------------------------------------------
Probed == stage \in {"idle", "collect"}

\* Every variable has its type; between probe and refusal INFO is assumed.
TypeOK ==
  /\ acl \subseteq Commands
  /\ stage \in Stages /\ position \in 1 .. 4
  /\ caps \subseteq Commands /\ (Probed => "INFO" \in caps)
  /\ parts \subseteq caps \intersect Optional
  /\ noise \subseteq Optional \X {"noperm", "transient"}
  /\ asked \subseteq Commands
  /\ unanswered \subseteq Commands /\ revoked \subseteq Commands

\* No gap goes unheard of: each part a finished snapshot lacks is either declared
\* in its disabled_capabilities (domain/metric.go:18) or was warned about in the
\* agent's log in that cycle, and never both; no part it carries is either.  Only
\* the former reaches the backend, to which a part that was warned about looks
\* like one whose reply was empty (collector.go:137, :168).
GapsExplained ==
  [][stage = "collect" /\ stage' = "idle" =>
       LET warned == {c \in Optional : \E reply \in {"noperm", "transient"} :
                                        <<c, reply>> \in noise'}
       IN  /\ parts' \union warned \union Disabled' = Optional
           /\ parts' \intersect warned = {}
           /\ Disabled' \intersect (parts' \union warned) = {}]_vars

\* "Denied commands are silently skipped for the lifetime of the process":
\* what the agent declares disabled it never asks for, whatever the ACL becomes.
DisabledStaysQuiet == Probed => asked \intersect Disabled = {}

\* A cycle complains of a missing permission only about a command whose probe
\* was not answered or whose permission was taken away since the start.  The
\* documentation knows neither cause ("no error noise", README.md:68); it is
\* right for every standing denial that Redis reports to the probe.
NoiseExplained ==
  \A c \in Optional : <<c, "noperm">> \in noise => c \in unanswered \union revoked
=============================================================================
