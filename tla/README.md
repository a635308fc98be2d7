# A TLA+ model of the Diagnostack agent

The agent polls a Redis server every few seconds, keeps the snapshots it makes in a ring buffer and
ships them over HTTP to the Ingestion API. This directory holds TLA+ modules that model its behaviour,
the TLC configurations that check them on small instances, and proofs, checked by TLAPS, of what holds
for every value of the constants. `PROJECT.json` lists the components, the runs, the source lines of
every definition, the hazards, the findings and the theorems.

## The system

```
             INFO, CONFIG GET, SLOWLOG GET,                     POST, X-Agent-Key
             LATENCY LATEST
   Redis  <-------------------- collect loop --- ring --- drain loop -------------> Ingestion API
                                  |   |  Enqueue      Dequeue  ^
                                  |   +------- wake (1) -------+
                                  v
                            CollectHealth (log)
```

| component | state | operations | interacts through |
|---|---|---|---|
| ring buffer (`buffer/ring.go`) | slots, head, tail, count, drop counter | New, Enqueue, Dequeue | one mutex |
| collect loop (`cmd/agent/main.go`, `collect_usecase.go`) | ticker, where it is | tick, collect, enqueue, wake, stop | ring, wake channel, context |
| drain loop (`main.go`, `ship_usecase.go`) | snapshot in hand, attempt, drop counter | drain, ship, back off, flush, stop | ring, wake channel, context, 30 s flush context |
| HTTP shipper (`http/shipper.go`) | none | Ship | network, status codes |
| health tracker (`collect_health.go`) | failure count, escalated flag | RecordError, RecordSuccess | the log |
| Redis collector (`redis/collector.go`) | slowlog watermark | New, Collect | Redis, capabilities |
| capability probe (`redis/capabilities.go`) | Capabilities, fixed at start | probe, summary, Disabled | Redis ACL, snapshots, log |
| configuration (`config/*.go`) | File, parsed map, identity file | Load, parseYAML, applyParsed, applyEnvOverrides, validate, resolveAgentID | file system, environment, constructors |
| installation (`scripts/install.sh`) | owner and mode of `/etc/diagnostack` | once | identity file |

What is hard: two goroutines, two contexts and a signal in any order; retries that overlap collection;
eviction while the drain loop works; three ways to drop a payload and two counters; ticks that are
dropped; restarts of Redis and of the agent that are only inferred; probes that fail for another reason
than the one they look for; a file write that may be cut short; replies of the API that are lost after
the snapshot was stored; a map visited in random order; delays computed from settings nobody validates.

What makes each part correct:

* the ring: it is a FIFO queue, loses only the oldest, counts what it loses, keeps no dead reference;
* the two loops: no snapshot waits without a wake-up, none is lost uncounted, none overtakes another,
  the retries are really made, the shutdown ends and leaves at most one snapshot behind;
* health: one hint per outage, and a recovery message for exactly those outages;
* the retries: an outage costs snapshots at a known rate, and shipping resumes soon after it;
* the slowlog: nothing is reported twice, nothing is skipped but what the watermark hides, the API gets the
  commands in order but for requests that arrive after their time, and what it never gets is counted;
* replication: the lag is that of the replica furthest behind, and of the right role;
* the capabilities: every gap in a snapshot is declared in it or warned about in the agent's log;
* the settings: environment before file before default, and no interval, timeout, capacity or number of
  attempts that is zero or negative;
* the identity: it survives restarts; the schedule: a cycle shorter than the interval costs no tick.

## The modules

| module | models |
|---|---|
| `BoundedQueue` | what the buffer promises: a drop-oldest FIFO queue of snapshots, named 1, 2, ... |
| `Ring` | `ring.go` with its slots and positions; implements `BoundedQueue` |
| `CollectHealth` | one collect cycle as an operator sees it in the log |
| `Delivery` | what the agent promises about each snapshot |
| `Agent` | both loops, wake, context, final flush, shipping and retries; implements `Delivery`; its buffer is an instance of `BoundedQueue` |
| `Backoff` | `backoffDelay` and the retries over outages, in time |
| `CollectSchedule` | ticker, deadline and the settings that reach them, in seconds |
| `Slowlog` | window, rollover test, deduplication and watermark; Redis's log is external |
| `SlowlogDelivery` | the slowlog batches in the snapshots of `Delivery`, to the API's store; composes `Slowlog` and `Delivery` |
| `Replication` | the replication fields of a snapshot, from the lines of INFO; Redis is external |
| `Capabilities` | the probe and the commands of a cycle, under a changing ACL |
| `Settings` | `Load`, `parseYAML`, `applyParsed`, the environment, `validate`, the constructors |
| `Identity` | `resolveAgentID`, the identity file, kills, power failures, edits of the configuration |
| `MC*` | the instances TLC checks, with their configurations |
| `RingProofs`, `CollectHealthProofs`, `AgentProofs` | the proofs about `Ring`, `CollectHealth`, `Agent` and its refinement of `Delivery` |
| `BackoffProofs`, `CollectScheduleProofs`, `SlowlogProofs` | those about `Backoff`, `CollectSchedule`, `Slowlog` and `SlowlogDelivery` |
| `CollectorProofs`, `LoaderProofs` | those about `Capabilities` and `Replication`, and about `Settings` and `Identity` |

Two abstract specifications hold the project together. `BoundedQueue` is implemented by `Ring` and is the
buffer of `Agent`. `Delivery` is implemented by `Agent` and is the pipeline of `SlowlogDelivery`, which adds
what the batches of the slowlog, the watermark and the API's store make of it. `CollectHealth`,
`CollectSchedule`, `Replication` and `Capabilities` look at the collect loop from four sides with the rest left
out, and `Backoff` looks at the drain loop's use of time.

A definition whose name starts with `Bad` or `Hasty` is a mutant: the definition after it with a
plausible bug. Substituted for it, the property that `PROJECT.json` pairs it with fails.

### Correspondence with the code

* `Ring`: one step per call, for each runs under `r.mu`. A snapshot is the number of its Enqueue, so that
  order and loss can be told; nil is 0. `enqueued`, `dequeued` and `returned` are history.
* `Agent`: a step is what runs between two points where the other loop, the network, a timer or a signal
  can interfere. `collectPc` and `drainPc` name those points: `select`, before and after the INFO command
  (`poll`, `info`), before the wake (`wake`), before Dequeue, back from an empty Dequeue but not yet at the
  select (`return`, the gap a wake must survive), before a request (`ship`), waiting for the reply
  (`inflight`), in the backoff's select, between two snapshots. `CtxDone` is the context DrainOnce
  was given: the agent's, or the flush's own. `select` with several ready cases chooses any, as in Go.
  A command already sent to Redis is not cut short by the context (go-redis looks at it when it takes a
  connection), so INFO may succeed after the signal; nothing after INFO fails a cycle.
* `CollectHealth`: a step is one `collectTick`; an error is the set of markers that the text searches of
  `emitActionableHint` can find; `log` holds the lines of the last cycle.
* `Slowlog`: commands are named by the order of their execution over all Redis processes; `ID` is the
  number Redis gave them. `restarted` and `masked` are history: whether Redis restarted since the
  watermark was set, and up to which ID an undetected restart hides commands.
* `SlowlogDelivery`: `batch` is the part of a snapshot that `collectSlowlog` made, `copies` how often the API
  stored it. A request (`Send`) is carried out while the agent waits for it (`StoreOpen`) or any time after the
  agent gave it up at the client's timeout (`RequestFails`, `late`, `StoreLate`), even when its snapshot is settled
  and later ones are stored; whether the reply arrives is left open, so a snapshot may be stored and retried, or
  stored and counted as dropped. `seen` and `wiped` are history: the last command the
  last cycle with entries saw, and whether the log was emptied since. A restart of the agent loses the
  pipeline and the watermark together; the requests an earlier process left on the way are not followed.
* `Replication`: a line is a key and a value, keys are sequences (`<<"slave", 0>>`); `Snapshot` is what a
  cycle reports in the state. Replicas attach, synchronise, acknowledge and leave, and INFO has no line for one
  whose dump was transmitted, although `connected_slaves` counts it. `Listed` goes through the replicas one by
  one with a recursive function.
* `Backoff`: the unit of time makes a fifth of each delay whole. `met` holds the states the API has been in since the
  request in flight left: one that met the API down may fail until its timeout, also when the API is back. `stalled` and `lost` are history: the time and
  the snapshots since the drain loop last got rid of one by an answer, or had none. `PlannedUpTo[n]` is the sum of
  the first n planned delays.
* `Settings`: a line is its depth of indentation, its key and the class of its value; a dotted key is a
  sequence, so that a section is prepended by `\o`. `parsed` is visited in any order, up to the first value that
  cannot be read. `Says` is the reference: what the file means as YAML, line by line.
* `Capabilities`: a step is one command and its reply. `caps` are the fields that are true.
* `Identity`: `WriteFile` is two steps (truncate, write), because a kill can come in between; `disk`
  trails `idFile` until the system writes back. `GenerateUnread` is a start that could not read a file that holds an
  identity. `explained` is history: whether the outside has given a reason for another identity. Its names, and those of `Replication`, carry a prefix where
  `Settings` and `Capabilities` have the same one, because one proof module extends both.
* `CollectSchedule`: `Second` is one second; a waiting loop takes a tick before time passes.

Left out everywhere: the text of messages, the values of metrics, HTTP headers and bodies.

## The runs

| run | bounds | shows |
|---|---|---|
| `ring` | 3 slots, 8 snapshots | positions wrap more than twice, full and empty occur at every offset; window, released slots, refinement of the queue |
| `health` | thresholds 1 and 3, 12 cycles | all sequences of failures and successes with three full outages |
| `agent` | buffer 2, 2 attempts, codes 202, 404 and 503, 3 cycles, `FairSpec` | all interleavings: eviction during a retry, a wake coalesced in every state, the signal at every point, the flush cut short; the shutdown ends, buffered snapshots are taken, dequeued ones are settled |
| `backoff` | 4 attempts, base delay -5 or 5, cap 0 or 10, timeout 2, 2 lost, 60 units of time | outages of every length, coming back at every moment of a request or a backoff, with every jitter; requests that fail after the API came back |
| `slowlog` | window 2, log 3, 5 commands; buffer 2, 3 snapshots, 2 attempts | window smaller than the log, so that both overflow; restarts detected and not, RESET, restarts of the agent; eviction, drops, lost replies and late requests of the snapshots with the batches |
| `replication` | 3 replicas, 3 bytes, 2 seconds | lines missing in the middle, renumbered lines, stale acknowledgements, failovers |
| `capabilities` | none (finite) | every ACL, every reply, every change between two commands |
| `settings` | 3 lines of 13 kinds, 2 variables | a heading, what it opens and what follows, duplicates, unreadable values, every order of the map |
| `identity` | writable directory, 6 UUIDs | kills at each step, power failures, full or unreadable disks, pinning |
| `schedule` | intervals to 16 s, timeouts to 14 s, overrun 3 s | both sides of the default ten seconds |

The bounds suffice because what the properties tell apart happens within them: three cycles fill a
buffer of two and evict from it, or leave one in flight at the signal; two attempts make a first, a
last and one backoff; three slots tell first, middle and last apart; two codes of each kind that `Ship`
distinguishes would add no step; four attempts of a delay that doubles once and is capped twice; five commands
overflow a log of three twice and a window of two three times, or fill the window on both sides of a restart of
Redis; three lines make a heading, a nested
value and its repetition. `MaxTicks`, `MaxSnapshots`, `MaxCycles`, `MaxCommands`, `MaxUUIDs`, `MaxLost`, `MaxTime`,
`MaxLines`, `MaxReplicas`, `MaxOffset` and `MaxSilence` bound what grows without limit; the proofs hold for all values of
those in the modules they are about.

`CHECK_DEADLOCK FALSE` is set where a bound on a counter ends the behaviours (`Ring`, `CollectHealth`, `Backoff`,
`SlowlogDelivery`, `Replication`, `Identity`) or the agent runs or has failed (`Settings`). `Agent` ends in
`Terminating`, `Capabilities` and `CollectSchedule` never end.

### What the code does otherwise than it says

Both of these runs check one sentence of the documentation or of a comment and find it violated.

| run | the sentence | what happens |
|---|---|---|
| `schedule_timeout` | collect_timeout keeps a slow Redis from blocking the scheduler (`app/config.go:22`, `config.yaml:34`) | `Load` does not pass it on; ten seconds apply always. The hint "consider increasing collect_timeout" (`collect_health.go:139`) has no effect either |
| `identity_installed` | the identity is persisted (`config.yaml:7`) | not in the directory `install.sh` makes, and the error is ignored |

Other disagreements are visible in the models without a run of their own:

* The shutdown "flushes the remaining buffer" (`main.go:183`), but a cycle in flight may enqueue afterwards; its
  snapshot is neither shipped nor counted. `AtMostOneStranded` says that it is the only one.
* "~50 minutes of outage with no data loss" (`README.md:70`): a snapshot is dropped after `max_attempts`, while
  the buffer has room for the next two hundred. `LossRate` has the rate: one for every four fifths of the planned
  delays, twelve seconds with the defaults, when requests fail at once. With a `max_delay` of zero or less nothing
  is planned, and nothing bounds the rate.
* "MaxDelay caps the backoff" (`app/config.go:42`, and the formula at `ship_usecase.go:69`), but the jitter is
  added afterwards: hence the 6/5 in `TypeOK` and `ResumesPromptly`. `validate` looks at neither delay.
* `validate` does not look at `api.endpoint` either (`loader.go:217`): an agent with a blank one runs, and every request
  fails (`RunsUsably` does not exclude it).
* Calls "do not re-send entries that were already shipped" (`domain/collector.go:12`): true of one process of
  the agent, but the first slow command of a Redis process, ID 0, is not sent unless a detected rollover reports it.
  `KeepsUp` has to leave it out. And a request without an identifier that is carried out late, or retried, stores the
  same snapshot again: `BackendInOrder` says when.
* An identity is persisted "so it survives restarts" (`loader.go:253`), but every error in reading it is taken for a
  missing file (`loader.go:240`), and another one is written over it (`GenerateUnread`).
* "All values can be overridden" by the environment (`README.md:137`, `config.yaml:4`, `loader.go:180`): nine can
  (`Overridable`).
* The parser's YAML is not YAML's: the comment marker counts within quotes, indentation below the first level is
  the section's, and a top-level key without a value leaves the value it had before (`Plain`, `Says`).
* A replica that lost its master reports a lag of -1 seconds, the smallest of all, and one that has not
  acknowledged anything makes its master's lag the whole offset (`ReplTypeOK`, `FurthestBehind`).
* `collectTick` logs every failed cycle at ERROR (`TickLine`), the first two as well, which are to be
  WARN (`collect_health.go:14`, `README.md:76`).
* A restart of Redis that catches up with the watermark goes unnoticed, although "no slow commands are
  silently missed" (`README.md:74`): that is what `masked` in `FetchedIsReported` stands for.
* The watermark is "the highest slowlog entry ID shipped so far" (`collector.go:57`), but `CollectSlowlog`
  moves it when the batch is collected: one dropped later is not sent again. `LossIsCounted` says that it is counted.
* A denied command is noted in the snapshot so that the backend need not show "gaps in the data" (`metric.go:18`), but one
  that failed is not: to the backend its part looks like an empty reply, and only the agent's log knows
  (`GapsExplained`).
* A denied command whose probe timed out fails in every cycle with a warning and is declared in none,
  although denied commands are "silently skipped" (`README.md:68`): `unanswered` in `NoiseExplained`.
* `New` returns a collector when no probe reached Redis, although its comment expects an error
  (`collector.go:63`).
* `capabilityImpact` names one loss when two causes are denied (`capabilities.go:144-161`).

## Fairness

Only `agent` assumes any, for its three liveness properties. A goroutine that can run runs, and Redis commands and requests have
timeouts, so a call in flight ends: weak fairness of the collect cycle's steps and of the drain loop
outside its select. A Go select chooses among its ready cases at random, so a case that is ready again
and again is chosen: strong fairness of `CollectStop`, `SelectWake` and `SelectDone`. Nothing is assumed of
signals, tickers, the flush's thirty seconds or the answers of the API: the shutdown ends in the worst
outage, and buffered snapshots are taken without the safety-net ticker.

## The proofs

Every invariant and action property that a run checks is also a theorem, for every value of the constants.
`PROJECT.json` lists the theorems with the property each one states.

* `RingProofs`: the inductive invariant is `TypeOK`, `LiveWindow`, `DeadSlotsReleased` and `Conservation` with
  `enqueued - count >= 0`. The work is in the arithmetic of positions: a position that moves by less than a turn
  is one conditional subtraction (`Wrap`), distinct offsets are distinct slots (`SlotsDistinct`), and moving
  the tail shifts every offset by one (`Shift`). The refinement maps the ring to `Window(count, enqueued)`, the
  run of the newest snapshots; lemmas say what the two ends of a window are.
  Nothing is assumed of the requested capacity: `New` makes it positive.
* `CollectHealthProofs`: `OneHintPerOutage` is not inductive alone; `FlagMatchesCount` ties the flag to the count
  and both to the hints. Thresholds are positive, as in the only configuration the code uses. `TypeOK` rests on
  the log being a sequence of lines whatever the text of the error holds.
* `AgentProofs`: `NoLostWakeup` is inductive by itself. `AtMostOneStranded` needs `FlushInv`: once the final flush
  has seen the buffer empty (returning or done), the buffer holds at most what a cycle in flight can add. `TypeOK`,
  `NoEarlyGivingUp`, `OrderedSends` and `Accounting` rest on `PipelineInv`: the buffer is a window that ends at the
  newest snapshot, the snapshot in hand is behind its front, and requests, attempts and fates of every snapshot
  agree with where it is. The capacity and `max_attempts` are at least one, which `New` and `validate` ensure.
  `Agent` implements `Delivery`: with `PipelineInv`, `Status` is a function of numbers (`Place`) - what
  is after `collected` is in the future, what is after `Front` waits, and behind it are the snapshot in hand and
  the settled ones. Enqueue, Dequeue and the end of `shipWithRetry` are then the three actions of `Delivery` for
  the newest, the oldest waiting and the current snapshot; every other step leaves all places alone.
* `BackoffProofs`: `LossRate` and `ResumesPromptly` speak of the moments when the loop is done with a snapshot. The
  invariants say the same of the moments in between: of a stall's time, the delays planned for this snapshot are
  accounted for up to what the backoff still has to wait (`LossInv`), and the API has been up no longer than what
  has passed of a request that met it down, the backoff after it and the next request (`PromptInv`). That `left` is at
  most six fifths of the cap is in `TypeOK`. Base delay and cap may be any integers, as
  `validate` looks at neither; that there is an attempt and that a request ends is assumed, as `validate` and
  `http.New` ensure it.
* `CollectScheduleProofs`: the age of a waiting tick counts the intervals since it came (`Ages`), and a cycle that
  fits runs in the time since the tick it took (`InStep`).
* `SlowlogProofs`: `SlowlogInv` says that Redis's log ends with the last command, that the watermark is below
  the last ID unless Redis restarted since it was set, and that what was reported is behind the watermark or
  older than the process. From it follow `RolloverMeansRestart` and that no command is in two batches. `FetchedInv`
  adds that what the window shows and the watermark hides was reported or is masked; the window only moves
  forward (`WindowMoves`). `PipelineInv` carries the order to the
  API's store: snapshots are made in order and so are their batches, every reported command is in one, what was
  requested is not after what is shipped or waits (`ShippedInOrder`), and each copy, late request and open request is
  one of the attempts (`RequestsOK`). A late request is thus of a snapshot that was delivered, with its copy at the API,
  or dropped. `LossIsCounted` follows from it: a command that was reported is in a snapshot that was made. `KeepsUp` needs `KeepingUp`: while nothing emptied the log, the newest commands since the last cycle
  are all in it, and the watermark is not ahead of that cycle. A command that fewer than n others follow is then
  among the newest n, for any window and any length of the log.
* `CollectorProofs`, `Capabilities`: what the agent declares disabled it never asks for (`QuietInv`), and the noise
  has one of two causes: each permitted command was permitted when probed, or its probe went unanswered, or the
  permission was revoked (`NoiseInv`). `GapsExplained` is about finished snapshots; `HandledAreExplained` is the same half-way:
  of the commands a cycle has come to, exactly the permitted ones gave their part or a warning, never both.
* `CollectorProofs`, `Replication`: the invariant is that a replica has what it acknowledged, has no more than was written,
  and acknowledged nothing before it was online (`Follows`); without the last part, `PutOnline`, which starts it
  at the dump's offset, could put it below its acknowledgement. The rest is about the agent: the lines of the reply are a set in which every key occurs once
  (`InfoHolds`, `KeysDiffer`), so the map made of them says what the lines say (`FieldsAre`), and the greatest of the lags of
  the listed replicas is `Max(Lags)` (`LagIs`), for any number of replicas.
* `LoaderProofs`, `Settings`: for `RunsUsably`, what a number is set to could be read (`UsableInv`), so that `validate` and the
  constructors need only look for what is too low. For `Precedence`, `parseYAML` keeps one section and one map, and for a plain
  file they always are what the lines so far say as YAML (`ParsedSays`); from there on the loop over the map replaces the defaults
  one by one (`Layered`). Files and maps may be of any size. That `Plain` is needed is the divergence listed above.
* `LoaderProofs`, `Identity`: while the next start would find the identity the agent ran under, no other is being generated
  (`IdentityKept`); a start that cannot read the file ends that, and is one of the reasons `explained` stands
  for. `IDTypeOK` is inductive with `Resolving`: nobody writes a pinned identity to the file. `IdentityStays` assumes
  `Writable`: where the directory cannot be written, `identity_installed` shows the opposite.

The theorems use no bound beyond the named assumptions of the modules; the bounds on histories are arbitrary naturals.

Proofs by induction over numbers - that a recursive function has a solution, what it returns for every n, which line is the
last one about a key - go through the least element of a set of naturals (`LeastNat`, from `WFMin` and the well-foundedness of
the naturals). Theorems with an operator parameter, and with them folds and `SelectSeq`, are out of reach, which is why the models
the proofs are about use sets, recursive functions and `CHOOSE`.

Model-checked only: the liveness properties `ShutdownCompletes`, `EventuallyTaken` and `EventuallySettled`, since liveness under
fairness is outside TLAPS's reach; their run is `agent`. The two violations are counterexamples and need no proof.

## Not modelled

The INFO fields that are copied one by one, the values of LATENCY and CONFIG GET (whether the commands
succeed is in `Capabilities`), and which of them makes a snapshot that cannot be encoded (its drop is `CannotPrepare`
in `Agent`); UUID generation, which is randomness; the command-line flag and the log handler; the rest of the
installation script, the CI workflow and the Makefile, which are not part of the running agent; the backend
beyond what it stores.

The network is modelled by its outcomes: no reply and a status code in `Agent`, a stored snapshot whose reply
is lost and a request that arrives late in `SlowlogDelivery`. A request of one agent process that arrives in the time of
the next is not followed, nor are the snapshots a process takes with it when it ends: `LossIsCounted` and
`BackendInOrder` speak of one process, `AtMostOneStranded` of its end.

## Plan

Done: `Ring` over `BoundedQueue`; `CollectHealth`; `Agent` over `Delivery`; `Slowlog` and its composition with
`Delivery`; `Capabilities`; `Identity`; `CollectSchedule`; `Backoff`; `Settings`; `Replication`; the proofs of all
their safety properties.

Left, in this order:

1. That the pipeline of `SlowlogDelivery` is a `Delivery` with a history, as a theorem.
2. What the liveness properties rest on as safety: in every state of the shutdown one of the steps that `FairSpec` is fair to is
   possible, stated without ENABLED, and a measure that no such step increases.
3. Shorter proofs where a leaf of today needs five facts.
