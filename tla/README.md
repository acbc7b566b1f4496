# OpenOntology: TLA+ models, model checks and proofs

OpenOntology watches the telemetry of industrial assets. Readings arrive on
Kafka, the *resolution engine* (Go) turns them into a live twin in Redis and
into alarm transitions on `ontology.mutations`, each resolved against an asset
graph that edge sites replicate among themselves, and the *command worker*
(Python) asks a planner for a plan and publishes the plan's commands: its own
stub, the *AI interceptor*, or, for enterprise subscriptions, the *GraphRAG
interceptor*. This directory models the parts of that pipeline in which order,
failure and concurrency matter, checks the models with TLC on small instances,
and proves the central invariants with TLAPS for all instances.

Paths below are relative to the repository root. `engine/` stands for
`services/resolution-engine/`.

## 1. The system

| Component | Code | State | Operations | Hard behaviour | Right when |
|---|---|---|---|---|---|
| Alarm state machine | `engine/state.go`, `model.go` | sharded map channel → entry (state, severity, times, sequence) | `Evaluate`, `Rollback`, `Prune` | deliveries of one channel overlap; a rollback races another evaluation and the janitor | a rollback undoes exactly its own evaluation |
| Ingestion engine | `engine/engine.go`, `main.go` | one message per worker, attempt counter, undo token | fetch, claim, apply, evaluate, mark, emit, compensate, dead-letter, commit | every call can fail, half-succeed or time out; rebalances, crashes, shutdowns | no message vanishes; tracker, Redis and topic agree; partitions drain |
| Idempotency filter | `engine/idempotency_filter.go` | claims in Redis with a TTL | `Admit`, `ReleaseEvent` | lost replies, failed release, claim that outlives its holder | a claim never hides an unprocessed reading |
| Live state cache | `engine/cache.go` | twin and alarm hash in Redis | `Apply` (Lua), `MarkAlarm`, `withRetry` | out-of-order and repeated samples from several workers | the twin misses no committed reading and shows the newest |
| Graph CRDT | `engine/internal/crdt/graph_crdt.go` | Lamport clock, timelines and payload per element | add and remove vertices and edges, join, reconcile, compact | snapshots late, repeated, partial; restarts reuse stamps | same writes, same graph |
| Topology replica | `engine/replica.go`, `replica_http.go` | one CRDT, peers | `Observe`, `RunSync`, state and merge endpoints | pulls race local writes | edge sites that stay connected agree |
| Graph resolution | `engine/graph*.go`, `internal/graph/` | Neo4j driver handle, context cache | connect, redial, resolve, evict | several workers find the driver gone at once | one dial per interval; resolution degrades and never blocks |
| Plan store | `services/ai-interceptor/app/idempotency.py` | plans by event id in Redis | get, put if absent | failed or raced put after a paid inference | one plan per event |
| Quota and licence checks | `app/security.py`, `app/redis_state.py`; GraphRAG: `SlidingWindowQuota` | the hits of the current window per key | admit or refuse | replicas racing on one window, lost replies, key expiry | at most `limit` in any window; a wait is as long as told |
| Planner | `app/llm*.py`, `app/models.py`, `app/main.py` | none | render, infer, validate | the model is an environment | the schema is kept |
| Closure pipeline | `services/command-worker/command_worker.py` | offset, attempts, plan | authorise, validate, route, translate, publish, rewind, commit | partial publish, redelivery, permanent versus transient errors | every event ends in its commands or in a dead letter |
| Rate gate, licence cache, preflight | same file | next start, pace; cached licence; readiness | acquire, cool down, retune; look up; compare licences, release the consumers | a delay computed before a cooldown; readiness decided once; shutdown releases parked consumers | the pace is kept; a strict preflight holds the consumers; it settles |
| GraphRAG interceptor | `services/graphrag-interceptor/` | command cache, quota; each request its verdict and documents | project, analyse, isolate, retrieve, plan, guard, replay | ties and thresholds; erring agents; requests that race past the cache | no irreversible work on a graph nobody can trust; guardrails hold for any agent; one answer per event |
| Operator console | `services/operator-console/` | ring buffers of what it saw | tail topics, join for display | none of its own | read-only |
| Configuration, metrics, ops, tools | `engine/config.go`, `metrics.go`, `ops/`, `tools/` | none | none | none | not a protocol |

Interactions. A worker of the engine takes a message from Kafka, claims its
coordinate (asset, sensor, timestamp) in Redis, writes the twin with a Lua
script, evaluates the channel in the *process-local* state machine, and, when
that reports a transition, writes the alarm hash, builds the payload (graph
resolution, snapshot, replica stamp; all of it optional), publishes the
mutation and commits the offset. A failure after the evaluation runs the
deferred compensations in reverse order: rollback, then release of the claim.
Replicas of the topology exchange whole states over HTTP and share nothing
else. The command worker consumes mutations, calls the AI interceptor and
publishes commands; it shares only Redis and the topics with the engine. All
its calls to either interceptor pass one rate gate; at start-up a preflight
asks the AI interceptor what it knows of the licence, compares, and sets the
event the consumers wait for. The GraphRAG interceptor answers mutations in
the same envelope as the AI interceptor, through a bridge, and enriched
payloads of native callers on a second route; both share its command cache.

What is hard to test here, line by line, is the `hazards` list of
`PROJECT.json`; the properties below are aimed at it.

## 2. Modules

| Module | What it is |
|---|---|
| `AlarmState` | one channel of the state machine as operators: verdict, transition, entry after `Evaluate`, undo token, rollback, prunable |
| `StateTracker` | those operators under concurrent deliveries, the janitor and skewed clock readings |
| `StateTrackerProofs` | its theorems |
| `Ingest` | the whole ingestion path: workers, processes, Kafka, Redis and the state machine of each process, built on `AlarmState` |
| `IngestProofs` | its theorems |
| `GraphCRDT` | the replicated topology and its anti-entropy exchange |
| `GraphCRDTProofs` | its theorems |
| `Closure` | from a mutation to its commands: the command worker's consumers and HTTP callers, the interceptor's endpoint and its plan store |
| `ClosureProofs` | its theorems |
| `QuotaWindow` | abstract: what a rate limiter promises |
| `SlidingWindow` | the limiters: the Redis script under lost replies, and the per-process window |
| `SlidingWindowProofs` | its theorems, the refinement of `QuotaWindow` among them |
| `Upstream` | the worker's preflight and rate gate, and the licence checks and limiters of both interceptors; EXTENDS `SlidingWindow` |
| `UpstreamProofs` | its theorems, which rest on those of `SlidingWindowProofs` |
| `GraphKernel` | the deterministic kernel of the GraphRAG interceptor as operators |
| `GraphKernelProofs` | what holds of it for every payload |
| `Planning` | from a mutation to published commands through each planner; EXTENDS `GraphKernel` |
| `PlanningProofs` | its theorems |
| `MCStateTracker`, `MCIngest`, `MCGraphCRDT`, `MCClosure`, `MCUpstream`, `MCPlanning` | instances for TLC |

`AlarmState` is shared: the operators that `StateTrackerProofs` reasons about
are the ones `Ingest` runs inside every process.

### AlarmState and StateTracker

A reading is one of four regions, `ok`, `band`, `high`, `crit`: the code
compares the value with `limit * (1 - hysteresis)`, `limit` and
`limit * (1 + criticalRatio)` and keeps nothing else of it that decides
anything. `Evaluated` is the body of `Evaluate` (severity as a high-water mark
of the episode, `breachCount` that survives it, `sequence` that counts every
evaluation); `RolledBack` is `Rollback` with its sequence check; `Prunable` is
the janitor's condition. In `StateTracker` each delivery evaluates once and,
when that emits, holds its token until it settles or rolls back. The shard
mutex makes each call one step. A delivery reads its clock before it takes the
lock, so it evaluates with a time up to `Skew` old, and a token lives at most
`OpTimeout`, the deadline of the context all calls of an attempt run under.

### Ingest

A worker's `pc` follows `process`: `Fetch`, `Admit`, `Apply`, `Evaluate`,
`Mark`, `Emit`, and on an error `Rollback` and `Release`, then
`processWithRetry`'s choice between another attempt, `DeadLetter` and the
return on a cancelled context (`Abandon`), and at last `Commit`, which
`RunWorker` calls whatever happened. Each call to Redis or Kafka that `Faulty`
names can succeed, fail without effect, or take effect and report an error; an
error may have used up the deadline, which `withRetry` does not retry.

* `Rebalance` moves a partition while its old owner is still busy; the new
  owner starts at the committed offset, and the old one may find its commit
  refused.
* `Crash` replaces a process at any point; `SlowRejoin` says whether the
  group's session timeout (30 s by default) outlasts the claims (5 s).
* `Shutdown` cancels the root context, `Restart` replaces the process when its
  workers have returned. A cancelled context can still win the race inside
  `CommitMessages`, hence the two outcomes of `Commit` under shutdown.
* `ClaimExpires`, `Prune` and `Tick` are the TTL, the janitor and the clock.

`acked`, `view`, `handled` and `dead` are history: the transitions a process
got acknowledged, what a reader of `ontology.mutations` believes, and which
messages were processed or dead-lettered. Graph resolution and the snapshot
only enrich the payload and have no effect here; `replica.Observe`, which
`buildPayload` also calls, writes to the replica and to nothing this module
keeps (its writes are the `AddVertex` and `AddEdge` of `GraphCRDT`).
The engine's own retry of a failed Redis call (`cache.withRetry`) is inside
one call of the model: a call fails when its last try has failed.

### GraphCRDT

Per replica a Lamport clock and, per element, an add and a remove timeline and
a payload. `Joined` is `joinVertexLocked`/`joinEdgeLocked`: pointwise maximum
of the timelines, payload of the greater (stamp, replica id) pair, the larger
canonical encoding on an exact tie. Snapshots travel pulled (`Fetch`, `Pull`,
from `RunSync`, which fetches outside the lock) or offered (`Offer`, `Accept`,
`Forget`), late, repeated or lost; `Reconcile` is a `ReconcileRemoteDelta`
whose context ends early, which leaves a prefix in the order vertices, edges.
`Restart` is a new process with the same identity, no state and clock zero.
`Compact` is guarded by the obligation its comment puts on the caller
(`Stable`). `seen` is history: the writes a replica's state stands for.

### Closure

A worker's `pc` follows `CommandWorker.run` and `close_loop`. `Consume` takes a
record and runs the checks that end in a dead letter at once (`_decode`, the
gatekeeper, the envelope); `Call`, `StoreGet`, `Infer` and `StorePut` are one
HTTP request to the interceptor, whose `get` fails closed and whose `put` is
`SET NX` and never raises; `Answered` is what the client makes of the body and
`translate_plan` of the plan; `Publish` sends one command at a time;
`DeadLetter`, `Rewind`, `Commit`, `PollFails` and `Reconnect` end a record or
an iteration of the consumer loop. A caller of `POST /v1/commands`
(`IssueCommands`, `Respond`) runs the same pipeline without the offsets.

* `AfterError` is `retry_async`: another attempt up to `MaxAttempts`, then the
  `TransientFailure` that rewinds. Errors that must not be retried go straight
  to the rewind, 400, 413 and 422 to the dead letter.
* `TimeOut` and `Crash` leave the request behind as an *orphan*: the endpoint
  finishes it, and may store a plan nobody waits for.
* A failed `put`, `publish` or `commit` may or may not have taken effect.
* A command is its event, sequence and action, which is exactly what
  `deterministic_command_id` hashes: publishing it twice is publishing it once.
* A plan has a list of actions, one of which may be unknown to the actuation
  contract, and a flag that says whether its body parses as an `ActionPlan`.

`dead`, `dropped` and `raced` are history: dead letters, dead letters that
failed, and the events for which a write to the store failed or two requests
were between a miss and their write at once, the race `README.md` concedes.

### QuotaWindow, SlidingWindow and Upstream

`SlidingWindow` is the script of `redis_state.py` (trim, count, admit or name a
wait, `PEXPIRE` on every path) over one set of hits per store, with the call
that fails before, after or instead of the script (`CheckFails`). The deques
of `security.py` and `SlidingWindowQuota` are the same algorithm over a store
per process, which is how `StoreOf` uses it. `served` is history: every hit
ever recorded. `QuotaWindow` keeps nothing but that history, and says when a
hit may be recorded and what a refusal must name; `Metered` is the refinement,
`now`, `served` and `answer` mapped to themselves.

`Upstream` composes it with the worker. The preflight task has one action per
outcome of an attempt (own licence rejected, no answer, 401 or 402, answered
and then throttled, agreed or different); `Fails` is
`run_preflight_until_ready`'s decision to sleep, give up or start anyway. A
call goes `Begin` (a slot and a start), `Leave`, and one of `Refused`, `Lost`,
`Metering`; 429 and 5xx cool the gate down for everybody. A tick of the clock
is a unit of the pace; `interval` is the whole window divided by the quota.

### GraphKernel and Planning

`GraphKernel` is `resolve_crdt_presence` and `analyse_topology`: bands as
ranks, trust in percent. Two channels stand for the thirteen with limits (a
physical and an integrity one), any other name for those without; channels of
one kind differ only in their numbers, and `worst_band` takes the worst.

`Planning` follows one event. A worker's request goes to the planner its
settings and licence choose; `StubPlan` and `DerivedPlan` answer in one turn,
the engine in three (`Isolate`, `Retrieve`, `PlanAction`), each of which may
fail and be retried (`TurnFails`). `event.cloud` is a live model behind the
agents: it may return any verdict and plan the schema allows, outside the graph
included. Ranking is by similarity, so any applicable procedure, or none, may
be found first, but the same query finds the same (`found`). `Guarded` is the
sequence of guardrails, `ToPlan` the bridge, `Translate` the worker's contract.
Requests of one event overlap, share the cache, lose entries and restart. The
payload and its analysis are variables of their own because they are functions
of the event: computing them once is what makes the run short.

## 3. Runs

Every passing run finishes within three minutes with two TLC workers.

| Run | Shows | Instance |
|---|---|---|
| `state_tracker` | `UndoExact`: a token that matches its channel reverses exactly its own evaluation, although rollbacks give sequence numbers back; `HeldChannelPresent`: the janitor spares channels with a token outstanding; `RollbackKeepsOthers`: no delivery loses its progress to another's rollback | 3 deliveries on 1 channel; two tokens and a third party are what an ABA on the sequence needs |
| `ingest_keyed` | one owner per channel, a crash at any point, and all calls but release and dead letter failing: `TrackerMatchesAcked`, `NoSilentLoss`, `AlarmVisible` | 3 readings in order, out of order or repeated, the first a breach; enough for raise, escalate and clear with retries between |
| `ingest_shared` | a partition moves: `NoSilentLoss`; `TwinComplete`: a committed reading is in the twin or superseded there, unless its coordinate was dead-lettered or is still owed, whatever write failed or lost its reply | 2 workers, 3 messages of which one may be malformed, ungoverned or a duplicate |
| `ingest_restarts` | crash, shutdown and every call failing, the filter failing closed: `TrackerMatchesAcked`, `Drains` | 2 readings, one crash, one shutdown |
| `crdt_topology` | `ClockDominates`, `StateFromWrites`, `StrongConvergence` under late and repeated joins of whole snapshots and with stamps reused after a restart; `EventuallyConverged` | 2 replicas, 2 vertices, 1 edge, 2 payloads, 2 writes, 1 restart; larger fleets are the proof's business |
| `crdt_compact` | `ViewFromWrites`: compaction below a watermark that also waits for snapshots in flight never changes what is shown | 2 replicas, 3 writes, all watermarks that matter; offers and reconciliation cut short; the theorems cover joins cut short for the properties of `crdt_topology` |
| `closure` | `NoSilentLoss`: a committed mutation has all commands of a plan, a dead letter or a counted failed one; `OnePlanUnlessRaced`: retries, redeliveries, replays, moves and crashes never mix two plans; `LoopCloses`: every record is closed and the workers come to rest | 2 workers, 1 caller, logs of 2 records with every way a record can end, 3 plans of which one is cut off by `MaxCommands` and one unsupported; any 3 failures, moves, crashes and calls |
| `upstream` | `QuotaHeld`: no window of a store, wherever it ends, holds more than the quota; `Metered`: the limiter keeps its promise; `Paced`, `FewStrays`: starts keep the pace across retunes and cooldowns, and few calls leave inside a cooldown; `AgreementHolds`: after a passed preflight only an expiry refuses a call to the standard interceptor; `StrictHolds`: strictness holds the consumers, also at shutdown; `Settles` | 1 consumer, 1 HTTP caller, 1 replica on the shared store, 1 GraphRAG interceptor; 23 deployments; 4 hits, a window and a quota of 2, time to 4, 1 lost call |
| `planning` | `NoTripOnTie`, `TrustedOnly`: with the rule engine no irreversible command rests on a contested graph or on a retrieved procedure alone; `BlastHeld`: the rule engine answers with a shutdown exactly if the kernel trips the asset for every caller and any of three blast radii, also when the answer is replayed; `IntegrityHeld`: the kernel trips no asset for its integrity channels alone; `HandedOver`: the guardrails hold for any agent; `AuthorisationSurvives`, `CriticalReaches`: what a response requires reaches the topic; `OneAnswer`: requests that race, evictions and restarts give one answer; `Settled` | 1 delivery that asks twice, 1 native caller; 350 events: every pair of timelines with stamps up to 2, every band and blast radius, rough projections, faulted neighbours, an erring model |

Runs that state what a document or comment says and that TLC refutes:

| Run | Disagreement |
|---|---|
| `ingest_lost_alarm` | An old owner fails its publish after the new owner absorbed the next breach into the same episode: the rollback is skipped and the alarm is neither published nor dead-lettered. Needs two workers of one process. |
| `closure_poison` | `ValidationError` is a `ValueError`, so the handler for mangled bodies shadows the permanent one: a stored plan that breaks the contract is retried, rewound and read again for ever. |
| `closure_replanned` | The write of the plan fails, the publication fails after its first command, the next read is a miss: the commands of two plans for one event. |

`findings` in `PROJECT.json` quotes the sentence each of these contradicts.

Limits of the code that the models also show, and that the passing runs
therefore exclude by a constant or a premise:

* `FailOpen = FALSE`: Admit's error is returned before the release is
  deferred, so a claim whose reply was lost turns the retry into a duplicate.
  `NoSilentLoss` needs `FailOpen`, or an `"admit"` that does not fail.
* `"release" \notin Faulty` where `NoSilentLoss` is checked: when the twin write
  and `ReleaseEvent` both fail, the retry takes its own claim for a duplicate
  and the reading is committed without a dead letter (`engine.go:203`).
* `MaxShutdowns = 0` where `NoSilentLoss` is checked: `RunWorker` calls
  `CommitMessages` also after an attempt that the shutdown cut off, and
  kafka-go chooses at random between the commit and the cancelled context
  (`engine.go:127`).
* The set is last-writer-wins by Lamport stamp, whatever `graph_crdt.go:7` and
  555-556 say of an observed-remove set: `Live` (194) compares the highest
  stamps, so a concurrent add with the lower stamp is lost. `GraphCRDT` models
  what the code does; all replicas lose it alike.
* An edge added concurrently with the removal of its endpoint is not part of
  the cascade and stays live on a converged fleet; `DanglingEdges` says that
  such edges drain (`graph_crdt.go:785`).
* `raced` in `OnePlanUnlessRaced`: besides the failed write of
  `closure_replanned`, two requests that both miss, be it a replay over HTTP
  or a retry whose first request is still being planned.
* `SlowRejoin = FALSE`: `Validate` accepts a claim TTL above the group's
  session timeout; a crash between claim and commit then loses the reading.
* The state machine lives in the process: an alarm raised before a restart is
  not cleared by the recovery after it. Hence `~Restarted` in `AlarmVisible`.
* `MarkAlarm` is not undone when the publish fails for good: the alarm hash
  may show an alarm that was only dead-lettered. Hence `dead = {}` there.
* `InFlightCounts = FALSE`: a watermark every replica has observed, which is
  all `Compact` asks for, is not enough while an older snapshot is in flight:
  joining it brings a removed asset back.
* `FailOpen = FALSE` in `upstream`: a quota store that cannot be reached admits
  calls nobody counts. A hit whose reply was lost is counted either way.
* `retry_after_cap` (30 s) is below the window (60 s): a client cut off at the
  cap is refused again. `Metered` speaks of the wait the limiter names.
* One gate paces the calls to both interceptors with whichever quota answered
  last, and assumes a window of 60 s. `Paced` speaks of the pace reserved.
* A strict preflight holds the consumers only: `POST /v1/commands` calls in any
  state, with the caller's own licence, whose tenant nobody compared. The
  enterprise key is not checked by the preflight either, hence `~Routed` in
  `AgreementHolds`.
* `PRIORITY_ALIASES` has no `ROUTINE`, so a GraphRAG plan of that priority,
  which cleared alarms usually get, is dead-lettered by the worker, although
  `bridge.py:17-22` and `ARCHITECTURE.md` describe a drop-in replacement.
  `CriticalReaches` says that nothing else is lost this way.
* The guardrails compare the plan with Agent 1's verdict, not with the kernel:
  a live isolator that claims full trust gets its shutdown through. Hence
  `~event.cloud` in `NoTripOnTie` and `TrustedOnly`; `HandedOver` needs no such
  premise.
* The comment at `graphrag_interceptor.py:1212` says that blast radius never
  makes an action irreversible, and the kernel keeps to it. The system prompt of
  Agent 2 does not: lines 1869-1870 name "a critical breach threatens a wide
  blast radius" as a ground for `EMERGENCY_SHUTDOWN`, and the guardrails look at
  permission and trust, not at the ground. A live model may therefore shut an
  asset down for its blast radius. Hence `~event.cloud` in `BlastHeld`, which
  speaks of the rule engine only.
* The AI interceptor's offline planner may isolate on a degraded context, where
  the stub does not. `topology_is_contested` of `models.py`
  has no caller; replicas that disagree without a tie may still permit a
  shutdown.
* The bridge sends no neighbour health: cascades are found for native callers
  only. Both routes share one cache key, so a worker may be replayed an answer
  to a richer payload; hence the premise of `OneAnswer`.
* The redirect to the root cause is lost on the worker's way (`target_asset_id`
  is the mutation's asset), truncation and handover may give one step more than
  the maximum, and no guardrail adds the reconciliation step the docstring of
  `resolve_crdt_presence` announces.
* Redis runs with `volatile-lru` (`README.md:441` of the repository,
  `docker-compose.yml:109`), and every key here carries a TTL: under memory
  pressure quota windows, stored plans, twins and claims may be evicted.
  `SlidingWindow`, `Closure` and `Ingest` model expiry of quota keys and claims
  but no eviction. With it a window may admit more than its quota, an event may
  be planned twice and a twin may be gone: `QuotaHeld`, `Metered`,
  `OnePlanUnlessRaced` and `TwinComplete` hold while nothing is evicted.
* Two requests past the cache with a live model may get two plans, against the
  docstring at `graphrag_interceptor.py:3369`. Hence `~event.cloud` in
  `OneAnswer`.

### Bounds

`MaxFaults`, `MaxMoves`, `MaxCrashes`, `MaxShutdowns`, `MaxTime`, `MaxWrites`,
`MaxOffers` and `MaxRestarts` cap the environment, never the code. `MaxAttempts
= 2` has a first attempt, a retry and a last attempt, all that
`processWithRetry` tells apart. Two faults let a call and the compensation for
it fail, or one attempt fail twice; the logs are short because a channel's
history matters only through its entry. `MaxTime` is 2 or more wherever
re-alerting or the janitor must be able to fire. Deadlock is not an error in
these runs: a drained topic, or a fleet that has used up its writes, rests.
In `Closure`, `MaxUpsets` bounds failed calls, moves, crashes and calls over
HTTP together: three are a failed attempt, a failed retry and one more thing
going wrong, or a move there and back with a failure in between. One record of
a log reaches the planner, since plans of different events do not meet; the
other shows whether a record is skipped.
In `Upstream` a window of two ticks and a quota of two have hits on both sides
of a boundary, a full window, a wait and a call after it within four ticks;
two concurrent calls are what the gate's lock and the stale delay need.
`Members` bounds the hits and `Spare` leaves enough for the preflight.
In `Planning` two requests are what the race past the cache needs. Stamps up to
2 give every order and tie of two timelines; procedures have at most four
steps, so `MaxSteps = 5` cuts some assemblies and not others, and `MaxCommands =
3` does the same to plans. `MinTrust` is 65, the default: 100 less the 25 of a
tie and the 10 of `ADD_WINS` is exactly that. `MaxForgets` counts evictions and
restarts together.

### Fairness

`Ingest`: weak fairness of each worker, a goroutine in a loop that the runtime
schedules again, and of `Restart`, the supervisor (`restart: unless-stopped`
in the compose file). No fairness for faults, rebalances, crashes or expiry:
they are bounded, so the run also covers the case in which they all happen.
`Closure`: weak fairness of each worker's task, in which a call to the
interceptor ends because the client has a time-out; nothing is promised of
callers and of requests nobody waits for.
`GraphCRDT`: strong fairness of each `Fetch`, since the pull loop asks every
peer once an interval and a partition is assumed to end, and weak fairness of
`Pull`. Offers are promised nothing.
`Upstream`: weak fairness of the preflight, a task of its own whose requests
time out; the throttle can delay it only as long as its attempts last.
`Planning`: weak fairness of the agent loop of each request: every turn ends
by its answer or by `agent_timeout_seconds`. A live model may fail each time.

## 4. Proofs

`StateTrackerProofs`, for any channels, deliveries, clock skew and times:

* `TypeCorrect`: `TypeOK`.
* `UndoIsExact`: `UndoExact`.
* `PruneSparesHeldChannels`: `HeldChannelPresent`.
* `NoLostProgress`: `RollbackKeepsOthers`.

None of these is inductive alone. The danger is a sequence number that a
rollback gives back and a later evaluation takes again, so the invariant
`IInv` relates every outstanding token to its channel and the tokens to each
other. Against the channel: the token's sequence is at most the channel's, and
on equality the channel holds what the token's delivery found plus its own
evaluation. Among the tokens of one channel (`TokenChain`): their sequences
differ, and the lower one stands to the copy the higher one would restore as
it stands to a channel, so a rollback of the higher one re-establishes the
first part for the lower one. The janitor enters through time: a held delivery evaluated at
most `OpTimeout` ago with a clock at most `Skew` old, so the channel was seen
within `Idle`. Assumptions: `TimeAssumption` (`OpTimeout + Skew <= Idle`: 5 s
and 6 h by default, though the configuration does not enforce it),
`AbsentAssumption` (a missing entry is not an entry), `ReAlertAssumption`.

`IngestProofs`, for any processes, workers, partitions, logs, bounds and faults:

* `TypeCorrect`: `TypeOK`.
* `BelievesAcknowledged`: `TrackerMatchesAcked`, if partitions do not move
  (`MaxMoves = 0`) and the telemetry is `Keyed`.
* `NothingLost`: `NoSilentLoss`, if the deployment is `Lossless`.
* `TwinMissesNothing`: `TwinComplete`, if the deployment is `Lossless`.
* `EverybodySees`: `AlarmVisible`, if partitions do not move and the telemetry
  is `Keyed` and `Retried`.

The hypotheses are conditions on the constants, and each is there because the
code needs it. `Keyed` says that a channel is in one partition, which the
quick start demands (`README.md:61`: telemetry must be keyed by asset).
`Lossless` says: no process is shut down in the middle of a message (`RunWorker`
commits what it gave up); `ReleaseEvent` and the dead-letter publish do not
fail (both are logged and swallowed); an `Admit` whose error counts as an
attempt has not taken the claim, or the filter fails open; and a crash either
does not happen or happens without moves and with a rejoin that outlasts the
claims. None can be dropped: TLC finds `NoSilentLoss` violated in the instance
of `IngestShared` without crashes and faults outside `Lossless` as soon as one
of them is given up (one shutdown; a failing release; a failing dead letter; a
failing `Admit` under fail-closed; a crash with a fast rejoin; a crash and one
move). `Retried` is the part of it about calls.

`TrackerInv` says of a worker that holds a token that the entry is what its
`Evaluate` left, that the token restores what was last acknowledged, and that
acknowledging its emit would make the acknowledged alarm the entry's; of a
channel without one that entry and acknowledgement agree. One owner per channel
makes the token exact: nobody else evaluates the channel meanwhile, hence
`OwnersStay`. `LossInv` follows a claim back to the message that took it: every
message handed out is settled, or in process, or the coordinate it shares with
another delivery was taken for one that is. With moves excluded a worker's
message is also the last of its partition, not yet committed, which is what a
crash gives back. `TwinInv` says that every message past its twin write, in
process or handled, is in the twin or superseded there; with `LossInv`, which
accounts for the committed ones, that is `TwinMissesNothing`. It needs that the
script only replaces an older sample and that a worker goes on only after a
write that took effect. `StoryInv` says that a channel on which the topic, the alarm
hash and the state machine disagree has a worker that will put it right: it
holds a token, it will evaluate a message again whose transition the restored
entry reports again, or it is about to dead-letter. Assumptions:
`IngestAssumption`, `AbsentAssumption`, `ReAlertAssumption`.

`GraphCRDTProofs`, for any fleet, topology, payloads and number of writes:

* `TypeCorrect`, and `ClockIsAhead`: `ClockDominates`, with compaction.
* `LosslessJoin`: `StateFromWrites`, without compaction (`Watermarks = {}`).
* `SameHistorySameGraph`: `StrongConvergence`, without compaction.
* `ViewKept`: `ViewFromWrites`, with compaction, when nobody restarts and a
  watermark waits for the snapshots in flight.

Without compaction the inductive invariant is `TypeOK`, `ClockDominates`, `StateFromWrites` and
the same statement about every snapshot in flight. The argument is that
`Reflects` is preserved by a local write, because the clock dominates and the
stamp is therefore a new maximum, and by the join, because the entry that
reflects a union of writes is the join of the entries that reflect its parts.
Two entries that reflect the same writes are equal, which gives convergence
without any appeal to commutativity or associativity of the join.

With compaction an entry no longer reflects all its writes. `CompactInv` says
that it reflects those at or above some stamp, entry by entry another one, and
that what is below is `Settled`: every replica and every snapshot in flight
stands for it, no clock can go below it any more, and it leaves the element
removed. `SettledStays` shows that what is settled stays so, and gets no new
write, as long as nobody restarts. A join of entries kept from different
stamps is kept from the earlier one, because either side holds the old writes
the other has dropped (`JoinedKept`), and what `Compact` drops is settled up to
the watermark (`CompactableSettled`). `BelowIrrelevant` then gives what is shown.
Both conditions are needed, and TLC has a counterexample without either: after
a restart stamps below the watermark are issued again, and a snapshot older
than the watermark brings back what was removed. Assumption:
`GraphAssumption`.

`ClosureProofs`, for any workers, callers, log, plans and bounds:

* `TypeCorrect`: `TypeOK`.
* `NothingLost`: `NoSilentLoss`.
* `SequentialCaseClosed`: `OnePlanUnlessRaced`.

`NoLoss` is the consumer's bookkeeping: what is behind the record a worker
holds is accounted for, a worker commits only what is, and what the owner of
the partition has read is but for the record in its hands; and an actor that
publishes has published the commands before the one it is at (`InOrder`). An
account, once given, stays (`SettledGrows`), so a worker that lost the
partition is no threat. `SequentialPlans` says of an event outside `raced` that
at most one request is between a miss and its write, awaited or orphaned, that
nothing is stored while there is one, and that who publishes has the stored
plan. Assumption: `ClosureAssumption`.

`SlidingWindowProofs`, for any stores, replicas, members, window and limit:

* `LimiterTypeCorrect`: the limiter's types.
* `LimiterQuotaHeld`: `QuotaHeld`.
* `LimiterRefinesQuota`: `Metered`, that is, `LimiterSpec` implements
  `QuotaSpec`: initial states map to initial states, each action to one of the
  abstract specification or to a stutter.

The store forgets hits, by trimming and by key expiry, and the promise is about
all hits ever recorded. The invariant that bridges them says that a hit of the
current window is still held by its store, whose key has not expired (`PEXPIRE`
is a whole window and is renewed by each call), and that what is held was
recorded. Counting the trimmed set is then counting the window. For the window
that ends at an earlier hit the invariant keeps `QuotaHeld` itself: a new hit
lies in no window that ended before it. Assumption: `LimiterAssumption`.

`UpstreamProofs`, for any callers, replicas, deployments, quota, margin, cap and
bounds:

* `UpstreamRunsLimiter`: `Spec => LimiterSpec`. Every step asks the limiter of a
  replica, lets time pass or leaves the limiter alone, so `UpstreamQuotaHeld` and
  `UpstreamMetered` follow from the limiter's theorems.
* `UpstreamTypeCorrect`, `UpstreamPaced`, `UpstreamFewStrays`,
  `UpstreamStrictHolds`, `UpstreamAgreementHolds`.

None of these properties is inductive. `Paced` needs that no slot ends after
the next free start (`Reserved`). `FewStrays` needs that the slots that may still
leave inside the cooldown, together with those that have, are fewer than the gate
admits (`CoolKept`): a cooldown begins when a caller has left the gate, and every
later slot starts behind it. `StrictHolds` needs that under strictness only a
passed preflight has set the event before shutdown, and `AgreementHolds` that a
status tells what is wrong with the licence presented (`Verdict`, `StatusTells`).
The type invariant needs that a preflight that goes on has attempts left.
Assumptions: `LimiterAssumption`, `UpstreamAssumption`; the number of callers
and of replicas need not be finite.

`GraphKernelProofs`, for every payload (`TieNeverTripsAnywhere`,
`BlastNeverTripsAnywhere` with `MinTrust > 55`, `IntegrityNeverTripsAnywhere`).
On a tie of the highest stamps some replica holds the remove, so under
`ADD_WINS` it diverges: 25 for the tie, 10 for the override and at least 10 for
the divergence leave at most 55% of trust. A leaf resolves to `TOMBSTONED`, and
one that still reports is a ghost, for which nothing irreversible is permitted;
one that is silent breaches no limit. `TripsAlone` goes further: whether the
kernel trips the asset depends on the asset's own channels and replicas alone.
The neighbours count for attribution, which a hard breach of the asset's own
settles, and in the tie-breaker, which the tie has already made irrelevant; a
breach of a hard limit is `CRITICAL` without them.

`PlanningProofs`, for any events, callers, searches, limits and bounds:

* `TypeCorrect`: `TypeOK`; `HandedOverAlways`: `HandedOver`; `TrustedAlways`:
  `TrustedOnly`.
* `AuthorisationKept`: `AuthorisationSurvives`; `CriticalAlwaysReaches`:
  `CriticalReaches`.
* `TieNeverShutsDown`: `NoTripOnTie`, and `BlastAlwaysHeld`: `BlastHeld`, with
  `MinTrust > 55`; `IntegrityAlwaysHeld`: `IntegrityHeld`.
* `OneAnswerAlways`: `OneAnswer`.

`GuardedIs` takes the guardrails one after the other: of any plan of the
schema, whatever verdict it is held against, they make a `Sound` response, and
they add no irreversible work to a plan without any. That settles `HandedOver`.
The rule engine's plan has none unless the kernel recommends some, because the
procedures that may lead for a reversible action, and the chunks around them,
have no irreversible step (`AssembledIn`). `BridgeIs`, `TranslateIs` and
`TranslateKeeps` follow a response across the bridge and the translation:
only `ROUTINE` is not understood, `escalate` is `auth`, and a `SHUTDOWN` comes
from an irreversible action alone. `RequestInv` carries this through the
requests: an answer, held, cached or delivered, is a proposal of the planners of
one turn or a good response, what became of it is its translation or its refusal,
and the verdict and the documents of a request on its way are such that the
next plan will be as well. A cached answer may have been made for another
caller; `SameCritical` shows that callers differ in nothing a critical score
looks at, which is why a replay cannot lose a critical event. `TieNeverShutsDown`
follows a `SHUTDOWN` back to a caller whose payload trips the kernel, and
`SameTie` shows that the projection keeps the tie there. For `BlastAlwaysHeld`,
`AnswerTrips` says that an answer of the rule engine is a shutdown exactly if
the kernel trips the payload it was made from, because the guardrails take back
only what was not permitted (`GuardedAction`), and `SameTrip` that all callers'
payloads have the same own channels and replicas and thus trip alike. `AnswerInv` adds that
with the rule engine every response is what the engine makes of the payload of
some caller and of what the store gave for it, and that the store's history is
a function of the query. Assumptions: `KernelAssumption`, `PlanningAssumption`,
`EventAssumption` and `ReplicaAssumption` (the replicas of a tie have names:
`engine/replica.go:107` refuses to start one without; the bridge would drop it).

### Only model-checked

Liveness (`Drains`, `EventuallyConverged`, `LoopCloses`, `Settles`, `Settled`),
since fairness is out of the prover's reach. Every safety invariant a passing
run checks is stated by a theorem.

## 5. Plan

Done: the state machine, the ingestion path, the CRDT, the closure pipeline,
the quota with its refinement, the upstream discipline, the GraphRAG kernel and
the planners. Left, in this order:

1. **TopologyReplica**: `Observe` and the upserts over `GraphCRDT`: look-up and
   add in two lock acquisitions; when do two sites stop rewriting each other?
2. **GraphAdapter**: connect, redial and the context cache.
3. **Closure, abstractly**: each event gets the commands of one plan or a dead
   letter, and `Closure` shown to refine it; the fail-open read policy and the
   in-memory store of a single replica.
4. Refinement: each process of `Ingest` implements `StateTracker`; the
   ingestion path implements an abstract at-least-once processor.

## 6. Not modelled, and why

Prompt rendering, model calls and embeddings are data and external services;
the manuals appear as the shape of their procedures. The cloud planner of the
AI interceptor is an environment choice in `Closure` and absent from
`Planning`, whose erring model is that of the GraphRAG agents. The licence
cache answers as the immutable registry it fronts and has no variable. Cypher and record mapping are I/O. Configuration, metrics, logging,
the admin handlers and the console change no protocol state. Of the filter,
`IsDuplicate`, `Release` by asset alone and the disabled mode are not used on
the ingestion path under test and are left out; of the cache, the TTL of twin
keys, which is far longer than any behaviour here. Everything else that is
missing is in the plan.
