------------------------------- MODULE Ingest -------------------------------
(***************************************************************************)
(* The ingestion path of the resolution engine: Engine.RunWorker,          *)
(* processWithRetry and process (engine.go), the idempotency filter        *)
(* (idempotency_filter.go), the live twin and the alarm hash in Redis      *)
(* (cache.go) and the per-process alarm state machine (state.go, through   *)
(* AlarmState).                                                            *)
(*                                                                         *)
(* Engine processes run workers; the workers of all processes are members  *)
(* of one consumer group, and the group may move a partition between them  *)
(* while its old owner is still busy with a message.  Redis and Kafka are  *)
(* shared.  A call to either can succeed, fail without effect, or take     *)
(* effect and report an error; a reported error may have used up the       *)
(* operation deadline, which process does not retry.                       *)
(*                                                                         *)
(* Graph resolution, the snapshot read and the replica stamp only degrade  *)
(* the payload and are part of Mark without an effect here.                *)
(***************************************************************************)
EXTENDS AlarmState, Sequences, FiniteSets

CONSTANTS
    Procs, Workers, ProcOf,   \* processes, workers, and who runs whom
    Partitions, Channels,
    Ungoverned,    \* channels whose sensor has no rule
    Logs,          \* the possible contents of the source topic
    MaxAttempts,   \* ENGINE_MAX_ATTEMPTS
    FailOpen,      \* IDEMPOTENCY_FAIL_OPEN
    Faulty,        \* the calls that can fail
    MaxFaults,     \* bound on failures
    MaxMoves,      \* bound on partition moves
    MaxCrashes,    \* bound on crashes
    MaxShutdowns,  \* bound on shutdowns
    SlowRejoin,    \* KAFKA_SESSION_TIMEOUT exceeds IDEMPOTENCY_TTL
    MaxTime,       \* bound on time
    Idle           \* ENGINE_STATE_IDLE_TTL

\* A reading that is not one of Readings stands for a body that fails to decode
\* or to validate.
Malformed == "malformed"

Messages == [ch: Channels, ts: Nat, val: Readings \cup {Malformed}]

ASSUME IngestAssumption ==
    /\ ProcOf \in [Workers -> Procs]
    /\ Ungoverned \subseteq Channels
    /\ Logs \subseteq [Partitions -> Seq(Messages)]
    /\ MaxAttempts \in Nat \ {0} /\ Idle \in Nat
    /\ FailOpen \in BOOLEAN /\ SlowRejoin \in BOOLEAN
    /\ Faulty \subseteq {"admit", "apply", "mark", "emit", "release", "dlq", "commit"}

VARIABLES
    \* Kafka
    log,        \* partition -> the messages of the source topic
    owner,      \* partition -> the worker it is assigned to
    position,   \* partition -> the next offset its owner fetches
    committed,  \* partition -> the group's committed offset
    \* Redis
    claims,     \* coordinates with a live idempotency claim
    twin,       \* channel -> newest reading applied, ts 0 when none
    alarm,      \* channel -> transition in twinalarm:<asset>:<sensor>
    \* engine processes
    entries,    \* process -> channel -> alarm entry
    stopping,   \* processes whose context is cancelled
    \* workers
    pc, cur, attempt, undo, kind, deadline,
    \* history
    acked,      \* process -> channel -> alarm as its acknowledged emits tell it
    view,       \* channel -> "open" or "closed", as ontology.mutations tells it
    handled,    \* messages process() finished with
    dead,       \* messages on the dead-letter topic
    \* environment
    now, faults, moves, crashes, shutdowns

kafkaVars  == <<log, owner, position, committed>>
redisVars  == <<claims, twin, alarm>>
workerVars == <<pc, cur, attempt, undo, kind, deadline>>
history    == <<acked, view, handled, dead>>
envVars    == <<now, moves, crashes, shutdowns>>

vars == <<kafkaVars, redisVars, entries, stopping, workerVars, history, envVars, faults>>

-----------------------------------------------------------------------------
(* Messages *)

\* A message id is <<partition, offset>>.
Ids == UNION {{<<p, o>> : o \in 1..Len(log[p])} : p \in Partitions}

Msg(m) == log[m[1]][m[2]]

\* What an idle worker that never fetched holds; its offset is no message's.
NoMsg == <<CHOOSE p \in Partitions : TRUE, 0>>

\* What the idempotency filter fingerprints: asset, sensor and timestamp.
Coordinate(m) == <<Msg(m).ch, Msg(m).ts>>

Calm == [state |-> "NORMAL", severity |-> Info]

NoReading == [ts |-> 0, val |-> "ok"]

-----------------------------------------------------------------------------

Init ==
    /\ log \in Logs
    /\ owner \in [Partitions -> Workers]
    /\ position = [p \in Partitions |-> 1]
    /\ committed = [p \in Partitions |-> 0]
    /\ claims = {}
    /\ twin = [c \in Channels |-> NoReading]
    /\ alarm = [c \in Channels |-> NoKind]
    /\ entries = [q \in Procs |-> [c \in Channels |-> Absent]]
    /\ stopping = {}
    /\ pc = [w \in Workers |-> "idle"]
    /\ cur = [w \in Workers |-> NoMsg]
    /\ attempt = [w \in Workers |-> 0]
    /\ undo = [w \in Workers |-> UndoOf(Absent)]
    /\ kind = [w \in Workers |-> NoKind]
    /\ deadline = [w \in Workers |-> FALSE]
    /\ acked = [q \in Procs |-> [c \in Channels |-> Calm]]
    /\ view = [c \in Channels |-> "closed"]
    /\ handled = {}
    /\ dead = {}
    /\ now = 1 /\ faults = 0 /\ moves = 0 /\ crashes = 0 /\ shutdowns = 0

-----------------------------------------------------------------------------
(* Failing calls *)

Stopping(w) == ProcOf[w] \in stopping

\* The call op of worker w reports an error.  A cancelled context fails any
\* call for free.
CallFails(w, op) ==
    \/ Stopping(w) /\ op \notin {"release", "dlq"} /\ UNCHANGED faults
    \/ op \in Faulty /\ faults < MaxFaults /\ faults' = faults + 1

\* The error carries Canceled or DeadlineExceeded, which withRetry gives up on.
GivesUp(w, expired) == deadline' = [deadline EXCEPT ![w] = expired \/ Stopping(w)]

Goto(w, label) == pc' = [pc EXCEPT ![w] = label]

\* Mutation: the attempts are not counted.
MutAfterErrorForever(w, gaveUp) ==
    IF Stopping(w) THEN Goto(w, "commit") /\ UNCHANGED attempt
    ELSE IF gaveUp THEN Goto(w, "dead") /\ UNCHANGED attempt
    ELSE Goto(w, "admit") /\ attempt' = [attempt EXCEPT ![w] = @ + 1]

\* Where withRetry and processWithRetry go after process returned an error:
\* back to RunWorker under a cancelled context, the dead-letter topic when the
\* attempts or the deadline are used up, otherwise another attempt.
AfterError(w, gaveUp) ==
    IF Stopping(w) THEN Goto(w, "commit") /\ UNCHANGED attempt
    ELSE IF gaveUp \/ attempt[w] = MaxAttempts
    THEN Goto(w, "dead") /\ UNCHANGED attempt
    ELSE Goto(w, "admit") /\ attempt' = [attempt EXCEPT ![w] = @ + 1]

-----------------------------------------------------------------------------
(* One worker: FetchMessage, processWithRetry, CommitMessages *)

\* FetchMessage hands out a message that is there even when the context is
\* cancelled; a stopping worker with nothing to fetch has returned.
Fetch(w) ==
    /\ pc[w] = "idle"
    /\ \E p \in Partitions :
         /\ owner[p] = w
         /\ position[p] <= Len(log[p])
         /\ cur' = [cur EXCEPT ![w] = <<p, position[p]>>]
         /\ position' = [position EXCEPT ![p] = @ + 1]
    /\ attempt' = [attempt EXCEPT ![w] = 1]
    /\ Goto(w, "admit")
    /\ UNCHANGED <<log, owner, committed, redisVars, entries, stopping, undo, kind,
                   deadline, history, envVars, faults>>

\* withRetry finds the context cancelled before it makes an attempt.
Abandon(w) ==
    /\ pc[w] = "admit"
    /\ Stopping(w)
    /\ Goto(w, "commit")
    /\ UNCHANGED <<kafkaVars, redisVars, entries, stopping, cur, attempt, undo, kind,
                   deadline, history, envVars, faults>>

\* deadLetter, whose own failure is logged and swallowed.
DeadLettered(w) ==
    \/ dead' = dead \cup {cur[w]} /\ UNCHANGED faults
    \/ CallFails(w, "dlq") /\ UNCHANGED dead

\* Decode, Normalize or Validate refuses the body: reject returns nil.
Reject(w) ==
    /\ pc[w] = "admit"
    /\ Msg(cur[w]).val = Malformed
    /\ DeadLettered(w)
    /\ Goto(w, "commit")
    /\ UNCHANGED <<kafkaVars, redisVars, entries, stopping, cur, attempt, undo, kind,
                   deadline, acked, view, handled, envVars>>

\* IdempotencyEngine.Admit.  An error admits without a claim when the filter
\* fails open and the operation deadline is not the cause; otherwise process
\* returns it before the release is deferred.
Admit(w) ==
    LET c == Coordinate(cur[w]) IN
    /\ pc[w] = "admit"
    /\ Msg(cur[w]).val # Malformed
    /\ \/ /\ claims' = claims \cup {c}
          /\ Goto(w, IF c \in claims THEN "commit" ELSE "apply")
          /\ UNCHANGED <<attempt, deadline, faults>>
       \/ \E took, expired \in BOOLEAN :
            /\ CallFails(w, "admit")
            /\ claims' = IF took THEN claims \cup {c} ELSE claims
            /\ GivesUp(w, expired)
            /\ IF FailOpen /\ ~expired /\ ~Stopping(w)
               THEN Goto(w, "apply") /\ UNCHANGED attempt
               ELSE AfterError(w, expired)
    /\ UNCHANGED <<kafkaVars, twin, alarm, entries, stopping, cur, undo, kind,
                   history, envVars>>

\* The Lua script: write only a strictly newer sample.
Newer(m) == Msg(m).ts > twin[Msg(m).ch].ts

TwinWith(m) == IF Newer(m)
               THEN [twin EXCEPT ![Msg(m).ch] = [ts |-> Msg(m).ts, val |-> Msg(m).val]]
               ELSE twin

\* Mutation: a refused write counts as a superseded reading.
MutFreshOnlyIfWritten(m) == Newer(m)

\* ApplyOutcome.Fresh: written, or unchanged because it is already the newest.
Fresh(m) == Msg(m).ts >= twin[Msg(m).ch].ts

\* Mutation: a failed twin write only degrades the payload, as a failed
\* snapshot read does.
MutApplyBestEffort(w) ==
    LET m == cur[w] IN
    /\ pc[w] = "apply"
    /\ \/ twin' = TwinWith(m) /\ UNCHANGED faults
       \/ CallFails(w, "apply") /\ UNCHANGED twin
    /\ IF Fresh(m) /\ Msg(m).ch \notin Ungoverned
       THEN Goto(w, "evaluate") /\ UNCHANGED handled
       ELSE Goto(w, "commit") /\ handled' = handled \cup {m}
    /\ UNCHANGED <<kafkaVars, claims, alarm, entries, stopping, cur, attempt, undo,
                   kind, deadline, acked, view, dead, envVars>>

\* StateCache.Apply and the rule lookup: a stale or ungoverned reading is done.
Apply(w) ==
    LET m == cur[w] IN
    /\ pc[w] = "apply"
    /\ \/ /\ twin' = TwinWith(m)
          /\ IF Fresh(m) /\ Msg(m).ch \notin Ungoverned
             THEN Goto(w, "evaluate") /\ UNCHANGED handled
             ELSE Goto(w, "commit") /\ handled' = handled \cup {m}
          /\ UNCHANGED <<deadline, faults>>
       \/ \E took, expired \in BOOLEAN :
            /\ CallFails(w, "apply")
            /\ twin' = IF took THEN TwinWith(m) ELSE twin
            /\ GivesUp(w, expired)
            /\ Goto(w, "release")
            /\ UNCHANGED handled
    /\ UNCHANGED <<kafkaVars, claims, alarm, entries, stopping, cur, attempt, undo,
                   kind, acked, view, dead, envVars>>

\* StateTracker.Evaluate; an absorbed reading is done.
Evaluate(w) ==
    LET m == cur[w]
        q == ProcOf[w]
        c == Msg(m).ch
        t == TransitionOf(EntryOf(entries[q][c]), Msg(m).val, now)
    IN
    /\ pc[w] = "evaluate"
    /\ entries' = [entries EXCEPT ![q][c] = Evaluated(EntryOf(@), Msg(m).val, now)]
    /\ undo' = [undo EXCEPT ![w] = UndoOf(entries[q][c])]
    /\ kind' = [kind EXCEPT ![w] = t]
    /\ Goto(w, IF t = NoKind THEN "commit" ELSE "mark")
    /\ handled' = IF t = NoKind THEN handled \cup {m} ELSE handled
    /\ UNCHANGED <<kafkaVars, redisVars, stopping, cur, attempt, deadline, acked, view,
                   dead, envVars, faults>>

\* StateCache.MarkAlarm: CLEARED deletes the hash, anything else writes it.
Marked(w) == [alarm EXCEPT ![Msg(cur[w]).ch] =
                 IF kind[w] = "CLEARED" THEN NoKind ELSE kind[w]]

Mark(w) ==
    /\ pc[w] = "mark"
    /\ \/ /\ alarm' = Marked(w)
          /\ Goto(w, "emit")
          /\ UNCHANGED <<deadline, faults>>
       \/ \E took, expired \in BOOLEAN :
            /\ CallFails(w, "mark")
            /\ alarm' = IF took THEN Marked(w) ELSE alarm
            /\ GivesUp(w, expired)
            /\ Goto(w, "rollback")
    /\ UNCHANGED <<kafkaVars, claims, twin, entries, stopping, cur, attempt, undo, kind,
                   history, envVars>>

\* What a reader of ontology.mutations believes after the transition.
Shown(w) == [view EXCEPT ![Msg(cur[w]).ch] =
                IF kind[w] = "CLEARED" THEN "closed" ELSE "open"]

\* The alarm as the process's acknowledged transitions tell it.
Acked(w) ==
    LET v == Msg(cur[w]).val IN
    [acked EXCEPT ![ProcOf[w]][Msg(cur[w]).ch] =
        IF kind[w] \in {"RAISED", "ESCALATED"}
        THEN [state |-> "ANOMALOUS", severity |-> SeverityOf(v)]
        ELSE IF kind[w] = "CLEARED" THEN Calm ELSE @]

Emit(w) ==
    /\ pc[w] = "emit"
    /\ \/ /\ view' = Shown(w)
          /\ acked' = Acked(w)
          /\ handled' = handled \cup {cur[w]}
          /\ Goto(w, "commit")
          /\ UNCHANGED <<deadline, faults>>
       \/ \E took, expired \in BOOLEAN :
            /\ CallFails(w, "emit")
            /\ view' = IF took THEN Shown(w) ELSE view
            /\ GivesUp(w, expired)
            /\ Goto(w, "rollback")
            /\ UNCHANGED <<acked, handled>>
    /\ UNCHANGED <<kafkaVars, redisVars, entries, stopping, cur, attempt, undo, kind,
                   dead, envVars>>

\* Mutation: the transition is left in place when the publish fails.
MutRollbackNever(w) ==
    /\ pc[w] = "rollback"
    /\ Goto(w, "release")
    /\ UNCHANGED <<kafkaVars, redisVars, entries, stopping, cur, attempt, undo, kind,
                   deadline, history, envVars, faults>>

\* The deferred StateTracker.Rollback, which runs before the release.
Rollback(w) ==
    /\ pc[w] = "rollback"
    /\ entries' = [entries EXCEPT ![ProcOf[w]][Msg(cur[w]).ch] = RolledBack(@, undo[w])]
    /\ Goto(w, "release")
    /\ UNCHANGED <<kafkaVars, redisVars, stopping, cur, attempt, undo, kind, deadline,
                   history, envVars, faults>>

\* Mutation: the claim of a failed attempt is kept.
MutReleaseNever(w) ==
    /\ pc[w] = "release"
    /\ AfterError(w, deadline[w])
    /\ UNCHANGED <<kafkaVars, redisVars, entries, stopping, cur, undo, kind, deadline,
                   history, envVars, faults>>

\* The deferred ReleaseEvent.  It drops the claim whoever holds it, survives
\* a cancelled context, and its failure is only logged.
Release(w) ==
    /\ pc[w] = "release"
    /\ \/ claims' = claims \ {Coordinate(cur[w])} /\ UNCHANGED faults
       \/ CallFails(w, "release") /\ UNCHANGED claims
    /\ AfterError(w, deadline[w])
    /\ UNCHANGED <<kafkaVars, twin, alarm, entries, stopping, cur, undo, kind, deadline,
                   history, envVars>>

\* Mutation: the last failure is logged and the message is dropped.
MutDeadLetterNever(w) ==
    /\ pc[w] = "dead"
    /\ Goto(w, "commit")
    /\ UNCHANGED <<kafkaVars, redisVars, entries, stopping, cur, attempt, undo, kind,
                   deadline, history, envVars, faults>>

\* processWithRetry after the last attempt.
DeadLetter(w) ==
    /\ pc[w] = "dead"
    /\ DeadLettered(w)
    /\ Goto(w, "commit")
    /\ UNCHANGED <<kafkaVars, redisVars, entries, stopping, cur, attempt, undo, kind,
                   deadline, acked, view, handled, envVars>>

\* Mutation: RunWorker returns on any failed commit.
MutCommitFatal(w) ==
    LET m == cur[w] IN
    /\ pc[w] = "commit"
    /\ \/ /\ committed' = [committed EXCEPT ![m[1]] = m[2]]
          /\ Goto(w, "idle")
          /\ UNCHANGED faults
       \/ CallFails(w, "commit") /\ Goto(w, "stopped") /\ UNCHANGED committed
    /\ UNCHANGED <<log, owner, position, redisVars, entries, stopping, cur, attempt, undo,
                   kind, deadline, history, envVars>>

\* CommitMessages, which RunWorker calls whatever processWithRetry did.  A
\* commit that reports an error may still reach the broker, and the coordinator
\* may refuse a worker that lost the partition.
Commit(w) ==
    LET m == cur[w] IN
    /\ pc[w] = "commit"
    /\ \/ /\ committed' = [committed EXCEPT ![m[1]] = m[2]]
          /\ Goto(w, "idle")
          /\ UNCHANGED faults
       \/ /\ \/ CallFails(w, "commit")
             \/ owner[m[1]] # w /\ UNCHANGED faults
          /\ \E took \in BOOLEAN :
               committed' = IF took THEN [committed EXCEPT ![m[1]] = m[2]] ELSE committed
          /\ Goto(w, IF Stopping(w) THEN "stopped" ELSE "idle")
    /\ UNCHANGED <<log, owner, position, redisVars, entries, stopping, cur, attempt, undo,
                   kind, deadline, history, envVars>>

Work(w) ==
    \/ Fetch(w) \/ Abandon(w) \/ Reject(w) \/ Admit(w) \/ Apply(w) \/ Evaluate(w) \/ Mark(w)
    \/ Emit(w) \/ Rollback(w) \/ Release(w) \/ DeadLetter(w) \/ Commit(w)

-----------------------------------------------------------------------------
(* The environment *)

\* The group moves a partition; the new owner starts at the committed offset.
Rebalance(p) ==
    /\ moves < MaxMoves
    /\ moves' = moves + 1
    /\ \E w \in Workers : w # owner[p] /\ owner' = [owner EXCEPT ![p] = w]
    /\ position' = [position EXCEPT ![p] = committed[p] + 1]
    /\ UNCHANGED <<log, committed, redisVars, entries, stopping, workerVars, history,
                   now, crashes, shutdowns, faults>>

\* A new process in place of q: the tracker starts empty and the workers
\* resume from the committed offsets.  Twin and alarms stay in Redis.
Reborn(q) ==
    /\ entries' = [entries EXCEPT ![q] = [c \in Channels |-> Absent]]
    /\ acked' = [acked EXCEPT ![q] = [c \in Channels |-> Calm]]
    /\ stopping' = stopping \ {q}
    /\ pc' = [w \in Workers |-> IF ProcOf[w] = q THEN "idle" ELSE pc[w]]
    /\ position' = [p \in Partitions |-> IF ProcOf[owner[p]] = q
                                         THEN committed[p] + 1 ELSE position[p]]
    /\ UNCHANGED <<log, owner, committed, twin, alarm, cur, attempt, undo, kind,
                   deadline, view, handled, dead, now, moves, faults>>

\* The group hands out the partitions of a dead member after the session
\* timeout, by when its claims may have run out.
Crash(q) ==
    /\ crashes < MaxCrashes
    /\ crashes' = crashes + 1
    /\ claims' = IF SlowRejoin THEN {} ELSE claims
    /\ UNCHANGED shutdowns
    /\ Reborn(q)

\* SIGTERM: the root context is cancelled ...
Shutdown(q) ==
    /\ shutdowns < MaxShutdowns
    /\ q \notin stopping
    /\ shutdowns' = shutdowns + 1
    /\ stopping' = stopping \cup {q}
    /\ UNCHANGED <<kafkaVars, redisVars, entries, workerVars, history, now, moves,
                   crashes, faults>>

\* ... and the process is replaced once its workers have returned.
Restart(q) ==
    /\ q \in stopping
    /\ \A w \in Workers : ProcOf[w] = q => pc[w] \in {"idle", "stopped"}
    /\ UNCHANGED <<claims, crashes, shutdowns>>
    /\ Reborn(q)

\* IDEMPOTENCY_TTL runs out on a claim.
ClaimExpires ==
    \E c \in claims :
        /\ claims' = claims \ {c}
        /\ UNCHANGED <<kafkaVars, twin, alarm, entries, stopping, workerVars, history,
                       envVars, faults>>

\* The janitor drops a quiet, healthy channel.
Prune(q, c) ==
    /\ Prunable(entries[q][c], now, Idle)
    /\ entries' = [entries EXCEPT ![q][c] = Absent]
    /\ UNCHANGED <<kafkaVars, redisVars, stopping, workerVars, history, envVars, faults>>

\* Time passes between messages: a message is in process for at most
\* ENGINE_OP_TIMEOUT an attempt, far less than the re-alert interval.
Tick ==
    /\ now < MaxTime
    /\ \A w \in Workers : pc[w] = "idle"
    /\ now' = now + 1
    /\ UNCHANGED <<kafkaVars, redisVars, entries, stopping, workerVars, history, moves,
                   crashes, shutdowns, faults>>

Next ==
    \/ \E w \in Workers : Work(w)
    \/ \E p \in Partitions : Rebalance(p)
    \/ \E q \in Procs : Crash(q) \/ Shutdown(q) \/ Restart(q)
    \/ ClaimExpires
    \/ \E q \in Procs, c \in Channels : Prune(q, c)
    \/ Tick

\* A worker goroutine is always scheduled again, and a stopped process is
\* replaced by its supervisor; nothing else is promised.
Fairness ==
    /\ \A w \in Workers : WF_vars(Work(w))
    /\ \A q \in Procs : WF_vars(Restart(q))

Spec == Init /\ [][Next]_vars /\ Fairness

-----------------------------------------------------------------------------
(* Properties *)

TypeOK ==
    /\ owner \in [Partitions -> Workers]
    /\ \A p \in Partitions : /\ position[p] \in 1..(Len(log[p]) + 1)
                             /\ committed[p] \in 0..Len(log[p])
    /\ twin \in [Channels -> [ts: Nat, val: Readings]]
    /\ alarm \in [Channels -> Kinds \cup {NoKind}]
    /\ entries \in [Procs -> [Channels -> Entries \cup {Absent}]]
    /\ attempt \in [Workers -> 0..MaxAttempts]
    /\ undo \in [Workers -> Undos]
    /\ kind \in [Workers -> Kinds \cup {NoKind}]
    /\ handled \subseteq Ids /\ dead \subseteq Ids

Restarted == crashes + shutdowns > 0

InProcess(w) == pc[w] \notin {"idle", "commit", "stopped"}

\* Some worker of q is between Evaluate and the end of a run that emits.
Provisional(q, c) ==
    \E w \in Workers : /\ ProcOf[w] = q
                       /\ pc[w] \in {"mark", "emit", "rollback"}
                       /\ Msg(cur[w]).ch = c

\* engine.go, step 3: a transition is provisional until its mutation is
\* published.  With one owner per channel, whatever fails between Evaluate
\* and the acknowledged publish, the state machine of a process believes
\* exactly the alarms, at exactly the severities, it got acknowledged.
TrackerMatchesAcked ==
    \A q \in Procs, c \in Channels :
        LET st == EntryOf(entries[q][c]) IN
        ~Provisional(q, c) =>
            acked[q][c] = [state |-> st.state, severity |-> st.severity]

\* Still owed: the message will be delivered again, or is being processed.
Owed(m) == \/ m[2] > committed[m[1]]
           \/ \E w \in Workers : InProcess(w) /\ cur[w] = m

Settled(m) == m \in handled \cup dead

\* README, "Failure handling": a message is retried and then dead-lettered.
\* No committed message vanishes: it was processed, it is on the dead-letter
\* topic, or another delivery of the same coordinate was or still will be.
NoSilentLoss ==
    \A m \in Ids :
        m[2] <= committed[m[1]] =>
            \/ Settled(m) \/ Owed(m)
            \/ /\ Msg(m).val # Malformed
               /\ \E n \in Ids : /\ Msg(n).val # Malformed
                                 /\ Coordinate(n) = Coordinate(m)
                                 /\ Settled(n) \/ Owed(n)

\* cache.go, Apply, and README, "Failure handling": the twin misses no committed
\* reading.  Late, repeated or moved to another worker, and whether its write
\* failed or only lost the reply, a reading whose offset is committed is in the
\* twin or superseded there by a newer one of its channel, unless its coordinate
\* was dead-lettered or is still owed.
TwinComplete ==
    \A m \in Ids :
        m[2] <= committed[m[1]] /\ Msg(m).val # Malformed =>
            \/ Msg(m).ts <= twin[Msg(m).ch].ts
            \/ \E n \in Ids : /\ Msg(n).val # Malformed
                              /\ Coordinate(n) = Coordinate(m)
                              /\ n \in dead \/ Owed(n)

Quiescent == /\ \A w \in Workers : pc[w] = "idle"
             /\ \A p \in Partitions : position[p] > Len(log[p])

Alarmed(c) == \E q \in Procs : EntryOf(entries[q][c]).state = "ANOMALOUS"

\* engine.go, step 3: no alarm is lost "without even a dead letter to show for
\* it".  Once every message has been handled and none was dead-lettered or
\* delivered to a restarted process, the mutation topic, the alarm hash in
\* Redis and the state machine tell the same story, whatever calls failed or
\* half-succeeded on the way.
AlarmVisible ==
    Quiescent /\ dead = {} /\ ~Restarted =>
        \A c \in Channels : /\ Alarmed(c) <=> view[c] = "open"
                            /\ Alarmed(c) <=> alarm[c] # NoKind

\* The same comment, for partitions that may move: an alarm the state machine
\* holds, with nothing dead-lettered, is open on the mutation topic.
NoAlarmLost ==
    Quiescent /\ dead = {} => \A c \in Channels : Alarmed(c) => view[c] = "open"

\* engine.go, processWithRetry: no failing dependency wedges a partition; the
\* workers get to the end of every partition and stay there.
Drains == <>[]Quiescent

=============================================================================
