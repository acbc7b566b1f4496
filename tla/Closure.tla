------------------------------ MODULE Closure ------------------------------
(***************************************************************************)
(* From a mutation to its commands: the consumer loop and the closure      *)
(* pipeline of the command worker (command_worker.py), the intercept       *)
(* endpoint of the AI interceptor (app/main.py) and the plan store it      *)
(* keeps in Redis (app/idempotency.py).                                    *)
(*                                                                         *)
(* Workers consume one partition of ontology.mutations; callers run the    *)
(* same pipeline on demand (POST /v1/commands).  The interceptor asks the  *)
(* store for the event's plan, infers one on a miss, stores it if absent   *)
(* and answers with its own.  It keeps working on a request whose caller   *)
(* has timed out or died (an orphan).                                      *)
(*                                                                         *)
(* A record is its offset and event; its body is reduced to the first      *)
(* check it fails.  A plan is its list of actions, and whether the body    *)
(* that carries it parses as an ActionPlan.  A command is identified, as   *)
(* for the executors, by event, sequence and action.  Pacing only delays   *)
(* a call and is left out; the store's TTL exceeds any redelivery.         *)
(***************************************************************************)
EXTENDS Naturals, Sequences

CONSTANTS
    Workers, Callers,
    Last,          \* the last offset of the partition
    Logs,          \* the partition's possible contents: the body of every record
    Actions,       \* what a step of a plan may ask for
    Plans,         \* what the planner may answer
    NoPlan,        \* no record in the store
    Unsupported,   \* an action the actuation contract does not know
    MaxCommands,   \* OO_MAX_COMMANDS
    MaxAttempts,   \* OO_MAX_ATTEMPTS
    Faulty,        \* the calls that can fail
    MaxUpsets      \* bound on failed calls, partition moves, crashes and calls
                   \* over HTTP together

\* ok: passes every check; notjson: _decode; refused: the gatekeeper;
\* invalid: MutationEnvelope; rejected: 400, 413 or 422 of the interceptor.
BodyKinds == {"ok", "notjson", "refused", "invalid", "rejected"}

ASSUME ClosureAssumption ==
    /\ Workers \cap Callers = {} /\ Workers # {}
    /\ Last \in Nat /\ MaxCommands \in Nat \ {0} /\ MaxAttempts \in Nat \ {0}
    /\ Logs \subseteq [1..Last -> BodyKinds]
    /\ NoPlan \notin Plans /\ Plans # {}
    /\ \A p \in Plans : /\ p.conforms \in BOOLEAN
                         /\ p.steps \in Seq(Actions) /\ p.steps # <<>>
    /\ Faulty \subseteq {"poll", "call", "get", "infer", "put", "reply", "publish",
                         "dlq", "commit"}

VARIABLES
    \* Kafka
    body,       \* offset -> body of the record
    owner,      \* the worker that owns the partition
    position,   \* the next offset it reads
    committed,  \* the group's committed offset
    \* the interceptor
    store,      \* event -> stored plan
    orphans,    \* requests nobody waits for: [event, stage, plan]
    \* workers and callers
    pc, cur, attempt, plan,
    next,       \* index of the next command to publish
    \* history
    issued,     \* commands on ontology.commands, by command_id
    dead,       \* events on the dead-letter topic
    dropped,    \* events whose dead letter failed (dlq_failures)
    raced,      \* events whose plan was not stored, or planned twice at once
    \* environment
    upsets

kafkaVars == <<body, owner, position, committed>>
actorVars == <<pc, cur, attempt, plan, next>>
history   == <<issued, dead, dropped, raced>>

vars == <<kafkaVars, store, orphans, actorVars, history, upsets>>

Events == 1..Last

Actors == Workers \cup Callers

-----------------------------------------------------------------------------

Init ==
    /\ body \in Logs
    /\ owner = CHOOSE w \in Workers : TRUE      \* they are alike
    /\ position = 1 /\ committed = 0
    /\ store = [e \in Events |-> NoPlan]
    /\ orphans = {}
    /\ pc = [a \in Actors |-> "idle"]
    /\ cur = [a \in Actors |-> 0]
    /\ attempt = [a \in Actors |-> 0]
    /\ plan = [a \in Actors |-> NoPlan]
    /\ next = [a \in Actors |-> 1]
    /\ issued = {} /\ dead = {} /\ dropped = {} /\ raced = {}
    /\ upsets = 0

Upset == upsets < MaxUpsets /\ upsets' = upsets + 1

CallFails(op) == op \in Faulty /\ Upset

Goto(a, label) == pc' = [pc EXCEPT ![a] = label]

\* The record is left; what was local to its handling is gone.
Leave(a, label) ==
    /\ Goto(a, label)
    /\ cur' = [cur EXCEPT ![a] = 0]
    /\ attempt' = [attempt EXCEPT ![a] = 0]
    /\ plan' = [plan EXCEPT ![a] = NoPlan]
    /\ next' = [next EXCEPT ![a] = 1]

\* Mutation: the attempts are not counted.
MutAfterErrorForever(a) ==
    Goto(a, "call") /\ attempt' = [attempt EXCEPT ![a] = @ + 1]

\* retry_async after a retryable InterceptorError: another attempt, or the
\* TransientFailure of close_loop.
AfterError(a) ==
    IF attempt[a] < MaxAttempts
    THEN Goto(a, "call") /\ attempt' = [attempt EXCEPT ![a] = @ + 1]
    ELSE Goto(a, "rewind") /\ UNCHANGED attempt

-----------------------------------------------------------------------------
(* The consumer loop up to the interceptor *)

\* The next record, _decode, authorize and the contract check.
Consume(w) ==
    /\ pc[w] = "idle" /\ owner = w /\ position <= Last
    /\ cur' = [cur EXCEPT ![w] = position]
    /\ position' = position + 1
    /\ attempt' = [attempt EXCEPT ![w] = 1]
    /\ Goto(w, IF body[position] \in {"ok", "rejected"} THEN "call" ELSE "dead")
    /\ UNCHANGED <<body, owner, committed, store, orphans, plan, next, history, upsets>>

\* issue_commands: the same pipeline for a caller's record.
IssueCommands(c) ==
    /\ pc[c] = "idle" /\ Upset
    /\ \E e \in Events :
         /\ body[e] \in {"ok", "rejected"}
         /\ cur' = [cur EXCEPT ![c] = e]
    /\ attempt' = [attempt EXCEPT ![c] = 1]
    /\ Goto(c, "call")
    /\ UNCHANGED <<kafkaVars, store, orphans, plan, next, history>>

\* HttpInterceptorClient.plan sends the request.  A 429, a 5xx or a broken
\* transport is worth another attempt, a refused key or a wrong path is not.
Call(a) ==
    /\ pc[a] = "call"
    /\ \/ Goto(a, IF body[cur[a]] = "rejected" THEN "dead" ELSE "get")
          /\ UNCHANGED <<attempt, upsets>>
       \/ CallFails("call") /\ AfterError(a)
       \/ CallFails("call") /\ Goto(a, "rewind") /\ UNCHANGED attempt
    /\ UNCHANGED <<kafkaVars, store, orphans, cur, plan, next, history>>

-----------------------------------------------------------------------------
(* The interceptor *)

\* Somebody is between a miss and the end of its write for e.
Planning(e) ==
    \/ \E a \in Actors : cur[a] = e /\ pc[a] \in {"infer", "put"}
    \/ \E o \in orphans : o.event = e /\ o.stage \in {"infer", "put"}

Missed(e) == raced' = IF Planning(e) THEN raced \cup {e} ELSE raced

\* translate_plan looks at the first MaxCommands actions.
Commands(p) == SubSeq(p.steps, 1, IF Len(p.steps) < MaxCommands
                                  THEN Len(p.steps) ELSE MaxCommands)

Supported(p) == \A i \in 1..Len(Commands(p)) : Commands(p)[i] # Unsupported

\* The answer reaches the client.  A body that is no ActionPlan raises a
\* ValidationError, which is a ValueError: it is taken for a mangled body and
\* retried.  An unsupported action is permanent.
Answered(a, p) ==
    /\ plan' = [plan EXCEPT ![a] = p]
    /\ next' = [next EXCEPT ![a] = 1]
    /\ IF ~p.conforms THEN AfterError(a)
       ELSE Goto(a, IF Supported(p) THEN "publish" ELSE "dead") /\ UNCHANGED attempt

\* Mutation: a store that cannot be read counts as a miss.
MutStoreGetOpen(a) ==
    LET e == cur[a] IN
    /\ pc[a] = "get"
    /\ \/ /\ store[e] = NoPlan
          /\ Missed(e)
          /\ Goto(a, "infer")
          /\ UNCHANGED <<attempt, plan, next, upsets>>
       \/ /\ store[e] # NoPlan
          /\ Answered(a, store[e])
          /\ UNCHANGED <<raced, upsets>>
       \/ CallFails("get") /\ Goto(a, "infer") /\ UNCHANGED <<attempt, plan, next, raced>>
    /\ UNCHANGED <<kafkaVars, store, orphans, cur, issued, dead, dropped>>

\* RedisPlanStore.get, which fails closed (503).
StoreGet(a) ==
    LET e == cur[a] IN
    /\ pc[a] = "get"
    /\ \/ /\ store[e] = NoPlan
          /\ Missed(e)
          /\ Goto(a, "infer")
          /\ UNCHANGED <<attempt, plan, next, upsets>>
       \/ /\ store[e] # NoPlan
          /\ Answered(a, store[e])
          /\ UNCHANGED <<raced, upsets>>
       \/ CallFails("get") /\ AfterError(a) /\ UNCHANGED <<plan, next, raced>>
    /\ UNCHANGED <<kafkaVars, store, orphans, cur, issued, dead, dropped>>

\* RemediationPlanner.plan, or its PlannerError (502).
Infer(a) ==
    /\ pc[a] = "infer"
    /\ \/ /\ \E p \in Plans : plan' = [plan EXCEPT ![a] = p]
          /\ Goto(a, "put")
          /\ UNCHANGED <<attempt, upsets>>
       \/ CallFails("infer") /\ AfterError(a) /\ UNCHANGED plan
    /\ UNCHANGED <<kafkaVars, store, orphans, cur, next, history>>

\* SET NX: the first writer wins.
Stored(e, p) == IF store[e] = NoPlan THEN [store EXCEPT ![e] = p] ELSE store

\* RedisPlanStore.put never raises, and the endpoint answers with the plan it
\* inferred, whatever is in the store.
StorePut(a) ==
    LET e == cur[a] IN
    /\ pc[a] = "put"
    /\ \/ store' = Stored(e, plan[a]) /\ UNCHANGED <<raced, upsets>>
       \/ /\ CallFails("put")
          /\ raced' = raced \cup {e}
          /\ \/ store' = Stored(e, plan[a])
             \/ UNCHANGED store
    /\ Answered(a, plan[a])
    /\ UNCHANGED <<kafkaVars, orphans, cur, issued, dead, dropped>>

AtInterceptor(a) == pc[a] \in {"get", "infer", "put"}

Request(a) == [event |-> cur[a], stage |-> pc[a],
               plan |-> IF pc[a] = "put" THEN plan[a] ELSE NoPlan]

\* The client times out, or the connection breaks, before the answer.
TimeOut(a) ==
    /\ AtInterceptor(a)
    /\ CallFails("reply")
    /\ orphans' = orphans \cup {Request(a)}
    /\ AfterError(a)
    /\ plan' = [plan EXCEPT ![a] = NoPlan]
    /\ UNCHANGED <<kafkaVars, store, cur, next, history>>

\* An orphan goes on, and ends with the store.
Orphan ==
    \E o \in orphans :
        /\ \/ /\ o.stage = "get" /\ store[o.event] = NoPlan
              /\ Missed(o.event)
              /\ orphans' = (orphans \ {o}) \cup {[o EXCEPT !.stage = "infer"]}
              /\ UNCHANGED store
           \/ /\ o.stage = "get" /\ store[o.event] # NoPlan
              /\ orphans' = orphans \ {o}
              /\ UNCHANGED <<store, raced>>
           \/ /\ o.stage = "infer"
              /\ \E p \in Plans : orphans' = (orphans \ {o})
                                    \cup {[o EXCEPT !.stage = "put", !.plan = p]}
              /\ UNCHANGED <<store, raced>>
           \/ /\ o.stage = "put"
              /\ store' = Stored(o.event, o.plan)
              /\ orphans' = orphans \ {o}
              /\ UNCHANGED raced
        /\ UNCHANGED <<kafkaVars, actorVars, issued, dead, dropped, upsets>>

-----------------------------------------------------------------------------
(* Publication and the end of a record *)

Command(a) == [event |-> cur[a], sequence |-> next[a],
               action |-> Commands(plan[a])[next[a]]]

\* CommandPublisher.publish, its own attempts included: a failure may have
\* left the command on the topic and ends the batch.
Publish(a) ==
    /\ pc[a] = "publish"
    /\ \/ /\ issued' = issued \cup {Command(a)}
          /\ next' = [next EXCEPT ![a] = @ + 1]
          /\ Goto(a, IF next[a] = Len(Commands(plan[a])) THEN "commit" ELSE "publish")
          /\ UNCHANGED upsets
       \/ /\ CallFails("publish")
          /\ \/ issued' = issued \cup {Command(a)}
             \/ UNCHANGED issued
          /\ Goto(a, "rewind")
          /\ UNCHANGED next
    /\ UNCHANGED <<kafkaVars, store, orphans, cur, attempt, plan, dead, dropped, raced>>

\* dead_letter, whose own failure is logged and swallowed.
DeadLetter(w) ==
    /\ pc[w] = "dead"
    /\ \/ dead' = dead \cup {cur[w]} /\ UNCHANGED <<dropped, upsets>>
       \/ CallFails("dlq") /\ dropped' = dropped \cup {cur[w]} /\ UNCHANGED dead
    /\ Goto(w, "commit")
    /\ UNCHANGED <<kafkaVars, store, orphans, cur, attempt, plan, next, issued, raced>>

\* Mutation: the failed record is not read again.
MutRewindSkips(w) ==
    /\ pc[w] = "rewind"
    /\ Leave(w, "idle")
    /\ UNCHANGED <<kafkaVars, store, orphans, history, upsets>>

\* _rewind: seek back, unless the partition was revoked in the meantime.
Rewind(w) ==
    /\ pc[w] = "rewind"
    /\ position' = IF owner = w THEN cur[w] ELSE position
    /\ Leave(w, "idle")
    /\ UNCHANGED <<body, owner, committed, store, orphans, history, upsets>>

\* Mutation: an error of the commit ends the worker.
MutCommitFatal(w) ==
    /\ pc[w] = "commit"
    /\ \/ /\ owner = w
          /\ committed' = cur[w]
          /\ Leave(w, "idle")
          /\ UNCHANGED upsets
       \/ CallFails("commit") /\ Leave(w, "stopped") /\ UNCHANGED committed
       \/ owner # w /\ Leave(w, "reconnect") /\ UNCHANGED <<committed, upsets>>
    /\ UNCHANGED <<body, owner, position, store, orphans, history>>

\* consumer.commit: refused to a member that lost the partition; a failure
\* may have reached the coordinator.
Commit(w) ==
    /\ pc[w] = "commit"
    /\ \/ /\ owner = w
          /\ committed' = cur[w]
          /\ Leave(w, "idle")
          /\ UNCHANGED upsets
       \/ /\ owner = w
          /\ CallFails("commit")
          /\ committed' \in {cur[w], committed}
          /\ Leave(w, "reconnect")
       \/ owner # w /\ Leave(w, "reconnect") /\ UNCHANGED <<committed, upsets>>
    /\ UNCHANGED <<body, owner, position, store, orphans, history>>

\* The consumer loop fails between records.
PollFails(w) ==
    /\ pc[w] = "idle"
    /\ CallFails("poll")
    /\ Goto(w, "reconnect")
    /\ UNCHANGED <<kafkaVars, store, orphans, cur, attempt, plan, next, history>>

\* A new consumer starts at the committed offset.
Reconnect(w) ==
    /\ pc[w] = "reconnect"
    /\ position' = IF owner = w THEN committed + 1 ELSE position
    /\ Goto(w, "idle")
    /\ UNCHANGED <<body, owner, committed, store, orphans, cur, attempt, plan, next,
                   history, upsets>>

\* The HTTP response: a batch, a 4xx or a 503.
Respond(c) ==
    /\ pc[c] \in {"commit", "dead", "rewind"}
    /\ Leave(c, "idle")
    /\ UNCHANGED <<kafkaVars, store, orphans, history, upsets>>

-----------------------------------------------------------------------------
(* The environment *)

Rebalance ==
    /\ Upset
    /\ \E w \in Workers \ {owner} : owner' = w
    /\ position' = committed + 1
    /\ UNCHANGED <<body, committed, store, orphans, actorVars, history>>

\* The worker's process dies, or its task is cancelled, and it starts anew.
Crash(w) ==
    /\ Upset
    /\ orphans' = IF AtInterceptor(w) THEN orphans \cup {Request(w)} ELSE orphans
    /\ Leave(w, "reconnect")
    /\ UNCHANGED <<kafkaVars, store, history>>

Pipeline(a) == Call(a) \/ StoreGet(a) \/ Infer(a) \/ StorePut(a) \/ TimeOut(a) \/ Publish(a)

Run(w) == \/ Consume(w) \/ Pipeline(w) \/ DeadLetter(w) \/ Rewind(w)
          \/ Commit(w) \/ PollFails(w) \/ Reconnect(w)

Next ==
    \/ \E w \in Workers : Run(w) \/ Crash(w)
    \/ \E c \in Callers : IssueCommands(c) \/ Pipeline(c) \/ Respond(c)
    \/ Orphan
    \/ Rebalance

\* A worker's task is always scheduled again and the interceptor answers or
\* times out; nothing is promised of callers and orphans.
Spec == Init /\ [][Next]_vars /\ \A w \in Workers : WF_vars(Run(w))

-----------------------------------------------------------------------------
(* Properties *)

TypeOK ==
    /\ owner \in Workers
    /\ position \in 1..(Last + 1) /\ committed \in 0..Last
    /\ store \in [Events -> Plans \cup {NoPlan}]
    /\ orphans \subseteq [event: Events, stage: {"get", "infer", "put"},
                          plan: Plans \cup {NoPlan}]
    /\ cur \in [Actors -> 0..Last]
    /\ attempt \in [Actors -> 0..MaxAttempts]
    /\ plan \in [Actors -> Plans \cup {NoPlan}]
    /\ dead \subseteq Events /\ dropped \subseteq Events /\ raced \subseteq Events

CommandsOf(e) == {c \in issued : c.event = e}

\* All of p's commands for e are on the topic.
Complete(e, p) ==
    \A i \in 1..Len(Commands(p)) :
        [event |-> e, sequence |-> i, action |-> Commands(p)[i]] \in issued

Accounted(e) ==
    \/ e \in dead \cup dropped
    \/ \E p \in Plans : Supported(p) /\ Complete(e, p)

\* CommandWorker: offsets are committed "only after a message is fully
\* handled".  Whatever failed, moved or crashed, a committed mutation has all
\* the commands of some plan on the topic, or a dead letter, or was counted as
\* a failed dead letter.
NoSilentLoss == \A e \in 1..committed : Accounted(e)

\* CommandWorker: with deterministic command ids "the effective downstream
\* behaviour is exactly-once".  An executor that keys on command_id sees the
\* commands of at most one plan for every event.
OnePlan ==
    \A e \in Events : \E p \in Plans :
        \A c \in CommandsOf(e) : /\ c.sequence <= Len(Commands(p))
                                 /\ Commands(p)[c.sequence] = c.action

\* README, "Known limits": the plan store "closes the sequential case
\* completely".  Unless a write to the store failed or two requests were
\* planning an event at once, redeliveries, retries, replays over HTTP,
\* crashes and moves never mix two plans.
OnePlanUnlessRaced ==
    \A e \in Events \ raced : \E p \in Plans :
        \A c \in CommandsOf(e) : /\ c.sequence <= Len(Commands(p))
                                 /\ Commands(p)[c.sequence] = c.action

\* PermanentMessageError: "a poison pill must not be allowed to block a
\* partition forever".  The partition is read to its end, every mutation is
\* closed into its commands or dead-lettered, and the workers come to rest.
LoopCloses ==
    <>[](/\ position = Last + 1
         /\ \A w \in Workers : pc[w] = "idle"
         /\ \A e \in Events : Accounted(e))

=============================================================================
