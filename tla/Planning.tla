------------------------------ MODULE Planning ------------------------------
(***************************************************************************)
(* From a mutation to the commands on ontology.commands: the stub planner  *)
(* of the command worker, the offline planner of the AI interceptor        *)
(* (llm.py), and the GraphRAG interceptor behind its bridge (bridge.py,    *)
(* service.py, graphrag_interceptor.py): projection, kernel, the two       *)
(* agents with their retries, retrieval, guardrails, command cache.        *)
(*                                                                         *)
(* One event, asked for by several requests at once: deliveries of the     *)
(* worker, and native callers of POST /v1/graphrag/intercept.  A request   *)
(* runs to its next await in one step.  Steps are [actor, rev] in order    *)
(* (numbers that are not 1..n are refused, and guardrails renumber); the   *)
(* prose, targets of steps and confidences are left out.                   *)
(***************************************************************************)
EXTENDS GraphKernel

LOCAL INSTANCE SequencesExt

CONSTANTS
    Workers,        \* deliveries of the event to the command worker
    Natives,        \* native callers
    Events,         \* the event with the settings that handle it
    Retrievals,     \* supplementary chunks a search may return together
    MaxSteps,       \* max_isolation_steps
    MaxCommands,    \* max_commands
    MaxAttempts,    \* agent_max_attempts
    MaxAsked,       \* bound: a delivery asks so often, a native caller once
    MaxForgets

Requests == Workers \cup Natives

ASSUME PlanningAssumption ==
    /\ Workers \cap Natives = {}
    /\ MaxSteps \in Nat \ {0} /\ MaxCommands \in Nat \ {0} /\ MaxAttempts \in Nat \ {0}
    /\ MaxAsked \in Nat \ {0} /\ MaxForgets \in Nat

VARIABLES
    event,      \* the event
    payload,    \* what each request brings to the GraphRAG interceptor
    analysis,   \* what the kernel, a pure function, derives from it
    req,        \* state of every request
    found,      \* history: the store answers the same query the same way
    cache,      \* CommandCache: the entry of the event
    forgets

given == <<event, payload, analysis>>

vars == <<given, req, found, cache, forgets>>

Nothing == [kind |-> "nothing"]

Step(actor, rev) == [actor |-> actor, rev |-> rev]
Actors == {"HUMAN_TECHNICIAN", "HUMAN_SUPERVISOR", "ROBOTIC_ACTUATOR", "CONTROL_SYSTEM"}

Range2(s) == {s[i] : i \in DOMAIN s}

\* The elements of s at the positions I, in order.
Picked(s, I) ==
    [k \in 1..Cardinality(I) |-> s[CHOOSE i \in I : Cardinality({j \in I : j <= i}) = k]]

\* Mutation: one too many is kept.
MutCut(s, n) == IF Len(s) <= n THEN s ELSE SubSeq(s, 1, n + 1)

Cut(s, n) == IF Len(s) <= n THEN s ELSE SubSeq(s, 1, n)

-----------------------------------------------------------------------------
(* Projection of a mutation *)

\* A node id the bridge cannot map is dropped.
ValidNode(n) == n # "?"

\* Valid, new, and not the asset; nearest first.
FlowIds(entries, asset) ==
    FoldLeft(LAMBDA out, n : IF ValidNode(n) /\ n # asset /\ n \notin Range2(out)
                             THEN Append(out, n) ELSE out,
             <<>>, entries)

\* The trigger is written last: it wins over its copy in the snapshot.
Channels(e) ==
    LET own == IF e.trigger.channel = "" THEN {} ELSE {e.trigger.channel} IN
    [c \in DOMAIN e.readings \cup own |->
        IF c \in own THEN e.trigger.value ELSE e.readings[c]]

StatusFor(e) ==
    IF e.degraded THEN "UNKNOWN"
    ELSE IF e.severity \in {"CRITICAL", "HIGH"} THEN "ALARM" ELSE "OPERATIONAL"

\* Mutation: the replicas that hold the asset live are enough.
MutObservations(e) ==
    [r \in {k \in DOMAIN e.obs : e.obs[k].add > e.obs[k].rem} |-> e.obs[r]]

\* A replica without a name is dropped.
Observations(e) == [r \in {k \in DOMAIN e.obs : k # ""} |-> e.obs[r]]

\* A node on both sides of the asset stays downstream.
Projected(e) ==
    LET down == Range2(FlowIds(e.downstream, e.asset))
        up == FlowIds(e.upstream, e.asset) IN
    [asset |-> e.asset, parent |-> e.parent, status |-> StatusFor(e), down |-> down,
     up |-> Picked(up, {i \in DOMAIN up : up[i] \notin down}),
     health |-> << >>, attributed |-> << >>, local |-> Channels(e),
     obs |-> Observations(e)]

\* A native caller also knows its neighbours.
Payload(e, q) ==
    IF q \in Workers THEN Projected(e)
    ELSE [Projected(e) EXCEPT !.health = e.health, !.attributed = e.attributed]

ASSUME EventAssumption == \A e \in Events, q \in Requests : Shaped(Payload(e, q))

\* The engine does not start a replica without REPLICA_ID: those of a tie have names.
ASSUME ReplicaAssumption == \A e \in Events : Contested(e.obs) => "" \notin DOMAIN e.obs

-----------------------------------------------------------------------------
(* The maintenance corpus *)

ROT004 == <<Step("CONTROL_SYSTEM", TRUE), Step("ROBOTIC_ACTUATOR", TRUE),
            Step("HUMAN_TECHNICIAN", TRUE)>>
THM011 == <<Step("HUMAN_SUPERVISOR", TRUE), Step("CONTROL_SYSTEM", FALSE),
            Step("ROBOTIC_ACTUATOR", FALSE), Step("HUMAN_TECHNICIAN", TRUE)>>
CAS021 == <<Step("CONTROL_SYSTEM", TRUE), Step("ROBOTIC_ACTUATOR", TRUE),
            Step("HUMAN_TECHNICIAN", TRUE)>>
DEG008 == <<Step("CONTROL_SYSTEM", TRUE), Step("HUMAN_TECHNICIAN", TRUE)>>
HEX017 == <<Step("CONTROL_SYSTEM", TRUE), Step("HUMAN_TECHNICIAN", TRUE)>>
CTL009 == <<Step("CONTROL_SYSTEM", TRUE), Step("HUMAN_TECHNICIAN", TRUE)>>
BLR002 == <<Step("CONTROL_SYSTEM", TRUE), Step("HUMAN_SUPERVISOR", TRUE)>>
CRDT014 == <<Step("CONTROL_SYSTEM", TRUE), Step("HUMAN_SUPERVISOR", TRUE)>>
LOTO006 == <<Step("HUMAN_TECHNICIAN", TRUE), Step("HUMAN_TECHNICIAN", TRUE)>>
CLS001 == <<Step("HUMAN_TECHNICIAN", TRUE), Step("HUMAN_SUPERVISOR", TRUE)>>

Corpus ==
    [ROT |-> ROT004, THM |-> THM011, CAS |-> CAS021, DEG |-> DEG008, HEX |-> HEX017,
     CTL |-> CTL009, BLR |-> BLR002, CRDT |-> CRDT014, LOTO |-> LOTO006, CLS |-> CLS001]

\* The actions a lead procedure applies to.
Applicable ==
    [ROT |-> {"ISOLATE_VALVE", "DEGRADE_THROTTLE"}, THM |-> {"EMERGENCY_SHUTDOWN"},
     CAS |-> {"ISOLATE_VALVE", "EMERGENCY_SHUTDOWN"}, DEG |-> {"DEGRADE_THROTTLE"},
     HEX |-> {"DEGRADE_THROTTLE", "ISOLATE_VALVE"}, CTL |-> {"DEGRADE_THROTTLE"}]

\* Mutation: the best-ranked procedure leads, whatever action it is for.
MutLeads(action) == {d \in DOMAIN Applicable : Applicable[d] # {}} \cup {"none"}

\* Ranking is by similarity: any applicable procedure may lead, or none be found.
Leads(action) == {d \in DOMAIN Applicable : action \in Applicable[d]} \cup {"none"}

Procedure(d) == IF d = "none" THEN <<Step("CONTROL_SYSTEM", TRUE)>> ELSE Corpus[d]

Found(lead, chunks) == [lead |-> lead, chunks |-> chunks]

Query(v) == <<v.class, v.hint, v.contested \/ v.diverging>>

\* Mutation: equal scores are not broken by doc_id.
MutSearch(v) == {Found(d, chunks) : d \in Leads(v.hint), chunks \in Retrievals}

\* "identical payloads retrieve identically".  What a live model was shown is not
\* kept: its plan is any plan.
Search(v) ==
    LET earlier == {f.docs : f \in {g \in found : g.query = Query(v)}} IN
    IF event.cloud THEN {Found("none", {})}
    ELSE IF earlier # {} THEN earlier
    ELSE {Found(d, chunks) : d \in Leads(v.hint), chunks \in Retrievals}

-----------------------------------------------------------------------------
(* The agents *)

\* _topology_verdict
Verdict(a) ==
    [class |-> a.class, root |-> a.root, path |-> a.cascade, hint |-> a.action,
     permitted |-> a.permitted, trust |-> a.trust, contested |-> a.contested,
     diverging |-> a.diverging]

\* A live model may also be wrong: trust the graph, blame another node, leave
\* the graph, forget the path.
AgentVerdicts(a, nodes) ==
    LET v == Verdict(a) IN
    IF ~event.cloud THEN {v}
    ELSE {v, [v EXCEPT !.permitted = TRUE, !.trust = 100, !.hint = "EMERGENCY_SHUTDOWN"],
          [v EXCEPT !.class = "INHERITED_CASCADE", !.path = <<>>]}
         \cup {[v EXCEPT !.root = n] : n \in nodes \cup {"outside"}}

ValidVerdict(v, nodes) ==
    /\ {v.root} \cup Range2(v.path) \subseteq nodes
    /\ v.class = "INHERITED_CASCADE" => v.path # <<>>

\* Reconcile, protect the consumers, act, lock out; the closure survives the cut.
Assembled(p, v, d) ==
    LET part(chunk, wanted) == IF chunk \in d.chunks /\ wanted THEN Corpus[chunk] ELSE <<>>
        closure == part("CLS", TRUE)
        steps == part("CRDT", v.contested \/ v.diverging \/ v.trust < 75)
                 \o part("BLR", p.down # {})
                 \o Procedure(d.lead)
                 \o part("LOTO", v.hint \in {"ISOLATE_VALVE", "EMERGENCY_SHUTDOWN"})
        budget == IF MaxSteps - Len(closure) < 1 THEN 1 ELSE MaxSteps - Len(closure)
    IN Cut(steps, budget) \o closure

SomeIrreversible(steps) == \E i \in DOMAIN steps : ~steps[i].rev

\* _action_plan
ActionPlan(p, a, v, d) ==
    LET steps == Assembled(p, v, d) IN
    [action |-> v.hint, target |-> v.root, priority |-> a.priority, steps |-> steps,
     auth |-> \/ Irreversible(v.hint) \/ a.priority = "CRITICAL"
              \/ v.trust < 75 \/ SomeIrreversible(steps)]

\* A live model may plan anything the schema allows, and target a node outside.
AgentPlans(p, a, v, d) ==
    IF ~event.cloud THEN {ActionPlan(p, a, v, d)}
    ELSE [action: Actions, target: {v.root, p.asset, "outside"}, priority: Priorities,
          steps: {<<Step("CONTROL_SYSTEM", FALSE)>>,
                  [i \in 1..(MaxSteps + 1) |->
                    Step(IF i > MaxSteps THEN "HUMAN_SUPERVISOR" ELSE "HUMAN_TECHNICIAN", TRUE)]},
          auth: BOOLEAN]

ValidPlan(plan, nodes) == plan.target \in nodes

-----------------------------------------------------------------------------
(* _enforce_safety_invariants *)

\* 1, 2. Redirected to the root cause; no irreversible action on an untrusted graph.
Downgraded(plan, v) ==
    LET reversible == Picked(plan.steps, {i \in DOMAIN plan.steps : plan.steps[i].rev})
        untrusted == ~v.permitted \/ v.trust < MinTrust
    IN IF Irreversible(plan.action) /\ untrusted
       THEN [plan EXCEPT !.target = v.root, !.action = "DEGRADE_THROTTLE",
                         !.steps = IF reversible = <<>> THEN Procedure("none") ELSE reversible]
       ELSE [plan EXCEPT !.target = v.root]

\* Mutation: a ROUTINE plan for a CRITICAL event stays ROUTINE.
MutRaised(plan, a) ==
    IF Irreversible(plan.action) THEN [plan EXCEPT !.priority = "CRITICAL"] ELSE plan

\* 3, 4. Irreversible is CRITICAL; a CRITICAL event is not ROUTINE.
Raised(plan, a) ==
    IF Irreversible(plan.action) THEN [plan EXCEPT !.priority = "CRITICAL"]
    ELSE IF a.priority = "CRITICAL" /\ plan.priority = "ROUTINE"
    THEN [plan EXCEPT !.priority = "HIGH"]
    ELSE plan

Supervised(steps) == \E i \in DOMAIN steps : steps[i].actor = "HUMAN_SUPERVISOR"

HandOver(steps) ==
    IF Supervised(steps) THEN steps ELSE Append(steps, Step("HUMAN_SUPERVISOR", TRUE))

\* Mutation: the handover is appended before the sequence is truncated.
MutClosed(plan) == [plan EXCEPT !.steps = Cut(HandOver(plan.steps), MaxSteps)]

\* 5, 6. Truncated, then handed to a supervisor.
Closed(plan) == [plan EXCEPT !.steps = HandOver(Cut(plan.steps, MaxSteps))]

\* 7. A human authorises irreversible and critical work, and an untrusted graph.
Authorised(plan, v) ==
    [plan EXCEPT !.auth = \/ plan.auth
                          \/ Irreversible(plan.action) \/ SomeIrreversible(plan.steps)
                          \/ plan.priority = "CRITICAL" \/ v.trust < MinTrust]

Guarded(plan, v, a) == Authorised(Closed(Raised(Downgraded(plan, v), a)), v)

-----------------------------------------------------------------------------
(* Envelopes for the worker *)

Command(action, priority) == [action |-> action, priority |-> priority]

Headline == [ISOLATE_VALVE |-> "ISOLATE", EMERGENCY_SHUTDOWN |-> "SHUTDOWN",
             DEGRADE_THROTTLE |-> "SHIFT_SPEED"]

ReversibleStepAction ==
    [CONTROL_SYSTEM |-> "SHIFT_SPEED", ROBOTIC_ACTUATOR |-> "SHIFT_SPEED",
     HUMAN_SUPERVISOR |-> "NOTIFY", HUMAN_TECHNICIAN |-> "INSPECT"]

\* Mutation: authorisation is asked for irreversible headlines only.
MutToPlan(r) ==
    [commands |-> [i \in DOMAIN r.steps |->
        Command(IF r.steps[i].rev THEN ReversibleStepAction[r.steps[i].actor]
                ELSE Headline[r.action], r.priority)],
     escalate |-> Irreversible(r.action)]

\* action_to_plan: only an irreversible step carries the headline action.
ToPlan(r) ==
    [commands |-> [i \in DOMAIN r.steps |->
        Command(IF r.steps[i].rev THEN ReversibleStepAction[r.steps[i].actor]
                ELSE Headline[r.action], r.priority)],
     escalate |-> r.auth]

\* StubInterceptor.plan, before it looks at the context.
StubActions(e) ==
    IF e.transition = "CLEARED" THEN <<Command("ACKNOWLEDGE", "LOW")>>
    ELSE CASE e.severity = "CRITICAL" ->
                <<Command(IF e.thermal THEN "SHUTDOWN" ELSE "ISOLATE", "CRITICAL"),
                  Command("SCHEDULE_MAINTENANCE", "HIGH")>>
           [] e.severity = "HIGH" -> <<Command("SHIFT_SPEED", "HIGH"), Command("INSPECT", "HIGH")>>
           [] OTHER -> <<Command("NOTIFY", "LOW")>>

\* "Thin context is a reason to look before acting"
StubPlan(e) ==
    LET all == StubActions(e)
        safe == Picked(all, {i \in DOMAIN all : all[i].action \notin {"SHUTDOWN", "ISOLATE"}})
        kept == IF ~e.degraded THEN all
                ELSE IF safe = <<>> THEN <<Command("INSPECT", "HIGH")>> ELSE safe
    IN [commands |-> Cut(kept, MaxCommands),
        escalate |-> e.severity = "CRITICAL" \/ e.safety]

DerivedCommands(e) ==
    IF e.transition = "CLEARED"
    THEN <<Command("ACKNOWLEDGE", "LOW"), Command("SCHEDULE_MAINTENANCE", "LOW")>>
    ELSE IF e.severity = "CRITICAL"
    THEN <<Command("ISOLATE", "CRITICAL")>>
         \o (IF e.safety THEN <<Command("SHUTDOWN", "CRITICAL")>> ELSE <<>>)
         \o <<Command("INSPECT", "HIGH"), Command("NOTIFY", "HIGH")>>
    ELSE <<Command("THROTTLE", "HIGH"), Command("INSPECT", "MEDIUM"),
           Command("SCHEDULE_MAINTENANCE", "MEDIUM")>>

\* _derive_plan of the AI interceptor; every action is allowed.
DerivedPlan(e) ==
    [commands |-> Cut(DerivedCommands(e), MaxCommands),
     escalate |-> e.transition # "CLEARED" /\ e.severity = "CRITICAL"]

-----------------------------------------------------------------------------
(* translate_plan *)

ActionAliases ==
    [ISOLATE |-> "ISOLATE", SHUTDOWN |-> "SHUTDOWN", SHIFT_SPEED |-> "SHIFT_SPEED",
     THROTTLE |-> "SHIFT_SPEED", INSPECT |-> "INSPECT", NOTIFY |-> "NOTIFY",
     SCHEDULE_MAINTENANCE |-> "SCHEDULE_MAINTENANCE", ACKNOWLEDGE |-> "ACKNOWLEDGE"]

PriorityAliases == [CRITICAL |-> "CRITICAL", HIGH |-> "HIGH", MEDIUM |-> "LOW", LOW |-> "LOW"]

ActuatedIrreversible(action) == action \in {"ISOLATE", "SHUTDOWN"}

\* An unknown action or priority dead-letters the message.
Translatable(plan) ==
    /\ plan.commands # <<>>
    /\ \A i \in 1..Len(Cut(plan.commands, MaxCommands)) :
        /\ plan.commands[i].action \in DOMAIN ActionAliases
        /\ plan.commands[i].priority \in DOMAIN PriorityAliases

\* Only an ENTERPRISE licence executes reversible actions unattended.
Translate(plan) ==
    [i \in 1..Len(Cut(plan.commands, MaxCommands)) |->
        LET action == ActionAliases[plan.commands[i].action] IN
        [action |-> action,
         priority |-> PriorityAliases[plan.commands[i].priority],
         approval |-> ~(event.enterprise /\ ~ActuatedIrreversible(action)),
         escalation |-> plan.escalate]]

-----------------------------------------------------------------------------
(* Requests *)

\* routes_to_enterprise, and the mode of the ActionRouter.
Planner ==
    IF event.stub THEN "stub"
    ELSE IF event.routed /\ event.enterprise THEN "graphrag" ELSE "standard"

\* The n-th try has not begun; nothing is kept from the one before.
Waiting(n) == [pc |-> "idle", asked |-> n, attempt |-> 1, verdict |-> Nothing,
               docs |-> Nothing, reply |-> Nothing, result |-> Nothing]

Init ==
    /\ event \in Events
    /\ payload = [q \in Requests |-> Payload(event, q)]
    /\ analysis = [q \in Requests |-> Analysis(payload[q])]
    /\ req = [q \in Requests |-> Waiting(0)]
    /\ found = {} /\ cache = Nothing /\ forgets = 0

Failed(q) == [Waiting(req[q].asked) EXCEPT !.pc = "failed"]

Answered(q, r) == [Waiting(req[q].asked) EXCEPT !.pc = "answered", !.reply = r]

Ended(q, r, outcome) == [Answered(q, r) EXCEPT !.pc = "done", !.result = outcome]

Becomes(q, state) == req' = [req EXCEPT ![q] = state]

\* A request arrives, and goes on from there.
Ask(q, state) ==
    /\ req[q].pc = "idle" /\ req[q].asked < (IF q \in Workers THEN MaxAsked ELSE 1)
    /\ req' = [req EXCEPT ![q] = [state EXCEPT !.asked = req[q].asked + 1]]
    /\ UNCHANGED <<given, found, cache, forgets>>

\* The planners that answer in one turn.
PlanInOneTurn(q) ==
    /\ q \in Workers /\ Planner # "graphrag"
    /\ Ask(q, Answered(q, [kind |-> "plan",
                  plan |-> IF Planner = "stub" THEN StubPlan(event) ELSE DerivedPlan(event)]))

AtGraphRAG(q) == IF q \in Natives THEN event.native ELSE Planner = "graphrag"

\* A native payload is validated before the cache is read, a mutation after.
Replay(q) ==
    /\ AtGraphRAG(q) /\ cache # Nothing
    /\ q \in Natives => Valid(payload[q])
    /\ Ask(q, Answered(q, cache))

\* 422: the mutation does not project, or the payload is not valid.
RefusePayload(q) ==
    /\ AtGraphRAG(q) /\ ~Valid(payload[q])
    /\ q \in Natives \/ cache = Nothing
    /\ Ask(q, Ended(q, Nothing, [kind |-> "refused"]))

Intercept(q) ==
    /\ AtGraphRAG(q) /\ cache = Nothing /\ Valid(payload[q])
    /\ Ask(q, [Waiting(0) EXCEPT !.pc = "isolating"])

\* Mutation: the last turn that fails starts the loop again.
MutTurnFails(q) ==
    Becomes(q, [req[q] EXCEPT !.attempt = IF @ < MaxAttempts THEN @ + 1 ELSE 1])

\* _invoke: a timeout, an invalid answer or one that leaves the graph is retried.
TurnFails(q) ==
    Becomes(q, IF req[q].attempt < MaxAttempts THEN [req[q] EXCEPT !.attempt = @ + 1]
               ELSE Failed(q))

\* The live client may time out or break; the rule engine does not.
AgentBreaks(q) ==
    /\ req[q].pc \in {"isolating", "planning"} /\ event.cloud
    /\ TurnFails(q)
    /\ UNCHANGED <<given, found, cache, forgets>>

Isolate(q) ==
    /\ req[q].pc = "isolating"
    /\ \E v \in AgentVerdicts(analysis[q], KnownNodes(payload[q])) :
        IF ValidVerdict(v, KnownNodes(payload[q]))
        THEN Becomes(q, [req[q] EXCEPT !.pc = "retrieving", !.verdict = v])
        ELSE TurnFails(q)
    /\ UNCHANGED <<given, found, cache, forgets>>

Retrieve(q) ==
    /\ req[q].pc = "retrieving"
    /\ \E d \in Search(req[q].verdict) :
        /\ Becomes(q, [req[q] EXCEPT !.pc = "planning", !.attempt = 1, !.docs = d])
        /\ found' = found \cup {[query |-> Query(req[q].verdict), docs |-> d]}
    /\ UNCHANGED <<given, cache, forgets>>

Response(plan) == [kind |-> "response", action |-> plan.action, target |-> plan.target,
                   priority |-> plan.priority, steps |-> plan.steps, auth |-> plan.auth]

\* The planner's turn, the guardrails, build_command_response and cache.put.
PlanAction(q) ==
    /\ req[q].pc = "planning"
    /\ \E plan \in AgentPlans(payload[q], analysis[q], req[q].verdict, req[q].docs) :
        IF ValidPlan(plan, KnownNodes(payload[q]))
        THEN LET r == Response(Guarded(plan, req[q].verdict, analysis[q])) IN
             Becomes(q, Answered(q, r)) /\ cache' = r
        ELSE TurnFails(q) /\ UNCHANGED cache
    /\ UNCHANGED <<given, found, forgets>>

\* The envelope that reaches the worker.
Envelope(r) == IF r.kind = "plan" THEN r.plan ELSE ToPlan(r)

\* The worker translates and publishes; a native caller has its response.
Deliver(q) ==
    /\ req[q].pc = "answered"
    /\ LET r == req[q].reply IN
       Becomes(q, Ended(q, r,
           IF q \in Natives THEN [kind |-> "native"]
           ELSE IF Translatable(Envelope(r))
                THEN [kind |-> "published", commands |-> Translate(Envelope(r))]
           ELSE [kind |-> "deadletter"]))
    /\ UNCHANGED <<given, found, cache, forgets>>

\* The answer is lost, or was a 502: the caller asks again.
AskAgain(q) ==
    /\ req[q].pc \in {"answered", "failed"}
    /\ Becomes(q, Waiting(req[q].asked))
    /\ UNCHANGED <<given, found, cache, forgets>>

\* Other events evict the entry.
Evict ==
    /\ forgets < MaxForgets /\ cache # Nothing
    /\ forgets' = forgets + 1 /\ cache' = Nothing
    /\ UNCHANGED <<given, req, found>>

Restart ==
    /\ forgets < MaxForgets
    /\ forgets' = forgets + 1 /\ cache' = Nothing
    /\ req' = [q \in Requests |->
                IF req[q].pc \in {"isolating", "retrieving", "planning"} THEN Failed(q) ELSE req[q]]
    /\ UNCHANGED <<given, found>>

Engine(q) == Isolate(q) \/ Retrieve(q) \/ PlanAction(q) \/ AgentBreaks(q)

Request(q) ==
    \/ PlanInOneTurn(q) \/ Replay(q) \/ RefusePayload(q) \/ Intercept(q)
    \/ Engine(q) \/ Deliver(q) \/ AskAgain(q)

Next == Evict \/ Restart \/ \E q \in Requests : Request(q)

\* Every turn of an agent ends, by its answer or by agent_timeout_seconds.
Fairness == \A q \in Requests : WF_vars(Engine(q))

Spec == Init /\ [][Next]_vars /\ Fairness

-----------------------------------------------------------------------------
(* Properties *)

Reply(q) == req[q].reply
Published(q) == req[q].result.kind = "published"
Sent(q) == Range2(req[q].result.commands)

Commands == [action: {ActionAliases[a] : a \in DOMAIN ActionAliases},
             priority: {PriorityAliases[a] : a \in DOMAIN PriorityAliases},
             approval: BOOLEAN, escalation: BOOLEAN]

\* Commands published are in the actuators' vocabulary and at most max_commands.
TypeOK ==
    /\ \A q \in Requests :
        /\ req[q].pc \in {"idle", "isolating", "retrieving", "planning", "answered",
                          "failed", "done"}
        /\ req[q].asked \in 0..MaxAsked /\ req[q].attempt \in 1..MaxAttempts
    /\ \A q \in Requests : Published(q) =>
        Len(req[q].result.commands) \in 1..MaxCommands /\ Sent(q) \subseteq Commands

\* models.py: a contested topology is "not a basis for planning an irreversible
\* action".  With the rule engine, a tie of the highest stamps in the mutation
\* never becomes a SHUTDOWN on the topic, however the tie is broken.
NoTripOnTie ==
    \A q \in Workers :
        /\ Published(q) /\ \E c \in Sent(q) : c.action = "SHUTDOWN"
        /\ Planner = "graphrag" /\ ~event.cloud
        => ~Contested(event.obs)

\* Comment at line 1212 of the kernel, "Blast radius raises priority, never
\* irreversibility", for what reaches a caller: the rule engine answers an event
\* with a shutdown exactly if the kernel would trip the asset for every caller and
\* with no, one or many downstream nodes, whoever's knowledge of the neighbours the
\* answer was made from and whether it is new or replayed.  A live model's plan is
\* not bound by this.
BlastHeld ==
    \A q \in Requests : ~event.cloud /\ Reply(q).kind = "response" =>
        \A p \in Requests : \A D \in {{}, {"d1"}, {"d1", "d2", "d3"}} :
            Irreversible(Reply(q).action) <=> Trips([payload[p] EXCEPT !.down = D])

\* The payloads before the first request.
Untouched == \A q \in Requests : req[q] = Waiting(0)

\* ChannelLimit, for the kernel on every payload of the run: see IntegrityNeverTrips.
IntegrityHeld == Untouched => \A q \in Requests : IntegrityNeverTrips(payload[q])

\* With the rule engine, a response that holds irreversible work, as its action
\* or in a step of any retrieved procedure, is what the kernel permitted and
\* recommended for a payload that was sent.
TrustedOnly ==
    \A q \in Requests :
        /\ ~event.cloud /\ Reply(q).kind = "response"
        /\ Irreversible(Reply(q).action) \/ SomeIrreversible(Reply(q).steps)
        => \E p \in Requests : analysis[p].permitted /\ Irreversible(analysis[p].action)

\* "neither a model error nor instructions smuggled through the payload can
\* route around them": for any agent, a response is handed to a supervisor, an
\* irreversible one is CRITICAL, and irreversible or CRITICAL work is authorised.
HandedOver ==
    \A q \in Requests : Reply(q).kind = "response" =>
        LET r == Reply(q)
            irreversible == Irreversible(r.action) \/ SomeIrreversible(r.steps)
        IN /\ Supervised(r.steps) /\ Len(r.steps) <= MaxSteps + 1
           /\ Irreversible(r.action) => r.priority = "CRITICAL"
           /\ irreversible \/ r.priority = "CRITICAL" => r.auth

\* The authorisation a response requires reaches the executors: every command of
\* its plan asks for approval or escalates, across the bridge, the translation
\* and the cache.  A command that takes load off an asset always needs approval.
AuthorisationSurvives ==
    \A q \in Workers : Published(q) => \A c \in Sent(q) :
        /\ ActuatedIrreversible(c.action) => c.approval
        /\ Reply(q).kind = "response" /\ Reply(q).auth => c.approval \/ c.escalation

\* Only a ROUTINE plan is lost to the worker's vocabulary of priorities, and an
\* event the kernel scores CRITICAL is not, whatever the planning agent asked for.
CriticalReaches ==
    \A q \in Workers : req[q].result.kind = "deadletter" =>
        /\ Reply(q).kind = "response" /\ Reply(q).priority = "ROUTINE"
        /\ analysis[q].priority # "CRITICAL"

\* CommandCache: "an operator must never be handed two different plans for one
\* event".  With the rule engine this survives requests that race past the cache,
\* evictions and restarts, when the callers send the same payload.
OneAnswer ==
    ~event.cloud /\ DOMAIN event.health = {} /\ DOMAIN event.attributed = {} =>
        \A p, q \in Requests :
            Reply(p).kind = "response" /\ Reply(q).kind = "response" => Reply(p) = Reply(q)

\* A request that entered the agent loop is answered or fails.
Settled ==
    \A q \in Requests : req[q].pc = "isolating" ~> req[q].pc \in {"answered", "failed"}

=============================================================================
