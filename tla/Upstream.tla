------------------------------ MODULE Upstream ------------------------------
(***************************************************************************)
(* Between the command worker and the interceptors: the preflight that     *)
(* compares the two services' licence tables and releases the consumers,   *)
(* the RateGate all calls share (command_worker.py), the licence checks    *)
(* in front of the planners (security.py, graphrag_interceptor.py) and     *)
(* the sliding-window limiters behind them (SlidingWindow).                *)
(*                                                                         *)
(* A call is one step at the interceptor: its latency is the time spent    *)
(* in "calling".  Sleeps end at or after their time.  The registries are   *)
(* loaded once, so the worker's LicenseCache answers as its registry       *)
(* would.  One key, and so one quota per store; a tick divides the pace.   *)
(***************************************************************************)
EXTENDS SlidingWindow

CONSTANTS
    Consumers,      \* tasks that drain ontology.mutations
    Clients,        \* callers of POST /v1/commands
    Enterprise,     \* the replicas that are GraphRAG interceptors
    Deployments,    \* settings and licence tables
    MaxConcurrency, \* OO_INTERCEPTOR_MAX_CONCURRENCY
    PreflightAttempts,
    Margin,         \* OO_INTERCEPTOR_RATE_MARGIN, in percent
    Cap,            \* OO_INTERCEPTOR_RETRY_AFTER_CAP_SECONDS
    MaxTime, MaxFaults

Callers == Consumers \cup Clients

EntitledPlans == {"STANDARD", "ENTERPRISE"}

\* active: the worker's table only; entitled: ai.intercept or ai.graphrag.intercept.
Licences == [known: BOOLEAN, active: BOOLEAN, expires: Nat, tenant: {"acme", "umbrella"},
             plan: {"STANDARD", "ENTERPRISE", "COMMUNITY"}, entitled: BOOLEAN]

\* maxRpm = 0: learn the quota.
ASSUME UpstreamAssumption ==
    /\ Consumers \cap Clients = {} /\ Enterprise \subseteq Replicas
    /\ MaxConcurrency \in Nat \ {0}
    /\ PreflightAttempts \in Nat \ {0} /\ Cap \in Nat \ {0} /\ Margin \in 1..100
    /\ MaxTime \in Nat /\ MaxFaults \in Nat
    /\ Deployments \subseteq
        [preflight: BOOLEAN, strict: BOOLEAN, routed: BOOLEAN, maxRpm: 0..Limit,
         worker: Licences, standard: Licences, graphrag: Licences]

VARIABLES
    conf,       \* the deployment
    preflight,  \* PreflightStatus, and whether its task has ended
    proceed,    \* the event the consumers wait for
    stopping,
    interval, nextAt,  \* the gate's pace and its next free start
    caller,     \* state of every call
    faults,
    cool,       \* history: end of the latest cooldown
    strays      \* history: calls that left the gate inside it

gateVars == <<interval, nextAt, cool, strays>>
taskVars == <<preflight, proceed, stopping>>

vars == <<limiterVars, conf, taskVars, gateVars, caller, faults>>

Larger(a, b) == IF a > b THEN a ELSE b
Smaller(a, b) == IF a < b THEN a ELSE b

-----------------------------------------------------------------------------
(* Licence checks *)

\* LicenseGatekeeper.authorize: known, active, unexpired, entitled.
Authorized ==
    /\ conf.worker.known /\ conf.worker.active
    /\ now < conf.worker.expires
    /\ conf.worker.plan \in EntitledPlans

\* Where a call goes: tier routing, with the key of that subscription.
Routed == conf.routed /\ conf.worker.plan = "ENTERPRISE"

Destination == IF Routed THEN Enterprise ELSE Replicas \ Enterprise

Presented == IF Routed THEN conf.graphrag ELSE conf.standard

\* 401 unknown, 402 expired, 403 unentitled; introspection needs no feature.
Refusal(licence, needsFeature) ==
    IF ~licence.known THEN 401
    ELSE IF now >= licence.expires THEN 402
    ELSE IF needsFeature /\ ~licence.entitled THEN 403 ELSE 200

-----------------------------------------------------------------------------
(* RateGate *)

Interval(quota) == Window \div Larger(1, (quota * Margin) \div 100)

\* retune, unless the operator set the ceiling.
Learned == IF conf.maxRpm = 0 THEN Interval(Limit) ELSE interval

Holding == {c \in Callers : caller[c].pc \in {"pacing", "calling"}}

Start == Larger(now, nextAt)

\* Mutation: the next start is counted from now, not from the start reserved.
MutReserveFromNow(c) ==
    /\ caller' = [caller EXCEPT ![c].pc = "pacing", ![c].start = Start, ![c].gap = interval]
    /\ nextAt' = IF interval > 0 THEN now + interval ELSE Start

\* _pace under its lock: take the next free start.
Reserve(c) ==
    /\ caller' = [caller EXCEPT ![c].pc = "pacing", ![c].start = Start, ![c].gap = interval]
    /\ nextAt' = IF interval > 0 THEN Start + interval ELSE Start

\* Mutation: only the caller that was throttled waits.
MutCooldownAlone(wait) ==
    /\ cool' = Larger(cool, now + wait) /\ strays' = 0
    /\ UNCHANGED nextAt

\* apply_cooldown.
Cooldown(wait) ==
    /\ nextAt' = Larger(nextAt, now + wait)
    /\ cool' = Larger(cool, now + wait) /\ strays' = 0

NoCooldown == UNCHANGED <<nextAt, cool, strays>>

\* The limiter of one of the replicas decides; the shared store may fail.
Ask(replicas) ==
    \/ UNCHANGED faults /\ \E r \in replicas : Check(r)
    \/ /\ faults < MaxFaults /\ faults' = faults + 1
       /\ \E r \in replicas \ Enterprise : CheckFails(r)

Throttled == answer'.how \in {"refused", "closed"}

-----------------------------------------------------------------------------
(* The preflight *)

NewCall == [pc |-> "idle", start |-> 0, gap |-> 0, status |-> 200, agreed |-> FALSE]

Init ==
    /\ LimiterInit
    /\ conf \in Deployments
    /\ preflight = [state |-> IF conf.preflight THEN "pending" ELSE "skipped",
                    attempts |-> 0, ended |-> ~conf.preflight]
    /\ proceed = ~conf.preflight
    /\ stopping = FALSE
    /\ interval = IF conf.maxRpm = 0 THEN 0 ELSE Interval(conf.maxRpm)
    /\ nextAt = 0
    /\ caller = [c \in Callers |-> NewCall]
    /\ faults = 0 /\ cool = 0 /\ strays = 0

\* Mutation: a missing feature does not fail the comparison.
MutAgreesFeature(licence) ==
    conf.worker.tenant = licence.tenant /\ conf.worker.plan = licence.plan

\* Mutation: the tenants are not compared.
MutAgreesTenant(licence) == conf.worker.plan = licence.plan /\ licence.entitled

\* _compare.
Agrees(licence) ==
    /\ conf.worker.tenant = licence.tenant
    /\ conf.worker.plan = licence.plan
    /\ licence.entitled

\* Mutation: a preflight that is not worth retrying ends without a decision.
MutFails(retryable) ==
    LET n == preflight.attempts + 1
        ended == ~retryable \/ n = PreflightAttempts
    IN  /\ preflight' = [state |-> "failed", attempts |-> n, ended |-> ended]
        /\ proceed' = (proceed \/ (n = PreflightAttempts /\ ~conf.strict))

\* Mutation: one attempt too many.
MutFailsLate(retryable) ==
    LET n == preflight.attempts + 1
        ended == ~retryable \/ n > PreflightAttempts
    IN  /\ preflight' = [state |-> "failed", attempts |-> n, ended |-> ended]
        /\ proceed' = (proceed \/ (ended /\ ~conf.strict))

\* run_preflight_until_ready after a failed run: sleep and try again, or give
\* up, which parks the consumers only if strict.
Fails(retryable) ==
    LET n == preflight.attempts + 1
        ended == ~retryable \/ n = PreflightAttempts
    IN  /\ preflight' = [state |-> "failed", attempts |-> n, ended |-> ended]
        /\ proceed' = (proceed \/ (ended /\ ~conf.strict))

Passes ==
    /\ preflight' = [state |-> "passed", attempts |-> preflight.attempts + 1, ended |-> TRUE]
    /\ proceed' = TRUE
    /\ interval' = Learned

Attempting == ~preflight.ended /\ ~stopping

\* _resolve_local.
PreflightOwnGate ==
    /\ Attempting /\ ~Authorized
    /\ Fails(FALSE)
    /\ UNCHANGED <<limiterVars, conf, stopping, gateVars, caller, faults>>

\* _introspect: no answer, a 5xx, or a body that is not an object.
PreflightUnanswered ==
    /\ Attempting /\ Authorized /\ faults < MaxFaults
    /\ Fails(TRUE)
    /\ faults' = faults + 1
    /\ UNCHANGED <<limiterVars, conf, stopping, gateVars, caller>>

\* _introspect: 401 or 402.
PreflightRefused ==
    /\ Attempting /\ Authorized
    /\ Refusal(conf.standard, FALSE) # 200
    /\ Fails(FALSE)
    /\ UNCHANGED <<limiterVars, conf, stopping, gateVars, caller, faults>>

\* GET /v1/license is metered like any other call.
PreflightAnswered ==
    /\ Attempting /\ Authorized
    /\ Refusal(conf.standard, FALSE) = 200
    /\ Ask(Replicas \ Enterprise)
    /\ \/ Throttled /\ Fails(TRUE) /\ UNCHANGED interval
       \/ ~Throttled /\ Agrees(conf.standard) /\ Passes
       \/ ~Throttled /\ ~Agrees(conf.standard) /\ Fails(FALSE) /\ UNCHANGED interval
    /\ UNCHANGED <<conf, stopping, nextAt, cool, strays, caller>>

\* lifespan: request_stop, then release whatever is parked; the task is cancelled.
Shutdown ==
    /\ ~stopping
    /\ stopping' = TRUE /\ proceed' = TRUE
    /\ UNCHANGED <<limiterVars, conf, preflight, gateVars, caller, faults>>

-----------------------------------------------------------------------------
(* Calls *)

\* A consumer waits for proceed and authorises the record; a client's own key
\* has been checked.
MayStart(c) == ~stopping /\ (c \in Clients \/ (proceed /\ Authorized))

\* Bound: calls leave enough Members for the preflight to finish.
Spare ==
    LET pending == IF preflight.ended THEN 0 ELSE PreflightAttempts - preflight.attempts
    IN  Cardinality(served) + Cardinality(Holding) + pending < Cardinality(Members)

\* Enter the gate: a slot of the semaphore, then a start.
Begin(c) ==
    /\ caller[c].pc = "idle" /\ now >= caller[c].start
    /\ MayStart(c) /\ Spare
    /\ Cardinality(Holding) < MaxConcurrency
    /\ Reserve(c)
    /\ UNCHANGED <<limiterVars, conf, taskVars, interval, cool, strays, faults>>

\* The sleep is over: post.
Leave(c) ==
    /\ caller[c].pc = "pacing" /\ now >= caller[c].start
    /\ caller' = [caller EXCEPT ![c].pc = "calling",
                                ![c].agreed = preflight.state = "passed"]
    /\ strays' = strays + (IF now < cool THEN 1 ELSE 0)
    /\ UNCHANGED <<limiterVars, conf, taskVars, interval, nextAt, cool, faults>>

\* retry_async, or the record's redelivery: through the gate again, no sooner
\* than the interceptor asked.
Retry(c, wait) == caller' = [caller EXCEPT ![c] = [NewCall EXCEPT !.start = now + wait]]

\* On to another record or request, or to the same one after a local backoff.
Done(c) == caller' = [caller EXCEPT ![c] = NewCall]

\* 401, 402, 403: not retried, redelivered; no quota header.
Refused(c) ==
    LET status == Refusal(Presented, TRUE) IN
    /\ caller[c].pc = "calling" /\ status # 200
    /\ caller' = [caller EXCEPT ![c] = [NewCall EXCEPT !.status = status, !.agreed = caller[c].agreed]]
    /\ UNCHANGED <<limiterVars, conf, taskVars, gateVars, faults>>

\* The request or its answer is lost: the hit may have been recorded.
Lost(c) ==
    /\ caller[c].pc = "calling" /\ faults < MaxFaults
    /\ faults' = faults + 1
    /\ \/ UNCHANGED limiterVars
       \/ Refusal(Presented, TRUE) = 200 /\ \E r \in Destination : Check(r)
    /\ Done(c)
    /\ UNCHANGED <<conf, taskVars, gateVars>>

\* The limiter's verdict: 429 with its Retry-After, a plan or a 5xx without a
\* Retry-After, or a 5xx with one.
Metering(c) ==
    /\ caller[c].pc = "calling" /\ Refusal(Presented, TRUE) = 200
    /\ Ask(Destination)
    /\ interval' = Learned
    /\ \/ Throttled /\ LET wait == Smaller(answer'.wait + 1, Cap)
                      IN  Cooldown(wait) /\ Retry(c, wait)
       \/ ~Throttled /\ NoCooldown /\ Done(c)
       \/ ~Throttled /\ Cooldown(1) /\ Retry(c, 1)
    /\ UNCHANGED <<conf, taskVars>>

Elapse ==
    /\ now < MaxTime /\ Tick
    /\ UNCHANGED <<conf, taskVars, gateVars, caller, faults>>

Preflight == PreflightOwnGate \/ PreflightUnanswered \/ PreflightRefused \/ PreflightAnswered

Call(c) == Begin(c) \/ Leave(c) \/ Refused(c) \/ Lost(c) \/ Metering(c)

Next == Preflight \/ Shutdown \/ Elapse \/ \E c \in Callers : Call(c)

\* The preflight is a task of its own whose requests time out.
Spec == Init /\ [][Next]_vars /\ WF_vars(Preflight)

-----------------------------------------------------------------------------
(* Properties *)

TypeOK ==
    /\ LimiterTypeOK
    /\ conf \in Deployments
    /\ preflight \in [state: {"pending", "skipped", "passed", "failed"},
                      attempts: 0..PreflightAttempts, ended: BOOLEAN]
    /\ proceed \in BOOLEAN /\ stopping \in BOOLEAN
    /\ interval \in 0..Window /\ nextAt \in Nat /\ cool \in Nat /\ strays \in Nat
    /\ caller \in [Callers -> [pc: {"idle", "pacing", "calling"}, start: Nat,
                               gap: 0..Window, status: {200, 401, 402, 403}, agreed: BOOLEAN]]
    /\ faults \in 0..MaxFaults

\* RateGate: "spaces calls 60/rpm apart".  The starts of two callers in the gate
\* are never closer than the pace under which the earlier one was reserved, also
\* when one queues behind the other, behind a cooldown, or across a retune.
Paced ==
    \A c, d \in Holding : c # d =>
        \/ caller[c].start + caller[c].gap <= caller[d].start
        \/ caller[d].start + caller[d].gap <= caller[c].start

\* "When the interceptor does answer 429, every worker stalls": what still goes
\* out during a cooldown is what held a slot when it began, fewer than the
\* semaphore admits.
FewStrays == strays < MaxConcurrency

\* InterceptorPreflight: the preflight proves that calls will not be refused.  A
\* call to the standard interceptor that left after a passed preflight meets a
\* 401, 402 or 403 only if the licence has expired since.
AgreementHolds ==
    \A c \in Callers :
        caller[c].agreed /\ ~Routed /\ caller[c].status \in {401, 402, 403}
            => now >= conf.standard.expires

\* "Strict holds the consumers instead": under a strict preflight no consumer
\* ever calls for a tenant or plan the two tables disagree about, nor when the
\* preflight ran out of attempts, not even when shutdown releases the event.
StrictHolds ==
    conf.strict /\ conf.preflight =>
        \A c \in Consumers : caller[c].pc # "idle" =>
            /\ preflight.state = "passed"
            /\ conf.worker.tenant = conf.standard.tenant
            /\ conf.worker.plan = conf.standard.plan

\* The preflight settles whatever the interceptor answers: the consumers start,
\* unless strictness parks them after a failure.
Settles ==
    <>(\/ proceed
       \/ preflight.ended /\ preflight.state = "failed" /\ conf.strict)

=============================================================================
