--------------------------- MODULE UpstreamProofs ---------------------------
(***************************************************************************)
(* The worker and the interceptors together, for any number of callers and *)
(* replicas, any quota, margin and pace, and any licence tables: the       *)
(* composition drives the limiter only through its own steps, so the       *)
(* limiter's theorems hold of it; the gate paces its callers; the          *)
(* preflight's verdict holds for the calls that follow it.                 *)
(***************************************************************************)
EXTENDS Upstream, SlidingWindowProofs

\* No start is free before the end of a slot that is taken.
Reserved == \A c \in Holding : caller[c].start + caller[c].gap <= nextAt

\* The calls that may still leave inside the latest cooldown.
Early == {c \in Callers : caller[c].pc = "pacing" /\ caller[c].start < cool}

\* A cooldown begins when a caller leaves the gate, so that the others are fewer
\* than the gate admits; later starts lie behind it.
CoolKept ==
    /\ cool <= nextAt
    /\ IsFiniteSet(Holding) /\ Cardinality(Holding) <= MaxConcurrency
    /\ Cardinality(Early) + strays < MaxConcurrency

\* What the preflight saw, and what its verdict releases.
Verdict ==
    /\ preflight.state = "passed" =>
        /\ preflight.ended
        /\ conf.standard.known /\ Agrees(conf.standard)
    /\ conf.strict /\ conf.preflight /\ proceed /\ ~stopping => preflight.state = "passed"

\* A status tells what is wrong with the licence that was presented.
StatusTells ==
    \A c \in Callers :
        /\ caller[c].agreed => conf.standard.known /\ conf.standard.entitled
        /\ ~Routed =>
            /\ caller[c].status = 401 => ~conf.standard.known
            /\ caller[c].status = 402 => now >= conf.standard.expires
            /\ caller[c].status = 403 => ~conf.standard.entitled

-----------------------------------------------------------------------------
(* Types *)

\* The pace never exceeds one window.
LEMMA IntervalType == ASSUME NEW quota \in 0..Limit PROVE Interval(quota) \in 0..Window
<1> DEFINE rate == (quota * Margin) \div 100
<1>1. quota * Margin \in Nat
  <2>1. quota \in Nat /\ Margin \in Nat
    BY LimiterAssumption, UpstreamAssumption
  <2> QED
    BY <2>1
<1>2. rate \in Nat
  <2>1. \A n \in Nat : n \div 100 \in Nat
    OBVIOUS
  <2> QED
    BY <1>1, <2>1
<1>3. Larger(1, rate) \in Nat \ {0}
  <2> HIDE DEF rate
  <2> QED
    BY <1>2 DEF Larger
<1>4. \A n \in Nat, d \in Nat \ {0} : n \div d \in 0..n
  OBVIOUS
<1> QED
  BY <1>3, <1>4, LimiterAssumption DEF Interval

\* A deployment is a record of settings.
LEMMA ConfType ==
    ASSUME conf \in Deployments
    PROVE  /\ conf.preflight \in BOOLEAN /\ conf.strict \in BOOLEAN /\ conf.maxRpm \in 0..Limit
           /\ conf.worker \in Licences /\ conf.standard \in Licences /\ conf.graphrag \in Licences
  BY UpstreamAssumption

\* The composed system asks the limiter and lets time pass; it does nothing
\* else to its state.
LEMMA StepIsLimiterStep == ASSUME [Next]_vars PROVE [LimiterNext]_limiterVars
<1>1. ASSUME NEW R \in SUBSET Replicas, Ask(R) PROVE LimiterNext
  BY <1>1 DEF Ask, LimiterNext
<1>2. Destination \in SUBSET Replicas /\ Replicas \ Enterprise \in SUBSET Replicas
  BY UpstreamAssumption DEF Destination
<1>3. CASE UNCHANGED vars
  BY <1>3 DEF vars
<1>4. CASE Preflight
  BY <1>1, <1>2, <1>4 DEF Preflight, PreflightOwnGate, PreflightUnanswered, PreflightRefused,
     PreflightAnswered
<1>5. CASE Shutdown
  BY <1>5 DEF Shutdown
<1>6. CASE Elapse
  BY <1>6 DEF Elapse, LimiterNext
<1>7. ASSUME NEW c \in Callers, Call(c) PROVE [LimiterNext]_limiterVars
  <2>1. CASE Lost(c)
    BY <1>2, <2>1 DEF Lost, LimiterNext
  <2>2. CASE Metering(c)
    BY <1>1, <1>2, <2>2 DEF Metering
  <2> QED
    BY <1>7, <2>1, <2>2 DEF Call, Begin, Leave, Refused
<1> QED
  BY <1>3, <1>4, <1>5, <1>6, <1>7 DEF Next

\* The limiter is one of the composed system's parts.
THEOREM UpstreamRunsLimiter == Spec => LimiterSpec
<1>1. Init => LimiterInit
  BY DEF Init
<1> QED
  BY <1>1, StepIsLimiterStep, PTL DEF Spec, LimiterSpec


\* What the preflight reports.
Statuses == [state: {"pending", "skipped", "passed", "failed"},
             attempts: 0..PreflightAttempts, ended: BOOLEAN]

\* A status of the preflight from its parts.
LEMMA StatusType ==
    ASSUME NEW st \in {"pending", "skipped", "passed", "failed"},
           NEW n \in 0..PreflightAttempts, NEW e \in BOOLEAN
    PROVE  [state |-> st, attempts |-> n, ended |-> e] \in Statuses
  BY DEF Statuses

\* The initial state is well typed.
LEMMA UpstreamInitType == ASSUME Init PROVE LimiterInv /\ TypeOK
<1>1. LimiterInv
  BY LimiterInitInv DEF Init
<1>2. conf.preflight \in BOOLEAN /\ conf.maxRpm \in 0..Limit /\ conf \in Deployments
  BY ConfType DEF Init
<1>3. Window \in Nat /\ PreflightAttempts \in Nat /\ MaxFaults \in Nat
  BY LimiterAssumption, UpstreamAssumption
<1>4. interval \in 0..Window
  BY <1>2, <1>3, IntervalType DEF Init
<1>5. \/ /\ preflight = [state |-> "pending", attempts |-> 0, ended |-> FALSE]
         /\ proceed = FALSE
      \/ /\ preflight = [state |-> "skipped", attempts |-> 0, ended |-> TRUE]
         /\ proceed = TRUE
  <2>1. CASE conf.preflight = TRUE
    BY <2>1 DEF Init
  <2>2. CASE conf.preflight = FALSE
    BY <2>2 DEF Init
  <2> QED
    BY <1>2, <2>1, <2>2
<1>6. preflight \in Statuses /\ proceed \in BOOLEAN
  <2>1. 0 \in 0..PreflightAttempts
    BY <1>3
  <2> QED
    BY <1>5, <2>1, StatusType
<1>7. caller \in [Callers -> [pc: {"idle", "pacing", "calling"}, start: Nat,
                              gap: 0..Window, status: {200, 401, 402, 403}, agreed: BOOLEAN]]
  BY <1>3 DEF Init, NewCall
<1>8. stopping \in BOOLEAN
  BY DEF Init
<1> QED
  BY <1>1, <1>2, <1>3, <1>4, <1>6, <1>7, <1>8 DEF Init, TypeOK, LimiterInv, Statuses

\* A preflight that goes on has attempts left.
AttemptsLeft == ~preflight.ended => preflight.attempts < PreflightAttempts

\* A failed preflight leaves a status and an event of their types.
LEMMA FailsType ==
    ASSUME TypeOK, AttemptsLeft, Attempting, NEW retryable \in BOOLEAN, Fails(retryable)
    PROVE  /\ preflight' \in Statuses /\ proceed' \in BOOLEAN
           /\ preflight'.state = "failed"
           /\ AttemptsLeft'
<1> DEFINE n == preflight.attempts + 1
           ended == ~retryable \/ n = PreflightAttempts
<1>1. n \in 0..PreflightAttempts /\ PreflightAttempts \in Nat
  BY UpstreamAssumption DEF TypeOK, AttemptsLeft, Attempting
<1>2. preflight' = [state |-> "failed", attempts |-> n, ended |-> ended]
      /\ proceed' = (proceed \/ (ended /\ ~conf.strict))
  BY DEF Fails
<1>3. ended \in BOOLEAN /\ (proceed \/ (ended /\ ~conf.strict)) \in BOOLEAN
  OBVIOUS
<1>4. ~ended => n < PreflightAttempts
  BY <1>1
<1> HIDE DEF n, ended
<1> QED
  BY <1>1, <1>2, <1>3, <1>4, StatusType DEF AttemptsLeft

\* Every call is one of these.
Calls == [pc: {"idle", "pacing", "calling"}, start: Nat, gap: 0..Window,
          status: {200, 401, 402, 403}, agreed: BOOLEAN]

\* The wait that a verdict of the limiter asks for.
LEMMA WaitType ==
    ASSUME LimiterTypeOK'
    PROVE  Smaller(answer'.wait + 1, Cap) \in Nat
<1>1. answer'.wait \in Nat /\ Cap \in Nat
  BY UpstreamAssumption DEF LimiterTypeOK, Promise!Answers
<1> QED
  BY <1>1 DEF Smaller

\* The pace that an answer teaches.
LEMMA LearnedType == ASSUME TypeOK PROVE Learned \in 0..Window
<1>1. Limit \in 0..Limit
  BY LimiterAssumption
<1> QED
  BY <1>1, IntervalType DEF Learned, TypeOK

\* A step of the preflight keeps the types.
LEMMA PreflightType ==
    ASSUME TypeOK, AttemptsLeft, LimiterTypeOK', Preflight
    PROVE  TypeOK' /\ AttemptsLeft'
<1>1. faults \in Nat /\ MaxFaults \in Nat /\ faults' \in 0..MaxFaults
  <2>1. faults \in 0..MaxFaults /\ MaxFaults \in Nat
    BY UpstreamAssumption DEF TypeOK
  <2>2. faults' = faults \/ (faults < MaxFaults /\ faults' = faults + 1)
    BY DEF Preflight, PreflightOwnGate, PreflightUnanswered, PreflightRefused, PreflightAnswered, Ask
  <2> QED
    BY <2>1, <2>2
<1>2. /\ conf' = conf /\ stopping' = stopping /\ caller' = caller
      /\ nextAt' = nextAt /\ cool' = cool /\ strays' = strays
  BY DEF Preflight, PreflightOwnGate, PreflightUnanswered, PreflightRefused, PreflightAnswered, gateVars
<1>3. \/ (\E retryable \in BOOLEAN : Fails(retryable)) /\ interval' = interval
      \/ Passes
  BY DEF Preflight, PreflightOwnGate, PreflightUnanswered, PreflightRefused, PreflightAnswered, gateVars
<1>4. Attempting
  BY DEF Preflight, PreflightOwnGate, PreflightUnanswered, PreflightRefused, PreflightAnswered
<1>5. preflight' \in Statuses /\ proceed' \in BOOLEAN /\ interval' \in 0..Window /\ AttemptsLeft'
  <2>1. CASE Passes
    <3>1. preflight.attempts + 1 \in 0..PreflightAttempts
      BY <1>4, UpstreamAssumption DEF TypeOK, AttemptsLeft, Attempting
    <3>2. preflight' = [state |-> "passed", attempts |-> preflight.attempts + 1, ended |-> TRUE]
          /\ proceed' = TRUE /\ interval' = Learned
      BY <2>1 DEF Passes
    <3> QED
      BY <3>1, <3>2, StatusType, LearnedType DEF AttemptsLeft
  <2>2. CASE (\E retryable \in BOOLEAN : Fails(retryable)) /\ interval' = interval
    BY <1>4, <2>2, FailsType DEF TypeOK
  <2> QED
    BY <1>3, <2>1, <2>2
<1> QED
  BY <1>1, <1>2, <1>5 DEF TypeOK, Statuses

\* A call that reserves a slot is a call.
LEMMA SlotType ==
    ASSUME NEW k \in Calls, NEW at \in Nat, NEW g \in 0..Window
    PROVE  [k EXCEPT !.pc = "pacing", !.start = at, !.gap = g] \in Calls
  BY DEF Calls

\* So is one that leaves the gate, and one that is refused.
LEMMA LeavingType ==
    ASSUME NEW k \in Calls, NEW b \in BOOLEAN
    PROVE  [[k EXCEPT !.pc = "calling"] EXCEPT !.agreed = b] \in Calls
<1>1. [k EXCEPT !.pc = "calling"] \in Calls
  BY DEF Calls
<1> DEFINE j == [k EXCEPT !.pc = "calling"]
<1> HIDE DEF j
<1>2. j \in Calls
  BY <1>1 DEF j
<1>3. [j EXCEPT !.agreed = b] \in Calls
  BY <1>2 DEF Calls
<1> QED
  BY <1>3 DEF j

\* A step of a call changes that call alone.
LEMMA CallType ==
    ASSUME TypeOK, LimiterTypeOK', NEW c \in Callers, Call(c)
    PROVE  caller' \in [Callers -> Calls]
<1>1. caller \in [Callers -> Calls] /\ now \in Nat /\ nextAt \in Nat /\ interval \in 0..Window
  BY DEF TypeOK, LimiterTypeOK, Calls
<1>2. NewCall \in Calls /\ caller[c] \in Calls
  BY <1>1, LimiterAssumption DEF NewCall, Calls
<1>3. \A wait \in Nat : Retry(c, wait) => caller' \in [Callers -> Calls]
  <2>1. \A wait \in Nat : [NewCall EXCEPT !.start = now + wait] \in Calls
    BY <1>1, <1>2 DEF Calls
  <2> QED
    BY <1>1, <2>1 DEF Retry
<1>4. Done(c) => caller' \in [Callers -> Calls]
  BY <1>1, <1>2 DEF Done
<1>5. ASSUME Begin(c) PROVE caller' \in [Callers -> Calls]
  <2>1. Start \in Nat
    BY <1>1 DEF Start, Larger
  <2>2. caller' = [caller EXCEPT ![c] =
                    [caller[c] EXCEPT !.pc = "pacing", !.start = Start, !.gap = interval]]
    BY <1>5 DEF Begin, Reserve
  <2>3. [caller[c] EXCEPT !.pc = "pacing", !.start = Start, !.gap = interval] \in Calls
    BY <1>1, <1>2, <2>1, SlotType
  <2> QED
    BY <1>1, <2>2, <2>3
<1>6. ASSUME Leave(c) PROVE caller' \in [Callers -> Calls]
  <2> DEFINE told == preflight.state = "passed"
  <2>1. told \in BOOLEAN
    OBVIOUS
  <2>2. [[caller[c] EXCEPT !.pc = "calling"] EXCEPT !.agreed = told] \in Calls
    <3> HIDE DEF told
    <3> QED
      BY <1>2, <2>1, LeavingType
  <2>3. caller' = [caller EXCEPT ![c] =
                    [[caller[c] EXCEPT !.pc = "calling"] EXCEPT !.agreed = told]]
    BY <1>6 DEF Leave
  <2> QED
    BY <1>1, <2>2, <2>3
<1>7. ASSUME Refused(c) PROVE caller' \in [Callers -> Calls]
  <2> DEFINE code == Refusal(Presented, TRUE)
  <2>1. code \in {200, 401, 402, 403} /\ caller[c].agreed \in BOOLEAN
    BY <1>2 DEF Refusal, Calls
  <2>2. caller' = [caller EXCEPT ![c] =
                    [[NewCall EXCEPT !.status = code] EXCEPT !.agreed = caller[c].agreed]]
    BY <1>7 DEF Refused
  <2> HIDE DEF code
  <2>3. [NewCall EXCEPT !.status = code] \in Calls
    BY <1>2, <2>1 DEF Calls
  <2>4. [[NewCall EXCEPT !.status = code] EXCEPT !.agreed = caller[c].agreed] \in Calls
    BY <2>1, <2>3 DEF Calls
  <2> QED
    BY <1>1, <2>2, <2>4
<1>8. ASSUME Lost(c) PROVE caller' \in [Callers -> Calls]
  BY <1>4, <1>8 DEF Lost
<1>9. ASSUME Metering(c) PROVE caller' \in [Callers -> Calls]
  BY <1>3, <1>4, <1>9, WaitType DEF Metering
<1> QED
  BY <1>5, <1>6, <1>7, <1>8, <1>9 DEF Call

\* A step of a call keeps the types.
LEMMA CallKeepsType ==
    ASSUME TypeOK, LimiterTypeOK', NEW c \in Callers, Call(c)
    PROVE  TypeOK'
<1>1. caller' \in [Callers -> Calls]
  BY CallType
<1>2. conf' = conf /\ preflight' = preflight /\ proceed' = proceed /\ stopping' = stopping
  BY DEF Call, Begin, Leave, Refused, Lost, Metering, taskVars
<1>3. faults' \in 0..MaxFaults
  <2>1. faults \in 0..MaxFaults /\ MaxFaults \in Nat
    BY UpstreamAssumption DEF TypeOK
  <2>2. faults' = faults \/ (faults < MaxFaults /\ faults' = faults + 1)
    BY DEF Call, Begin, Leave, Refused, Lost, Metering, Ask
  <2> QED
    BY <2>1, <2>2
<1>4. now \in Nat /\ nextAt \in Nat /\ cool \in Nat /\ strays \in Nat /\ interval \in 0..Window
      /\ Window \in Nat
  BY LimiterAssumption DEF TypeOK, LimiterTypeOK
<1>5. ASSUME NEW wait \in Nat, Cooldown(wait)
      PROVE  nextAt' \in Nat /\ cool' \in Nat /\ strays' \in Nat
  BY <1>4, <1>5 DEF Cooldown, Larger
<1>6. nextAt' \in Nat /\ cool' \in Nat /\ strays' \in Nat /\ interval' \in 0..Window
  <2>1. CASE Begin(c)
    <3>1. nextAt' = Start \/ nextAt' = Start + interval
      BY <2>1 DEF Begin, Reserve
    <3>2. Start \in Nat
      BY <1>4 DEF Start, Larger
    <3> QED
      BY <1>4, <2>1, <3>1, <3>2 DEF Begin
  <2>2. CASE Leave(c)
    <3>1. strays' = strays \/ strays' = strays + 1
      BY <1>4, <2>2 DEF Leave
    <3> QED
      BY <1>4, <2>2, <3>1 DEF Leave
  <2>3. CASE Refused(c)
    BY <1>4, <2>3 DEF Refused, gateVars
  <2>4. CASE Lost(c)
    BY <1>4, <2>4 DEF Lost, gateVars
  <2>5. CASE Metering(c)
    <3>1. interval' \in 0..Window
      BY <2>5, LearnedType DEF Metering
    <3>2. NoCooldown \/ \E wait \in Nat : Cooldown(wait)
      BY <2>5, WaitType DEF Metering
    <3> QED
      BY <1>4, <1>5, <3>1, <3>2 DEF NoCooldown
  <2> QED
    BY <2>1, <2>2, <2>3, <2>4, <2>5 DEF Call
<1> QED
  BY <1>1, <1>2, <1>3, <1>6 DEF TypeOK, Calls

\* Every step keeps the types.
LEMMA StepType ==
    ASSUME LimiterInv, TypeOK, AttemptsLeft, [Next]_vars
    PROVE  LimiterInv' /\ TypeOK' /\ AttemptsLeft'
<1>1. LimiterInv' /\ LimiterTypeOK'
  BY StepIsLimiterStep, LimiterNextInv DEF LimiterInv
<1>2. CASE UNCHANGED vars
  BY <1>1, <1>2 DEF vars, taskVars, gateVars, TypeOK, AttemptsLeft
<1>3. CASE Preflight
  BY <1>1, <1>3, PreflightType
<1>4. CASE Shutdown
  BY <1>1, <1>4 DEF Shutdown, gateVars, TypeOK, AttemptsLeft
<1>5. CASE Elapse
  BY <1>1, <1>5 DEF Elapse, taskVars, gateVars, TypeOK, AttemptsLeft
<1>6. ASSUME NEW c \in Callers, Call(c) PROVE TypeOK' /\ AttemptsLeft'
  <2>1. preflight' = preflight
    BY <1>6 DEF Call, Begin, Leave, Refused, Lost, Metering, taskVars
  <2> QED
    BY <1>1, <1>6, <2>1, CallKeepsType DEF AttemptsLeft
<1> QED
  BY <1>1, <1>2, <1>3, <1>4, <1>5, <1>6 DEF Next

\* The three things that happen to a call.
Begun(c) ==
    /\ caller[c].pc = "idle" /\ caller'[c].pc = "pacing"
    /\ caller'[c].start = Start /\ caller'[c].gap = interval
    /\ caller'[c].status = caller[c].status /\ caller'[c].agreed = caller[c].agreed

\* A call that leaves the gate.
Left(c) ==
    /\ caller[c].pc = "pacing" /\ caller'[c].pc = "calling"
    /\ caller'[c].start = caller[c].start /\ caller'[c].gap = caller[c].gap
    /\ caller'[c].status = caller[c].status
    /\ caller'[c].agreed => preflight.state = "passed"

\* A call that ends.
Over(c) ==
    /\ caller[c].pc = "calling" /\ caller'[c].pc = "idle"
    /\ \/ caller'[c].status = 200 /\ ~caller'[c].agreed
       \/ /\ caller'[c].status = Refusal(Presented, TRUE)
          /\ caller'[c].agreed = caller[c].agreed

\* A step of a call leaves the others alone.
LEMMA CallShape ==
    ASSUME TypeOK, NEW c \in Callers, Call(c)
    PROVE  /\ \A d \in Callers \ {c} : caller'[d] = caller[d]
           /\ \/ Begin(c) /\ Begun(c)
              \/ Leave(c) /\ Left(c)
              \/ (Refused(c) \/ Lost(c) \/ Metering(c)) /\ Over(c)
<1>1. caller \in [Callers -> Calls]
  BY DEF TypeOK, Calls
<1>2. CASE Begin(c)
  BY <1>1, <1>2 DEF Begin, Reserve, Begun, Calls
<1>3. CASE Leave(c)
  <2> DEFINE told == preflight.state = "passed"
  <2>1. caller' = [caller EXCEPT ![c].pc = "calling", ![c].agreed = told] /\ caller[c].pc = "pacing"
    BY <1>3 DEF Leave
  <2> HIDE DEF told
  <2>2. \A d \in Callers \ {c} : caller'[d] = caller[d]
    BY <1>1, <2>1
  <2>3. caller'[c] = [[caller[c] EXCEPT !.pc = "calling"] EXCEPT !.agreed = told]
    BY <1>1, <2>1
  <2>4. Left(c)
    BY <1>1, <2>1, <2>3 DEF Left, Calls, told
  <2> QED
    BY <1>3, <2>2, <2>4
<1>4. ASSUME Done(c), caller[c].pc = "calling"
      PROVE  Over(c) /\ \A d \in Callers \ {c} : caller'[d] = caller[d]
  BY <1>1, <1>4 DEF Done, NewCall, Over
<1>5. ASSUME NEW wait, Retry(c, wait), caller[c].pc = "calling"
      PROVE  Over(c) /\ \A d \in Callers \ {c} : caller'[d] = caller[d]
  BY <1>1, <1>5 DEF Retry, NewCall, Over
<1>6. CASE Refused(c)
  <2> DEFINE code == Refusal(Presented, TRUE)
  <2>1. caller' = [caller EXCEPT ![c] =
                    [[NewCall EXCEPT !.status = code] EXCEPT !.agreed = caller[c].agreed]]
        /\ caller[c].pc = "calling"
    BY <1>6 DEF Refused
  <2> HIDE DEF code
  <2>2. \A d \in Callers \ {c} : caller'[d] = caller[d]
    BY <1>1, <2>1
  <2>3. caller'[c].pc = "idle" /\ caller'[c].status = code /\ caller'[c].agreed = caller[c].agreed
    BY <1>1, <2>1 DEF NewCall
  <2> QED
    BY <1>6, <2>1, <2>2, <2>3 DEF Over, code
<1>7. CASE Lost(c)
  BY <1>4, <1>7 DEF Lost
<1>8. CASE Metering(c)
  <2>1. caller[c].pc = "calling" /\ (Done(c) \/ \E wait : Retry(c, wait))
    BY <1>8 DEF Metering
  <2>2. Over(c) /\ \A d \in Callers \ {c} : caller'[d] = caller[d]
    BY <1>4, <1>5, <2>1
  <2> QED
    BY <1>8, <2>2
<1> QED
  BY <1>2, <1>3, <1>6, <1>7, <1>8 DEF Call

-----------------------------------------------------------------------------
(* The preflight's verdict *)

\* Only a passing preflight passes, and only it or a lenient failure releases
\* the consumers before shutdown.
LEMMA VerdictKept ==
    ASSUME TypeOK, TypeOK', AttemptsLeft, Verdict, [Next]_vars
    PROVE  Verdict'
<1>2. CASE UNCHANGED <<conf, taskVars>>
  BY <1>2 DEF taskVars, Verdict, Agrees
<1>3. CASE Shutdown
  BY <1>3 DEF Shutdown, Verdict, Agrees
<1>4. ASSUME Preflight PROVE Verdict'
  <2>1. conf' = conf /\ stopping' = stopping /\ Attempting
    BY <1>4 DEF Preflight, PreflightOwnGate, PreflightUnanswered, PreflightRefused, PreflightAnswered
  <2>2. CASE \E retryable \in BOOLEAN : Fails(retryable)
    <3>1. preflight'.state = "failed" /\ preflight.state # "passed"
      BY <2>1, <2>2, FailsType DEF Verdict, Attempting
    <3>2. conf.strict => (proceed' => proceed)
      BY <2>2 DEF Fails
    <3> QED
      BY <2>1, <3>1, <3>2 DEF Verdict
  <2>3. CASE PreflightAnswered /\ Passes
    <3>1. preflight'.state = "passed" /\ preflight'.ended
      BY <2>3 DEF Passes
    <3>2. conf.standard.known
      BY <2>3 DEF PreflightAnswered, Refusal
    <3>3. Agrees(conf.standard)
      <4>1. PreflightAnswered => \/ \E retryable \in BOOLEAN : Fails(retryable)
                                 \/ Agrees(conf.standard)
        BY DEF PreflightAnswered
      <4>2. Passes => ~\E retryable \in BOOLEAN : Fails(retryable)
        BY <2>1, FailsType DEF Passes
      <4> QED
        BY <2>3, <4>1, <4>2
    <3> QED
      BY <2>1, <3>1, <3>2, <3>3 DEF Verdict, Agrees
  <2> QED
    BY <1>4, <2>2, <2>3 DEF Preflight, PreflightOwnGate, PreflightUnanswered, PreflightRefused,
       PreflightAnswered
<1>5. [Next]_vars => UNCHANGED <<conf, taskVars>> \/ Shutdown \/ Preflight
  BY DEF Next, Elapse, Call, Begin, Leave, Refused, Lost, Metering, vars
<1> QED
  BY <1>2, <1>3, <1>4, <1>5

\* A consumer is in the gate under a strict preflight only after a passed one.
LEMMA StrictKept ==
    ASSUME TypeOK, TypeOK', AttemptsLeft, Verdict, StrictHolds, [Next]_vars
    PROVE  StrictHolds'
<1>1. conf' = conf /\ (preflight.state = "passed" => preflight'.state = "passed")
  <2>1. ASSUME preflight.state = "passed" PROVE ~Preflight
    BY <2>1 DEF Verdict, Attempting, Preflight, PreflightOwnGate, PreflightUnanswered,
       PreflightRefused, PreflightAnswered
  <2>2. conf' = conf /\ (Preflight \/ preflight' = preflight)
    BY DEF Next, Preflight, PreflightOwnGate, PreflightUnanswered, PreflightRefused,
       PreflightAnswered, Shutdown, Elapse, Call, Begin, Leave, Refused, Lost, Metering, taskVars, vars
  <2> QED
    BY <2>1, <2>2
<1> SUFFICES ASSUME conf.strict, conf.preflight, NEW c \in Consumers, caller'[c].pc # "idle"
             PROVE  preflight.state = "passed"
  BY <1>1 DEF StrictHolds, Verdict, Agrees
<1>2. c \in Callers /\ c \notin Clients /\ caller \in [Callers -> Calls]
  BY UpstreamAssumption DEF Callers, TypeOK, Calls
<1>3. CASE caller[c].pc # "idle"
  BY <1>3 DEF StrictHolds
<1>4. CASE caller[c].pc = "idle"
  <2>1. caller' # caller
    BY <1>4
  <2>2. PICK d \in Callers : Call(d)
    BY <2>1 DEF Next, Preflight, PreflightOwnGate, PreflightUnanswered, PreflightRefused,
       PreflightAnswered, Shutdown, Elapse, vars
  <2>3. d = c /\ Begin(c)
    BY <1>2, <1>4, <2>2, CallShape DEF Left, Over
  <2> QED
    BY <1>2, <2>3 DEF Begin, MayStart, Verdict
<1> QED
  BY <1>3, <1>4

\* A status keeps telling what is wrong with the licence, and a call that left
\* after a passed preflight met a licence it had compared.
LEMMA StatusKept ==
    ASSUME LimiterTypeOK, TypeOK, TypeOK', Verdict, StatusTells, [Next]_vars
    PROVE  StatusTells'
<1>1. conf' = conf /\ (Routed' <=> Routed)
  BY DEF Next, Preflight, PreflightOwnGate, PreflightUnanswered, PreflightRefused,
     PreflightAnswered, Shutdown, Elapse, Call, Begin, Leave, Refused, Lost, Metering, vars, Routed
<1>2. now \in Nat /\ now' \in Nat /\ now <= now'
  <2>1. now \in Nat /\ (now' = now \/ now' = now + 1)
    BY StepIsLimiterStep DEF LimiterTypeOK, LimiterNext, Tick, Check, CheckFails, limiterVars
  <2> QED
    BY <2>1
<1>3. conf.standard.expires \in Nat
  BY ConfType DEF TypeOK, Licences
<1>4. ASSUME caller' = caller PROVE StatusTells'
  BY <1>1, <1>2, <1>3, <1>4 DEF StatusTells
<1>5. ASSUME NEW c \in Callers, Call(c) PROVE StatusTells'
  <2> DEFINE T(k, t) ==
        /\ k.agreed => conf.standard.known /\ conf.standard.entitled
        /\ ~Routed =>
            /\ k.status = 401 => ~conf.standard.known
            /\ k.status = 402 => t >= conf.standard.expires
            /\ k.status = 403 => ~conf.standard.entitled
  <2>1. \A d \in Callers : T(caller[d], now)
    BY DEF StatusTells
  <2>2. \A d \in Callers : T(caller[d], now')
    BY <1>2, <1>3, <2>1
  <2>3. T(caller'[c], now')
    <3>1. CASE Begun(c)
      BY <2>2, <3>1 DEF Begun
    <3>2. CASE Left(c)
      BY <2>2, <3>2 DEF Left, Verdict, Agrees
    <3>3. CASE Over(c)
      <4>1. ~Routed => /\ Refusal(Presented, TRUE) = 401 => ~conf.standard.known
                       /\ Refusal(Presented, TRUE) = 402 => now >= conf.standard.expires
                       /\ Refusal(Presented, TRUE) = 403 => ~conf.standard.entitled
        BY DEF Refusal, Presented
      <4>2. ~Routed => /\ caller'[c].status = 401 => ~conf.standard.known
                       /\ caller'[c].status = 402 => now' >= conf.standard.expires
                       /\ caller'[c].status = 403 => ~conf.standard.entitled
        <5>1. now >= conf.standard.expires => now' >= conf.standard.expires
          BY <1>2, <1>3
        <5>2. caller'[c].status = 200 \/ caller'[c].status = Refusal(Presented, TRUE)
          BY <3>3 DEF Over
        <5>3. CASE caller'[c].status = 200
          BY <5>3
        <5>4. CASE caller'[c].status = Refusal(Presented, TRUE)
          BY <4>1, <5>1, <5>4
        <5> QED
          BY <5>2, <5>3, <5>4
      <4> QED
        BY <2>2, <3>3, <4>2 DEF Over
    <3> QED
      BY <1>5, <3>1, <3>2, <3>3, CallShape
  <2>4. \A d \in Callers : T(caller'[d], now')
    BY <1>5, <2>2, <2>3, CallShape
  <2> QED
    BY <1>1, <2>4 DEF StatusTells
<1> QED
  BY <1>4, <1>5 DEF Next, Preflight, PreflightOwnGate, PreflightUnanswered, PreflightRefused,
     PreflightAnswered, Shutdown, Elapse, vars

-----------------------------------------------------------------------------
(* The gate *)

\* A step that is not a call's leaves the gate alone.
LEMMA GateLeftAlone ==
    ASSUME [Next]_vars, \A c \in Callers : ~Call(c)
    PROVE  caller' = caller /\ nextAt' = nextAt /\ cool' = cool /\ strays' = strays
  BY DEF Next, Preflight, PreflightOwnGate, PreflightUnanswered, PreflightRefused,
     PreflightAnswered, Shutdown, Elapse, vars, gateVars

\* Who holds a slot after a step of a call.
LEMMA HoldingShape ==
    ASSUME TypeOK, NEW c \in Callers, Call(c)
    PROVE  /\ Begun(c) => c \notin Holding /\ Holding' = Holding \cup {c}
           /\ Left(c) => Holding' = Holding
           /\ Over(c) => c \in Holding /\ Holding' = Holding \ {c}
<1>1. \A d \in Callers \ {c} : caller'[d] = caller[d]
  BY CallShape
<1> QED
  BY <1>1 DEF Holding, Begun, Left, Over

\* What a step of a call does to the next free start, the cooldown and its strays.
LEMMA GateShape ==
    ASSUME LimiterTypeOK', TypeOK, NEW c \in Callers, Call(c)
    PROVE  \/ /\ Begin(c) /\ Begun(c) /\ cool' = cool /\ strays' = strays
              /\ nextAt' = (IF interval > 0 THEN Start + interval ELSE Start)
           \/ /\ Leave(c) /\ Left(c) /\ nextAt' = nextAt /\ cool' = cool
              /\ strays' = strays + (IF now < cool THEN 1 ELSE 0)
           \/ Over(c) /\ NoCooldown
           \/ Over(c) /\ \E wait \in Nat : Cooldown(wait)
<1>1. CASE Begin(c) /\ Begun(c)
  BY <1>1 DEF Begin, Reserve
<1>2. CASE Leave(c) /\ Left(c)
  BY <1>2 DEF Leave
<1>3. CASE (Refused(c) \/ Lost(c)) /\ Over(c)
  BY <1>3 DEF Refused, Lost, gateVars, NoCooldown
<1>4. CASE Metering(c) /\ Over(c)
  BY <1>4, WaitType DEF Metering
<1> QED
  BY <1>1, <1>2, <1>3, <1>4, CallShape

\* The next free start never moves back.
LEMMA NextAtGrows ==
    ASSUME LimiterTypeOK, LimiterTypeOK', TypeOK, [Next]_vars
    PROVE  nextAt' >= nextAt /\ nextAt' \in Nat
<1>1. now \in Nat /\ nextAt \in Nat /\ interval \in Nat /\ Window \in Nat
  BY LimiterAssumption DEF LimiterTypeOK, TypeOK
<1>2. CASE \A c \in Callers : ~Call(c)
  BY <1>1, <1>2, GateLeftAlone
<1>3. ASSUME NEW c \in Callers, Call(c) PROVE nextAt' >= nextAt /\ nextAt' \in Nat
  BY <1>1, <1>3, GateShape DEF Start, Larger, NoCooldown, Cooldown
<1> QED
  BY <1>2, <1>3

\* Slots stay apart: a new one begins where the last one ends, or later.
LEMMA PacedKept ==
    ASSUME LimiterTypeOK, LimiterTypeOK', TypeOK, TypeOK', Reserved, Paced, [Next]_vars
    PROVE  Reserved' /\ Paced'
<1>1. now \in Nat /\ nextAt \in Nat /\ interval \in Nat /\ Window \in Nat
  BY LimiterAssumption DEF LimiterTypeOK, TypeOK
<1>2. nextAt' >= nextAt /\ nextAt' \in Nat
  BY NextAtGrows
<1>3. \A d \in Callers : caller[d].start \in Nat /\ caller[d].gap \in Nat
  BY DEF TypeOK
<1>4. \A d \in Holding : d \in Callers /\ caller[d].start + caller[d].gap <= nextAt'
  BY <1>1, <1>2, <1>3 DEF Reserved, Holding
<1>5. CASE \A c \in Callers : ~Call(c)
  BY <1>4, <1>5, GateLeftAlone DEF Reserved, Paced, Holding
<1>6. ASSUME NEW c \in Callers, Call(c) PROVE Reserved' /\ Paced'
  <2>1. \A d \in Callers \ {c} : caller'[d] = caller[d]
    BY <1>6, CallShape
  <2>2. CASE Begin(c) /\ Begun(c)
    <3>1. Holding' = Holding \cup {c} /\ c \notin Holding
      BY <1>6, <2>2, HoldingShape
    <3>2. caller'[c].start = Start /\ caller'[c].gap = interval /\ Start \in Nat /\ nextAt <= Start
          /\ Start + interval <= nextAt'
      BY <1>1, <2>2 DEF Begun, Begin, Reserve, Start, Larger
    <3>3. \A d \in Holding : caller'[d] = caller[d] /\ caller'[d].start + caller'[d].gap <= Start
      BY <1>1, <1>3, <2>1, <3>1, <3>2 DEF Reserved, Holding
    <3> QED
      BY <1>4, <2>1, <3>1, <3>2, <3>3 DEF Reserved, Paced
  <2>3. CASE Left(c)
    <3>1. Holding' = Holding
      BY <1>6, <2>3, HoldingShape
    <3>2. \A d \in Holding : caller'[d].start = caller[d].start /\ caller'[d].gap = caller[d].gap
      BY <1>4, <2>1, <2>3 DEF Left
    <3> QED
      BY <1>4, <3>1, <3>2 DEF Reserved, Paced
  <2>4. CASE Over(c)
    <3>1. Holding' = Holding \ {c}
      BY <1>6, <2>4, HoldingShape
    <3> QED
      BY <1>4, <2>1, <3>1 DEF Reserved, Paced
  <2> QED
    BY <1>6, <2>2, <2>3, <2>4, CallShape
<1> QED
  BY <1>5, <1>6

\* A cooldown is crossed only by slots that were taken when it began.
LEMMA CoolKeptKept ==
    ASSUME LimiterTypeOK, LimiterTypeOK', TypeOK, TypeOK', CoolKept, [Next]_vars
    PROVE  CoolKept'
<1>1. now \in Nat /\ nextAt \in Nat /\ interval \in Nat /\ cool \in Nat /\ strays \in Nat
      /\ MaxConcurrency \in Nat \ {0} /\ Window \in Nat
  BY LimiterAssumption, UpstreamAssumption DEF LimiterTypeOK, TypeOK
<1>2. Early \subseteq Holding /\ IsFiniteSet(Holding) /\ IsFiniteSet(Early)
      /\ Cardinality(Early) \in Nat /\ Cardinality(Holding) \in Nat
  <2>1. Early \subseteq Holding
    BY DEF Early, Holding
  <2> QED
    BY <2>1, FS_Subset, FS_CardinalityType DEF CoolKept
<1>3. \A d \in Callers : caller[d].start \in Nat
  BY DEF TypeOK
<1>4. CASE \A c \in Callers : ~Call(c)
  BY <1>4, GateLeftAlone DEF CoolKept, Early, Holding
<1>5. ASSUME NEW c \in Callers, Call(c) PROVE CoolKept'
  <2>1. \A d \in Callers \ {c} : caller'[d] = caller[d]
    BY <1>5, CallShape
  <2>2. ASSUME Begin(c), Begun(c), cool' = cool, strays' = strays,
               nextAt' = (IF interval > 0 THEN Start + interval ELSE Start)
        PROVE  CoolKept'
    <3>1. cool <= Start /\ Start \in Nat /\ cool' <= nextAt'
      BY <1>1, <2>2 DEF Start, Larger, CoolKept
    <3>2. Early' = Early
      <4>1. c \notin Early /\ c \notin Early'
        BY <1>1, <2>2, <3>1 DEF Begun, Early
      <4> QED
        BY <2>1, <2>2, <4>1 DEF Early
    <3>3. Holding' = Holding \cup {c} /\ c \notin Holding /\ Cardinality(Holding) < MaxConcurrency
      BY <1>5, <2>2, HoldingShape DEF Begin
    <3>4. IsFiniteSet(Holding') /\ Cardinality(Holding') = Cardinality(Holding) + 1
      BY <1>2, <3>3, FS_AddElement
    <3> QED
      BY <1>1, <1>2, <2>2, <3>1, <3>2, <3>3, <3>4 DEF CoolKept
  <2>3. ASSUME Leave(c), Left(c), nextAt' = nextAt, cool' = cool,
               strays' = strays + (IF now < cool THEN 1 ELSE 0)
        PROVE  CoolKept'
    <3>1. Holding' = Holding
      BY <1>5, <2>3, HoldingShape
    <3>2. Early' = Early \ {c}
      BY <2>1, <2>3 DEF Early, Left
    <3>3. now < cool => c \in Early
      BY <1>1, <1>3, <2>3 DEF Leave, Early
    <3>4. c \in Early => Cardinality(Early') = Cardinality(Early) - 1
      BY <1>2, <3>2, FS_RemoveElement
    <3>5. c \notin Early => Early' = Early
      BY <3>2
    <3>6. Cardinality(Early') + strays' <= Cardinality(Early) + strays
          /\ Cardinality(Early') + strays' \in Int
      BY <1>1, <1>2, <2>3, <3>3, <3>4, <3>5
    <3> QED
      BY <1>1, <1>2, <2>3, <3>1, <3>6 DEF CoolKept
  <2>4. ASSUME Over(c)
        PROVE  /\ IsFiniteSet(Holding') /\ Cardinality(Holding') = Cardinality(Holding) - 1
               /\ Early' \subseteq Holding' /\ (cool' = cool => Early' = Early)
    <3>1. c \in Holding /\ Holding' = Holding \ {c}
      BY <1>5, <2>4, HoldingShape
    <3>2. IsFiniteSet(Holding') /\ Cardinality(Holding') = Cardinality(Holding) - 1
      BY <1>2, <3>1, FS_RemoveElement
    <3>3. Early' \subseteq Holding' /\ (cool' = cool => Early' = Early)
      BY <2>1, <2>4 DEF Early, Holding, Over
    <3> QED
      BY <3>2, <3>3
  <2>5. ASSUME Over(c), NoCooldown PROVE CoolKept'
    BY <1>1, <1>2, <2>4, <2>5 DEF CoolKept, NoCooldown
  <2>6. ASSUME Over(c), NEW wait \in Nat, Cooldown(wait) PROVE CoolKept'
    <3>1. cool' <= nextAt' /\ strays' = 0
      BY <1>1, <2>6 DEF CoolKept, Cooldown, Larger
    <3>2. Cardinality(Early') <= Cardinality(Holding') /\ Cardinality(Early') \in Nat
      BY <2>4, <2>6, FS_Subset, FS_CardinalityType
    <3>3. Cardinality(Holding') < MaxConcurrency
      BY <1>1, <1>2, <2>4, <2>6 DEF CoolKept
    <3> QED
      BY <1>1, <1>2, <2>4, <2>6, <3>1, <3>2, <3>3 DEF CoolKept
  <2> QED
    BY <1>5, <2>2, <2>3, <2>5, <2>6, GateShape
<1> QED
  BY <1>4, <1>5

-----------------------------------------------------------------------------
(* Theorems *)

\* The inductive invariant.
UpstreamInv ==
    /\ LimiterInv /\ TypeOK /\ AttemptsLeft
    /\ Verdict /\ StrictHolds /\ StatusTells
    /\ Reserved /\ Paced /\ CoolKept

\* The initial state satisfies it.
LEMMA UpstreamInitInv == ASSUME Init PROVE UpstreamInv
<1>1. LimiterInv /\ TypeOK
  BY UpstreamInitType
<1>2. caller = [c \in Callers |-> NewCall] /\ preflight.attempts = 0 /\ strays = 0
      /\ cool = 0 /\ nextAt = 0
  BY DEF Init
<1>3. AttemptsLeft
  BY <1>2, UpstreamAssumption DEF AttemptsLeft
<1>4. Verdict
  <2>1. preflight.state # "passed" /\ (conf.preflight => ~proceed)
    BY DEF Init
  <2> QED
    BY <2>1 DEF Verdict
<1>5. \A c \in Callers : caller[c].pc = "idle" /\ caller[c].status = 200 /\ caller[c].agreed = FALSE
  BY <1>2 DEF NewCall
<1>6. StrictHolds /\ StatusTells
  BY <1>5 DEF StrictHolds, StatusTells, Callers
<1>7. Holding = {} /\ Early = {}
  BY <1>5 DEF Holding, Early
<1>8. Reserved /\ Paced
  BY <1>7 DEF Reserved, Paced
<1>9. CoolKept
  BY <1>2, <1>7, FS_EmptySet, UpstreamAssumption DEF CoolKept
<1> QED
  BY <1>1, <1>3, <1>4, <1>6, <1>8, <1>9 DEF UpstreamInv

\* Every step keeps it.
LEMMA UpstreamNextInv == ASSUME UpstreamInv, [Next]_vars PROVE UpstreamInv'
<1>1. LimiterInv' /\ TypeOK' /\ AttemptsLeft'
  BY StepType DEF UpstreamInv
<1>2. LimiterTypeOK /\ LimiterTypeOK'
  BY <1>1 DEF UpstreamInv, LimiterInv
<1>3. Verdict' /\ StrictHolds' /\ StatusTells'
  BY <1>1, <1>2, VerdictKept, StrictKept, StatusKept DEF UpstreamInv
<1>4. Reserved' /\ Paced'
  BY <1>1, <1>2, PacedKept DEF UpstreamInv
<1>5. CoolKept'
  BY <1>1, <1>2, CoolKeptKept DEF UpstreamInv
<1> QED
  BY <1>1, <1>3, <1>4, <1>5 DEF UpstreamInv

\* It always holds.
LEMMA UpstreamAlways == Spec => []UpstreamInv
  BY UpstreamInitInv, UpstreamNextInv, PTL DEF Spec

\* The worker and the interceptors stay well typed, the preflight within its
\* attempts.
THEOREM UpstreamTypeCorrect == Spec => []TypeOK
<1>1. UpstreamInv => TypeOK
  BY DEF UpstreamInv
<1> QED
  BY <1>1, UpstreamAlways, PTL

\* RateGate._pace: whatever callers queue, cooldowns fall and quotas are learned,
\* two slots of the gate are never closer than the pace of the earlier one.
THEOREM UpstreamPaced == Spec => []Paced
<1>1. UpstreamInv => Paced
  BY DEF UpstreamInv
<1> QED
  BY <1>1, UpstreamAlways, PTL

\* RateGate.apply_cooldown: fewer calls leave inside a cooldown than the gate
\* admits at once.
THEOREM UpstreamFewStrays == Spec => []FewStrays
<1>1. UpstreamInv => FewStrays
  <2>1. ASSUME UpstreamInv PROVE FewStrays
    <3>1. Early \subseteq Holding
      BY DEF Early, Holding
    <3>2. Cardinality(Early) \in Nat
      BY <2>1, <3>1, FS_Subset, FS_CardinalityType DEF UpstreamInv, CoolKept
    <3>3. strays \in Nat /\ MaxConcurrency \in Nat
      BY <2>1, UpstreamAssumption DEF UpstreamInv, TypeOK
    <3> QED
      BY <2>1, <3>2, <3>3 DEF UpstreamInv, CoolKept, FewStrays
  <2> QED
    BY <2>1
<1> QED
  BY <1>1, UpstreamAlways, PTL

\* run_preflight_until_ready and lifespan: a strict preflight that did not pass
\* keeps every consumer from calling, through retries and shutdown.
THEOREM UpstreamStrictHolds == Spec => []StrictHolds
<1>1. UpstreamInv => StrictHolds
  BY DEF UpstreamInv
<1> QED
  BY <1>1, UpstreamAlways, PTL

\* InterceptorPreflight: after it passed, the standard interceptor refuses a call
\* for the licence's expiry and for nothing else.
THEOREM UpstreamAgreementHolds == Spec => []AgreementHolds
<1>1. UpstreamInv => AgreementHolds
  BY DEF UpstreamInv, StatusTells, AgreementHolds
<1> QED
  BY <1>1, UpstreamAlways, PTL

\* Behind the worker and its preflight the limiters keep their quota.
THEOREM UpstreamQuotaHeld == Spec => []QuotaHeld
  BY UpstreamRunsLimiter, LimiterQuotaHeld, PTL

\* The composed system implements QuotaWindow.
THEOREM UpstreamMetered == Spec => Metered
  BY UpstreamRunsLimiter, LimiterRefinesQuota

=============================================================================
