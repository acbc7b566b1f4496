--------------------------- MODULE PlanningProofs ---------------------------
(***************************************************************************)
(* Theorems about Planning: the kernel's promise on integrity channels for *)
(* every payload of a behaviour; what the guardrails, the bridge and the   *)
(* translation make of a plan, operator by operator; the invariant of the  *)
(* requests with its consequences; and the invariant behind the one answer *)
(* and the trip that does not depend on who asked.                         *)
(***************************************************************************)
EXTENDS Planning, GraphKernelProofs, SequenceTheorems

\* A request never changes the event, so what it brings is what Init projected.
GivenInv ==
    /\ event \in Events
    /\ payload = [q \in Requests |-> Payload(event, q)]
    /\ analysis = [q \in Requests |-> Analysis(payload[q])]

\* No action assigns the event, the payloads or their analysis.
LEMMA GivenUnchanged == ASSUME [Next]_vars PROVE UNCHANGED given
<1>1. ASSUME Evict \/ Restart PROVE UNCHANGED given
  BY <1>1 DEF Evict, Restart
<1>2. ASSUME NEW q \in Requests, Request(q) PROVE UNCHANGED given
  BY <1>2 DEF Request, Engine, PlanInOneTurn, Replay, RefusePayload, Intercept, Isolate,
              Retrieve, PlanAction, AgentBreaks, Deliver, AskAgain, Ask
<1>3. CASE UNCHANGED vars
  BY <1>3 DEF vars
<1> QED
  BY <1>1, <1>2, <1>3 DEF Next

\* So they stay those of Init.
LEMMA GivenHolds == Spec => []GivenInv
<1>1. Init => GivenInv
  BY DEF Init, GivenInv
<1>2. GivenInv /\ [Next]_vars => GivenInv'
  BY GivenUnchanged DEF GivenInv, given
<1> QED
  BY <1>1, <1>2, PTL DEF Spec

\* Every payload has the shape the kernel's theorems ask for.
LEMMA PayloadsShaped == ASSUME GivenInv, NEW q \in Requests PROVE Shaped(payload[q])
  BY EventAssumption DEF GivenInv

\* The comment on ChannelLimit, for every payload of every behaviour.
THEOREM IntegrityAlwaysHeld == Spec => []IntegrityHeld
<1>1. GivenInv => IntegrityHeld
  BY PayloadsShaped, IntegrityNeverTripsAnywhere DEF IntegrityHeld
<1> QED
  BY <1>1, GivenHolds, PTL

-----------------------------------------------------------------------------
(* Sequences *)

\* Every rank up to the size of a set of positions is the rank of one of them.
LEMMA RankExists ==
    ASSUME NEW n \in Nat, NEW I \in SUBSET (1..n), NEW k \in 1..Cardinality(I)
    PROVE  \E i \in I : Cardinality({j \in I : j <= i}) = k
<1> DEFINE Upto(i) == {j \in I : j <= i}
           f == [i \in I |-> Cardinality(Upto(i))]
           c == Cardinality(I)
<1>1. IsFiniteSet(I) /\ c \in Nat
  <2>1. IsFiniteSet(1..n)
    BY FS_Interval
  <2> QED
    BY <2>1, FS_Subset, FS_CardinalityType
<1>2. \A i \in I : Upto(i) \in SUBSET I /\ i \in Upto(i)
  OBVIOUS
<1>3. ASSUME NEW i \in I
      PROVE  IsFiniteSet(Upto(i)) /\ Cardinality(Upto(i)) \in 1..c
  <2>1. IsFiniteSet(Upto(i)) /\ Cardinality(Upto(i)) <= c
    BY <1>1, <1>2, FS_Subset
  <2>2. Cardinality(Upto(i)) \in Nat /\ Cardinality(Upto(i)) # 0
    BY <1>2, <2>1, FS_CardinalityType, FS_EmptySet
  <2> HIDE DEF Upto, c
  <2> QED
    BY <1>1, <2>1, <2>2
<1>4. ASSUME NEW i \in I, NEW j \in I, i < j
      PROVE  Cardinality(Upto(i)) # Cardinality(Upto(j))
  <2>1. Upto(i) \in SUBSET Upto(j) /\ Upto(i) # Upto(j)
    <3>1. j \in Upto(j) /\ j \notin Upto(i)
      BY <1>4
    <3>2. ASSUME NEW k2 \in I, k2 <= i PROVE k2 <= j
      BY <1>4, <3>2
    <3>3. Upto(i) \subseteq Upto(j)
      BY <3>2
    <3> QED
      BY <3>1, <3>3
  <2> QED
    BY <1>3, <2>1, FS_Subset
<1>5. \A i, j \in I : f[i] = f[j] => i = j
  <2> SUFFICES ASSUME NEW i \in I, NEW j \in I, i # j PROVE f[i] # f[j]
    OBVIOUS
  <2>1. i < j \/ j < i
    OBVIOUS
  <2> QED
    BY <1>4, <2>1
<1> SUFFICES ASSUME \A i \in I : f[i] # k PROVE FALSE
  OBVIOUS
<1> DEFINE T == (1..c) \ {k}
<1>6. f \in [I -> T]
  BY <1>3
<1>7. IsFiniteSet(T) /\ Cardinality(T) < Cardinality(I)
  <2>1. IsFiniteSet(1..c) /\ Cardinality(1..c) = c
    BY <1>1, FS_Interval
  <2>2. IsFiniteSet(T) /\ Cardinality(T) = c - 1
    <3>1. k \in 1..c
      OBVIOUS
    <3> DEFINE D == 1..c
    <3>2. IsFiniteSet(D) /\ Cardinality(D) = c /\ k \in D
      BY <2>1, <3>1
    <3> HIDE DEF D, c
    <3>3. IsFiniteSet(D \ {k}) /\ Cardinality(D \ {k}) = c - 1
      BY <3>2, FS_RemoveElement
    <3> QED
      BY <3>3 DEF D
  <2> QED
    BY <1>1, <2>2
<1> QED
  <2> HIDE DEF f, T, c
  <2>1. \E x, y \in I : x # y /\ f[x] = f[y]
    BY <1>1, <1>6, <1>7, FS_PigeonHole
  <2> QED
    BY <1>5, <2>1

\* What is picked from a sequence are elements of it.
LEMMA PickedIs ==
    ASSUME NEW S, NEW s \in Seq(S), NEW I \in SUBSET DOMAIN s
    PROVE  /\ Picked(s, I) \in Seq(S)
           /\ \A k \in DOMAIN Picked(s, I) : \E i \in I : Picked(s, I)[k] = s[i]
<1> DEFINE c == Cardinality(I)
<1>1. Len(s) \in Nat /\ DOMAIN s = 1..Len(s) /\ \A i \in DOMAIN s : s[i] \in S
  OBVIOUS
<1>2. c \in Nat
  <2>1. IsFiniteSet(DOMAIN s)
    BY <1>1, FS_Interval
  <2> QED
    BY <2>1, FS_Subset, FS_CardinalityType
<1>3. ASSUME NEW k \in 1..c PROVE \E i \in I : Picked(s, I)[k] = s[i]
  <2>1. \E i \in I : Cardinality({j \in I : j <= i}) = k
    BY <1>1, RankExists
  <2> DEFINE m == CHOOSE i \in I : Cardinality({j \in I : j <= i}) = k
  <2>2. m \in I
    BY <2>1
  <2>3. Picked(s, I)[k] = s[m]
    BY DEF Picked
  <2> QED
    BY <2>2, <2>3
<1>4. DOMAIN Picked(s, I) = 1..c /\ Picked(s, I) = [k \in 1..c |-> Picked(s, I)[k]]
  BY DEF Picked
<1>5. \A k \in 1..c : Picked(s, I)[k] \in S
  BY <1>1, <1>3
<1>6. Picked(s, I) \in [1..c -> S]
  BY <1>4, <1>5
<1> QED
  BY <1>2, <1>3, <1>4, <1>6

\* A sequence cut at n has its first elements, at most n.
LEMMA CutIs ==
    ASSUME NEW S, NEW s \in Seq(S), NEW n \in Nat
    PROVE  /\ Cut(s, n) \in Seq(S) /\ Len(Cut(s, n)) <= n /\ Len(Cut(s, n)) <= Len(s)
           /\ s # <<>> /\ n > 0 => Len(Cut(s, n)) > 0
           /\ \A i \in 1..Len(Cut(s, n)) : Cut(s, n)[i] = s[i]
<1>1. CASE Len(s) <= n
  BY <1>1 DEF Cut
<1>2. CASE ~(Len(s) <= n)
  <2>1. Cut(s, n) = SubSeq(s, 1, n) /\ Len(s) > n
    BY <1>2 DEF Cut
  <2>2. \A i \in 1..n : s[i] \in S
    BY <2>1
  <2> QED
    BY <2>1, <2>2, SubSeqProperties
<1> QED
  BY <1>1, <1>2

-----------------------------------------------------------------------------
(* Steps and procedures *)

\* A step of a plan.
Steps == {Step(a, r) : a \in Actors, r \in BOOLEAN}

\* A step's fields.
LEMMA StepIs ==
    ASSUME NEW a, NEW r \in BOOLEAN
    PROVE  /\ Step(a, r).actor = a /\ (Step(a, r).rev <=> r)
           /\ a \in Actors => Step(a, r) \in Steps
  BY DEF Step, Steps

\* A step has an actor, and can be undone or not.
LEMMA StepsAre ==
    ASSUME NEW s \in Steps
    PROVE  s.actor \in Actors /\ s.rev \in BOOLEAN
<1>1. PICK a \in Actors, r \in BOOLEAN : s = Step(a, r)
  BY DEF Steps
<1> QED
  BY <1>1 DEF Step

\* The procedures of the corpus are sequences of steps, and only that of the
\* emergency shutdown has irreversible ones.
LEMMA CorpusIs ==
    ASSUME NEW d \in DOMAIN Corpus
    PROVE  /\ Corpus[d] \in Seq(Steps) /\ Corpus[d] # <<>>
           /\ d # "THM" => ~SomeIrreversible(Corpus[d])
<1> DEFINE hh == Step("HUMAN_TECHNICIAN", TRUE)
           hs == Step("HUMAN_SUPERVISOR", TRUE)
           cs == Step("CONTROL_SYSTEM", TRUE)
           ra == Step("ROBOTIC_ACTUATOR", TRUE)
           ci == Step("CONTROL_SYSTEM", FALSE)
           ri == Step("ROBOTIC_ACTUATOR", FALSE)
<1>1. /\ hh \in Steps /\ hs \in Steps /\ cs \in Steps /\ ra \in Steps
      /\ ci \in Steps /\ ri \in Steps
  BY StepIs DEF Actors
<1>2. hh.rev /\ hs.rev /\ cs.rev /\ ra.rev
  BY StepIs
<1>3. /\ ROT004 = <<cs, ra, hh>> /\ THM011 = <<hs, ci, ri, hh>> /\ CAS021 = <<cs, ra, hh>>
      /\ DEG008 = <<cs, hh>> /\ HEX017 = <<cs, hh>> /\ CTL009 = <<cs, hh>>
      /\ BLR002 = <<cs, hs>> /\ CRDT014 = <<cs, hs>> /\ LOTO006 = <<hh, hh>>
      /\ CLS001 = <<hh, hs>>
  BY DEF ROT004, THM011, CAS021, DEG008, HEX017, CTL009, BLR002, CRDT014, LOTO006, CLS001
<1> HIDE DEF hh, hs, cs, ra, ci, ri
<1>4. \A x, y \in {hh, hs, cs, ra} :
        /\ <<x, y>> \in Seq(Steps) /\ <<x, y>> # <<>> /\ ~SomeIrreversible(<<x, y>>)
  BY <1>1, <1>2 DEF SomeIrreversible
<1>5. \A x, y, z \in {hh, hs, cs, ra} :
        /\ <<x, y, z>> \in Seq(Steps) /\ <<x, y, z>> # <<>> /\ ~SomeIrreversible(<<x, y, z>>)
  BY <1>1, <1>2 DEF SomeIrreversible
<1>6. THM011 \in Seq(Steps) /\ THM011 # <<>>
  BY <1>1, <1>3
<1>7. /\ d \in {"ROT", "THM", "CAS", "DEG", "HEX", "CTL", "BLR", "CRDT", "LOTO", "CLS"}
      /\ Corpus["ROT"] = ROT004 /\ Corpus["THM"] = THM011 /\ Corpus["CAS"] = CAS021
      /\ Corpus["DEG"] = DEG008 /\ Corpus["HEX"] = HEX017 /\ Corpus["CTL"] = CTL009
      /\ Corpus["BLR"] = BLR002 /\ Corpus["CRDT"] = CRDT014 /\ Corpus["LOTO"] = LOTO006
      /\ Corpus["CLS"] = CLS001
  BY DEF Corpus
<1>8. CASE d \in {"ROT", "CAS"}
  BY <1>3, <1>5, <1>7, <1>8
<1>9. CASE d \in {"DEG", "HEX", "CTL", "BLR", "CRDT", "LOTO", "CLS"}
  BY <1>3, <1>4, <1>7, <1>9
<1>10. CASE d = "THM"
  BY <1>6, <1>7, <1>10
<1> QED
  BY <1>7, <1>8, <1>9, <1>10

\* A procedure that leads has steps, and irreversible ones only for the trip.
LEMMA LeadIs ==
    ASSUME NEW action \in Actions, NEW d \in Leads(action)
    PROVE  /\ Procedure(d) \in Seq(Steps) /\ Procedure(d) # <<>>
           /\ ~Irreversible(action) => ~SomeIrreversible(Procedure(d))
<1>1. CASE d = "none"
  <2>1. Procedure(d) = <<Step("CONTROL_SYSTEM", TRUE)>>
    BY <1>1 DEF Procedure
  <2> DEFINE cs == Step("CONTROL_SYSTEM", TRUE)
  <2>2. cs \in Steps /\ cs.rev
    BY StepIs DEF Actors
  <2> HIDE DEF cs
  <2>3. <<cs>> \in Seq(Steps) /\ <<cs>> # <<>> /\ ~SomeIrreversible(<<cs>>)
    BY <2>2 DEF SomeIrreversible
  <2> QED
    BY <2>1, <2>3 DEF cs
<1>2. CASE d # "none"
  <2>1. d \in DOMAIN Applicable /\ action \in Applicable[d]
    BY <1>2 DEF Leads
  <2>2. d \in DOMAIN Corpus /\ Procedure(d) = Corpus[d]
    BY <1>2, <2>1 DEF Applicable, Corpus, Procedure
  <2>3. d = "THM" => Irreversible(action)
    BY <2>1 DEF Applicable, Irreversible
  <2> QED
    BY <2>2, <2>3, CorpusIs
<1> QED
  BY <1>1, <1>2

-----------------------------------------------------------------------------
(* Plans *)

\* The steps that can be undone.
Calm == {s \in Steps : s.rev}

\* The sequences of calm steps are those without an irreversible one.
LEMMA CalmSteps ==
    ASSUME NEW steps \in Seq(Steps)
    PROVE  steps \in Seq(Calm) <=> ~SomeIrreversible(steps)
<1>1. /\ Len(steps) \in Nat /\ DOMAIN steps = 1..Len(steps)
      /\ \A i \in 1..Len(steps) : steps[i] \in Steps
      /\ steps = [i \in 1..Len(steps) |-> steps[i]]
  OBVIOUS
<1>2. ASSUME steps \in Seq(Calm) PROVE ~SomeIrreversible(steps)
  BY <1>1, <1>2 DEF SomeIrreversible, Calm
<1>3. ASSUME ~SomeIrreversible(steps) PROVE steps \in Seq(Calm)
  <2>1. \A i \in 1..Len(steps) : steps[i] \in Calm
    BY <1>1, <1>3 DEF SomeIrreversible, Calm
  <2>2. steps \in [1..Len(steps) -> Calm]
    BY <1>1, <2>1
  <2> QED
    BY <1>1, <2>2
<1> QED
  BY <1>2, <1>3

\* A plan is made of the steps of its procedures.
LEMMA AssembledIn ==
    ASSUME NEW T, NEW p, NEW v, NEW d, Procedure(d.lead) \in Seq(T),
           \A c \in {"CLS", "CRDT", "BLR", "LOTO"} : Corpus[c] \in Seq(T)
    PROVE  Assembled(p, v, d) \in Seq(T)
<1> DEFINE part(chunk, wanted) == IF chunk \in d.chunks /\ wanted THEN Corpus[chunk] ELSE <<>>
           closure == part("CLS", TRUE)
           s1 == part("CRDT", v.contested \/ v.diverging \/ v.trust < 75)
           s2 == part("BLR", p.down # {})
           s3 == part("LOTO", v.hint \in {"ISOLATE_VALVE", "EMERGENCY_SHUTDOWN"})
           steps == s1 \o s2 \o Procedure(d.lead) \o s3
           budget == IF MaxSteps - Len(closure) < 1 THEN 1 ELSE MaxSteps - Len(closure)
<1>1. \A c \in {"CLS", "CRDT", "BLR", "LOTO"} : \A w : part(c, w) \in Seq(T)
  OBVIOUS
<1>2. closure \in Seq(T) /\ s1 \in Seq(T) /\ s2 \in Seq(T) /\ s3 \in Seq(T)
  BY <1>1
<1>3. Assembled(p, v, d) = Cut(steps, budget) \o closure
  BY DEF Assembled
<1> HIDE DEF s1, s2, s3, closure
<1>4. steps \in Seq(T)
  BY <1>2
<1>5. budget \in Nat
  <2>1. Len(closure) \in Nat
    BY <1>2
  <2> QED
    BY <2>1, PlanningAssumption
<1> HIDE DEF steps, budget
<1>6. Cut(steps, budget) \in Seq(T)
  BY <1>4, <1>5, CutIs
<1> QED
  BY <1>2, <1>3, <1>6

\* What a planning agent may return.
IsPlan(plan) ==
    /\ plan = [action |-> plan.action, target |-> plan.target, priority |-> plan.priority,
               steps |-> plan.steps, auth |-> plan.auth]
    /\ plan.action \in Actions /\ plan.priority \in Priorities /\ plan.steps \in Seq(Steps)

\* A plan whose action can be undone, with all its steps.
CalmPlan(plan) == ~Irreversible(plan.action) /\ ~SomeIrreversible(plan.steps)

\* The rule engine's plan; only the shutdown brings irreversible work.
LEMMA ActionPlanIs ==
    ASSUME NEW p, NEW a, NEW v, NEW d, v.hint \in Actions, a.priority \in Priorities,
           d.lead \in Leads(v.hint)
    PROVE  /\ IsPlan(ActionPlan(p, a, v, d))
           /\ ~Irreversible(v.hint) => CalmPlan(ActionPlan(p, a, v, d))
<1> DEFINE plan == ActionPlan(p, a, v, d)
<1>1. /\ plan.action = v.hint /\ plan.priority = a.priority
      /\ plan.steps = Assembled(p, v, d)
      /\ plan = [action |-> plan.action, target |-> plan.target, priority |-> plan.priority,
                 steps |-> plan.steps, auth |-> plan.auth]
  BY DEF ActionPlan
<1> HIDE DEF plan
<1>2. \A c \in {"CLS", "CRDT", "BLR", "LOTO"} :
        Corpus[c] \in Seq(Steps) /\ ~SomeIrreversible(Corpus[c])
  <2>1. {"CLS", "CRDT", "BLR", "LOTO"} \subseteq DOMAIN Corpus \ {"THM"}
    BY DEF Corpus
  <2> QED
    BY <2>1, CorpusIs
<1>3. plan.steps \in Seq(Steps)
  BY <1>1, <1>2, LeadIs, AssembledIn
<1>4. ASSUME ~Irreversible(v.hint) PROVE CalmPlan(plan)
  <2>1. \A c \in {"CLS", "CRDT", "BLR", "LOTO"} : Corpus[c] \in Seq(Calm)
    BY <1>2, CalmSteps
  <2>2. Procedure(d.lead) \in Seq(Calm)
    BY <1>4, LeadIs, CalmSteps
  <2>3. plan.steps \in Seq(Calm)
    BY <1>1, <2>1, <2>2, AssembledIn
  <2> QED
    BY <1>1, <1>3, <1>4, <2>3, CalmSteps DEF CalmPlan
<1>5. IsPlan(plan)
  BY <1>1, <1>3 DEF IsPlan
<1> QED
  BY <1>4, <1>5 DEF plan

\* Whatever the agent, what it returns is a plan.
LEMMA AgentPlanIs ==
    ASSUME NEW p, NEW a, NEW v, NEW d, v.hint \in Actions, a.priority \in Priorities,
           d.lead \in Leads(v.hint), NEW plan \in AgentPlans(p, a, v, d)
    PROVE  /\ IsPlan(plan)
           /\ ~event.cloud => plan = ActionPlan(p, a, v, d)
<1>1. CASE ~event.cloud
  BY <1>1, ActionPlanIs DEF AgentPlans
<1>2. CASE event.cloud
  <2> DEFINE one == <<Step("CONTROL_SYSTEM", FALSE)>>
             all == [i \in 1..(MaxSteps + 1) |->
                      Step(IF i > MaxSteps THEN "HUMAN_SUPERVISOR" ELSE "HUMAN_TECHNICIAN", TRUE)]
             ci == Step("CONTROL_SYSTEM", FALSE)
  <2>1. one \in Seq(Steps)
    <3>1. ci \in Steps
      BY StepIs DEF Actors
    <3> HIDE DEF ci
    <3>2. <<ci>> \in Seq(Steps)
      BY <3>1
    <3> QED
      BY <3>2 DEF ci
  <2>2. all \in Seq(Steps)
    <3>1. \A i \in 1..(MaxSteps + 1) : all[i] \in Steps
      BY StepIs DEF Actors
    <3>2. MaxSteps + 1 \in Nat
      BY PlanningAssumption
    <3>3. all \in [1..(MaxSteps + 1) -> Steps]
      BY <3>1
    <3> HIDE DEF all
    <3> QED
      BY <3>2, <3>3
  <2>3. plan \in [action: Actions, target: {v.root, p.asset, "outside"}, priority: Priorities,
                  steps: {one, all}, auth: BOOLEAN]
    BY <1>2 DEF AgentPlans
  <2> HIDE DEF one, all
  <2>4. /\ plan = [action |-> plan.action, target |-> plan.target, priority |-> plan.priority,
                   steps |-> plan.steps, auth |-> plan.auth]
        /\ plan.action \in Actions /\ plan.priority \in Priorities
        /\ plan.steps \in {one, all}
    BY <2>3
  <2> QED
    BY <1>2, <2>1, <2>2, <2>4 DEF IsPlan
<1> QED
  BY <1>1, <1>2

-----------------------------------------------------------------------------
(* The guardrails *)

\* 1, 2: a plan that can be undone is only redirected.
LEMMA DowngradedIs ==
    ASSUME NEW plan, IsPlan(plan), NEW v
    PROVE  /\ IsPlan(Downgraded(plan, v)) /\ Downgraded(plan, v).priority = plan.priority
           /\ CalmPlan(plan) => CalmPlan(Downgraded(plan, v))
<1> DEFINE I == {i \in DOMAIN plan.steps : plan.steps[i].rev}
           reversible == Picked(plan.steps, I)
           untrusted == ~v.permitted \/ v.trust < MinTrust
           kept == IF reversible = <<>> THEN Procedure("none") ELSE reversible
           e == Downgraded(plan, v)
<1>1. e = IF Irreversible(plan.action) /\ untrusted
          THEN [plan EXCEPT !.target = v.root, !.action = "DEGRADE_THROTTLE", !.steps = kept]
          ELSE [plan EXCEPT !.target = v.root]
  BY DEF Downgraded
<1>2. kept \in Seq(Steps)
  <2>1. I \in SUBSET DOMAIN plan.steps
    OBVIOUS
  <2> HIDE DEF I
  <2>2. reversible \in Seq(Steps)
    BY <2>1, PickedIs DEF IsPlan
  <2>3. Procedure("none") \in Seq(Steps)
    BY LeadIs DEF Leads, Actions
  <2> HIDE DEF reversible
  <2> QED
    BY <2>2, <2>3
<1> HIDE DEF e, kept, untrusted
<1>3. CASE Irreversible(plan.action) /\ untrusted
  <2>1. e = [action |-> "DEGRADE_THROTTLE", target |-> v.root, priority |-> plan.priority,
             steps |-> kept, auth |-> plan.auth]
    BY <1>1, <1>3 DEF IsPlan
  <2>2. IsPlan(e) /\ e.priority = plan.priority
    BY <1>2, <2>1 DEF IsPlan, Actions
  <2> QED
    BY <1>3, <2>2 DEF e, CalmPlan
<1>4. CASE ~(Irreversible(plan.action) /\ untrusted)
  <2>1. e = [action |-> plan.action, target |-> v.root, priority |-> plan.priority,
             steps |-> plan.steps, auth |-> plan.auth]
    BY <1>1, <1>4 DEF IsPlan
  <2>2. IsPlan(e) /\ e.priority = plan.priority /\ e.action = plan.action /\ e.steps = plan.steps
    BY <2>1 DEF IsPlan
  <2> QED
    BY <2>2 DEF e, CalmPlan
<1> QED
  BY <1>3, <1>4

\* 3, 4: only the priority is raised, and far enough.
LEMMA RaisedIs ==
    ASSUME NEW plan, IsPlan(plan), NEW a
    PROVE  LET e == Raised(plan, a) IN
           /\ IsPlan(e) /\ e.action = plan.action /\ e.steps = plan.steps
           /\ Irreversible(e.action) => e.priority = "CRITICAL"
           /\ a.priority = "CRITICAL" => e.priority # "ROUTINE"
<1>1. \A x \in Priorities :
        /\ [plan EXCEPT !.priority = x] =
             [action |-> plan.action, target |-> plan.target, priority |-> x,
              steps |-> plan.steps, auth |-> plan.auth]
        /\ IsPlan([plan EXCEPT !.priority = x])
        /\ [plan EXCEPT !.priority = x].action = plan.action
        /\ [plan EXCEPT !.priority = x].steps = plan.steps
        /\ [plan EXCEPT !.priority = x].priority = x
  BY DEF IsPlan
<1>2. {"CRITICAL", "HIGH", "ROUTINE"} = Priorities
  BY DEF Priorities
<1>3. CASE Irreversible(plan.action)
  BY <1>1, <1>2, <1>3 DEF Raised
<1>4. CASE ~Irreversible(plan.action) /\ a.priority = "CRITICAL" /\ plan.priority = "ROUTINE"
  BY <1>1, <1>2, <1>4 DEF Raised
<1>5. CASE ~Irreversible(plan.action) /\ ~(a.priority = "CRITICAL" /\ plan.priority = "ROUTINE")
  BY <1>5 DEF Raised
<1> QED
  BY <1>3, <1>4, <1>5

\* Steps handed to a supervisor.
LEMMA HandOverIs ==
    ASSUME NEW s \in Seq(Steps)
    PROVE  /\ HandOver(s) \in Seq(Steps) /\ Supervised(HandOver(s)) /\ HandOver(s) # <<>>
           /\ Len(HandOver(s)) <= Len(s) + 1
           /\ ~SomeIrreversible(s) => ~SomeIrreversible(HandOver(s))
<1> DEFINE last == Step("HUMAN_SUPERVISOR", TRUE)
<1>1. last \in Steps /\ last.actor = "HUMAN_SUPERVISOR" /\ last.rev
  BY StepIs DEF Actors
<1>2. CASE Supervised(s)
  <2>1. HandOver(s) = s
    BY <1>2 DEF HandOver
  <2>2. s # <<>>
    BY <1>2 DEF Supervised
  <2> QED
    BY <1>2, <2>1, <2>2
<1>3. CASE ~Supervised(s)
  <2>1. HandOver(s) = Append(s, last)
    BY <1>3 DEF HandOver
  <2> HIDE DEF last
  <2>2. /\ Append(s, last) \in Seq(Steps) /\ Append(s, last) # <<>>
        /\ Len(Append(s, last)) = Len(s) + 1 /\ Len(s) \in Nat
        /\ \A i \in 1..Len(s) : Append(s, last)[i] = s[i]
        /\ Append(s, last)[Len(s) + 1] = last
    BY <1>1, AppendProperties
  <2>3. DOMAIN Append(s, last) = 1..(Len(s) + 1) /\ DOMAIN s = 1..Len(s)
    BY <2>2
  <2>4. Supervised(Append(s, last))
    BY <1>1, <2>2, <2>3 DEF Supervised
  <2>5. ASSUME ~SomeIrreversible(s) PROVE ~SomeIrreversible(Append(s, last))
    BY <1>1, <2>2, <2>3, <2>5 DEF SomeIrreversible
  <2> QED
    BY <2>1, <2>2, <2>4, <2>5
<1> QED
  BY <1>2, <1>3

\* 5, 6: short, and handed to a supervisor.
LEMMA ClosedIs ==
    ASSUME NEW plan, IsPlan(plan)
    PROVE  LET e == Closed(plan) IN
           /\ IsPlan(e) /\ e.action = plan.action /\ e.priority = plan.priority
           /\ Supervised(e.steps) /\ e.steps # <<>> /\ Len(e.steps) <= MaxSteps + 1
           /\ CalmPlan(plan) => CalmPlan(e)
<1> DEFINE cut == Cut(plan.steps, MaxSteps)
           s == HandOver(cut)
           e == Closed(plan)
<1>1. MaxSteps \in Nat /\ plan.steps \in Seq(Steps)
  BY PlanningAssumption DEF IsPlan
<1>2. /\ cut \in Seq(Steps) /\ Len(cut) <= MaxSteps /\ Len(cut) <= Len(plan.steps)
      /\ \A i \in 1..Len(cut) : cut[i] = plan.steps[i]
  BY <1>1, CutIs
<1>3. ~SomeIrreversible(plan.steps) => ~SomeIrreversible(cut)
  <2> HIDE DEF cut
  <2> QED
    BY <1>1, <1>2 DEF SomeIrreversible
<1> HIDE DEF cut
<1>4. /\ s \in Seq(Steps) /\ Supervised(s) /\ s # <<>> /\ Len(s) <= Len(cut) + 1
      /\ ~SomeIrreversible(cut) => ~SomeIrreversible(s)
  BY <1>2, HandOverIs
<1>5. e = [plan EXCEPT !.steps = s]
  BY DEF Closed, cut
<1> HIDE DEF s, e
<1>6. e = [action |-> plan.action, target |-> plan.target, priority |-> plan.priority,
           steps |-> s, auth |-> plan.auth]
  BY <1>5 DEF IsPlan
<1>7. IsPlan(e) /\ e.action = plan.action /\ e.priority = plan.priority /\ e.steps = s
  BY <1>4, <1>6 DEF IsPlan
<1>8. Len(s) <= MaxSteps + 1
  BY <1>1, <1>2, <1>4
<1> QED
  BY <1>3, <1>4, <1>7, <1>8 DEF e, CalmPlan

\* 7: only the authorisation is added.
LEMMA AuthorisedIs ==
    ASSUME NEW plan, IsPlan(plan), NEW v
    PROVE  LET e == Authorised(plan, v) IN
           /\ IsPlan(e) /\ e.action = plan.action /\ e.priority = plan.priority
           /\ e.steps = plan.steps /\ e.auth \in BOOLEAN
           /\ (Irreversible(e.action) \/ SomeIrreversible(e.steps) \/ e.priority = "CRITICAL")
                => e.auth
<1> DEFINE b == \/ plan.auth
                \/ Irreversible(plan.action) \/ SomeIrreversible(plan.steps)
                \/ plan.priority = "CRITICAL" \/ v.trust < MinTrust
           e == Authorised(plan, v)
<1>1. e = [plan EXCEPT !.auth = b]
  BY DEF Authorised
<1>2. b \in BOOLEAN
  OBVIOUS
<1>3. (Irreversible(plan.action) \/ SomeIrreversible(plan.steps) \/ plan.priority = "CRITICAL")
        => b
  OBVIOUS
<1> HIDE DEF b, e
<1>4. e = [action |-> plan.action, target |-> plan.target, priority |-> plan.priority,
           steps |-> plan.steps, auth |-> b]
  BY <1>1 DEF IsPlan
<1>5. /\ IsPlan(e) /\ e.action = plan.action /\ e.priority = plan.priority
      /\ e.steps = plan.steps /\ e.auth = b
  BY <1>4 DEF IsPlan
<1> QED
  BY <1>2, <1>3, <1>5 DEF e

\* What the guardrails let through, whatever plan, verdict and analysis went in.
Sound(r) ==
    /\ r.kind = "response" /\ r.action \in Actions /\ r.priority \in Priorities
    /\ r.steps \in Seq(Steps) /\ r.steps # <<>> /\ Len(r.steps) <= MaxSteps + 1
    /\ Supervised(r.steps) /\ r.auth \in BOOLEAN
    /\ Irreversible(r.action) => r.priority = "CRITICAL"
    /\ (Irreversible(r.action) \/ SomeIrreversible(r.steps) \/ r.priority = "CRITICAL") => r.auth

\* All guardrails in a row, for any plan of the schema, any verdict and any
\* analysis.
LEMMA GuardedIs ==
    ASSUME NEW plan, IsPlan(plan), NEW v, NEW a
    PROVE  LET r == Response(Guarded(plan, v, a)) IN
           /\ Sound(r)
           /\ a.priority = "CRITICAL" => r.priority # "ROUTINE"
           /\ CalmPlan(plan) => CalmPlan(r)
<1> DEFINE p1 == Downgraded(plan, v)
           p2 == Raised(p1, a)
           p3 == Closed(p2)
           p4 == Authorised(p3, v)
           r == Response(p4)
<1>1. IsPlan(p1) /\ (CalmPlan(plan) => CalmPlan(p1))
  BY DowngradedIs
<1> HIDE DEF p1
<1>2. /\ IsPlan(p2) /\ (CalmPlan(p1) => CalmPlan(p2))
      /\ Irreversible(p2.action) => p2.priority = "CRITICAL"
      /\ a.priority = "CRITICAL" => p2.priority # "ROUTINE"
  BY <1>1, RaisedIs DEF CalmPlan
<1> HIDE DEF p2
<1>3. /\ IsPlan(p3) /\ p3.action = p2.action /\ p3.priority = p2.priority
      /\ Supervised(p3.steps) /\ p3.steps # <<>> /\ Len(p3.steps) <= MaxSteps + 1
      /\ CalmPlan(p2) => CalmPlan(p3)
  BY <1>2, ClosedIs
<1> HIDE DEF p3
<1>4. /\ IsPlan(p4) /\ p4.action = p3.action /\ p4.priority = p3.priority
      /\ p4.steps = p3.steps /\ p4.auth \in BOOLEAN
      /\ (Irreversible(p4.action) \/ SomeIrreversible(p4.steps) \/ p4.priority = "CRITICAL")
           => p4.auth
  BY <1>3, AuthorisedIs
<1>5. CalmPlan(p3) => CalmPlan(p4)
  BY <1>4 DEF CalmPlan
<1> HIDE DEF p4
<1>6. /\ r.kind = "response" /\ r.action = p4.action /\ r.priority = p4.priority
      /\ r.steps = p4.steps /\ r.auth = p4.auth
  BY DEF Response
<1> HIDE DEF r
<1>7. Sound(r)
  BY <1>2, <1>3, <1>4, <1>6 DEF Sound, IsPlan
<1>8. (a.priority = "CRITICAL" => r.priority # "ROUTINE") /\ (CalmPlan(p4) => CalmPlan(r))
  BY <1>2, <1>3, <1>4, <1>6 DEF CalmPlan
<1>9. r = Response(Guarded(plan, v, a))
  BY DEF r, p4, p3, p2, p1, Guarded
<1> QED
  BY <1>1, <1>2, <1>3, <1>5, <1>7, <1>8, <1>9

-----------------------------------------------------------------------------
(* The worker's side *)

\* What a planner may put into an envelope; only ROUTINE is not understood.
Drafts ==
    {Command(a, p) : a \in DOMAIN ActionAliases, p \in DOMAIN PriorityAliases \cup {"ROUTINE"}}

\* An envelope the worker can read.
Draft(plan) ==
    plan.commands \in Seq(Drafts) /\ plan.commands # <<>> /\ plan.escalate \in BOOLEAN

\* The part of it the worker understands.
Proposed == {Command(a, p) : a \in DOMAIN ActionAliases, p \in DOMAIN PriorityAliases}

\* An envelope the worker can translate.
Proposal(plan) ==
    plan.commands \in Seq(Proposed) /\ plan.commands # <<>> /\ plan.escalate \in BOOLEAN

\* A proposed command is in the aliases of the worker.
LEMMA ProposedIs ==
    /\ \A a \in DOMAIN ActionAliases, p \in DOMAIN PriorityAliases : Command(a, p) \in Proposed
    /\ \A c \in Proposed : c.action \in DOMAIN ActionAliases /\ c.priority \in DOMAIN PriorityAliases
  BY DEF Proposed, Command

\* The worker translates any proposal.
LEMMA ProposalTranslates ==
    ASSUME NEW plan, Proposal(plan)
    PROVE  Translatable(plan)
<1> DEFINE cut == Cut(plan.commands, MaxCommands)
<1>1. cut \in Seq(Proposed)
  BY PlanningAssumption, CutIs DEF Proposal
<1>2. \A i \in 1..Len(cut) : cut[i] \in Proposed /\ cut[i] = plan.commands[i]
  BY <1>1, PlanningAssumption, CutIs DEF Proposal
<1> HIDE DEF cut
<1> QED
  BY <1>2, ProposedIs DEF Translatable, Proposal, cut

\* A cut proposal is one.
LEMMA ProposalCut ==
    ASSUME NEW cs \in Seq(Proposed), cs # <<>>
    PROVE  Cut(cs, MaxCommands) \in Seq(Proposed) /\ Cut(cs, MaxCommands) # <<>>
<1>1. Cut(cs, MaxCommands) \in Seq(Proposed) /\ Len(Cut(cs, MaxCommands)) > 0
  BY PlanningAssumption, CutIs
<1> QED
  BY <1>1

\* The stub proposes what the worker understands, on any context.
LEMMA StubPlanIs == ASSUME NEW e PROVE Proposal(StubPlan(e))
<1> DEFINE all == StubActions(e)
           I == {i \in DOMAIN all : all[i].action \notin {"SHUTDOWN", "ISOLATE"}}
           safe == Picked(all, I)
           kept == IF ~e.degraded THEN all
                   ELSE IF safe = <<>> THEN <<Command("INSPECT", "HIGH")>> ELSE safe
<1>1. \A a \in DOMAIN ActionAliases, b \in DOMAIN ActionAliases,
         p \in DOMAIN PriorityAliases, r \in DOMAIN PriorityAliases :
        /\ <<Command(a, p)>> \in Seq(Proposed) /\ <<Command(a, p)>> # <<>>
        /\ <<Command(a, p), Command(b, r)>> \in Seq(Proposed)
        /\ <<Command(a, p), Command(b, r)>> # <<>>
  BY ProposedIs
<1>2. /\ {"ACKNOWLEDGE", "SHUTDOWN", "ISOLATE", "SCHEDULE_MAINTENANCE", "SHIFT_SPEED",
          "INSPECT", "NOTIFY"} \subseteq DOMAIN ActionAliases
      /\ {"CRITICAL", "HIGH", "LOW"} \subseteq DOMAIN PriorityAliases
  BY DEF ActionAliases, PriorityAliases
<1>3. all \in Seq(Proposed) /\ all # <<>>
  <2>1. CASE e.transition = "CLEARED"
    BY <1>1, <1>2, <2>1 DEF StubActions
  <2>2. CASE e.transition # "CLEARED" /\ e.severity = "CRITICAL" /\ e.thermal
    BY <1>1, <1>2, <2>2 DEF StubActions
  <2>3. CASE e.transition # "CLEARED" /\ e.severity = "CRITICAL" /\ ~e.thermal
    BY <1>1, <1>2, <2>3 DEF StubActions
  <2>4. CASE e.transition # "CLEARED" /\ e.severity = "HIGH"
    BY <1>1, <1>2, <2>4 DEF StubActions
  <2>5. CASE e.transition # "CLEARED" /\ e.severity \notin {"CRITICAL", "HIGH"}
    BY <1>1, <1>2, <2>5 DEF StubActions
  <2> QED
    BY <2>1, <2>2, <2>3, <2>4, <2>5
<1> HIDE DEF all
<1>4. safe \in Seq(Proposed)
  <2>1. I \in SUBSET DOMAIN all
    OBVIOUS
  <2> HIDE DEF I
  <2> QED
    BY <1>3, <2>1, PickedIs
<1> HIDE DEF safe
<1>5. kept \in Seq(Proposed) /\ kept # <<>>
  BY <1>1, <1>2, <1>3, <1>4
<1> HIDE DEF kept
<1>6. /\ StubPlan(e).commands = Cut(kept, MaxCommands)
      /\ StubPlan(e).escalate \in BOOLEAN
  BY DEF StubPlan, kept, safe, I, all
<1> QED
  BY <1>5, <1>6, ProposalCut DEF Proposal

\* So does the AI interceptor's offline planner.
LEMMA DerivedPlanIs == ASSUME NEW e PROVE Proposal(DerivedPlan(e))
<1> DEFINE cs == DerivedCommands(e)
           c(a, p) == Command(a, p)
<1>1. /\ {"ACKNOWLEDGE", "SCHEDULE_MAINTENANCE", "ISOLATE", "SHUTDOWN", "INSPECT", "NOTIFY",
          "THROTTLE"} \subseteq DOMAIN ActionAliases
      /\ {"CRITICAL", "HIGH", "MEDIUM", "LOW"} \subseteq DOMAIN PriorityAliases
  BY DEF ActionAliases, PriorityAliases
<1>2. \A a1, a2, a3 \in Proposed :
        /\ <<a1>> \in Seq(Proposed) /\ <<a1>> # <<>>
        /\ <<a1, a2>> \in Seq(Proposed) /\ <<a1, a2>> # <<>>
        /\ <<a1, a2, a3>> \in Seq(Proposed) /\ <<a1, a2, a3>> # <<>>
  OBVIOUS
<1>3. cs \in Seq(Proposed) /\ cs # <<>>
  <2>1. CASE e.transition = "CLEARED"
    BY <1>1, <1>2, <2>1, ProposedIs DEF DerivedCommands
  <2>2. CASE e.transition # "CLEARED" /\ e.severity = "CRITICAL"
    <3> DEFINE s1 == <<Command("ISOLATE", "CRITICAL")>>
               s2 == IF e.safety THEN <<Command("SHUTDOWN", "CRITICAL")>> ELSE <<>>
               s3 == <<Command("INSPECT", "HIGH"), Command("NOTIFY", "HIGH")>>
    <3>1. s1 \in Seq(Proposed) /\ s1 # <<>> /\ s3 \in Seq(Proposed) /\ s3 # <<>>
      BY <1>1, <1>2, ProposedIs
    <3>2. s2 \in Seq(Proposed)
      <4>1. <<Command("SHUTDOWN", "CRITICAL")>> \in Seq(Proposed) /\ <<>> \in Seq(Proposed)
        BY <1>1, <1>2, ProposedIs
      <4> QED
        BY <4>1
    <3>3. cs = s1 \o s2 \o s3
      BY <2>2 DEF DerivedCommands
    <3> HIDE DEF s1, s2, s3, cs
    <3>4. s1 \o s2 \in Seq(Proposed) /\ (s1 \o s2) \o s3 \in Seq(Proposed)
      BY <3>1, <3>2
    <3>5. (s1 \o s2) \o s3 # <<>>
      BY <3>1, <3>4, ConcatEqualIffEmpty
    <3> QED
      BY <3>3, <3>4, <3>5
  <2>3. CASE e.transition # "CLEARED" /\ e.severity # "CRITICAL"
    BY <1>1, <1>2, <2>3, ProposedIs DEF DerivedCommands
  <2> QED
    BY <2>1, <2>2, <2>3
<1> HIDE DEF cs
<1>4. /\ DerivedPlan(e).commands = Cut(cs, MaxCommands)
      /\ DerivedPlan(e).escalate \in BOOLEAN
  BY DEF DerivedPlan, cs
<1> QED
  BY <1>3, <1>4, ProposalCut DEF Proposal

\* So is a draft, but for its priority.
LEMMA DraftsAre ==
    \A a \in DOMAIN ActionAliases, p \in DOMAIN PriorityAliases \cup {"ROUTINE"} :
        Command(a, p) \in Drafts
  BY DEF Drafts, Command

\* What can be translated can be read.
LEMMA ProposalIsDraft == ASSUME NEW plan, Proposal(plan) PROVE Draft(plan)
<1>1. Proposed \subseteq Drafts
  BY DEF Proposed, Drafts
<1> QED
  BY <1>1 DEF Proposal, Draft

\* What the bridge makes of a response; a step that can be undone is no shutdown.
LEMMA BridgeIs ==
    ASSUME NEW r, Sound(r)
    PROVE  /\ Draft(ToPlan(r)) /\ ToPlan(r).escalate = r.auth
           /\ r.priority # "ROUTINE" => Proposal(ToPlan(r))
           /\ \A i \in DOMAIN ToPlan(r).commands :
                 ToPlan(r).commands[i].action = "SHUTDOWN" => Irreversible(r.action)
<1> DEFINE Act(i) == IF r.steps[i].rev THEN ReversibleStepAction[r.steps[i].actor]
                     ELSE Headline[r.action]
           cs == [i \in DOMAIN r.steps |-> Command(Act(i), r.priority)]
<1>1. ToPlan(r).commands = cs /\ ToPlan(r).escalate = r.auth
  BY DEF ToPlan
<1>2. /\ Len(r.steps) \in Nat \ {0} /\ DOMAIN r.steps = 1..Len(r.steps)
      /\ \A i \in DOMAIN r.steps : r.steps[i].actor \in Actors /\ r.steps[i].rev \in BOOLEAN
  BY StepsAre DEF Sound
<1>3. ASSUME NEW i \in DOMAIN r.steps
      PROVE  Act(i) \in DOMAIN ActionAliases /\ (Act(i) = "SHUTDOWN" => Irreversible(r.action))
  <2>1. CASE r.steps[i].rev
    <3>1. Act(i) = ReversibleStepAction[r.steps[i].actor] /\ r.steps[i].actor \in Actors
      BY <1>2, <2>1
    <3> HIDE DEF Act
    <3> QED
      BY <3>1 DEF ReversibleStepAction, Actors, ActionAliases
  <2>2. CASE ~r.steps[i].rev
    <3>1. Act(i) = Headline[r.action] /\ r.action \in Actions
      BY <2>2 DEF Sound
    <3> HIDE DEF Act
    <3> QED
      BY <3>1 DEF Headline, Actions, ActionAliases, Irreversible
  <2> QED
    BY <2>1, <2>2
<1> HIDE DEF Act
<1>4. /\ DOMAIN cs = 1..Len(r.steps)
      /\ \A i \in DOMAIN cs : cs[i] = Command(Act(i), r.priority) /\ cs[i].action = Act(i)
  BY <1>2 DEF Command
<1>5. \A i \in 1..Len(r.steps) : Act(i) \in DOMAIN ActionAliases
  BY <1>2, <1>3
<1>6. cs \in [1..Len(r.steps) -> Drafts]
  <2>1. r.priority \in DOMAIN PriorityAliases \cup {"ROUTINE"}
    BY DEF Sound, Priorities, PriorityAliases
  <2>2. \A i \in 1..Len(r.steps) : Command(Act(i), r.priority) \in Drafts
    BY <1>5, <2>1, DraftsAre
  <2> QED
    BY <1>2, <2>2
<1>7. r.priority # "ROUTINE" => cs \in [1..Len(r.steps) -> Proposed]
  <2>1. r.priority # "ROUTINE" => r.priority \in DOMAIN PriorityAliases
    BY DEF Sound, Priorities, PriorityAliases
  <2> QED
    BY <1>2, <1>5, <2>1 DEF Proposed
<1> HIDE DEF cs
<1>8. cs \in Seq(Drafts) /\ cs # <<>> /\ (r.priority # "ROUTINE" => cs \in Seq(Proposed))
  BY <1>2, <1>4, <1>6, <1>7
<1>9. \A i \in DOMAIN cs : cs[i].action = "SHUTDOWN" => Irreversible(r.action)
  BY <1>2, <1>3, <1>4
<1>10. r.auth \in BOOLEAN
  BY DEF Sound
<1> QED
  BY <1>1, <1>8, <1>9, <1>10 DEF Draft, Proposal

\* A command for the actuators.
LEMMA CommandType ==
    ASSUME NEW a \in {ActionAliases[x] : x \in DOMAIN ActionAliases},
           NEW p \in {PriorityAliases[x] : x \in DOMAIN PriorityAliases},
           NEW b \in BOOLEAN, NEW c \in BOOLEAN
    PROVE  [action |-> a, priority |-> p, approval |-> b, escalation |-> c] \in Commands
  BY DEF Commands

\* What is published of a draft: at most MaxCommands commands of the actuators'.
LEMMA TranslateIs ==
    ASSUME NEW plan, Draft(plan), Translatable(plan)
    PROVE  /\ Len(Translate(plan)) \in 1..MaxCommands
           /\ Range2(Translate(plan)) \subseteq Commands
<1> DEFINE n == Len(Cut(plan.commands, MaxCommands))
           Act(i) == ActionAliases[plan.commands[i].action]
           Pri(i) == PriorityAliases[plan.commands[i].priority]
           App(i) == ~(event.enterprise /\ ~ActuatedIrreversible(Act(i)))
           t == [i \in 1..n |-> [action |-> Act(i), priority |-> Pri(i), approval |-> App(i),
                                 escalation |-> plan.escalate]]
<1>1. t = Translate(plan)
  BY DEF Translate
<1>2. n \in 1..MaxCommands
  <2>1. MaxCommands \in Nat \ {0} /\ plan.commands \in Seq(Drafts) /\ plan.commands # <<>>
    BY PlanningAssumption DEF Draft
  <2>2. /\ Cut(plan.commands, MaxCommands) \in Seq(Drafts) /\ n <= MaxCommands /\ n > 0
    BY <2>1, CutIs
  <2>3. n \in Nat
    BY <2>2
  <2> HIDE DEF n
  <2> QED
    BY <2>1, <2>2, <2>3
<1>3. ASSUME NEW i \in 1..n PROVE t[i] \in Commands
  <2>1. /\ plan.commands[i].action \in DOMAIN ActionAliases
        /\ plan.commands[i].priority \in DOMAIN PriorityAliases
    BY DEF Translatable
  <2>2. /\ Act(i) \in {ActionAliases[x] : x \in DOMAIN ActionAliases}
        /\ Pri(i) \in {PriorityAliases[x] : x \in DOMAIN PriorityAliases}
    BY <2>1
  <2>3. App(i) \in BOOLEAN /\ plan.escalate \in BOOLEAN
    BY DEF Draft
  <2>4. t[i] = [action |-> Act(i), priority |-> Pri(i), approval |-> App(i),
                escalation |-> plan.escalate]
    OBVIOUS
  <2> HIDE DEF Act, Pri, App, t, n
  <2> QED
    BY <2>2, <2>3, <2>4, CommandType
<1>4. DOMAIN t = 1..n /\ Len(t) = n
  BY <1>2
<1> HIDE DEF t, n
<1> QED
  BY <1>1, <1>2, <1>3, <1>4 DEF Range2

\* What a published command says of its approval, and where a shutdown comes from.
LEMMA TranslateKeeps ==
    ASSUME NEW plan, Translatable(plan), NEW c \in Range2(Translate(plan))
    PROVE  /\ ActuatedIrreversible(c.action) => c.approval
           /\ plan.escalate => c.escalation
           /\ c.action = "SHUTDOWN" =>
                 \E i \in 1..Len(Cut(plan.commands, MaxCommands)) :
                     plan.commands[i].action = "SHUTDOWN"
<1> DEFINE n == Len(Cut(plan.commands, MaxCommands))
           Act(i) == ActionAliases[plan.commands[i].action]
           Pri(i) == PriorityAliases[plan.commands[i].priority]
           App(i) == ~(event.enterprise /\ ~ActuatedIrreversible(Act(i)))
<1>1. PICK i \in 1..n : c = Translate(plan)[i]
  BY DEF Range2, Translate
<1>2. c = [action |-> Act(i), priority |-> Pri(i), approval |-> App(i),
           escalation |-> plan.escalate]
  BY <1>1 DEF Translate
<1>3. /\ c.action = Act(i) /\ (App(i) => c.approval) /\ (plan.escalate => c.escalation)
  <2> HIDE DEF Act, Pri, App
  <2> QED
    BY <1>2
<1>4. ActuatedIrreversible(Act(i)) => App(i)
  OBVIOUS
<1>5. Act(i) = "SHUTDOWN" => plan.commands[i].action = "SHUTDOWN"
  <2>1. plan.commands[i].action \in DOMAIN ActionAliases
    BY DEF Translatable
  <2> QED
    BY <2>1 DEF ActionAliases
<1> QED
  BY <1>3, <1>4, <1>5

-----------------------------------------------------------------------------
(* The kernel's part *)

\* The kernel recommends an action of the schema, and permits what it recommends.
LEMMA AnalysisIs ==
    ASSUME NEW p
    PROVE  /\ Analysis(p).action \in Actions /\ Analysis(p).priority \in Priorities
           /\ Irreversible(Analysis(p).action) => Analysis(p).permitted /\ Trips(p)
<1>1. Analysis(p).action = RecommendedAction(p) /\ Analysis(p).priority = Priority(p)
  BY DEF Analysis
<1>2. Analysis(p).permitted <=> IrreversiblePermitted(p)
  BY DEF Analysis
<1>3. RecommendedAction(p) \in Actions /\ Priority(p) \in Priorities
  BY DEF RecommendedAction, Priority, Actions, Priorities
<1>4. Irreversible(RecommendedAction(p)) => IrreversiblePermitted(p)
  BY DEF RecommendedAction, Irreversible
<1> QED
  BY <1>1, <1>2, <1>3, <1>4 DEF Trips

\* A critical score looks at the asset alone.
LEMMA CriticalIs ==
    ASSUME NEW p
    PROVE  Analysis(p).priority = "CRITICAL" <=>
             \/ Breach(p.local, TRUE, Hard)
             \/ /\ Breach(p.local, TRUE, Critical)
                /\ WideBlast(p) \/ p.status \in {"ALARM", "OFFLINE"}
<1>1. Analysis(p).priority = Priority(p)
  BY DEF Analysis
<1> QED
  BY <1>1 DEF Priority

\* What a native caller adds is not about the asset.
LEMMA PayloadIs ==
    ASSUME NEW e, NEW q \in Requests
    PROVE  LET p == Payload(e, q) IN
           /\ p.local = Projected(e).local /\ p.down = Projected(e).down
           /\ p.status = Projected(e).status /\ p.obs = Observations(e)
<1> DEFINE p == Projected(e)
           n == [Projected(e) EXCEPT !.health = e.health, !.attributed = e.attributed]
<1>1. p.obs = Observations(e)
  BY DEF Projected
<1>2. n.local = p.local /\ n.down = p.down /\ n.status = p.status /\ n.obs = p.obs
  BY DEF Projected
<1>3. Payload(e, q) = p \/ Payload(e, q) = n
  BY DEF Payload
<1> HIDE DEF p, n
<1> QED
  BY <1>1, <1>2, <1>3 DEF p

\* Every caller's payload scores the event alike.
LEMMA SameCritical ==
    ASSUME GivenInv, NEW p \in Requests, NEW q \in Requests
    PROVE  analysis[p].priority = "CRITICAL" <=> analysis[q].priority = "CRITICAL"
<1>1. /\ payload[p] = Payload(event, p) /\ payload[q] = Payload(event, q)
      /\ analysis[p] = Analysis(payload[p]) /\ analysis[q] = Analysis(payload[q])
  BY DEF GivenInv
<1>2. /\ payload[p].local = payload[q].local /\ payload[p].down = payload[q].down
      /\ payload[p].status = payload[q].status
  BY <1>1, PayloadIs
<1> QED
  BY <1>1, <1>2, CriticalIs DEF WideBlast

\* The projection keeps a tie a tie: its replicas have names.
LEMMA SameTie ==
    ASSUME GivenInv, NEW q \in Requests, Contested(event.obs)
    PROVE  Contested(payload[q].obs)
<1>1. payload[q].obs = Observations(event)
  BY PayloadIs DEF GivenInv
<1>2. /\ DOMAIN Observations(event) = DOMAIN event.obs
      /\ \A r \in DOMAIN event.obs : Observations(event)[r] = event.obs[r]
  BY ReplicaAssumption DEF Observations, GivenInv
<1>3. /\ {Observations(event)[r].add : r \in DOMAIN Observations(event)}
           = {event.obs[r].add : r \in DOMAIN event.obs}
      /\ {Observations(event)[r].rem : r \in DOMAIN Observations(event)}
           = {event.obs[r].rem : r \in DOMAIN event.obs}
  BY <1>2
<1>4. HighestAdd(payload[q].obs) = HighestAdd(event.obs)
  BY <1>1, <1>3 DEF HighestAdd
<1>5. HighestRem(payload[q].obs) = HighestRem(event.obs)
  BY <1>1, <1>3 DEF HighestRem
<1> QED
  BY <1>1, <1>2, <1>4, <1>5 DEF Contested

-----------------------------------------------------------------------------
(* The state of a request *)

\* Where a request can be.
Labels == {"idle", "isolating", "retrieving", "planning", "answered", "failed", "done"}

\* A request's state from its parts.
State(pc, asked, attempt, verdict, docs, reply, result) ==
    [pc |-> pc, asked |-> asked, attempt |-> attempt, verdict |-> verdict, docs |-> docs,
     reply |-> reply, result |-> result]

\* A state has no other parts.
Whole(s) == s = State(s.pc, s.asked, s.attempt, s.verdict, s.docs, s.reply, s.result)

\* A response of the GraphRAG interceptor, or of its cache: what the guardrails
\* let through; a critical event is not routine for whoever asks, and with the
\* rule engine irreversible work is what the kernel recommended for somebody.
GoodResponse(r) ==
    /\ Sound(r)
    /\ \A q \in Requests : analysis[q].priority = "CRITICAL" => r.priority # "ROUTINE"
    /\ \/ event.cloud \/ CalmPlan(r)
       \/ \E q \in Requests : Irreversible(analysis[q].action)

\* An answer of any planner.
GoodReply(r) ==
    \/ r.kind = "plan" /\ Proposal(r.plan) /\ Planner # "graphrag"
    \/ GoodResponse(r)

\* What became of the answer.
Concluded(r, result) ==
    /\ result.kind = "published" =>
        /\ GoodReply(r) /\ Translatable(Envelope(r))
        /\ result.commands = Translate(Envelope(r))
    /\ result.kind = "deadletter" => GoodReply(r) /\ ~Translatable(Envelope(r))

\* The verdict a request goes on with.
Judged(q, v) == v.hint \in Actions /\ (~event.cloud => v = Verdict(analysis[q]))

\* A request in order.
StateOk(q, s) ==
    /\ Whole(s)
    /\ s.pc \in Labels /\ s.asked \in 0..MaxAsked /\ s.attempt \in 1..MaxAttempts
    /\ s.pc \in {"retrieving", "planning"} => Judged(q, s.verdict)
    /\ s.pc = "planning" => s.docs.lead \in Leads(s.verdict.hint)
    /\ s.reply = Nothing \/ GoodReply(s.reply)
    /\ s.pc = "answered" => GoodReply(s.reply)
    /\ Concluded(s.reply, s.result)

\* The inductive invariant of what is said of responses and commands.
RequestInv ==
    /\ GivenInv
    /\ req = [q \in Requests |-> req[q]]
    /\ \A q \in Requests : StateOk(q, req[q])
    /\ cache = Nothing \/ GoodResponse(cache)
    /\ \A f \in found : f.docs.lead \in Leads(f.query[2])

\* The parts of a state are its parts.
LEMMA StateIs ==
    ASSUME NEW pc, NEW n, NEW k, NEW v, NEW d, NEW r, NEW o
    PROVE  LET s == State(pc, n, k, v, d, r, o) IN
           /\ s.pc = pc /\ s.asked = n /\ s.attempt = k /\ s.verdict = v
           /\ s.docs = d /\ s.reply = r /\ s.result = o
  BY DEF State

\* What the handlers assign.
LEMMA Assigned ==
    ASSUME NEW n, NEW q, NEW r, NEW o
    PROVE  /\ Waiting(n) = State("idle", n, 1, Nothing, Nothing, Nothing, Nothing)
           /\ Failed(q) = State("failed", req[q].asked, 1, Nothing, Nothing, Nothing, Nothing)
           /\ Answered(q, r) = State("answered", req[q].asked, 1, Nothing, Nothing, r, Nothing)
           /\ Ended(q, r, o) = State("done", req[q].asked, 1, Nothing, Nothing, r, o)
           /\ [Waiting(n) EXCEPT !.pc = "isolating"]
                = State("isolating", n, 1, Nothing, Nothing, Nothing, Nothing)
<1> DEFINE w(k) == State("idle", k, 1, Nothing, Nothing, Nothing, Nothing)
<1>1. \A k : Waiting(k) = w(k)
  BY DEF Waiting, State
<1>2. Failed(q) = State("failed", req[q].asked, 1, Nothing, Nothing, Nothing, Nothing)
  BY <1>1 DEF Failed, State
<1>3. Answered(q, r) = State("answered", req[q].asked, 1, Nothing, Nothing, r, Nothing)
  <2> DEFINE x == Waiting(req[q].asked)
  <2>1. x = [pc |-> "idle", asked |-> req[q].asked, attempt |-> 1, verdict |-> Nothing,
             docs |-> Nothing, reply |-> Nothing, result |-> Nothing]
    BY DEF Waiting
  <2>2. Answered(q, r) = [x EXCEPT !.pc = "answered", !.reply = r]
    BY DEF Answered
  <2> HIDE DEF x
  <2> QED
    BY <2>1, <2>2 DEF State
<1>4. Ended(q, r, o) = State("done", req[q].asked, 1, Nothing, Nothing, r, o)
  <2> DEFINE x == Answered(q, r)
  <2>1. x = [pc |-> "answered", asked |-> req[q].asked, attempt |-> 1, verdict |-> Nothing,
             docs |-> Nothing, reply |-> r, result |-> Nothing]
    BY <1>3 DEF State
  <2>2. Ended(q, r, o) = [x EXCEPT !.pc = "done", !.result = o]
    BY DEF Ended
  <2> HIDE DEF x
  <2> QED
    BY <2>1, <2>2 DEF State
<1>5. [Waiting(n) EXCEPT !.pc = "isolating"]
        = State("isolating", n, 1, Nothing, Nothing, Nothing, Nothing)
  BY <1>1 DEF State
<1> QED
  BY <1>1, <1>2, <1>3, <1>4, <1>5

\* No answer is not an answer.
LEMMA NothingIs ==
    /\ Nothing.kind = "nothing"
    /\ \A r : GoodReply(r) => r.kind \in {"plan", "response"}
    /\ \A r : GoodResponse(r) => GoodReply(r) /\ r.kind = "response"
    /\ \A r : Concluded(r, Nothing)
  BY DEF Nothing, GoodReply, GoodResponse, Sound, Concluded

\* A request that holds nothing is in order.
LEMMA FreshOk ==
    ASSUME NEW q, NEW n \in 0..MaxAsked, NEW pc \in {"idle", "failed", "isolating"}
    PROVE  StateOk(q, State(pc, n, 1, Nothing, Nothing, Nothing, Nothing))
<1> DEFINE s == State(pc, n, 1, Nothing, Nothing, Nothing, Nothing)
<1>1. /\ s.pc = pc /\ s.asked = n /\ s.attempt = 1 /\ s.verdict = Nothing
      /\ s.docs = Nothing /\ s.reply = Nothing /\ s.result = Nothing
  BY StateIs
<1>2. 1 \in 1..MaxAttempts
  BY PlanningAssumption
<1>3. Whole(s)
  BY <1>1 DEF Whole
<1> HIDE DEF s
<1> QED
  BY <1>1, <1>2, <1>3, NothingIs DEF StateOk, Labels, s

\* So is one that has its answer, and one that is through with it.
LEMMA AnsweredOk ==
    ASSUME NEW q, NEW n \in 0..MaxAsked, NEW r, GoodReply(r)
    PROVE  StateOk(q, State("answered", n, 1, Nothing, Nothing, r, Nothing))
<1> DEFINE s == State("answered", n, 1, Nothing, Nothing, r, Nothing)
<1>1. /\ s.pc = "answered" /\ s.asked = n /\ s.attempt = 1 /\ s.verdict = Nothing
      /\ s.docs = Nothing /\ s.reply = r /\ s.result = Nothing
  BY StateIs
<1>2. 1 \in 1..MaxAttempts
  BY PlanningAssumption
<1>3. Whole(s)
  BY <1>1 DEF Whole
<1> HIDE DEF s
<1> QED
  BY <1>1, <1>2, <1>3, NothingIs DEF StateOk, Labels, s

\* A request that is through with its answer, or was refused, is in order.
LEMMA EndedOk ==
    ASSUME NEW q, NEW n \in 0..MaxAsked, NEW r, r = Nothing \/ GoodReply(r),
           NEW o, Concluded(r, o)
    PROVE  StateOk(q, State("done", n, 1, Nothing, Nothing, r, o))
<1> DEFINE s == State("done", n, 1, Nothing, Nothing, r, o)
<1>1. /\ s.pc = "done" /\ s.asked = n /\ s.attempt = 1 /\ s.verdict = Nothing
      /\ s.docs = Nothing /\ s.reply = r /\ s.result = o
  BY StateIs
<1>2. 1 \in 1..MaxAttempts
  BY PlanningAssumption
<1>3. Whole(s)
  BY <1>1 DEF Whole
<1> HIDE DEF s
<1> QED
  BY <1>1, <1>2, <1>3 DEF StateOk, Labels, s

\* A step that changes one request, to a state in order, keeps the invariant.
LEMMA BecomesOk ==
    ASSUME RequestInv, NEW q \in Requests, NEW s, StateOk(q, s), Becomes(q, s),
           UNCHANGED given, cache' = Nothing \/ GoodResponse(cache'),
           \A f \in found' : f.docs.lead \in Leads(f.query[2])
    PROVE  RequestInv'
<1>1. event' = event /\ analysis' = analysis /\ payload' = payload
  BY DEF given
<1>2. Planner' = Planner
  BY <1>1 DEF Planner
<1>3. GivenInv'
  BY <1>1 DEF RequestInv, GivenInv
<1>4. /\ req' = [p \in Requests |-> req'[p]]
      /\ \A p \in Requests : req'[p] = IF p = q THEN s ELSE req[p]
  BY DEF RequestInv, Becomes
<1>5. \A p \in Requests : StateOk(p, req'[p])
  BY <1>4 DEF RequestInv
<1>6. ASSUME NEW p \in Requests PROVE StateOk(p, req[p])'
  <2>1. StateOk(p, req'[p])
    BY <1>5
  <2>2. Planner' = Planner /\ event' = event /\ analysis' = analysis
    BY <1>1, <1>2
  <2> QED
    BY <2>1, <2>2 DEF StateOk, Judged, GoodReply, GoodResponse, Concluded, Translate
<1>7. (cache = Nothing \/ GoodResponse(cache))'
  BY <1>1 DEF GoodResponse
<1> QED
  BY <1>3, <1>4, <1>6, <1>7 DEF RequestInv

\* An ask counts, and stays within its bound.
LEMMA AskIs ==
    ASSUME RequestInv, NEW q \in Requests, NEW pc, NEW n, NEW r, NEW o,
           Ask(q, State(pc, n, 1, Nothing, Nothing, r, o))
    PROVE  /\ req[q].asked + 1 \in 0..MaxAsked
           /\ Becomes(q, State(pc, req[q].asked + 1, 1, Nothing, Nothing, r, o))
           /\ UNCHANGED <<given, found, cache>>
<1> DEFINE s == State(pc, n, 1, Nothing, Nothing, r, o)
           m == req[q].asked + 1
<1>1. req[q].asked \in 0..MaxAsked /\ MaxAsked \in Nat \ {0}
  BY PlanningAssumption DEF RequestInv, StateOk
<1>2. m \in 0..MaxAsked
  BY <1>1 DEF Ask
<1>3. [s EXCEPT !.asked = m] = State(pc, m, 1, Nothing, Nothing, r, o)
  BY DEF State
<1>4. req' = [req EXCEPT ![q] = [s EXCEPT !.asked = m]]
  BY DEF Ask
<1> QED
  BY <1>2, <1>3, <1>4 DEF Ask, Becomes

\* A turn that fails is tried again within the attempts, or fails the request.
LEMMA TurnFailsOk ==
    ASSUME RequestInv, NEW q \in Requests, TurnFails(q), UNCHANGED <<given, found, cache>>
    PROVE  RequestInv'
<1> DEFINE s == req[q]
           k == s.attempt + 1
<1>1. StateOk(q, s)
  BY DEF RequestInv
<1>2. CASE s.attempt < MaxAttempts
  <2>1. Becomes(q, [s EXCEPT !.attempt = k])
    BY <1>2 DEF TurnFails
  <2>2. [s EXCEPT !.attempt = k] = State(s.pc, s.asked, k, s.verdict, s.docs, s.reply, s.result)
    BY <1>1 DEF StateOk, Whole, State
  <2>3. k \in 1..MaxAttempts
    BY <1>1, <1>2, PlanningAssumption DEF StateOk
  <2> DEFINE t == State(s.pc, s.asked, k, s.verdict, s.docs, s.reply, s.result)
  <2> HIDE DEF k
  <2>4. /\ t.pc = s.pc /\ t.asked = s.asked /\ t.attempt = k /\ t.verdict = s.verdict
        /\ t.docs = s.docs /\ t.reply = s.reply /\ t.result = s.result
    BY StateIs
  <2>5. Whole(t)
    BY <2>4 DEF Whole
  <2> HIDE DEF s, t
  <2>6. StateOk(q, t)
    BY <1>1, <2>3, <2>4, <2>5 DEF StateOk
  <2> QED
    BY <2>1, <2>2, <2>6, BecomesOk DEF RequestInv, t
<1>3. CASE ~(s.attempt < MaxAttempts)
  <2>1. Becomes(q, Failed(q))
    BY <1>3 DEF TurnFails
  <2>2. StateOk(q, Failed(q))
    BY <1>1, Assigned, FreshOk DEF StateOk
  <2> QED
    BY <2>1, <2>2, BecomesOk DEF RequestInv
<1> QED
  BY <1>2, <1>3

\* The stub and the AI interceptor answer with proposals.
LEMMA PlanInOneTurnOk ==
    ASSUME RequestInv, NEW q \in Requests, PlanInOneTurn(q) PROVE RequestInv'
<1> DEFINE P == IF Planner = "stub" THEN StubPlan(event) ELSE DerivedPlan(event)
           r == [kind |-> "plan", plan |-> P]
<1>1. Ask(q, State("answered", req[q].asked, 1, Nothing, Nothing, r, Nothing))
  BY Assigned DEF PlanInOneTurn
<1>2. GoodReply(r)
  <2>1. Proposal(P)
    BY StubPlanIs, DerivedPlanIs
  <2>2. r.kind = "plan" /\ r.plan = P /\ Planner # "graphrag"
    BY DEF PlanInOneTurn
  <2> HIDE DEF P, r
  <2> QED
    BY <2>1, <2>2 DEF GoodReply
<1> HIDE DEF P, r
<1> QED
  BY <1>1, <1>2, AskIs, AnsweredOk, BecomesOk DEF RequestInv

\* What is in the cache is a good response for whoever asks.
LEMMA ReplayOk == ASSUME RequestInv, NEW q \in Requests, Replay(q) PROVE RequestInv'
<1>1. Ask(q, State("answered", req[q].asked, 1, Nothing, Nothing, cache, Nothing))
  BY Assigned DEF Replay
<1>2. GoodReply(cache)
  BY DEF Replay, RequestInv, GoodReply
<1> QED
  BY <1>1, <1>2, AskIs, AnsweredOk, BecomesOk DEF RequestInv

\* A refused payload leaves no answer.
LEMMA RefusePayloadOk ==
    ASSUME RequestInv, NEW q \in Requests, RefusePayload(q) PROVE RequestInv'
<1> DEFINE o == [kind |-> "refused"]
<1>1. Ask(q, State("done", req[q].asked, 1, Nothing, Nothing, Nothing, o))
  BY Assigned DEF RefusePayload
<1>2. Concluded(Nothing, o)
  BY DEF Concluded
<1> HIDE DEF o
<1> QED
  BY <1>1, <1>2, AskIs, EndedOk, BecomesOk DEF RequestInv

\* A request enters the agent loop with nothing.
LEMMA InterceptOk == ASSUME RequestInv, NEW q \in Requests, Intercept(q) PROVE RequestInv'
<1>1. Ask(q, State("isolating", 0, 1, Nothing, Nothing, Nothing, Nothing))
  BY Assigned DEF Intercept
<1> QED
  BY <1>1, AskIs, FreshOk, BecomesOk DEF RequestInv

\* What an agent says of the topology names an action.
LEMMA AgentVerdictIs ==
    ASSUME NEW q, NEW nodes, analysis[q].action \in Actions,
           NEW v \in AgentVerdicts(analysis[q], nodes)
    PROVE  Judged(q, v)
<1> DEFINE V == Verdict(analysis[q])
<1>1. /\ V = [class |-> V.class, root |-> V.root, path |-> V.path, hint |-> V.hint,
              permitted |-> V.permitted, trust |-> V.trust, contested |-> V.contested,
              diverging |-> V.diverging]
      /\ V.hint = analysis[q].action
  BY DEF Verdict
<1> HIDE DEF V
<1>2. CASE ~event.cloud
  BY <1>1, <1>2 DEF AgentVerdicts, Judged, V
<1>3. CASE event.cloud
  <2>1. \/ v = V
        \/ v = [V EXCEPT !.permitted = TRUE, !.trust = 100, !.hint = "EMERGENCY_SHUTDOWN"]
        \/ v = [V EXCEPT !.class = "INHERITED_CASCADE", !.path = <<>>]
        \/ \E n \in nodes \cup {"outside"} : v = [V EXCEPT !.root = n]
    BY <1>3 DEF AgentVerdicts, V
  <2>2. v.hint \in {V.hint, "EMERGENCY_SHUTDOWN"}
    BY <1>1, <2>1
  <2> QED
    BY <1>1, <1>3, <2>2 DEF Judged, Actions
<1> QED
  BY <1>2, <1>3

\* What the agents' turns assign.
LEMMA TurnAssigned ==
    ASSUME NEW s, Whole(s), NEW x
    PROVE  /\ [s EXCEPT !.pc = "retrieving", !.verdict = x]
                = State("retrieving", s.asked, s.attempt, x, s.docs, s.reply, s.result)
           /\ [s EXCEPT !.pc = "planning", !.attempt = 1, !.docs = x]
                = State("planning", s.asked, 1, s.verdict, x, s.reply, s.result)
<1> DEFINE pc == s.pc
           n == s.asked
           k == s.attempt
           v == s.verdict
           d == s.docs
           r == s.reply
           o == s.result
<1>1. s = State(pc, n, k, v, d, r, o)
  BY DEF Whole
<1> HIDE DEF pc, n, k, v, d, r, o
<1>2. [s EXCEPT !.pc = "retrieving", !.verdict = x] = State("retrieving", n, k, x, d, r, o)
  <2> DEFINE t == [s EXCEPT !.pc = "retrieving"]
  <2>1. [s EXCEPT !.pc = "retrieving", !.verdict = x] = [t EXCEPT !.verdict = x]
    OBVIOUS
  <2>2. t = State("retrieving", n, k, v, d, r, o)
    BY <1>1 DEF State
  <2> HIDE DEF t
  <2>3. [t EXCEPT !.verdict = x] = State("retrieving", n, k, x, d, r, o)
    BY <2>2 DEF State
  <2> QED
    BY <2>1, <2>3
<1>3. [s EXCEPT !.pc = "planning", !.attempt = 1, !.docs = x]
        = State("planning", n, 1, v, x, r, o)
  <2> DEFINE t == [s EXCEPT !.pc = "planning"]
             u == [t EXCEPT !.attempt = 1]
  <2>1. [s EXCEPT !.pc = "planning", !.attempt = 1, !.docs = x] = [u EXCEPT !.docs = x]
    OBVIOUS
  <2>2. t = State("planning", n, k, v, d, r, o)
    BY <1>1 DEF State
  <2> HIDE DEF t
  <2>3. u = State("planning", n, 1, v, d, r, o)
    BY <2>2 DEF State
  <2> HIDE DEF u
  <2>4. [u EXCEPT !.docs = x] = State("planning", n, 1, v, x, r, o)
    BY <2>3 DEF State
  <2> QED
    BY <2>1, <2>4
<1> QED
  BY <1>2, <1>3 DEF pc, n, k, v, d, r, o

\* The isolator's verdict is a judgement of the request's payload, or its turn
\* fails.
LEMMA IsolateOk == ASSUME RequestInv, NEW q \in Requests, Isolate(q) PROVE RequestInv'
<1> DEFINE s == req[q]
<1>1. PICK v \in AgentVerdicts(analysis[q], KnownNodes(payload[q])) :
        IF ValidVerdict(v, KnownNodes(payload[q]))
        THEN Becomes(q, [req[q] EXCEPT !.pc = "retrieving", !.verdict = v])
        ELSE TurnFails(q)
  BY DEF Isolate
<1>2. UNCHANGED <<given, found, cache>>
  BY DEF Isolate
<1>3. analysis[q].action \in Actions
  BY AnalysisIs DEF RequestInv, GivenInv
<1>4. Judged(q, v)
  BY <1>1, <1>3, AgentVerdictIs
<1>5. CASE TurnFails(q)
  BY <1>2, <1>5, TurnFailsOk
<1>6. CASE Becomes(q, [req[q] EXCEPT !.pc = "retrieving", !.verdict = v])
  <2>1. StateOk(q, s)
    BY DEF RequestInv
  <2> DEFINE t == State("retrieving", s.asked, s.attempt, v, s.docs, s.reply, s.result)
  <2>2. [s EXCEPT !.pc = "retrieving", !.verdict = v] = t
    BY <2>1, TurnAssigned DEF StateOk
  <2>3. /\ t.pc = "retrieving" /\ t.asked = s.asked /\ t.attempt = s.attempt /\ t.verdict = v
        /\ t.docs = s.docs /\ t.reply = s.reply /\ t.result = s.result
    BY StateIs
  <2>4. Whole(t)
    BY <2>3 DEF Whole
  <2>5. Becomes(q, t)
    BY <1>6, <2>2
  <2> HIDE DEF s, t
  <2>6. StateOk(q, t)
    BY <1>4, <2>1, <2>3, <2>4 DEF StateOk, Labels
  <2> QED
    BY <1>2, <2>5, <2>6, BecomesOk DEF RequestInv
<1> QED
  BY <1>1, <1>5, <1>6

\* A live agent that breaks costs a turn.
LEMMA AgentBreaksOk == ASSUME RequestInv, NEW q \in Requests, AgentBreaks(q) PROVE RequestInv'
  BY TurnFailsOk DEF AgentBreaks

\* What a search returns leads with a procedure for the action it was asked for.
LEMMA SearchIs ==
    ASSUME RequestInv, NEW v, NEW d \in Search(v)
    PROVE  d.lead \in Leads(v.hint)
<1> DEFINE earlier == {f.docs : f \in {g \in found : g.query = Query(v)}}
<1>1. Query(v)[2] = v.hint
  BY DEF Query
<1>2. CASE event.cloud
  BY <1>2 DEF Search, Found, Leads
<1>3. CASE ~event.cloud /\ d \in earlier
  <2>1. PICK f \in found : f.query = Query(v) /\ d = f.docs
    BY <1>3
  <2> QED
    BY <1>1, <2>1 DEF RequestInv
<1>4. CASE ~event.cloud /\ earlier = {}
  <2>1. PICK l \in Leads(v.hint), chunks \in Retrievals : d = Found(l, chunks)
    BY <1>4 DEF Search
  <2> QED
    BY <2>1 DEF Found
<1> QED
  BY <1>2, <1>3, <1>4 DEF Search

\* Retrieval leads with a procedure for the verdict's action.
LEMMA RetrieveOk == ASSUME RequestInv, NEW q \in Requests, Retrieve(q) PROVE RequestInv'
<1> DEFINE s == req[q]
<1>1. PICK d \in Search(req[q].verdict) :
        /\ Becomes(q, [req[q] EXCEPT !.pc = "planning", !.attempt = 1, !.docs = d])
        /\ found' = found \cup {[query |-> Query(req[q].verdict), docs |-> d]}
  BY DEF Retrieve
<1>2. d.lead \in Leads(s.verdict.hint)
  BY <1>1, SearchIs
<1>3. \A f \in found' : f.docs.lead \in Leads(f.query[2])
  <2> DEFINE g == [query |-> Query(s.verdict), docs |-> d]
  <2>1. g.docs.lead \in Leads(g.query[2])
    BY <1>2 DEF Query
  <2> QED
    BY <1>1, <2>1 DEF RequestInv
<1>4. StateOk(q, s) /\ s.pc = "retrieving" /\ 1 \in 1..MaxAttempts
  BY PlanningAssumption DEF RequestInv, Retrieve
<1> DEFINE t == State("planning", s.asked, 1, s.verdict, d, s.reply, s.result)
<1>5. [s EXCEPT !.pc = "planning", !.attempt = 1, !.docs = d] = t
  BY <1>4, TurnAssigned DEF StateOk
<1>6. /\ t.pc = "planning" /\ t.asked = s.asked /\ t.attempt = 1 /\ t.verdict = s.verdict
      /\ t.docs = d /\ t.reply = s.reply /\ t.result = s.result
  BY StateIs
<1>7. Whole(t)
  BY <1>6 DEF Whole
<1>8. Becomes(q, t)
  BY <1>1, <1>5
<1>9. UNCHANGED <<given, cache>>
  BY DEF Retrieve
<1> HIDE DEF s, t
<1>10. StateOk(q, t)
  BY <1>2, <1>4, <1>6, <1>7 DEF StateOk, Labels
<1> QED
  BY <1>3, <1>8, <1>9, <1>10, BecomesOk DEF RequestInv

\* What leaves the guardrails is a good response, for whichever plan.
LEMMA PlannedIs ==
    ASSUME RequestInv, NEW q \in Requests, req[q].pc = "planning",
           NEW plan \in AgentPlans(payload[q], analysis[q], req[q].verdict, req[q].docs)
    PROVE  GoodResponse(Response(Guarded(plan, req[q].verdict, analysis[q])))
<1> DEFINE v == req[q].verdict
           d == req[q].docs
           a == analysis[q]
           r == Response(Guarded(plan, v, a))
<1>1. v.hint \in Actions /\ (~event.cloud => v = Verdict(a)) /\ d.lead \in Leads(v.hint)
  BY DEF RequestInv, StateOk, Judged
<1>2. a.priority \in Priorities
  BY AnalysisIs DEF RequestInv, GivenInv
<1>3. IsPlan(plan) /\ (~event.cloud => plan = ActionPlan(payload[q], a, v, d))
  BY <1>1, <1>2, AgentPlanIs
<1>4. ~event.cloud /\ ~Irreversible(a.action) => CalmPlan(plan)
  <2>1. Verdict(a).hint = a.action
    BY DEF Verdict
  <2> QED
    BY <1>1, <1>2, <1>3, <2>1, ActionPlanIs
<1> HIDE DEF v, d, a
<1>5. /\ Sound(r) /\ (a.priority = "CRITICAL" => r.priority # "ROUTINE")
      /\ CalmPlan(plan) => CalmPlan(r)
  BY <1>3, GuardedIs
<1> HIDE DEF r
<1>6. ASSUME NEW p \in Requests, analysis[p].priority = "CRITICAL" PROVE r.priority # "ROUTINE"
  BY <1>5, <1>6, SameCritical DEF RequestInv, a
<1>7. event.cloud \/ CalmPlan(r) \/ \E p \in Requests : Irreversible(analysis[p].action)
  BY <1>4, <1>5 DEF a
<1>8. GoodResponse(r)
  BY <1>5, <1>6, <1>7 DEF GoodResponse
<1> QED
  BY <1>8 DEF r, v, a

\* The planner's turn ends in a good response, or fails.
LEMMA PlanActionOk == ASSUME RequestInv, NEW q \in Requests, PlanAction(q) PROVE RequestInv'
<1>1. PICK plan \in AgentPlans(payload[q], analysis[q], req[q].verdict, req[q].docs) :
        IF ValidPlan(plan, KnownNodes(payload[q]))
        THEN LET r == Response(Guarded(plan, req[q].verdict, analysis[q])) IN
             Becomes(q, Answered(q, r)) /\ cache' = r
        ELSE TurnFails(q) /\ UNCHANGED cache
  BY DEF PlanAction
<1>2. UNCHANGED <<given, found>> /\ req[q].pc = "planning" /\ req[q].asked \in 0..MaxAsked
  BY DEF PlanAction, RequestInv, StateOk
<1> DEFINE r == Response(Guarded(plan, req[q].verdict, analysis[q]))
<1>3. GoodResponse(r)
  BY <1>1, <1>2, PlannedIs
<1>4. \/ Becomes(q, Answered(q, r)) /\ cache' = r
      \/ TurnFails(q) /\ UNCHANGED cache
  BY <1>1
<1> HIDE DEF r
<1>5. CASE TurnFails(q) /\ UNCHANGED cache
  BY <1>2, <1>5, TurnFailsOk
<1>6. CASE Becomes(q, Answered(q, r)) /\ cache' = r
  <2>1. GoodReply(r)
    BY <1>3, NothingIs
  <2>2. Answered(q, r) = State("answered", req[q].asked, 1, Nothing, Nothing, r, Nothing)
    BY Assigned
  <2>3. StateOk(q, Answered(q, r))
    BY <1>2, <2>1, <2>2, AnsweredOk
  <2> QED
    BY <1>2, <1>3, <1>6, <2>3, BecomesOk DEF RequestInv
<1> QED
  BY <1>4, <1>5, <1>6

\* The worker publishes the translation of a good answer, or dead-letters one it
\* cannot translate.
LEMMA DeliverOk == ASSUME RequestInv, NEW q \in Requests, Deliver(q) PROVE RequestInv'
<1> DEFINE r == req[q].reply
           o == IF q \in Natives THEN [kind |-> "native"]
                ELSE IF Translatable(Envelope(r))
                     THEN [kind |-> "published", commands |-> Translate(Envelope(r))]
                ELSE [kind |-> "deadletter"]
<1>1. GoodReply(r) /\ req[q].asked \in 0..MaxAsked
  BY DEF Deliver, RequestInv, StateOk
<1>2. Becomes(q, Ended(q, r, o)) /\ UNCHANGED <<given, found, cache>>
  BY DEF Deliver
<1>3. Concluded(r, o)
  <2>1. CASE q \in Natives
    BY <2>1 DEF Concluded
  <2>2. CASE q \notin Natives /\ Translatable(Envelope(r))
    BY <1>1, <2>2 DEF Concluded
  <2>3. CASE q \notin Natives /\ ~Translatable(Envelope(r))
    BY <1>1, <2>3 DEF Concluded
  <2> QED
    BY <2>1, <2>2, <2>3
<1> HIDE DEF r, o
<1>4. StateOk(q, Ended(q, r, o))
  BY <1>1, <1>3, Assigned, EndedOk
<1> QED
  BY <1>2, <1>4, BecomesOk DEF RequestInv

\* A repeated request starts from nothing.
LEMMA AskAgainOk == ASSUME RequestInv, NEW q \in Requests, AskAgain(q) PROVE RequestInv'
<1>1. req[q].asked \in 0..MaxAsked
  BY DEF RequestInv, StateOk
<1>2. Waiting(req[q].asked)
        = State("idle", req[q].asked, 1, Nothing, Nothing, Nothing, Nothing)
  BY Assigned
<1>3. StateOk(q, Waiting(req[q].asked))
  BY <1>1, <1>2, FreshOk
<1> QED
  BY <1>3, BecomesOk DEF AskAgain, RequestInv

\* So does a step that changes none, or fails some of them.
LEMMA ForgetOk ==
    ASSUME RequestInv, UNCHANGED <<given, found>>, cache' = Nothing,
           req' = [q \in Requests |-> req'[q]],
           \A q \in Requests : req'[q] \in {req[q], Failed(q)}
    PROVE  RequestInv'
<1>1. event' = event /\ analysis' = analysis /\ payload' = payload
  BY DEF given
<1>2. Planner' = Planner
  BY <1>1 DEF Planner
<1>3. GivenInv'
  BY <1>1 DEF RequestInv, GivenInv
<1>4. ASSUME NEW q \in Requests PROVE StateOk(q, req'[q])
  <2>1. StateOk(q, req[q]) /\ req[q].asked \in 0..MaxAsked
    BY DEF RequestInv, StateOk
  <2>2. Failed(q) = State("failed", req[q].asked, 1, Nothing, Nothing, Nothing, Nothing)
    BY Assigned
  <2>3. StateOk(q, Failed(q))
    BY <2>1, <2>2, FreshOk
  <2>4. req'[q] \in {req[q], Failed(q)}
    OBVIOUS
  <2> QED
    BY <2>1, <2>3, <2>4
<1>5. ASSUME NEW q \in Requests PROVE StateOk(q, req[q])'
  <2>1. StateOk(q, req'[q])
    BY <1>4
  <2> QED
    BY <1>1, <1>2, <2>1 DEF StateOk, Judged, GoodReply, GoodResponse, Concluded, Translate
<1>6. cache' = Nothing'
  BY DEF Nothing
<1> QED
  BY <1>3, <1>5, <1>6 DEF RequestInv

\* Eviction touches the cache alone.
LEMMA EvictOk == ASSUME RequestInv, Evict PROVE RequestInv'
<1>1. req' = req /\ UNCHANGED <<given, found>> /\ cache' = Nothing
  BY DEF Evict
<1>2. req' = [q \in Requests |-> req'[q]]
  BY <1>1 DEF RequestInv
<1> QED
  BY <1>1, <1>2, ForgetOk

\* A restart fails the requests in the agent loop and keeps the others.
LEMMA RestartOk == ASSUME RequestInv, Restart PROVE RequestInv'
<1> DEFINE F(q) == IF req[q].pc \in {"isolating", "retrieving", "planning"} THEN Failed(q)
                   ELSE req[q]
<1>1. req' = [q \in Requests |-> F(q)] /\ UNCHANGED <<given, found>> /\ cache' = Nothing
  BY DEF Restart
<1>2. \A q \in Requests : F(q) \in {req[q], Failed(q)}
  OBVIOUS
<1> HIDE DEF F
<1>3. \A q \in Requests : req'[q] \in {req[q], Failed(q)}
  BY <1>1, <1>2
<1>4. req' = [q \in Requests |-> req'[q]]
  BY <1>1
<1> QED
  BY <1>1, <1>3, <1>4, ForgetOk

\* Nobody has asked yet.
LEMMA RequestInit == Init => RequestInv
<1> SUFFICES ASSUME Init
             PROVE  RequestInv
  OBVIOUS
<1>1. GivenInv
  BY DEF Init, GivenInv
<1>2. req = [q \in Requests |-> Waiting(0)] /\ cache = Nothing /\ found = {}
  BY DEF Init
<1>3. 0 \in 0..MaxAsked
  BY PlanningAssumption
<1>4. \A q \in Requests : StateOk(q, Waiting(0))
  BY <1>3, Assigned, FreshOk
<1> QED
  BY <1>1, <1>2, <1>4 DEF RequestInv

\* Every step keeps the requests in order.
LEMMA RequestNext == ASSUME RequestInv, [Next]_vars PROVE RequestInv'
<1>1. CASE Evict
  BY <1>1, EvictOk
<1>2. CASE Restart
  BY <1>2, RestartOk
<1>3. ASSUME NEW q \in Requests, Request(q) PROVE RequestInv'
  <2>1. CASE PlanInOneTurn(q) \/ Replay(q) \/ RefusePayload(q) \/ Intercept(q)
    BY <2>1, PlanInOneTurnOk, ReplayOk, RefusePayloadOk, InterceptOk
  <2>2. CASE Engine(q)
    BY <2>2, IsolateOk, RetrieveOk, PlanActionOk, AgentBreaksOk DEF Engine
  <2>3. CASE Deliver(q) \/ AskAgain(q)
    BY <2>3, DeliverOk, AskAgainOk
  <2> QED
    BY <1>3, <2>1, <2>2, <2>3 DEF Request
<1>4. CASE UNCHANGED vars
  <2>1. event' = event /\ analysis' = analysis /\ payload' = payload /\ req' = req
        /\ found' = found /\ cache' = cache
    BY <1>4 DEF vars, given
  <2>2. Planner' = Planner
    BY <2>1 DEF Planner
  <2> QED
    BY <2>1, <2>2 DEF RequestInv, GivenInv, StateOk, Judged, GoodReply, GoodResponse,
                      Concluded, Translate
<1> QED
  BY <1>1, <1>2, <1>3, <1>4 DEF Next

\* The requests are in order throughout.
LEMMA RequestHolds == Spec => []RequestInv
<1>1. RequestInv /\ [Next]_vars => RequestInv'
  BY RequestNext
<1> QED
  BY <1>1, RequestInit, PTL DEF Spec

-----------------------------------------------------------------------------
(* What the invariant says *)

\* The envelope of a good answer.
LEMMA EnvelopeIs ==
    ASSUME NEW r, GoodReply(r)
    PROVE  /\ Draft(Envelope(r))
           /\ r.kind = "response" =>
                /\ GoodResponse(r) /\ Envelope(r) = ToPlan(r)
                /\ r.priority # "ROUTINE" => Translatable(Envelope(r))
           /\ r.kind # "response" => Planner # "graphrag" /\ Translatable(Envelope(r))
<1>1. CASE r.kind = "plan" /\ Proposal(r.plan) /\ Planner # "graphrag"
  BY <1>1, ProposalIsDraft, ProposalTranslates DEF Envelope
<1>2. CASE GoodResponse(r)
  <2>1. Sound(r) /\ r.kind = "response" /\ Envelope(r) = ToPlan(r)
    BY <1>2 DEF GoodResponse, Sound, Envelope
  <2> QED
    BY <1>2, <2>1, BridgeIs, ProposalTranslates
<1> QED
  BY <1>1, <1>2 DEF GoodReply

\* Requests stay in their states and bounds, and what is published is in the
\* actuators' vocabulary and at most max_commands, for every planner, agent and
\* corpus.
THEOREM TypeCorrect == Spec => []TypeOK
<1>1. ASSUME RequestInv PROVE TypeOK
  <2>1. ASSUME NEW q \in Requests
        PROVE  /\ req[q].pc \in Labels /\ req[q].asked \in 0..MaxAsked
               /\ req[q].attempt \in 1..MaxAttempts
    BY <1>1 DEF RequestInv, StateOk
  <2>2. ASSUME NEW q \in Requests, Published(q)
        PROVE  Len(req[q].result.commands) \in 1..MaxCommands /\ Sent(q) \subseteq Commands
    <3>1. /\ GoodReply(req[q].reply) /\ Translatable(Envelope(req[q].reply))
          /\ req[q].result.commands = Translate(Envelope(req[q].reply))
      BY <1>1, <2>2 DEF RequestInv, StateOk, Concluded, Published
    <3>2. Draft(Envelope(req[q].reply))
      BY <3>1, EnvelopeIs
    <3> QED
      BY <3>1, <3>2, TranslateIs DEF Sent
  <2> QED
    BY <2>1, <2>2 DEF TypeOK, Labels
<1> QED
  BY <1>1, RequestHolds, PTL

\* What a response says, wherever it came from.
LEMMA ResponseIs ==
    ASSUME RequestInv, NEW q \in Requests, Reply(q).kind = "response"
    PROVE  GoodResponse(Reply(q))
<1>1. Reply(q) = Nothing \/ GoodReply(Reply(q))
  BY DEF RequestInv, StateOk, Reply
<1> QED
  BY <1>1, NothingIs DEF GoodReply

\* "neither a model error nor instructions smuggled through the payload can
\* route around them": whatever verdicts and plans the agents come up with, a
\* response is handed to a supervisor within one step of the limit, and
\* irreversible or CRITICAL work is authorised.
THEOREM HandedOverAlways == Spec => []HandedOver
<1>1. ASSUME RequestInv PROVE HandedOver
  <2>1. ASSUME NEW q \in Requests, Reply(q).kind = "response" PROVE Sound(Reply(q))
    BY <1>1, <2>1, ResponseIs DEF GoodResponse
  <2> QED
    BY <2>1 DEF HandedOver, Sound
<1> QED
  BY <1>1, RequestHolds, PTL

\* With the rule engine, irreversible work in a response, as its action or in a
\* step of a retrieved procedure, is what the kernel permitted and recommended.
THEOREM TrustedAlways == Spec => []TrustedOnly
<1>1. ASSUME RequestInv PROVE TrustedOnly
  <2>1. ASSUME NEW q \in Requests, ~event.cloud, Reply(q).kind = "response",
               Irreversible(Reply(q).action) \/ SomeIrreversible(Reply(q).steps)
        PROVE  \E p \in Requests : analysis[p].permitted /\ Irreversible(analysis[p].action)
    <3>1. PICK p \in Requests : Irreversible(analysis[p].action)
      BY <1>1, <2>1, ResponseIs DEF GoodResponse, CalmPlan
    <3>2. analysis[p].permitted
      BY <1>1, <3>1, AnalysisIs DEF RequestInv, GivenInv
    <3> QED
      BY <3>1, <3>2
  <2> QED
    BY <2>1 DEF TrustedOnly
<1> QED
  BY <1>1, RequestHolds, PTL

\* The authorisation a response requires reaches every executor, and a command
\* that takes load off an asset always needs approval.
THEOREM AuthorisationKept == Spec => []AuthorisationSurvives
<1>1. ASSUME RequestInv PROVE AuthorisationSurvives
  <2>1. ASSUME NEW q \in Workers, Published(q), NEW c \in Sent(q)
        PROVE  /\ ActuatedIrreversible(c.action) => c.approval
               /\ Reply(q).kind = "response" /\ Reply(q).auth => c.approval \/ c.escalation
    <3>1. /\ GoodReply(Reply(q)) /\ Translatable(Envelope(Reply(q)))
          /\ req[q].result.commands = Translate(Envelope(Reply(q)))
      BY <1>1, <2>1 DEF RequestInv, StateOk, Concluded, Published, Reply, Requests
    <3>2. c \in Range2(Translate(Envelope(Reply(q))))
      BY <2>1, <3>1 DEF Sent
    <3>3. /\ ActuatedIrreversible(c.action) => c.approval
          /\ Envelope(Reply(q)).escalate => c.escalation
      BY <3>1, <3>2, TranslateKeeps
    <3>4. ASSUME Reply(q).kind = "response", Reply(q).auth PROVE c.escalation
      <4>1. Envelope(Reply(q)) = ToPlan(Reply(q)) /\ Sound(Reply(q))
        BY <3>1, <3>4, EnvelopeIs DEF GoodResponse
      <4>2. ToPlan(Reply(q)).escalate = Reply(q).auth
        BY <4>1, BridgeIs
      <4> QED
        BY <3>3, <3>4, <4>1, <4>2
    <3> QED
      BY <3>3, <3>4
  <2> QED
    BY <2>1 DEF AuthorisationSurvives
<1> QED
  BY <1>1, RequestHolds, PTL

\* Only a ROUTINE response is dead-lettered, and never one for an event the
\* kernel scores CRITICAL.
THEOREM CriticalAlwaysReaches == Spec => []CriticalReaches
<1>1. ASSUME RequestInv PROVE CriticalReaches
  <2>1. ASSUME NEW q \in Workers, req[q].result.kind = "deadletter"
        PROVE  /\ Reply(q).kind = "response" /\ Reply(q).priority = "ROUTINE"
               /\ analysis[q].priority # "CRITICAL"
    <3>1. GoodReply(Reply(q)) /\ ~Translatable(Envelope(Reply(q))) /\ q \in Requests
      BY <1>1, <2>1 DEF RequestInv, StateOk, Concluded, Reply, Requests
    <3>2. Reply(q).kind = "response" /\ GoodResponse(Reply(q)) /\ Reply(q).priority = "ROUTINE"
      BY <3>1, EnvelopeIs
    <3> QED
      BY <3>1, <3>2 DEF GoodResponse
  <2> QED
    BY <2>1 DEF CriticalReaches
<1> QED
  BY <1>1, RequestHolds, PTL

\* models.py: a contested topology is "not a basis for planning an irreversible
\* action".  With the rule engine and the default threshold, or any above 55, a tie
\* never becomes a SHUTDOWN on the topic, whatever the retries, the races and the
\* cache do, and whichever procedures are retrieved.
THEOREM TieNeverShutsDown ==
    ASSUME MinTrust > 55
    PROVE  Spec => []NoTripOnTie
<1>1. ASSUME RequestInv PROVE NoTripOnTie
  <2> SUFFICES ASSUME NEW q \in Workers, Published(q), NEW c \in Sent(q),
                      c.action = "SHUTDOWN", Planner = "graphrag", ~event.cloud,
                      Contested(event.obs)
               PROVE  FALSE
    BY DEF NoTripOnTie
  <2>1. /\ GoodReply(Reply(q)) /\ Translatable(Envelope(Reply(q)))
        /\ req[q].result.commands = Translate(Envelope(Reply(q)))
    BY <1>1 DEF RequestInv, StateOk, Concluded, Published, Reply, Requests
  <2>2. GoodResponse(Reply(q)) /\ Envelope(Reply(q)) = ToPlan(Reply(q))
    BY <2>1, EnvelopeIs
  <2>3. c \in Range2(Translate(ToPlan(Reply(q)))) /\ Translatable(ToPlan(Reply(q)))
    BY <2>1, <2>2 DEF Sent
  <2>4. PICK i \in 1..Len(Cut(ToPlan(Reply(q)).commands, MaxCommands)) :
            ToPlan(Reply(q)).commands[i].action = "SHUTDOWN"
    BY <2>3, TranslateKeeps
  <2>5. Draft(ToPlan(Reply(q)))
    BY <2>2, BridgeIs DEF GoodResponse
  <2>6. i \in DOMAIN ToPlan(Reply(q)).commands
    <3> DEFINE cs == ToPlan(Reply(q)).commands
    <3>1. cs \in Seq(Drafts) /\ MaxCommands \in Nat \ {0}
      BY <2>5, PlanningAssumption DEF Draft
    <3> HIDE DEF cs
    <3>2. Len(Cut(cs, MaxCommands)) <= Len(cs)
      BY <3>1, CutIs
    <3>3. Cut(cs, MaxCommands) \in Seq(Drafts)
      BY <3>1, CutIs
    <3>4. i \in 1..Len(Cut(cs, MaxCommands))
      BY DEF cs
    <3>5. i \in 1..Len(cs)
      BY <3>1, <3>2, <3>3, <3>4
    <3> QED
      BY <3>1, <3>5 DEF cs
  <2>7. Irreversible(Reply(q).action)
    BY <2>2, <2>4, <2>6, BridgeIs DEF GoodResponse
  <2>8. PICK p \in Requests : Irreversible(analysis[p].action)
    BY <2>2, <2>7 DEF GoodResponse, CalmPlan
  <2>9. Trips(payload[p]) /\ Shaped(payload[p])
    BY <1>1, <2>8, AnalysisIs, PayloadsShaped DEF RequestInv, GivenInv
  <2>10. Contested(payload[p].obs)
    BY <1>1, SameTie DEF RequestInv
  <2> QED
    BY <2>9, <2>10, TieNeverTripsAnywhere DEF TieNeverTrips
<1> QED
  BY <1>1, RequestHolds, PTL

-----------------------------------------------------------------------------
(* One event, one answer *)

\* What the rule engine and the guardrails make of a payload and its documents.
Answer(q, d) ==
    LET v == Verdict(analysis[q]) IN
    Response(Guarded(ActionPlan(payload[q], analysis[q], v, d), v, analysis[q]))

\* The response was made from what the store gave for the payload of some request.
Made(F, r) ==
    \E f \in F, q \in Requests :
        f.query = Query(Verdict(analysis[q])) /\ r = Answer(q, f.docs)

\* The store answers the same query the same way.
Stable(F) == \A f, g \in F : f.query = g.query => f.docs = g.docs

\* The documents of a request are from the store, and its response is made of some.
AnswerOk(F, s) ==
    /\ s.pc = "planning" => [query |-> Query(s.verdict), docs |-> s.docs] \in F
    /\ s.reply.kind = "response" => Made(F, s.reply)

\* Every response of the rule engine, kept or cached, is a function of a payload
\* and of what the store gave for it.
AnswerInv ==
    /\ RequestInv
    /\ ~event.cloud =>
        /\ Stable(found) /\ (cache = Nothing \/ Made(found, cache))
        /\ \A q \in Requests : AnswerOk(found, req[q])

\* The store's history only grows, and no response of it is undone.
LEMMA AnswerGrows ==
    ASSUME NEW F, NEW G, F \subseteq G
    PROVE  /\ \A r : Made(F, r) => Made(G, r)
           /\ \A s : AnswerOk(F, s) => AnswerOk(G, s)
<1>1. ASSUME NEW r, Made(F, r) PROVE Made(G, r)
  BY <1>1 DEF Made
<1> QED
  BY <1>1 DEF AnswerOk

\* A step that leaves a request alone, or in order, keeps the invariant.
LEMMA AnswerKept ==
    ASSUME AnswerInv, RequestInv', UNCHANGED given, found \subseteq found',
           ~event.cloud =>
              /\ Stable(found')
              /\ cache' = cache \/ cache' = Nothing \/ Made(found', cache')
              /\ \A q \in Requests : req'[q] = req[q] \/ AnswerOk(found', req'[q])
    PROVE  AnswerInv'
<1>1. event' = event /\ analysis' = analysis /\ payload' = payload /\ Nothing' = Nothing
  BY DEF given, Nothing
<1>2. ASSUME ~event.cloud
      PROVE  /\ Stable(found') /\ (cache' = Nothing \/ Made(found', cache'))
             /\ \A q \in Requests : AnswerOk(found', req'[q])
  BY <1>2, AnswerGrows DEF AnswerInv
<1> QED
  BY <1>1, <1>2 DEF AnswerInv, Stable, AnswerOk, Made, Answer

\* So does a change of one request.
LEMMA AnswerBecomes ==
    ASSUME AnswerInv, RequestInv', NEW q \in Requests, NEW s, Becomes(q, s),
           UNCHANGED given, found \subseteq found',
           ~event.cloud =>
              /\ Stable(found') /\ AnswerOk(found', s)
              /\ cache' = cache \/ cache' = Nothing \/ Made(found', cache')
    PROVE  AnswerInv'
<1>1. \A p \in Requests : req'[p] = IF p = q THEN s ELSE req[p]
  BY DEF AnswerInv, RequestInv, Becomes
<1> QED
  BY <1>1, AnswerKept

\* What a request with an empty hand holds.
LEMMA AnswerFresh ==
    ASSUME NEW F, NEW pc, NEW n, NEW o, pc # "planning"
    PROVE  /\ AnswerOk(F, State(pc, n, 1, Nothing, Nothing, Nothing, o))
           /\ \A r : (r.kind = "response" => Made(F, r))
                => AnswerOk(F, State(pc, n, 1, Nothing, Nothing, r, o))
<1>1. ASSUME NEW r, r.kind = "response" => Made(F, r)
      PROVE  AnswerOk(F, State(pc, n, 1, Nothing, Nothing, r, o))
  <2> DEFINE s == State(pc, n, 1, Nothing, Nothing, r, o)
  <2>1. s.pc = pc /\ s.reply = r
    BY StateIs
  <2> HIDE DEF s
  <2> QED
    BY <1>1, <2>1 DEF AnswerOk, s
<1> QED
  BY <1>1, NothingIs

\* A failed turn makes no response and searches nothing.
LEMMA TurnFailsAnswer ==
    ASSUME AnswerInv, RequestInv', NEW q \in Requests, TurnFails(q),
           UNCHANGED <<given, found, cache>>
    PROVE  AnswerInv'
<1> DEFINE s == req[q]
           k == s.attempt + 1
<1>1. Whole(s) /\ (~event.cloud => Stable(found) /\ AnswerOk(found, s))
  BY DEF AnswerInv, RequestInv, StateOk
<1>2. CASE s.attempt < MaxAttempts
  <2> DEFINE t == State(s.pc, s.asked, k, s.verdict, s.docs, s.reply, s.result)
  <2>1. Becomes(q, [s EXCEPT !.attempt = k])
    BY <1>2 DEF TurnFails
  <2>2. [s EXCEPT !.attempt = k] = t
    BY <1>1 DEF Whole, State
  <2>3. t.pc = s.pc /\ t.verdict = s.verdict /\ t.docs = s.docs /\ t.reply = s.reply
    BY StateIs
  <2>4. Becomes(q, t)
    BY <2>1, <2>2
  <2> HIDE DEF s, t
  <2>5. ~event.cloud => AnswerOk(found, t)
    BY <1>1, <2>3 DEF AnswerOk
  <2> QED
    BY <1>1, <2>4, <2>5, AnswerBecomes
<1>3. CASE ~(s.attempt < MaxAttempts)
  <2>1. Becomes(q, Failed(q))
    BY <1>3 DEF TurnFails
  <2>2. Failed(q) = State("failed", req[q].asked, 1, Nothing, Nothing, Nothing, Nothing)
    BY Assigned
  <2>3. AnswerOk(found, Failed(q))
    BY <2>2, AnswerFresh
  <2> QED
    BY <1>1, <2>1, <2>3, AnswerBecomes
<1> QED
  BY <1>2, <1>3

\* The steps that begin a try, or end it.
LEMMA AnswerAsked ==
    ASSUME AnswerInv, RequestInv', NEW q \in Requests,
           PlanInOneTurn(q) \/ Replay(q) \/ RefusePayload(q) \/ Intercept(q)
    PROVE  AnswerInv'
<1> USE DEF AnswerInv
<1>1. ASSUME NEW pc, NEW n, NEW r, NEW o, Ask(q, State(pc, n, 1, Nothing, Nothing, r, o)),
             pc # "planning",
             ~event.cloud => (r.kind = "response" => Made(found, r))
      PROVE  AnswerInv'
  <2> DEFINE s == State(pc, req[q].asked + 1, 1, Nothing, Nothing, r, o)
  <2>1. Becomes(q, s) /\ UNCHANGED <<given, found, cache>>
    BY <1>1, AskIs
  <2>2. ~event.cloud => AnswerOk(found, s)
    BY <1>1, AnswerFresh
  <2> HIDE DEF s
  <2> QED
    BY <2>1, <2>2, AnswerBecomes
<1>2. CASE PlanInOneTurn(q)
  <2> DEFINE r == [kind |-> "plan", plan |-> IF Planner = "stub" THEN StubPlan(event)
                                             ELSE DerivedPlan(event)]
  <2>1. Ask(q, State("answered", req[q].asked, 1, Nothing, Nothing, r, Nothing))
    BY <1>2, Assigned DEF PlanInOneTurn
  <2>2. r.kind # "response"
    OBVIOUS
  <2> HIDE DEF r
  <2> QED
    BY <1>1, <2>1, <2>2
<1>3. CASE Replay(q)
  <2>1. Ask(q, State("answered", req[q].asked, 1, Nothing, Nothing, cache, Nothing))
    BY <1>3, Assigned DEF Replay
  <2>2. ~event.cloud => Made(found, cache)
    BY <1>3 DEF Replay
  <2> QED
    BY <1>1, <2>1, <2>2
<1>4. CASE RefusePayload(q)
  <2> DEFINE o == [kind |-> "refused"]
  <2>1. Ask(q, State("done", req[q].asked, 1, Nothing, Nothing, Nothing, o))
    BY <1>4, Assigned DEF RefusePayload
  <2> HIDE DEF o
  <2> QED
    BY <1>1, <2>1, NothingIs
<1>5. CASE Intercept(q)
  <2>1. Ask(q, State("isolating", 0, 1, Nothing, Nothing, Nothing, Nothing))
    BY <1>5, Assigned DEF Intercept
  <2> QED
    BY <1>1, <2>1, NothingIs
<1> QED
  BY <1>2, <1>3, <1>4, <1>5

\* Delivering an answer keeps it; asking again gives it up.
LEMMA AnswerEnds ==
    ASSUME AnswerInv, RequestInv', NEW q \in Requests, Deliver(q) \/ AskAgain(q)
    PROVE  AnswerInv'
<1> USE DEF AnswerInv
<1>1. CASE Deliver(q)
  <2> DEFINE r == req[q].reply
             o == IF q \in Natives THEN [kind |-> "native"]
                  ELSE IF Translatable(Envelope(r))
                       THEN [kind |-> "published", commands |-> Translate(Envelope(r))]
                  ELSE [kind |-> "deadletter"]
  <2>1. Becomes(q, Ended(q, r, o)) /\ UNCHANGED <<given, found, cache>>
    BY <1>1 DEF Deliver
  <2>2. ~event.cloud => (r.kind = "response" => Made(found, r))
    BY DEF AnswerOk
  <2> HIDE DEF r, o
  <2>3. Ended(q, r, o) = State("done", req[q].asked, 1, Nothing, Nothing, r, o)
    BY Assigned
  <2>4. ~event.cloud => AnswerOk(found, Ended(q, r, o))
    BY <2>2, <2>3, AnswerFresh
  <2> QED
    BY <2>1, <2>4, AnswerBecomes
<1>2. CASE AskAgain(q)
  <2>1. Becomes(q, Waiting(req[q].asked)) /\ UNCHANGED <<given, found, cache>>
    BY <1>2 DEF AskAgain
  <2>2. Waiting(req[q].asked)
          = State("idle", req[q].asked, 1, Nothing, Nothing, Nothing, Nothing)
    BY Assigned
  <2>3. AnswerOk(found, Waiting(req[q].asked))
    BY <2>2, AnswerFresh
  <2> QED
    BY <2>1, <2>3, AnswerBecomes
<1> QED
  BY <1>1, <1>2

\* A verdict is no response yet.
LEMMA IsolateAnswer ==
    ASSUME AnswerInv, RequestInv', NEW q \in Requests, Isolate(q) PROVE AnswerInv'
<1> DEFINE s == req[q]
<1>1. PICK v : \/ Becomes(q, [s EXCEPT !.pc = "retrieving", !.verdict = v]) \/ TurnFails(q)
  BY DEF Isolate
<1>2. UNCHANGED <<given, found, cache>>
  BY DEF Isolate
<1>3. CASE TurnFails(q)
  BY <1>2, <1>3, TurnFailsAnswer
<1>4. CASE Becomes(q, [s EXCEPT !.pc = "retrieving", !.verdict = v])
  <2> DEFINE t == State("retrieving", s.asked, s.attempt, v, s.docs, s.reply, s.result)
  <2>1. Whole(s) /\ (~event.cloud => Stable(found) /\ AnswerOk(found, s))
    BY DEF AnswerInv, RequestInv, StateOk
  <2>2. Becomes(q, t)
    BY <1>4, <2>1, TurnAssigned
  <2>3. t.pc = "retrieving" /\ t.reply = s.reply
    BY StateIs
  <2> HIDE DEF s, t
  <2>4. ~event.cloud => AnswerOk(found, t)
    BY <2>1, <2>3 DEF AnswerOk
  <2> QED
    BY <1>2, <2>1, <2>2, <2>4, AnswerBecomes
<1> QED
  BY <1>1, <1>3, <1>4

\* A search gives what it gave before, or extends the history.
LEMMA RetrieveAnswer ==
    ASSUME AnswerInv, RequestInv', NEW q \in Requests, Retrieve(q) PROVE AnswerInv'
<1> DEFINE s == req[q]
<1>1. PICK d \in Search(s.verdict) :
        /\ Becomes(q, [s EXCEPT !.pc = "planning", !.attempt = 1, !.docs = d])
        /\ found' = found \cup {[query |-> Query(s.verdict), docs |-> d]}
  BY DEF Retrieve
<1> DEFINE g == [query |-> Query(s.verdict), docs |-> d]
           t == State("planning", s.asked, 1, s.verdict, d, s.reply, s.result)
<1>2. Whole(s) /\ (~event.cloud => Stable(found) /\ AnswerOk(found, s))
  BY DEF AnswerInv, RequestInv, StateOk
<1>3. ASSUME ~event.cloud, NEW f \in found, f.query = Query(s.verdict) PROVE f.docs = d
  <2>1. d \in {e.docs : e \in {h \in found : h.query = Query(s.verdict)}}
    BY <1>1, <1>3 DEF Search
  <2> QED
    BY <1>2, <1>3, <2>1 DEF Stable
<1>4. ~event.cloud => Stable(found')
  <2>1. g.query = Query(s.verdict) /\ g.docs = d /\ found' = found \cup {g}
    BY <1>1
  <2> HIDE DEF g
  <2> QED
    BY <1>2, <1>3, <2>1 DEF Stable
<1>5. Becomes(q, t)
  BY <1>1, <1>2, TurnAssigned
<1>6. t.pc = "planning" /\ t.verdict = s.verdict /\ t.docs = d /\ t.reply = s.reply
  BY StateIs
<1>7. found \subseteq found' /\ g \in found'
  BY <1>1
<1>8. ~event.cloud => AnswerOk(found', s)
  BY <1>2, <1>7, AnswerGrows
<1>9. UNCHANGED <<given, cache>>
  BY DEF Retrieve
<1>10. [query |-> Query(t.verdict), docs |-> t.docs] = g
  BY <1>6
<1> HIDE DEF s, t, g
<1>11. ~event.cloud => AnswerOk(found', t)
  BY <1>6, <1>7, <1>8, <1>10 DEF AnswerOk
<1> QED
  BY <1>4, <1>5, <1>7, <1>9, <1>11, AnswerBecomes

\* The rule engine plans from the documents the store gave for its query.
LEMMA PlanActionAnswer ==
    ASSUME AnswerInv, RequestInv', NEW q \in Requests, PlanAction(q) PROVE AnswerInv'
<1> DEFINE v == req[q].verdict
           d == req[q].docs
<1>1. PICK plan \in AgentPlans(payload[q], analysis[q], v, d) :
        \/ /\ Becomes(q, Answered(q, Response(Guarded(plan, v, analysis[q]))))
           /\ cache' = Response(Guarded(plan, v, analysis[q]))
        \/ TurnFails(q) /\ UNCHANGED cache
  BY DEF PlanAction
<1> DEFINE r == Response(Guarded(plan, v, analysis[q]))
<1>2. UNCHANGED <<given, found>> /\ req[q].pc = "planning"
  BY DEF PlanAction
<1>3. CASE TurnFails(q) /\ UNCHANGED cache
  BY <1>2, <1>3, TurnFailsAnswer
<1>4. CASE Becomes(q, Answered(q, r)) /\ cache' = r
  <2>1. ASSUME ~event.cloud PROVE Made(found, r) /\ Stable(found)
    <3>1. v = Verdict(analysis[q])
      BY <1>2, <2>1 DEF AnswerInv, RequestInv, StateOk, Judged
    <3>2. plan = ActionPlan(payload[q], analysis[q], v, d)
      BY <1>1, <2>1 DEF AgentPlans
    <3>3. Stable(found) /\ [query |-> Query(v), docs |-> d] \in found
      BY <1>2, <2>1 DEF AnswerInv, AnswerOk
    <3>4. r = Answer(q, d)
      BY <3>1, <3>2 DEF Answer
    <3> HIDE DEF v, d, r
    <3>5. PICK f \in found : f.query = Query(v) /\ f.docs = d
      BY <3>3
    <3> QED
      BY <3>1, <3>3, <3>4, <3>5 DEF Made
  <2>2. Answered(q, r) = State("answered", req[q].asked, 1, Nothing, Nothing, r, Nothing)
    BY Assigned
  <2> HIDE DEF r
  <2>3. ~event.cloud => AnswerOk(found, Answered(q, r))
    BY <2>1, <2>2, AnswerFresh
  <2> QED
    BY <1>2, <1>4, <2>1, <2>3, AnswerBecomes
<1> QED
  BY <1>1, <1>3, <1>4

\* Every step keeps the responses functions of payload and documents.
LEMMA AnswerNext == ASSUME AnswerInv, [Next]_vars PROVE AnswerInv'
<1>1. RequestInv'
  BY RequestNext DEF AnswerInv
<1>2. CASE Evict
  <2>1. UNCHANGED <<given, req, found>> /\ cache' = Nothing
    BY <1>2 DEF Evict
  <2> QED
    BY <1>1, <2>1, AnswerKept DEF AnswerInv
<1>3. CASE Restart
  <2>1. UNCHANGED <<given, found>> /\ cache' = Nothing
    BY <1>3 DEF Restart
  <2>2. ASSUME NEW q \in Requests PROVE req'[q] = req[q] \/ AnswerOk(found, req'[q])
    <3>1. req'[q] = req[q] \/ req'[q] = Failed(q)
      BY <1>3 DEF Restart
    <3>2. Failed(q) = State("failed", req[q].asked, 1, Nothing, Nothing, Nothing, Nothing)
      BY Assigned
    <3>3. AnswerOk(found, Failed(q))
      BY <3>2, AnswerFresh
    <3> QED
      BY <3>1, <3>3
  <2> QED
    BY <1>1, <2>1, <2>2, AnswerKept DEF AnswerInv
<1>4. ASSUME NEW q \in Requests, Request(q) PROVE AnswerInv'
  <2>1. CASE PlanInOneTurn(q) \/ Replay(q) \/ RefusePayload(q) \/ Intercept(q)
    BY <1>1, <2>1, AnswerAsked
  <2>2. CASE AgentBreaks(q)
    BY <1>1, <2>2, TurnFailsAnswer DEF AgentBreaks
  <2>3. CASE Isolate(q) \/ Retrieve(q) \/ PlanAction(q)
    BY <1>1, <2>3, IsolateAnswer, RetrieveAnswer, PlanActionAnswer
  <2>4. CASE Deliver(q) \/ AskAgain(q)
    BY <1>1, <2>4, AnswerEnds
  <2> QED
    BY <1>4, <2>1, <2>2, <2>3, <2>4 DEF Request, Engine
<1>5. CASE UNCHANGED vars
  <2>1. UNCHANGED given /\ req' = req /\ found' = found /\ cache' = cache
    BY <1>5 DEF vars
  <2> QED
    BY <1>1, <2>1, AnswerKept DEF AnswerInv
<1> QED
  BY <1>2, <1>3, <1>4, <1>5 DEF Next

\* So they are throughout.
LEMMA AnswerHolds == Spec => []AnswerInv
<1>1. Init => AnswerInv
  <2> SUFFICES ASSUME Init
               PROVE  AnswerInv
    OBVIOUS
  <2>1. RequestInv /\ found = {} /\ cache = Nothing /\ req = [q \in Requests |-> Waiting(0)]
    BY RequestInit DEF Init
  <2>2. Waiting(0) = State("idle", 0, 1, Nothing, Nothing, Nothing, Nothing)
    BY Assigned
  <2>3. AnswerOk(found, Waiting(0))
    BY <2>2, AnswerFresh
  <2> QED
    BY <2>1, <2>3 DEF AnswerInv, Stable
<1>2. AnswerInv /\ [Next]_vars => AnswerInv'
  BY AnswerNext
<1> QED
  BY <1>1, <1>2, PTL DEF Spec

\* A native caller that knows nothing of the neighbours sends what the worker sends.
LEMMA SamePayload ==
    ASSUME GivenInv, DOMAIN event.health = {}, DOMAIN event.attributed = {},
           NEW p \in Requests, NEW q \in Requests
    PROVE  payload[p] = payload[q]
<1> DEFINE P == Projected(event)
           N == [P EXCEPT !.health = event.health, !.attributed = event.attributed]
<1>1. \A r \in Requests : payload[r] = Payload(event, r) /\ Shaped(payload[r])
  BY EventAssumption DEF GivenInv
<1>2. \A r \in Requests : payload[r] = IF r \in Workers THEN P ELSE N
  BY <1>1 DEF Payload
<1>3. P = [asset |-> P.asset, parent |-> P.parent, status |-> P.status, down |-> P.down,
           up |-> P.up, health |-> << >>, attributed |-> << >>, local |-> P.local,
           obs |-> P.obs]
  BY DEF Projected
<1>4. ASSUME NEW r \in Requests, r \notin Workers PROVE N = P
  <2> HIDE DEF P
  <2>1. N.health = event.health /\ N.attributed = event.attributed
    BY <1>3
  <2>2. Shaped(N)
    BY <1>1, <1>2, <1>4
  <2>3. /\ event.health = [n \in {} |-> event.health[n]]
        /\ event.attributed = [n \in {} |-> event.attributed[n]]
    BY <2>1, <2>2 DEF Shaped
  <2>4. event.health = << >> /\ event.attributed = << >>
    BY <2>3
  <2> DEFINE t == [P EXCEPT !.health = << >>]
  <2>5. t = P
    BY <1>3
  <2>6. N = [t EXCEPT !.attributed = << >>]
    BY <2>4
  <2>7. [P EXCEPT !.attributed = << >>] = P
    BY <1>3
  <2> QED
    BY <2>5, <2>6, <2>7
<1> HIDE DEF P, N
<1> QED
  BY <1>2, <1>4

\* CommandCache: "an operator must never be handed two different plans for one
\* event".  With the rule engine, any two responses to callers that send the same
\* payload are the same, through races past the cache, evictions and restarts.
THEOREM OneAnswerAlways == Spec => []OneAnswer
<1>1. ASSUME AnswerInv PROVE OneAnswer
  <2> SUFFICES ASSUME ~event.cloud, DOMAIN event.health = {}, DOMAIN event.attributed = {},
                      NEW p \in Requests, NEW q \in Requests,
                      Reply(p).kind = "response", Reply(q).kind = "response"
               PROVE  Reply(p) = Reply(q)
    BY DEF OneAnswer
  <2>1. Made(found, Reply(p)) /\ Made(found, Reply(q)) /\ Stable(found)
    BY <1>1 DEF AnswerInv, AnswerOk, Reply
  <2>2. PICK f \in found, a \in Requests :
            f.query = Query(Verdict(analysis[a])) /\ Reply(p) = Answer(a, f.docs)
    BY <2>1 DEF Made
  <2>3. PICK g \in found, b \in Requests :
            g.query = Query(Verdict(analysis[b])) /\ Reply(q) = Answer(b, g.docs)
    BY <2>1 DEF Made
  <2>4. payload[a] = payload[b] /\ analysis[a] = analysis[b]
    BY <1>1, SamePayload DEF AnswerInv, RequestInv, GivenInv
  <2>5. f.docs = g.docs
    BY <2>1, <2>2, <2>3, <2>4 DEF Stable
  <2> QED
    BY <2>2, <2>3, <2>4, <2>5 DEF Answer
<1> QED
  BY <1>1, AnswerHolds, PTL

-----------------------------------------------------------------------------
(* Whether the asset is tripped *)

\* Every caller's payload has the asset's own channels and replicas, so that all
\* of them trip it or none.
LEMMA SameTrip ==
    ASSUME MinTrust > 55, GivenInv, NEW p \in Requests, NEW q \in Requests
    PROVE  Trips(payload[q]) = Trips(payload[p])
<1>1. payload[p] = Payload(event, p) /\ payload[q] = Payload(event, q)
  BY DEF GivenInv
<1>2. payload[q].local = payload[p].local /\ payload[q].obs = payload[p].obs
  BY <1>1, PayloadIs
<1>3. Shaped(payload[p]) /\ Shaped(payload[q])
  BY PayloadsShaped
<1> QED
  BY <1>2, <1>3, TripsAlone

\* The guardrails leave the action alone, except that they take a shutdown back on
\* a graph that does not permit it.
LEMMA GuardedAction ==
    ASSUME NEW plan, IsPlan(plan), NEW v, NEW a,
           Irreversible(plan.action) => v.permitted /\ ~(v.trust < MinTrust)
    PROVE  Response(Guarded(plan, v, a)).action = plan.action
<1> DEFINE p1 == Downgraded(plan, v)
           p2 == Raised(p1, a)
           p3 == Closed(p2)
           p4 == Authorised(p3, v)
<1>1. IsPlan(p1)
  BY DowngradedIs
<1>2. p1.action = plan.action
  BY DEF Downgraded, IsPlan
<1> HIDE DEF p1
<1>3. IsPlan(p2) /\ p2.action = p1.action
  BY <1>1, RaisedIs
<1> HIDE DEF p2
<1>4. IsPlan(p3) /\ p3.action = p2.action
  BY <1>3, ClosedIs
<1> HIDE DEF p3
<1>5. p4.action = p3.action
  BY <1>4, AuthorisedIs
<1> HIDE DEF p4
<1>6. Response(p4).action = p4.action
  BY DEF Response
<1>7. p4 = Guarded(plan, v, a)
  BY DEF p4, p3, p2, p1, Guarded
<1> QED
  BY <1>2, <1>3, <1>4, <1>5, <1>6, <1>7

\* With the rule engine, an answer made from a caller's payload is a shutdown
\* exactly if the kernel trips the asset on that payload.
LEMMA AnswerTrips ==
    ASSUME GivenInv, NEW q \in Requests, NEW d,
           d.lead \in Leads(Verdict(analysis[q]).hint)
    PROVE  Irreversible(Answer(q, d).action) = Trips(payload[q])
<1> DEFINE a == analysis[q]
           v == Verdict(a)
           plan == ActionPlan(payload[q], a, v, d)
<1>1. /\ a = Analysis(payload[q]) /\ a.action = RecommendedAction(payload[q])
      /\ a.permitted = IrreversiblePermitted(payload[q]) /\ a.trust = GraphTrust(payload[q])
      /\ a.action \in Actions /\ a.priority \in Priorities
  BY AnalysisIs DEF GivenInv, Analysis
<1>2. v.hint = a.action /\ v.permitted = a.permitted /\ v.trust = a.trust
  BY DEF Verdict
<1>3. plan.action = v.hint
  BY DEF ActionPlan
<1>4. IsPlan(plan)
  <2> HIDE DEF a, v
  <2>1. v.hint \in Actions /\ a.priority \in Priorities /\ d.lead \in Leads(v.hint)
    BY <1>1, <1>2 DEF a, v
  <2> QED
    BY <2>1, ActionPlanIs
<1> HIDE DEF plan
<1>5. Irreversible(plan.action) => v.permitted /\ ~(v.trust < MinTrust)
  BY <1>1, <1>2, <1>3 DEF RecommendedAction, Irreversible, IrreversiblePermitted,
     GraphUntrusted
<1> HIDE DEF v, a
<1>6. Response(Guarded(plan, v, a)).action = plan.action
  BY <1>4, <1>5, GuardedAction
<1>7. Answer(q, d) = Response(Guarded(plan, v, a))
  BY DEF Answer, plan, v, a
<1> QED
  BY <1>1, <1>2, <1>3, <1>6, <1>7 DEF Trips

\* The kernel's comment at line 1212, for what reaches a caller: with the rule
\* engine and the default threshold, or any above 55, whether an event is answered
\* with a shutdown is what the kernel says of every caller's payload with any
\* downstream nodes, through retries, races past the cache, replays, evictions and
\* restarts.
THEOREM BlastAlwaysHeld == ASSUME MinTrust > 55 PROVE Spec => []BlastHeld
<1>1. ASSUME AnswerInv PROVE BlastHeld
  <2> SUFFICES ASSUME NEW q \in Requests, ~event.cloud, Reply(q).kind = "response",
                      NEW p \in Requests, NEW D
               PROVE  Irreversible(Reply(q).action) <=> Trips([payload[p] EXCEPT !.down = D])
    BY DEF BlastHeld
  <2>1. GivenInv /\ RequestInv
    BY <1>1 DEF AnswerInv, RequestInv
  <2>2. PICK f \in found, r \in Requests :
            f.query = Query(Verdict(analysis[r])) /\ Reply(q) = Answer(r, f.docs)
    BY <1>1 DEF AnswerInv, AnswerOk, Made, Reply
  <2>3. f.docs.lead \in Leads(Verdict(analysis[r]).hint)
    BY <2>1, <2>2 DEF RequestInv, Query
  <2>4. Irreversible(Reply(q).action) = Trips(payload[r])
    BY <2>1, <2>2, <2>3, AnswerTrips
  <2>5. Trips(payload[r]) = Trips(payload[p])
    BY <2>1, SameTrip
  <2>6. D \in SUBSET D
    OBVIOUS
  <2>7. BlastNeverTrips(payload[p], D)
    BY <2>1, PayloadsShaped, BlastNeverTripsAnywhere
  <2>8. Trips([payload[p] EXCEPT !.down = D]) = Trips(payload[p])
    BY <2>6, <2>7 DEF BlastNeverTrips
  <2> QED
    BY <2>4, <2>5, <2>8
<1> QED
  BY <1>1, AnswerHolds, PTL

=============================================================================
