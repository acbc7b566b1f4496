--------------------------- MODULE ClosureProofs ---------------------------
(***************************************************************************)
(* Proofs about the closure loop, for any number of workers and callers,   *)
(* any log, any plans and any bound on what goes wrong: its types, that no *)
(* mutation is committed before it is accounted for, and that an event     *)
(* whose planning never raced has the commands of one plan only.           *)
(***************************************************************************)
EXTENDS Closure, TLAPS

\* Where an actor can be in the pipeline.
Labels == {"idle", "call", "get", "infer", "put", "publish", "dead", "rewind", "commit",
           "reconnect"}

\* An actor that holds a record.
Busy(a) == pc[a] \notin {"idle", "reconnect"}

\* What an orphan is: a request whose caller is gone.
Requests == [event: Events, stage: {"get", "infer", "put"}, plan: Plans \cup {NoPlan}]

\* TypeOK says of a plan only that there may be none; where the code goes on
\* to use it there is one.
Types ==
    /\ TypeOK
    /\ body \in [Events -> BodyKinds]
    /\ pc \in [Actors -> Labels]
    /\ next \in [Actors -> Nat \ {0}]
    /\ \A a \in Actors : Busy(a) => cur[a] \in Events
    /\ \A a \in Actors : pc[a] \in {"put", "publish"} => plan[a] \in Plans
    /\ \A o \in orphans : o.stage = "put" => o.plan \in Plans

\* What a step of actor a leaves of the others.
OthersKept(a) ==
    \A b \in Actors \ {a} : /\ pc'[b] = pc[b] /\ cur'[b] = cur[b]
                            /\ plan'[b] = plan[b] /\ next'[b] = next[b]

-----------------------------------------------------------------------------
(* Plans *)

\* A plan has commands, at least one: translate_plan cuts a list that is not
\* empty at a bound that is not zero.
LEMMA CommandsType ==
    ASSUME NEW p \in Plans
    PROVE  Commands(p) \in Seq(Actions) /\ Len(Commands(p)) \in Nat \ {0}
<1>1. p.steps \in Seq(Actions) /\ p.steps # <<>> /\ MaxCommands \in Nat \ {0}
  BY ClosureAssumption
<1> DEFINE n == IF Len(p.steps) < MaxCommands THEN Len(p.steps) ELSE MaxCommands
<1>2. Len(p.steps) \in Nat \ {0}
  BY <1>1
<1>3. n \in Nat \ {0} /\ n <= Len(p.steps)
  BY <1>1, <1>2
<1>4. Commands(p) = SubSeq(p.steps, 1, n)
  BY DEF Commands
<1> QED
  BY <1>1, <1>3, <1>4

-----------------------------------------------------------------------------
(* Types *)

\* retry_async leaves the actor at the call or on its way back.
LEMMA AfterErrorTypes ==
    ASSUME Types, NEW a \in Actors, AfterError(a)
    PROVE  /\ pc' \in [Actors -> Labels] /\ attempt' \in [Actors -> 0..MaxAttempts]
           /\ pc'[a] \in {"call", "rewind"}
           /\ \A b \in Actors \ {a} : pc'[b] = pc[b]
<1>1. /\ pc \in [Actors -> Labels] /\ attempt \in [Actors -> 0..MaxAttempts]
      /\ MaxAttempts \in Nat
  BY ClosureAssumption DEF Types, TypeOK
<1>2. CASE attempt[a] < MaxAttempts
  <2>1. pc' = [pc EXCEPT ![a] = "call"] /\ attempt' = [attempt EXCEPT ![a] = @ + 1]
    BY <1>2 DEF AfterError, Goto
  <2>2. attempt[a] + 1 \in 0..MaxAttempts
    BY <1>1, <1>2
  <2>3. attempt' \in [Actors -> 0..MaxAttempts]
    BY <1>1, <2>1, <2>2
  <2> QED
    BY <1>1, <2>1, <2>3 DEF Labels
<1>3. CASE ~(attempt[a] < MaxAttempts)
  <2>1. pc' = [pc EXCEPT ![a] = "rewind"] /\ attempt' = attempt
    BY <1>3 DEF AfterError, Goto
  <2> QED
    BY <1>1, <2>1 DEF Labels
<1> QED
  BY <1>2, <1>3

\* An answer leaves the actor publishing its plan, giving it up or asking again.
LEMMA AnsweredTypes ==
    ASSUME Types, NEW a \in Actors, NEW p \in Plans, Answered(a, p)
    PROVE  /\ pc' \in [Actors -> Labels] /\ attempt' \in [Actors -> 0..MaxAttempts]
           /\ plan' \in [Actors -> Plans \cup {NoPlan}] /\ next' \in [Actors -> Nat \ {0}]
           /\ pc'[a] \in {"call", "rewind", "publish", "dead"}
           /\ plan'[a] = p /\ next'[a] = 1
           /\ pc'[a] = "publish" => Supported(p)
           /\ \A b \in Actors \ {a} : pc'[b] = pc[b] /\ plan'[b] = plan[b] /\ next'[b] = next[b]
<1>1. /\ plan' = [plan EXCEPT ![a] = p] /\ next' = [next EXCEPT ![a] = 1]
      /\ plan \in [Actors -> Plans \cup {NoPlan}] /\ next \in [Actors -> Nat \ {0}]
  BY DEF Answered, Types, TypeOK
<1>2. CASE ~p.conforms
  <2>1. AfterError(a)
    BY <1>2 DEF Answered
  <2> QED
    BY <1>1, <2>1, AfterErrorTypes
<1>3. CASE p.conforms
  <2>1. /\ pc' = [pc EXCEPT ![a] = IF Supported(p) THEN "publish" ELSE "dead"]
        /\ attempt' = attempt /\ pc \in [Actors -> Labels]
        /\ attempt \in [Actors -> 0..MaxAttempts]
    BY <1>3 DEF Answered, Goto, Types, TypeOK
  <2> QED
    BY <1>1, <2>1 DEF Labels
<1> QED
  BY <1>2, <1>3

\* Leaving a record clears what was local to it.
LEMMA LeaveTypes ==
    ASSUME Types, NEW a \in Actors, NEW l \in {"idle", "reconnect"}, Leave(a, l)
    PROVE  /\ pc' \in [Actors -> Labels] /\ attempt' \in [Actors -> 0..MaxAttempts]
           /\ cur' \in [Actors -> 0..Last]
           /\ plan' \in [Actors -> Plans \cup {NoPlan}] /\ next' \in [Actors -> Nat \ {0}]
           /\ pc'[a] = l /\ OthersKept(a)
<1>1. /\ pc \in [Actors -> Labels] /\ attempt \in [Actors -> 0..MaxAttempts]
      /\ cur \in [Actors -> 0..Last]
      /\ plan \in [Actors -> Plans \cup {NoPlan}] /\ next \in [Actors -> Nat \ {0}]
      /\ MaxAttempts \in Nat /\ Last \in Nat
  BY ClosureAssumption DEF Types, TypeOK
<1>2. /\ pc' = [pc EXCEPT ![a] = l] /\ cur' = [cur EXCEPT ![a] = 0]
      /\ attempt' = [attempt EXCEPT ![a] = 0]
      /\ plan' = [plan EXCEPT ![a] = NoPlan] /\ next' = [next EXCEPT ![a] = 1]
  BY DEF Leave, Goto
<1> QED
  BY <1>1, <1>2 DEF Labels, OthersKept

\* A request carries its caller's event and stage.
LEMMA RequestType ==
    ASSUME Types, NEW a \in Actors, AtInterceptor(a)
    PROVE  /\ Request(a) \in Requests
           /\ Request(a).event = cur[a] /\ Request(a).stage = pc[a]
           /\ Request(a).stage = "put" => Request(a).plan \in Plans
<1>1. cur[a] \in Events /\ pc[a] \in {"get", "infer", "put"}
  BY DEF Types, AtInterceptor, Busy
<1>2. CASE pc[a] = "put"
  <2>1. plan[a] \in Plans
    BY <1>2 DEF Types
  <2>2. Request(a) = [event |-> cur[a], stage |-> pc[a], plan |-> plan[a]]
    BY <1>2 DEF Request
  <2> QED
    BY <1>1, <2>1, <2>2 DEF Requests
<1>3. CASE pc[a] # "put"
  <2>1. Request(a) = [event |-> cur[a], stage |-> pc[a], plan |-> NoPlan]
    BY <1>3 DEF Request
  <2> QED
    BY <1>1, <1>3, <2>1 DEF Requests
<1> QED
  BY <1>2, <1>3

\* SET NX writes a plan or nothing, and never over a plan.
LEMMA StoredType ==
    ASSUME Types, NEW e \in Events, NEW p \in Plans
    PROVE  /\ Stored(e, p) \in [Events -> Plans \cup {NoPlan}]
           /\ Stored(e, p)[e] # NoPlan
           /\ store[e] = NoPlan => Stored(e, p)[e] = p
           /\ \A d \in Events : store[d] # NoPlan => Stored(e, p)[d] = store[d]
           /\ \A d \in Events \ {e} : Stored(e, p)[d] = store[d]
  BY ClosureAssumption DEF Stored, Types, TypeOK

\* What a step of actor a has to leave well typed.
LocalTypes(a) ==
    /\ pc' \in [Actors -> Labels] /\ cur' \in [Actors -> 0..Last]
    /\ attempt' \in [Actors -> 0..MaxAttempts]
    /\ plan' \in [Actors -> Plans \cup {NoPlan}] /\ next' \in [Actors -> Nat \ {0}]
    /\ OthersKept(a)
    /\ Busy(a)' => cur'[a] \in Events
    /\ pc'[a] \in {"put", "publish"} => plan'[a] \in Plans

\* What any step has to leave well typed outside the actors.
GlobalTypes ==
    /\ body' = body /\ owner' \in Workers
    /\ position' \in 1..(Last + 1) /\ committed' \in 0..Last
    /\ store' \in [Events -> Plans \cup {NoPlan}]
    /\ orphans' \subseteq Requests /\ \A o \in orphans' : o.stage = "put" => o.plan \in Plans
    /\ dead' \subseteq Events /\ dropped' \subseteq Events /\ raced' \subseteq Events

\* The two together are the types after the step.
LEMMA TypesFromParts ==
    ASSUME Types, NEW a \in Actors, LocalTypes(a), GlobalTypes
    PROVE  Types'
<1>1. TypeOK'
  BY DEF TypeOK, LocalTypes, GlobalTypes, Requests
<1>2. \A b \in Actors : Busy(b)' => cur'[b] \in Events
  BY DEF Types, LocalTypes, OthersKept, Busy
<1>3. \A b \in Actors : pc'[b] \in {"put", "publish"} => plan'[b] \in Plans
  BY DEF Types, LocalTypes, OthersKept
<1> QED
  BY <1>1, <1>2, <1>3 DEF Types, LocalTypes, GlobalTypes

\* Facts about the types before a step that every case needs.
LEMMA TypesNow ==
    ASSUME Types
    PROVE  /\ pc \in [Actors -> Labels] /\ cur \in [Actors -> 0..Last]
           /\ attempt \in [Actors -> 0..MaxAttempts]
           /\ plan \in [Actors -> Plans \cup {NoPlan}] /\ next \in [Actors -> Nat \ {0}]
           /\ owner \in Workers
           /\ position \in 1..(Last + 1) /\ committed \in 0..Last
           /\ store \in [Events -> Plans \cup {NoPlan}]
           /\ orphans \subseteq Requests /\ \A o \in orphans : o.stage = "put" => o.plan \in Plans
           /\ dead \subseteq Events /\ dropped \subseteq Events /\ raced \subseteq Events
           /\ Last \in Nat /\ MaxAttempts \in Nat \ {0} /\ MaxCommands \in Nat \ {0}
           /\ NoPlan \notin Plans /\ Events = 1..Last
           /\ \A a \in Actors : pc[a] \notin {"idle", "reconnect"} => cur[a] \in Events
           /\ \A a \in Actors : pc[a] \in {"put", "publish"} => plan[a] \in Plans
  BY ClosureAssumption DEF Types, TypeOK, Requests, Events, Busy

\* Consume keeps the types.
LEMMA ConsumeTypes ==
    ASSUME Types, NEW w \in Workers, Consume(w)
    PROVE  /\ Types' /\ OthersKept(w)
           /\ pc[w] = "idle" /\ pc'[w] \in {"call", "dead"} /\ cur'[w] = position
<1> DEFINE l == IF body[position] \in {"ok", "rejected"} THEN "call" ELSE "dead"
<1>1. /\ pc[w] = "idle" /\ position <= Last /\ position' = position + 1
      /\ cur' = [cur EXCEPT ![w] = position] /\ attempt' = [attempt EXCEPT ![w] = 1]
      /\ pc' = [pc EXCEPT ![w] = l]
      /\ UNCHANGED <<body, owner, committed, store, orphans, plan, next>>
      /\ UNCHANGED <<issued, dead, dropped, raced>>
  BY DEF Consume, Goto, history
<1>2. l \in {"call", "dead"} /\ w \in Actors /\ position \in Events /\ position \in 0..Last
  BY <1>1, TypesNow DEF Actors
<1>3. 1 \in 0..MaxAttempts /\ position + 1 \in 1..(Last + 1)
  BY <1>1, TypesNow
<1> HIDE DEF l
<1>4. GlobalTypes
  BY <1>1, <1>3, TypesNow DEF GlobalTypes
<1>5. LocalTypes(w)
  BY <1>1, <1>2, <1>3, TypesNow DEF LocalTypes, OthersKept, Busy, Labels
<1> QED
  BY <1>1, <1>2, <1>4, <1>5, TypesNow, TypesFromParts DEF LocalTypes

\* issue_commands keeps the types.
LEMMA IssueCommandsTypes ==
    ASSUME Types, NEW c \in Callers, IssueCommands(c)
    PROVE  /\ Types' /\ OthersKept(c) /\ pc[c] = "idle" /\ pc'[c] = "call"
<1>1. PICK e \in Events : cur' = [cur EXCEPT ![c] = e]
  BY DEF IssueCommands
<1>2. /\ pc[c] = "idle" /\ pc' = [pc EXCEPT ![c] = "call"]
      /\ attempt' = [attempt EXCEPT ![c] = 1]
      /\ UNCHANGED <<body, owner, position, committed, store, orphans, plan, next>>
      /\ UNCHANGED <<issued, dead, dropped, raced>>
  BY DEF IssueCommands, Goto, kafkaVars, history
<1>3. 1 \in 0..MaxAttempts /\ e \in 0..Last /\ c \in Actors
  BY TypesNow DEF Actors
<1>4. GlobalTypes
  BY <1>2, TypesNow DEF GlobalTypes
<1>5. LocalTypes(c)
  BY <1>1, <1>2, <1>3, TypesNow DEF LocalTypes, OthersKept, Busy, Labels
<1> QED
  BY <1>2, <1>3, <1>4, <1>5, TypesNow, TypesFromParts DEF LocalTypes

\* A call keeps the types.
LEMMA CallTypes ==
    ASSUME Types, NEW a \in Actors, Call(a)
    PROVE  /\ Types' /\ OthersKept(a)
           /\ pc[a] = "call" /\ pc'[a] \in {"call", "get", "dead", "rewind"} /\ cur' = cur
           /\ UNCHANGED <<kafkaVars, store, orphans, plan, next, history>>
<1>1. /\ UNCHANGED <<body, owner, position, committed, store, orphans, cur, plan, next>>
      /\ UNCHANGED <<issued, dead, dropped, raced>>
      /\ pc[a] = "call"
  BY DEF Call, kafkaVars, history
<1>2. GlobalTypes
  BY <1>1, TypesNow DEF GlobalTypes
<1>3. /\ pc' \in [Actors -> Labels] /\ attempt' \in [Actors -> 0..MaxAttempts]
      /\ pc'[a] \in {"call", "get", "dead", "rewind"}
      /\ \A b \in Actors \ {a} : pc'[b] = pc[b]
  <2>1. CASE AfterError(a)
    BY <2>1, AfterErrorTypes
  <2>2. CASE (\E l \in {"get", "dead", "rewind"} : Goto(a, l)) /\ attempt' = attempt
    BY <2>2, TypesNow DEF Goto, Labels
  <2> QED
    BY <2>1, <2>2 DEF Call
<1>4. LocalTypes(a)
  BY <1>1, <1>3, TypesNow DEF LocalTypes, OthersKept, Busy
<1> QED
  BY <1>1, <1>2, <1>3, <1>4, TypesFromParts DEF LocalTypes, kafkaVars, history

\* The plan store's get keeps the types: a miss leads to the planner, a hit is
\* the answer, an error another attempt.
LEMMA StoreGetTypes ==
    ASSUME Types, NEW a \in Actors, StoreGet(a)
    PROVE  /\ Types' /\ OthersKept(a) /\ pc[a] = "get" /\ cur' = cur
           /\ UNCHANGED <<kafkaVars, store, orphans, issued, dead, dropped>>
           /\ \/ pc'[a] = "infer" /\ store[cur[a]] = NoPlan /\ Missed(cur[a])
              \/ /\ pc'[a] = "publish" /\ plan'[a] = store[cur[a]] /\ next'[a] = 1
                 /\ plan'[a] \in Plans /\ Supported(plan'[a]) /\ raced' = raced
              \/ pc'[a] \in {"call", "rewind", "dead"} /\ raced' = raced
<1>1. /\ UNCHANGED <<body, owner, position, committed, store, orphans, cur>>
      /\ UNCHANGED <<issued, dead, dropped>>
      /\ pc[a] = "get" /\ cur[a] \in Events
  BY TypesNow DEF StoreGet, kafkaVars
<1>2. CASE store[cur[a]] = NoPlan /\ Missed(cur[a]) /\ Goto(a, "infer")
           /\ UNCHANGED <<attempt, plan, next>>
  <2>1. raced' \subseteq Events
    BY <1>1, <1>2, TypesNow DEF Missed
  <2>2. GlobalTypes
    BY <1>1, <2>1, TypesNow DEF GlobalTypes
  <2>3. LocalTypes(a) /\ pc'[a] = "infer"
    BY <1>1, <1>2, TypesNow DEF LocalTypes, OthersKept, Busy, Goto, Labels
  <2> QED
    BY <1>1, <1>2, <2>2, <2>3, TypesFromParts DEF LocalTypes, kafkaVars
<1>3. CASE store[cur[a]] # NoPlan /\ Answered(a, store[cur[a]]) /\ raced' = raced
  <2>1. store[cur[a]] \in Plans
    BY <1>1, <1>3, TypesNow
  <2>2. GlobalTypes
    BY <1>1, <1>3, TypesNow DEF GlobalTypes
  <2>3. /\ pc' \in [Actors -> Labels] /\ attempt' \in [Actors -> 0..MaxAttempts]
        /\ plan' \in [Actors -> Plans \cup {NoPlan}] /\ next' \in [Actors -> Nat \ {0}]
        /\ pc'[a] \in {"call", "rewind", "publish", "dead"}
        /\ plan'[a] = store[cur[a]] /\ next'[a] = 1
        /\ pc'[a] = "publish" => Supported(store[cur[a]])
        /\ \A b \in Actors \ {a} : pc'[b] = pc[b] /\ plan'[b] = plan[b] /\ next'[b] = next[b]
    BY <1>3, <2>1, AnsweredTypes
  <2>4. LocalTypes(a)
    BY <1>1, <2>1, <2>3, TypesNow DEF LocalTypes, OthersKept, Busy
  <2> QED
    BY <1>1, <1>3, <2>1, <2>2, <2>3, <2>4, TypesFromParts DEF LocalTypes, kafkaVars
<1>4. CASE AfterError(a) /\ UNCHANGED <<plan, next, raced>>
  <2>1. /\ pc' \in [Actors -> Labels] /\ attempt' \in [Actors -> 0..MaxAttempts]
        /\ pc'[a] \in {"call", "rewind"}
        /\ \A b \in Actors \ {a} : pc'[b] = pc[b]
    BY <1>4, AfterErrorTypes
  <2>2. GlobalTypes
    BY <1>1, <1>4, TypesNow DEF GlobalTypes
  <2>3. LocalTypes(a)
    BY <1>1, <1>4, <2>1, TypesNow DEF LocalTypes, OthersKept, Busy
  <2> QED
    BY <1>1, <1>4, <2>1, <2>2, <2>3, TypesFromParts DEF LocalTypes, kafkaVars
<1> QED
  BY <1>2, <1>3, <1>4 DEF StoreGet

\* The planner keeps the types.
LEMMA InferTypes ==
    ASSUME Types, NEW a \in Actors, Infer(a)
    PROVE  /\ Types' /\ OthersKept(a) /\ pc[a] = "infer" /\ cur' = cur
           /\ UNCHANGED <<kafkaVars, store, orphans, next, history>>
           /\ pc'[a] \in {"put", "call", "rewind"}
<1>1. /\ UNCHANGED <<body, owner, position, committed, store, orphans, cur, next>>
      /\ UNCHANGED <<issued, dead, dropped, raced>>
      /\ pc[a] = "infer"
  BY DEF Infer, kafkaVars, history
<1>2. GlobalTypes
  BY <1>1, TypesNow DEF GlobalTypes
<1>3. CASE Goto(a, "put") /\ attempt' = attempt /\ \E p \in Plans : plan' = [plan EXCEPT ![a] = p]
  <2>1. PICK p \in Plans : plan' = [plan EXCEPT ![a] = p]
    BY <1>3
  <2>2. LocalTypes(a) /\ pc'[a] = "put"
    BY <1>1, <1>3, <2>1, TypesNow DEF LocalTypes, OthersKept, Busy, Goto, Labels
  <2> QED
    BY <1>1, <1>2, <2>2, TypesFromParts DEF LocalTypes, kafkaVars, history
<1>4. CASE AfterError(a) /\ plan' = plan
  <2>1. /\ pc' \in [Actors -> Labels] /\ attempt' \in [Actors -> 0..MaxAttempts]
        /\ pc'[a] \in {"call", "rewind"}
        /\ \A b \in Actors \ {a} : pc'[b] = pc[b]
    BY <1>4, AfterErrorTypes
  <2>2. LocalTypes(a)
    BY <1>1, <1>4, <2>1, TypesNow DEF LocalTypes, OthersKept, Busy
  <2> QED
    BY <1>1, <1>2, <2>1, <2>2, TypesFromParts DEF LocalTypes, kafkaVars, history
<1> QED
  BY <1>3, <1>4 DEF Infer

\* The plan store's put keeps the types, and the caller gets its own plan.
LEMMA StorePutTypes ==
    ASSUME Types, NEW a \in Actors, StorePut(a)
    PROVE  /\ Types' /\ OthersKept(a) /\ pc[a] = "put" /\ cur' = cur
           /\ UNCHANGED <<kafkaVars, orphans, issued, dead, dropped>>
           /\ plan[a] \in Plans /\ plan'[a] = plan[a] /\ next'[a] = 1
           /\ pc'[a] \in {"call", "rewind", "publish", "dead"}
           /\ pc'[a] = "publish" => Supported(plan'[a])
           /\ \/ store' = Stored(cur[a], plan[a]) /\ raced' = raced
              \/ /\ store' = Stored(cur[a], plan[a]) \/ store' = store
                 /\ raced' = raced \cup {cur[a]}
<1>1. /\ UNCHANGED <<body, owner, position, committed, orphans, cur>>
      /\ UNCHANGED <<issued, dead, dropped>>
      /\ pc[a] = "put" /\ cur[a] \in Events /\ plan[a] \in Plans /\ Answered(a, plan[a])
  BY TypesNow DEF StorePut, kafkaVars
<1>2. \/ store' = Stored(cur[a], plan[a]) /\ raced' = raced
      \/ /\ store' = Stored(cur[a], plan[a]) \/ store' = store
         /\ raced' = raced \cup {cur[a]}
  BY DEF StorePut
<1>3. /\ pc' \in [Actors -> Labels] /\ attempt' \in [Actors -> 0..MaxAttempts]
      /\ plan' \in [Actors -> Plans \cup {NoPlan}] /\ next' \in [Actors -> Nat \ {0}]
      /\ pc'[a] \in {"call", "rewind", "publish", "dead"}
      /\ plan'[a] = plan[a] /\ next'[a] = 1
      /\ pc'[a] = "publish" => Supported(plan[a])
      /\ \A b \in Actors \ {a} : pc'[b] = pc[b] /\ plan'[b] = plan[b] /\ next'[b] = next[b]
  BY <1>1, AnsweredTypes
<1>4. store' \in [Events -> Plans \cup {NoPlan}] /\ raced' \subseteq Events
  BY <1>1, <1>2, StoredType, TypesNow
<1>5. GlobalTypes
  BY <1>1, <1>4, TypesNow DEF GlobalTypes
<1>6. LocalTypes(a)
  BY <1>1, <1>3, TypesNow DEF LocalTypes, OthersKept, Busy
<1> QED
  BY <1>1, <1>2, <1>3, <1>5, <1>6, TypesFromParts DEF LocalTypes, kafkaVars

\* A timeout keeps the types, and leaves an orphan at the caller's stage.
LEMMA TimeOutTypes ==
    ASSUME Types, NEW a \in Actors, TimeOut(a)
    PROVE  /\ Types' /\ OthersKept(a) /\ AtInterceptor(a) /\ cur' = cur
           /\ pc'[a] \in {"call", "rewind"}
           /\ orphans' = orphans \cup {Request(a)}
           /\ UNCHANGED <<kafkaVars, store, next, history>>
<1>1. /\ UNCHANGED <<body, owner, position, committed, store, cur, next>>
      /\ UNCHANGED <<issued, dead, dropped, raced>>
      /\ AtInterceptor(a) /\ AfterError(a) /\ plan' = [plan EXCEPT ![a] = NoPlan]
      /\ orphans' = orphans \cup {Request(a)}
  BY DEF TimeOut, kafkaVars, history
<1>2. /\ pc' \in [Actors -> Labels] /\ attempt' \in [Actors -> 0..MaxAttempts]
      /\ pc'[a] \in {"call", "rewind"}
      /\ \A b \in Actors \ {a} : pc'[b] = pc[b]
  BY <1>1, AfterErrorTypes
<1>3. GlobalTypes
  BY <1>1, RequestType, TypesNow DEF GlobalTypes
<1>4. LocalTypes(a)
  BY <1>1, <1>2, TypesNow DEF LocalTypes, OthersKept, Busy, AtInterceptor
<1> QED
  BY <1>1, <1>2, <1>3, <1>4, TypesFromParts DEF LocalTypes, kafkaVars, history

\* Publication keeps the types; the command may be on the topic or not when the
\* publisher gives up.
LEMMA PublishTypes ==
    ASSUME Types, NEW a \in Actors, Publish(a)
    PROVE  /\ Types' /\ OthersKept(a) /\ pc[a] = "publish" /\ cur' = cur /\ plan' = plan
           /\ UNCHANGED <<kafkaVars, store, orphans, dead, dropped, raced>>
           /\ \/ /\ issued' = issued \cup {Command(a)} /\ next'[a] = next[a] + 1
                 /\ pc'[a] = IF next[a] = Len(Commands(plan[a])) THEN "commit" ELSE "publish"
              \/ /\ issued' = issued \cup {Command(a)} \/ issued' = issued
                 /\ next' = next /\ pc'[a] = "rewind"
<1>1. /\ UNCHANGED <<body, owner, position, committed, store, orphans, cur, attempt, plan>>
      /\ UNCHANGED <<dead, dropped, raced>>
      /\ pc[a] = "publish"
  BY DEF Publish, kafkaVars
<1>2. GlobalTypes
  BY <1>1, TypesNow DEF GlobalTypes
<1> DEFINE l == IF next[a] = Len(Commands(plan[a])) THEN "commit" ELSE "publish"
<1>3. CASE /\ issued' = issued \cup {Command(a)} /\ next' = [next EXCEPT ![a] = @ + 1]
           /\ Goto(a, l)
  <2>1. l \in {"commit", "publish"} /\ next[a] + 1 \in Nat \ {0}
    BY TypesNow
  <2>2. pc' = [pc EXCEPT ![a] = l]
    BY <1>3 DEF Goto
  <2> HIDE DEF l
  <2>3. LocalTypes(a) /\ pc'[a] = l /\ next'[a] = next[a] + 1
    BY <1>1, <1>3, <2>1, <2>2, TypesNow DEF LocalTypes, OthersKept, Busy, Labels
  <2> QED
    BY <1>1, <1>2, <1>3, <2>3, TypesFromParts DEF LocalTypes, kafkaVars, l
<1>4. CASE /\ issued' = issued \cup {Command(a)} \/ issued' = issued
           /\ next' = next /\ Goto(a, "rewind")
  <2>1. LocalTypes(a) /\ pc'[a] = "rewind"
    BY <1>1, <1>4, TypesNow DEF LocalTypes, OthersKept, Busy, Goto, Labels
  <2> QED
    BY <1>1, <1>2, <1>4, <2>1, TypesFromParts DEF LocalTypes, kafkaVars
<1> QED
  BY <1>3, <1>4 DEF Publish

\* A dead letter keeps the types: it is on its topic or counted as failed.
LEMMA DeadLetterTypes ==
    ASSUME Types, NEW w \in Workers, DeadLetter(w)
    PROVE  /\ Types' /\ OthersKept(w) /\ pc[w] = "dead" /\ pc'[w] = "commit"
           /\ cur' = cur /\ plan' = plan /\ next' = next
           /\ UNCHANGED <<kafkaVars, store, orphans, issued, raced>>
           /\ dead \subseteq dead' /\ dropped \subseteq dropped'
           /\ cur[w] \in dead' \cup dropped'
<1>1. /\ UNCHANGED <<body, owner, position, committed, store, orphans, cur, attempt, plan, next>>
      /\ UNCHANGED <<issued, raced>>
      /\ pc[w] = "dead" /\ pc' = [pc EXCEPT ![w] = "commit"] /\ w \in Actors
  BY DEF DeadLetter, kafkaVars, Goto, Actors
<1>2. /\ \/ dead' = dead \cup {cur[w]} /\ dropped' = dropped
         \/ dropped' = dropped \cup {cur[w]} /\ dead' = dead
      /\ cur[w] \in Events
  BY <1>1, TypesNow DEF DeadLetter
<1>3. GlobalTypes
  BY <1>1, <1>2, TypesNow DEF GlobalTypes
<1>4. LocalTypes(w)
  BY <1>1, TypesNow DEF LocalTypes, OthersKept, Busy, Labels
<1> QED
  BY <1>1, <1>2, <1>3, <1>4, TypesNow, TypesFromParts DEF LocalTypes, kafkaVars

\* The ends of a record, a crash included, keep the types.
LEMMA LeaveKeeps ==
    ASSUME Types, NEW a \in Actors, NEW l \in {"idle", "reconnect"}, Leave(a, l), GlobalTypes
    PROVE  Types' /\ OthersKept(a) /\ pc'[a] = l
<1>1. LocalTypes(a)
  BY LeaveTypes DEF LocalTypes, Busy
<1> QED
  BY <1>1, LeaveTypes, TypesFromParts

\* _rewind keeps the types.
LEMMA RewindTypes ==
    ASSUME Types, NEW w \in Workers, Rewind(w)
    PROVE  /\ Types' /\ OthersKept(w) /\ pc[w] = "rewind" /\ pc'[w] = "idle"
           /\ position' = IF owner = w THEN cur[w] ELSE position
           /\ UNCHANGED <<body, owner, committed, store, orphans, history>>
<1>1. /\ UNCHANGED <<body, owner, committed, store, orphans>>
      /\ UNCHANGED <<issued, dead, dropped, raced>>
      /\ pc[w] = "rewind" /\ Leave(w, "idle") /\ w \in Actors
      /\ position' = IF owner = w THEN cur[w] ELSE position
  BY DEF Rewind, history, Actors
<1>2. position' \in 1..(Last + 1)
  <2>1. cur[w] \in 1..Last /\ position \in 1..(Last + 1) /\ Last \in Nat
    BY <1>1, TypesNow
  <2> QED
    BY <1>1, <2>1
<1>3. GlobalTypes
  BY <1>1, <1>2, TypesNow DEF GlobalTypes
<1> QED
  BY <1>1, <1>3, LeaveKeeps DEF history

\* A commit keeps the types, and moves the offset only to the record's.
LEMMA CommitTypes ==
    ASSUME Types, NEW w \in Workers, Commit(w)
    PROVE  /\ Types' /\ OthersKept(w) /\ pc[w] = "commit"
           /\ committed' \in {committed, cur[w]}
           /\ \/ pc'[w] = "idle" /\ owner = w /\ committed' = cur[w]
              \/ pc'[w] = "reconnect"
           /\ UNCHANGED <<body, owner, position, store, orphans, history>>
<1>1. /\ UNCHANGED <<body, owner, position, store, orphans>>
      /\ UNCHANGED <<issued, dead, dropped, raced>>
      /\ pc[w] = "commit" /\ w \in Actors
      /\ \/ Leave(w, "idle") /\ owner = w /\ committed' = cur[w]
         \/ Leave(w, "reconnect") /\ committed' \in {committed, cur[w]}
  BY DEF Commit, history, Actors
<1>2. committed' \in {committed, cur[w]} /\ committed' \in 0..Last
  BY <1>1, TypesNow
<1>3. GlobalTypes
  BY <1>1, <1>2, TypesNow DEF GlobalTypes
<1> QED
  BY <1>1, <1>2, <1>3, LeaveKeeps DEF history

\* A consumer that is built again keeps the types.
LEMMA ReconnectTypes ==
    ASSUME Types, NEW w \in Workers, PollFails(w) \/ Reconnect(w)
    PROVE  /\ Types' /\ OthersKept(w)
           /\ \/ pc[w] = "idle" /\ pc'[w] = "reconnect" /\ position' = position
              \/ /\ pc[w] = "reconnect" /\ pc'[w] = "idle"
                 /\ position' = IF owner = w THEN committed + 1 ELSE position
           /\ UNCHANGED <<body, owner, committed, store, orphans, cur, plan, next, history>>
<1>1. /\ UNCHANGED <<body, owner, committed, store, orphans, cur, attempt, plan, next>>
      /\ UNCHANGED <<issued, dead, dropped, raced>> /\ w \in Actors
  BY DEF PollFails, Reconnect, kafkaVars, history, Actors
<1>2. \/ /\ pc[w] = "idle" /\ pc' = [pc EXCEPT ![w] = "reconnect"] /\ position' = position
      \/ /\ pc[w] = "reconnect" /\ pc' = [pc EXCEPT ![w] = "idle"]
         /\ position' = IF owner = w THEN committed + 1 ELSE position
  BY DEF PollFails, Reconnect, kafkaVars, Goto
<1>3. position' \in 1..(Last + 1)
  BY <1>2, TypesNow
<1>4. GlobalTypes
  BY <1>1, <1>3, TypesNow DEF GlobalTypes
<1>5. LocalTypes(w)
  BY <1>1, <1>2, TypesNow DEF LocalTypes, OthersKept, Busy, Labels
<1> QED
  BY <1>1, <1>2, <1>4, <1>5, TypesNow, TypesFromParts DEF LocalTypes, history

\* A response to a caller keeps the types.
LEMMA RespondTypes ==
    ASSUME Types, NEW c \in Callers, Respond(c)
    PROVE  /\ Types' /\ OthersKept(c) /\ pc'[c] = "idle"
           /\ UNCHANGED <<kafkaVars, store, orphans, history>>
<1>1. /\ UNCHANGED <<body, owner, position, committed, store, orphans>>
      /\ UNCHANGED <<issued, dead, dropped, raced>>
      /\ Leave(c, "idle") /\ c \in Actors
  BY DEF Respond, kafkaVars, history, Actors
<1>2. GlobalTypes
  BY <1>1, TypesNow DEF GlobalTypes
<1> QED
  BY <1>1, <1>2, LeaveKeeps DEF kafkaVars, history

\* A crash keeps the types, and leaves at most an orphan.
LEMMA CrashTypes ==
    ASSUME Types, NEW w \in Workers, Crash(w)
    PROVE  /\ Types' /\ OthersKept(w) /\ pc'[w] = "reconnect"
           /\ \/ orphans' = orphans
              \/ AtInterceptor(w) /\ orphans' = orphans \cup {Request(w)}
           /\ UNCHANGED <<kafkaVars, store, history>>
<1>1. /\ UNCHANGED <<body, owner, position, committed, store>>
      /\ UNCHANGED <<issued, dead, dropped, raced>>
      /\ Leave(w, "reconnect") /\ w \in Actors
      /\ \/ orphans' = orphans
         \/ AtInterceptor(w) /\ orphans' = orphans \cup {Request(w)}
  BY DEF Crash, kafkaVars, history, Actors
<1>2. GlobalTypes
  BY <1>1, RequestType, TypesNow DEF GlobalTypes
<1> QED
  BY <1>1, <1>2, LeaveKeeps DEF kafkaVars, history

\* An orphan keeps the types: it is handed on to the next stage of its own
\* event, or ends, and only at the last one does it write.
LEMMA OrphanTypes ==
    ASSUME Types, Orphan
    PROVE  /\ Types'
           /\ UNCHANGED <<kafkaVars, actorVars, issued, dead, dropped>>
           /\ \E o \in orphans :
                \/ /\ o.stage = "get" /\ store[o.event] = NoPlan /\ store' = store
                   /\ Missed(o.event)
                   /\ \E r \in Requests : /\ r.event = o.event /\ r.stage = "infer"
                                          /\ orphans' = (orphans \ {o}) \cup {r}
                \/ /\ o.stage = "get" /\ UNCHANGED <<store, raced>>
                   /\ orphans' = orphans \ {o}
                \/ /\ o.stage = "infer" /\ UNCHANGED <<store, raced>>
                   /\ \E r \in Requests : /\ r.event = o.event /\ r.stage = "put"
                                          /\ orphans' = (orphans \ {o}) \cup {r}
                \/ /\ o.stage = "put" /\ o.plan \in Plans /\ raced' = raced
                   /\ store' = Stored(o.event, o.plan)
                   /\ orphans' = orphans \ {o}
<1>1. PICK o \in orphans :
        /\ \/ /\ o.stage = "get" /\ store[o.event] = NoPlan
              /\ Missed(o.event)
              /\ orphans' = (orphans \ {o}) \cup {[o EXCEPT !.stage = "infer"]}
              /\ UNCHANGED store
           \/ /\ o.stage = "get" /\ store[o.event] # NoPlan
              /\ orphans' = orphans \ {o}
              /\ UNCHANGED <<store, raced>>
           \/ /\ o.stage = "infer"
              /\ \E p \in Plans : orphans' = (orphans \ {o})
                                    \cup {[o EXCEPT !.stage = "put", !.plan = p]}
              /\ UNCHANGED <<store, raced>>
           \/ /\ o.stage = "put"
              /\ store' = Stored(o.event, o.plan)
              /\ orphans' = orphans \ {o}
              /\ UNCHANGED raced
        /\ UNCHANGED <<kafkaVars, actorVars, issued, dead, dropped, upsets>>
  BY DEF Orphan
<1>2. /\ o \in Requests /\ o.event \in Events /\ o.plan \in Plans \cup {NoPlan}
      /\ o.stage = "put" => o.plan \in Plans
  BY <1>1, TypesNow DEF Requests
<1>3. /\ UNCHANGED <<body, owner, position, committed>>
      /\ UNCHANGED <<pc, cur, attempt, plan, next>>
      /\ UNCHANGED <<dead, dropped>>
  BY <1>1 DEF kafkaVars, actorVars
<1>4. /\ \/ /\ o.stage = "get" /\ store[o.event] = NoPlan /\ store' = store
            /\ Missed(o.event)
            /\ \E r \in Requests : /\ r.event = o.event /\ r.stage = "infer"
                                   /\ orphans' = (orphans \ {o}) \cup {r}
         \/ /\ o.stage = "get" /\ UNCHANGED <<store, raced>>
            /\ orphans' = orphans \ {o}
         \/ /\ o.stage = "infer" /\ UNCHANGED <<store, raced>>
            /\ \E r \in Requests : /\ r.event = o.event /\ r.stage = "put"
                                   /\ orphans' = (orphans \ {o}) \cup {r}
         \/ /\ o.stage = "put" /\ o.plan \in Plans /\ raced' = raced
            /\ store' = Stored(o.event, o.plan)
            /\ orphans' = orphans \ {o}
      /\ \A r \in orphans' \ orphans : r \in Requests /\ (r.stage = "put" => r.plan \in Plans)
  <2>1. CASE /\ o.stage = "get" /\ store[o.event] = NoPlan
             /\ Missed(o.event)
             /\ orphans' = (orphans \ {o}) \cup {[o EXCEPT !.stage = "infer"]}
             /\ UNCHANGED store
    <3> DEFINE r == [o EXCEPT !.stage = "infer"]
    <3>1. r \in Requests /\ r.event = o.event /\ r.stage = "infer"
      BY <1>2 DEF Requests
    <3> HIDE DEF r
    <3>2. orphans' = (orphans \ {o}) \cup {r}
      BY <2>1 DEF r
    <3> QED
      BY <2>1, <3>1, <3>2
  <2>2. CASE /\ o.stage = "infer"
             /\ \E p \in Plans : orphans' = (orphans \ {o})
                                   \cup {[o EXCEPT !.stage = "put", !.plan = p]}
             /\ UNCHANGED <<store, raced>>
    <3>1. PICK p \in Plans : orphans' = (orphans \ {o})
                                \cup {[o EXCEPT !.stage = "put", !.plan = p]}
      BY <2>2
    <3> DEFINE r == [o EXCEPT !.stage = "put", !.plan = p]
    <3>2. r \in Requests /\ r.event = o.event /\ r.stage = "put" /\ r.plan = p
      BY <1>2 DEF Requests
    <3> HIDE DEF r
    <3>3. orphans' = (orphans \ {o}) \cup {r}
      BY <3>1 DEF r
    <3> QED
      BY <2>2, <3>2, <3>3
  <2> QED
    BY <1>1, <1>2, <2>1, <2>2
<1>5. orphans' \subseteq Requests /\ \A r \in orphans' : r.stage = "put" => r.plan \in Plans
  BY <1>4, TypesNow
<1>6. store' \in [Events -> Plans \cup {NoPlan}]
  BY <1>2, <1>4, StoredType, TypesNow
<1>7. raced' \subseteq Events
  BY <1>2, <1>4, TypesNow DEF Missed
<1>8. GlobalTypes
  BY <1>3, <1>5, <1>6, <1>7, TypesNow DEF GlobalTypes
<1>9. Types'
  BY <1>3, <1>8 DEF Types, TypeOK, GlobalTypes, Busy, Requests
<1> QED
  BY <1>1, <1>4, <1>9

\* A rebalance keeps the types.
LEMMA RebalanceTypes ==
    ASSUME Types, Rebalance
    PROVE  /\ Types' /\ position' = committed + 1
           /\ UNCHANGED <<body, committed, store, orphans, actorVars, history>>
<1>1. /\ UNCHANGED <<body, committed, store, orphans>>
      /\ UNCHANGED <<pc, cur, attempt, plan, next>>
      /\ UNCHANGED <<issued, dead, dropped, raced>>
      /\ owner' \in Workers /\ position' = committed + 1
  BY DEF Rebalance, actorVars, history
<1>2. position' \in 1..(Last + 1)
  BY <1>1, TypesNow
<1> QED
  BY <1>1, <1>2 DEF Types, TypeOK, Busy, actorVars, history

\* Every step is one of these: the split that the proofs below repeat.
LEMMA StepCases ==
    ASSUME Next
    PROVE  \/ \E w \in Workers : \/ Consume(w) \/ DeadLetter(w) \/ Rewind(w) \/ Commit(w)
                                 \/ PollFails(w) \/ Reconnect(w) \/ Crash(w)
           \/ \E c \in Callers : IssueCommands(c) \/ Respond(c)
           \/ \E a \in Actors : \/ Call(a) \/ StoreGet(a) \/ Infer(a) \/ StorePut(a)
                                \/ TimeOut(a) \/ Publish(a)
           \/ Orphan \/ Rebalance
  BY DEF Next, Run, Pipeline, Actors

\* The types hold at the start.
LEMMA TypesInit == Init => Types
<1> SUFFICES ASSUME Init PROVE Types
  OBVIOUS
<1>1. body \in [Events -> BodyKinds] /\ owner \in Workers
  BY ClosureAssumption DEF Init, Events
<1>2. 0 \in 0..Last /\ 0 \in 0..MaxAttempts /\ 1 \in 1..(Last + 1)
  BY ClosureAssumption
<1> QED
  BY <1>1, <1>2 DEF Init, Types, TypeOK, Labels, Busy

\* Every step keeps the types.
LEMMA TypesNext == Types /\ [Next]_vars => Types'
<1> SUFFICES ASSUME Types, [Next]_vars PROVE Types'
  OBVIOUS
<1>1. CASE UNCHANGED vars
  BY <1>1 DEF Types, TypeOK, Busy, vars, kafkaVars, actorVars, history
<1>2. CASE Next
  BY <1>2, StepCases, ConsumeTypes, DeadLetterTypes, RewindTypes, CommitTypes,
     ReconnectTypes, CrashTypes, IssueCommandsTypes, RespondTypes, CallTypes,
     StoreGetTypes, InferTypes, StorePutTypes, TimeOutTypes, PublishTypes, OrphanTypes,
     RebalanceTypes
<1> QED
  BY <1>1, <1>2

\* Type correctness of the closure loop.
THEOREM TypesAlways == Spec => []Types
<1> QED
  BY TypesInit, TypesNext, PTL DEF Spec

\* TypeOK of the specification, for any log, plans, workers and bounds.
THEOREM TypeCorrect == Spec => []TypeOK
<1>1. Types => TypeOK
  BY DEF Types
<1> QED
  BY <1>1, TypesAlways, PTL

-----------------------------------------------------------------------------
(* No silent loss *)

\* What is on the topics stays there.
TopicsGrow ==
    issued \subseteq issued' /\ dead \subseteq dead' /\ dropped \subseteq dropped'

\* No step takes a command or a dead letter back.
LEMMA Growth == Types /\ [Next]_vars => TopicsGrow
<1> SUFFICES ASSUME Types, [Next]_vars PROVE TopicsGrow
  OBVIOUS
<1>1. CASE UNCHANGED vars
  BY <1>1 DEF TopicsGrow, vars, history
<1>2. CASE Next
  <2>1. CASE \E a \in Actors : Publish(a)
    BY <2>1, PublishTypes DEF TopicsGrow
  <2>2. CASE \E w \in Workers : Consume(w)
    BY <2>2 DEF Consume, history, TopicsGrow
  <2>3. CASE \E c \in Callers : IssueCommands(c)
    BY <2>3 DEF IssueCommands, history, TopicsGrow
  <2>4. CASE Rebalance \/ Orphan
    BY <2>4 DEF Rebalance, Orphan, history, TopicsGrow
  <2> QED
    BY <1>2, <2>1, <2>2, <2>3, <2>4, StepCases, DeadLetterTypes, RewindTypes, CommitTypes,
       ReconnectTypes, CrashTypes, RespondTypes, CallTypes, StoreGetTypes, InferTypes,
       StorePutTypes, TimeOutTypes DEF TopicsGrow, history
<1> QED
  BY <1>1, <1>2

\* The events that are accounted for.
Settled == {e \in Events : Accounted(e)}

\* An event that is accounted for stays so.
LEMMA SettledGrows ==
    ASSUME TopicsGrow
    PROVE  Settled \subseteq Settled'
<1> SUFFICES ASSUME NEW e \in Events, Accounted(e) PROVE Accounted(e)'
  BY DEF Settled
<1>1. CASE e \in dead \cup dropped
  BY <1>1 DEF Accounted, TopicsGrow
<1>2. CASE \E p \in Plans : Supported(p) /\ Complete(e, p)
  <2>1. PICK p \in Plans : Supported(p) /\ Complete(e, p)
    BY <1>2
  <2>2. Complete(e, p)'
    BY <2>1 DEF Complete, TopicsGrow
  <2> QED
    BY <2>1, <2>2 DEF Accounted
<1> QED
  BY <1>1, <1>2 DEF Accounted

\* A batch under way: the plan is one the actuators know, and every command
\* before the next one is on the topic.
InOrder(a) ==
    pc[a] = "publish" =>
        /\ Supported(plan[a])
        /\ next[a] <= Len(Commands(plan[a]))
        /\ \A i \in 1..(next[a] - 1) :
              [event |-> cur[a], sequence |-> i, action |-> Commands(plan[a])[i]] \in issued

\* A step that leaves an actor alone leaves its batch alone.
LEMMA InOrderKept ==
    ASSUME TopicsGrow, NEW a \in Actors, InOrder(a),
           pc'[a] = pc[a], cur'[a] = cur[a], plan'[a] = plan[a], next'[a] = next[a]
    PROVE  InOrder(a)'
  BY DEF InOrder, TopicsGrow

\* A batch starts empty, and grows by its next command.
LEMMA InOrderNext ==
    ASSUME Types, \A a \in Actors : InOrder(a), [Next]_vars
    PROVE  \A a \in Actors : InOrder(a)'
<1>0. TopicsGrow /\ Types'
  BY Growth, TypesNext
<1>1. CASE UNCHANGED <<pc, cur, plan, next>>
  BY <1>0, <1>1, InOrderKept
<1>2. ASSUME NEW a \in Actors, OthersKept(a), InOrder(a)'
      PROVE  \A b \in Actors : InOrder(b)'
  BY <1>0, <1>2, InOrderKept DEF OthersKept
<1>3. ASSUME NEW a \in Actors, pc'[a] # "publish" PROVE InOrder(a)'
  BY <1>3 DEF InOrder
<1>4. ASSUME NEW a \in Actors, pc'[a] = "publish", next'[a] = 1, Supported(plan'[a]),
             plan'[a] \in Plans
      PROVE  InOrder(a)'
  <2>1. Len(Commands(plan'[a])) \in Nat \ {0}
    BY <1>4, CommandsType
  <2>2. 1..(next'[a] - 1) = {}
    BY <1>4
  <2>3. next'[a] <= Len(Commands(plan'[a]))
    BY <1>4, <2>1
  <2> QED
    BY <1>4, <2>2, <2>3 DEF InOrder
<1>5. ASSUME NEW a \in Actors, StoreGet(a) \/ StorePut(a) PROVE OthersKept(a) /\ InOrder(a)'
  <2>1. OthersKept(a) /\ (pc'[a] = "publish" => /\ next'[a] = 1 /\ plan'[a] \in Plans
                                                /\ Supported(plan'[a]))
    BY <1>5, StoreGetTypes, StorePutTypes
  <2> QED
    BY <1>3, <1>4, <2>1
<1>6. ASSUME NEW a \in Actors, Publish(a) PROVE OthersKept(a) /\ InOrder(a)'
  <2>1. /\ OthersKept(a) /\ cur' = cur /\ plan' = plan /\ pc[a] = "publish"
        /\ \/ /\ issued' = issued \cup {Command(a)} /\ next'[a] = next[a] + 1
              /\ pc'[a] = IF next[a] = Len(Commands(plan[a])) THEN "commit" ELSE "publish"
           \/ pc'[a] = "rewind"
    BY <1>6, PublishTypes
  <2>2. CASE pc'[a] = "publish"
    <3>1. /\ issued' = issued \cup {Command(a)} /\ next'[a] = next[a] + 1
          /\ next[a] # Len(Commands(plan[a]))
      BY <2>1, <2>2
    <3>2. /\ next[a] <= Len(Commands(plan[a])) /\ next[a] \in Nat \ {0}
          /\ Len(Commands(plan[a])) \in Nat
      BY <2>1, CommandsType, TypesNow DEF InOrder
    <3>3. next'[a] <= Len(Commands(plan[a]))
      BY <3>1, <3>2
    <3>4. ASSUME NEW i \in 1..(next'[a] - 1)
          PROVE  [event |-> cur[a], sequence |-> i, action |-> Commands(plan[a])[i]] \in issued'
      <4>1. i = next[a] \/ i \in 1..(next[a] - 1)
        BY <3>1, <3>2
      <4> QED
        BY <2>1, <3>1, <4>1 DEF InOrder, Command
    <3> QED
      BY <2>1, <3>3, <3>4 DEF InOrder, Supported, Commands
  <2> QED
    BY <1>3, <2>1, <2>2
<1>7. ASSUME NEW a \in Actors, Call(a) \/ Infer(a) \/ TimeOut(a)
      PROVE  OthersKept(a) /\ pc'[a] # "publish"
  BY <1>7, CallTypes, InferTypes, TimeOutTypes
<1>8. ASSUME NEW w \in Workers, \/ Consume(w) \/ DeadLetter(w) \/ Rewind(w) \/ Commit(w)
                                \/ PollFails(w) \/ Reconnect(w) \/ Crash(w)
      PROVE  OthersKept(w) /\ pc'[w] # "publish" /\ w \in Actors
  BY <1>8, ConsumeTypes, DeadLetterTypes, RewindTypes, CommitTypes, ReconnectTypes,
     CrashTypes DEF Actors
<1>9. ASSUME NEW c \in Callers, IssueCommands(c) \/ Respond(c)
      PROVE  OthersKept(c) /\ pc'[c] # "publish" /\ c \in Actors
  BY <1>9, IssueCommandsTypes, RespondTypes DEF Actors
<1>10. CASE Orphan \/ Rebalance
  BY <1>1, <1>10, OrphanTypes, RebalanceTypes DEF actorVars
<1> QED
  BY <1>1, <1>2, <1>3, <1>5, <1>6, <1>7, <1>8, <1>9, <1>10, StepCases DEF vars, actorVars

\* Before the record a worker holds, everything is accounted for.
BehindSettled(w) == Busy(w) => 1..(cur[w] - 1) \subseteq Settled

\* A worker commits a record that is accounted for.
CommitSettled(w) == pc[w] = "commit" => cur[w] \in Settled

\* So is everything the owner has read, but for the record it holds; a consumer
\* that is built again starts over at the committed offset.
ReadSettled ==
    \/ pc[owner] = "reconnect"
    \/ 1..(position - 1) \subseteq Settled
    \/ Busy(owner) /\ 1..(position - 1) \subseteq Settled \cup {cur[owner]}

\* The inductive invariant of NoSilentLoss.
NoLoss ==
    /\ 1..committed \subseteq Settled
    /\ ReadSettled
    /\ \A w \in Workers : BehindSettled(w) /\ CommitSettled(w)
    /\ \A a \in Actors : InOrder(a)

\* What is said of a worker stays true while it is left alone.
LEMMA WorkerKept ==
    ASSUME TopicsGrow, NEW w \in Workers, BehindSettled(w), CommitSettled(w),
           pc'[w] = pc[w], cur'[w] = cur[w]
    PROVE  BehindSettled(w)' /\ CommitSettled(w)'
  BY SettledGrows DEF BehindSettled, CommitSettled, Busy

\* The owner reads nothing while it is left alone.
LEMMA ReadKept ==
    ASSUME TopicsGrow, ReadSettled, owner' = owner, position' = position,
           pc'[owner] = pc[owner], cur'[owner] = cur[owner]
    PROVE  ReadSettled'
  BY SettledGrows DEF ReadSettled, Busy

\* A step of an actor other than the two ends of a record: it keeps the record
\* it has, and comes to commit it only once it is accounted for.
LEMMA WithinRecord ==
    ASSUME Types, NoLoss, TopicsGrow, NEW a \in Actors, OthersKept(a), Busy(a), Busy(a)',
           cur' = cur, UNCHANGED kafkaVars, CommitSettled(a)', \A b \in Actors : InOrder(b)'
    PROVE  NoLoss'
<1>1. Settled \subseteq Settled' /\ Workers \subseteq Actors /\ owner \in Actors
  BY SettledGrows, TypesNow DEF Actors
<1>2. UNCHANGED <<body, owner, position, committed>>
  BY DEF kafkaVars
<1>3. 1..committed' \subseteq Settled'
  BY <1>1, <1>2 DEF NoLoss
<1>4. ASSUME NEW w \in Workers PROVE BehindSettled(w)' /\ CommitSettled(w)'
  <2>1. CASE w = a
    BY <1>1, <2>1 DEF NoLoss, BehindSettled
  <2>2. CASE w # a
    BY <1>1, <2>2, WorkerKept DEF NoLoss, OthersKept
  <2> QED
    BY <2>1, <2>2
<1>5. ReadSettled'
  <2>1. CASE owner = a
    BY <1>1, <1>2, <2>1 DEF NoLoss, ReadSettled, Busy
  <2>2. CASE owner # a
    BY <1>1, <1>2, <2>2, ReadKept DEF NoLoss, OthersKept
  <2> QED
    BY <2>1, <2>2
<1> QED
  BY <1>3, <1>4, <1>5 DEF NoLoss

\* The last command of a batch accounts for its event.
LEMMA PublishSettles ==
    ASSUME Types, NoLoss, NEW a \in Actors, Publish(a)
    PROVE  CommitSettled(a)'
<1>1. Types' /\ cur' = cur /\ plan' = plan /\ pc[a] = "publish"
  BY PublishTypes
<1>2. CASE pc'[a] = "commit"
  <2>1. issued' = issued \cup {Command(a)} /\ next[a] = Len(Commands(plan[a]))
    BY <1>2, PublishTypes
  <2>2. plan[a] \in Plans /\ Supported(plan[a]) /\ cur[a] \in Events
    BY <1>1, TypesNow DEF NoLoss, InOrder
  <2>3. Len(Commands(plan[a])) \in Nat \ {0}
    BY <2>2, CommandsType
  <2>4. ASSUME NEW i \in 1..Len(Commands(plan[a]))
        PROVE  [event |-> cur[a], sequence |-> i, action |-> Commands(plan[a])[i]] \in issued'
    <3>1. i = next[a] \/ i \in 1..(next[a] - 1)
      BY <2>1, <2>3
    <3> QED
      BY <1>1, <2>1, <3>1 DEF NoLoss, InOrder, Command
  <2> DEFINE e == cur[a]
             p == plan[a]
  <2>5. Complete(e, p)'
    BY <1>1, <2>4 DEF Complete
  <2>6. Accounted(e)'
    BY <1>1, <2>2, <2>5 DEF Accounted
  <2>7. e \in Settled'
    BY <1>1, <2>2, <2>6 DEF Settled
  <2> QED
    BY <1>1, <2>7 DEF CommitSettled
<1> QED
  BY <1>2 DEF CommitSettled

\* A step that only ends a record, or touches none, settles no less: what is
\* left to show of it is what became of the owner's reading and of the offset.
LEMMA LeftRecord ==
    ASSUME Types, NoLoss, TopicsGrow, NEW a \in Actors, OthersKept(a), ~Busy(a)',
           1..committed' \subseteq Settled, ReadSettled', \A b \in Actors : InOrder(b)'
    PROVE  NoLoss'
<1>1. Settled \subseteq Settled' /\ Workers \subseteq Actors
  BY SettledGrows DEF Actors
<1>2. ASSUME NEW w \in Workers PROVE BehindSettled(w)' /\ CommitSettled(w)'
  <2>1. CASE w = a
    BY <2>1 DEF BehindSettled, CommitSettled, Busy
  <2>2. CASE w # a
    BY <1>1, <2>2, WorkerKept DEF NoLoss, OthersKept
  <2> QED
    BY <2>1, <2>2
<1> QED
  BY <1>1, <1>2 DEF NoLoss

\* Taking a record loses nothing: the owner is done with all before it.
LEMMA ConsumeNoLoss ==
    ASSUME Types, NoLoss, TopicsGrow, NEW w \in Workers, Consume(w),
           \A a \in Actors : InOrder(a)'
    PROVE  NoLoss'
<1>1. /\ owner = w /\ pc[w] = "idle" /\ position' = position + 1
      /\ owner' = owner /\ committed' = committed
      /\ OthersKept(w) /\ pc'[w] \in {"call", "dead"} /\ cur'[w] = position
      /\ w \in Actors /\ Workers \subseteq Actors /\ position \in Nat \ {0}
  <2>1. /\ owner = w /\ pc[w] = "idle" /\ position' = position + 1
        /\ owner' = owner /\ committed' = committed
    BY DEF Consume
  <2>2. OthersKept(w) /\ pc'[w] \in {"call", "dead"} /\ cur'[w] = position
    BY ConsumeTypes
  <2>3. position \in Nat \ {0}
    BY TypesNow
  <2> QED
    BY <2>1, <2>2, <2>3 DEF Actors
<1>2. Settled \subseteq Settled'
  BY SettledGrows
<1>3. 1..(position - 1) \subseteq Settled
  BY <1>1 DEF NoLoss, ReadSettled, Busy
<1>4. ReadSettled'
  <2>1. 1..position \subseteq 1..(position - 1) \cup {position}
    BY <1>1
  <2>2. position' - 1 = position /\ Busy(owner)' /\ cur'[owner'] = position
    BY <1>1 DEF Busy
  <2> QED
    BY <1>2, <1>3, <2>1, <2>2 DEF ReadSettled
<1>5. ASSUME NEW v \in Workers PROVE BehindSettled(v)' /\ CommitSettled(v)'
  <2>1. CASE v = w
    BY <1>1, <1>2, <1>3, <2>1 DEF BehindSettled, CommitSettled
  <2>2. CASE v # w
    BY <1>1, <2>2, WorkerKept DEF NoLoss, OthersKept
  <2> QED
    BY <2>1, <2>2
<1> QED
  BY <1>1, <1>2, <1>4, <1>5 DEF NoLoss

\* Reading a record again loses nothing: all before it is done with.
LEMMA RewindNoLoss ==
    ASSUME Types, NoLoss, TopicsGrow, NEW w \in Workers, Rewind(w),
           \A a \in Actors : InOrder(a)'
    PROVE  NoLoss'
<1>1. /\ OthersKept(w) /\ pc[w] = "rewind" /\ pc'[w] = "idle"
      /\ position' = IF owner = w THEN cur[w] ELSE position
      /\ owner' = owner /\ committed' = committed /\ w \in Actors /\ owner \in Actors
  BY RewindTypes, TypesNow DEF Actors
<1>2. ReadSettled'
  <2>1. CASE owner = w
    BY <1>1, <2>1, SettledGrows DEF NoLoss, BehindSettled, ReadSettled, Busy
  <2>2. CASE owner # w
    BY <1>1, <2>2, ReadKept DEF NoLoss, OthersKept
  <2> QED
    BY <2>1, <2>2
<1> QED
  BY <1>1, <1>2, LeftRecord DEF NoLoss, Busy

\* A commit covers the record, which is accounted for, and all before it.
LEMMA CommitNoLoss ==
    ASSUME Types, NoLoss, TopicsGrow, NEW w \in Workers, Commit(w),
           \A a \in Actors : InOrder(a)'
    PROVE  NoLoss'
<1>1. /\ OthersKept(w) /\ pc[w] = "commit" /\ committed' \in {committed, cur[w]}
      /\ pc'[w] \in {"idle", "reconnect"}
      /\ owner' = owner /\ position' = position
      /\ w \in Actors /\ owner \in Actors /\ cur[w] \in Nat
  BY CommitTypes, TypesNow DEF Actors
<1>2. 1..cur[w] \subseteq Settled
  <2>1. 1..cur[w] \subseteq 1..(cur[w] - 1) \cup {cur[w]}
    BY <1>1
  <2> QED
    BY <1>1, <2>1 DEF NoLoss, BehindSettled, CommitSettled, Busy
<1>3. ReadSettled'
  <2>1. CASE owner = w
    BY <1>1, <1>2, <2>1, SettledGrows DEF NoLoss, CommitSettled, ReadSettled, Busy
  <2>2. CASE owner # w
    BY <1>1, <2>2, ReadKept DEF NoLoss, OthersKept
  <2> QED
    BY <2>1, <2>2
<1> QED
  BY <1>1, <1>2, <1>3, LeftRecord DEF NoLoss, Busy

\* A consumer that is built again reads on from the committed offset.
LEMMA ReconnectNoLoss ==
    ASSUME Types, NoLoss, TopicsGrow, NEW w \in Workers,
           PollFails(w) \/ Reconnect(w) \/ Crash(w), \A a \in Actors : InOrder(a)'
    PROVE  NoLoss'
<1>1. /\ OthersKept(w) /\ owner' = owner /\ committed' = committed
      /\ \/ pc'[w] = "reconnect" /\ position' = position
         \/ /\ pc'[w] = "idle"
            /\ position' = IF owner = w THEN committed + 1 ELSE position
      /\ w \in Actors /\ owner \in Actors /\ committed \in Nat
  BY ReconnectTypes, CrashTypes, TypesNow DEF Actors, kafkaVars
<1>2. ReadSettled'
  <2>1. CASE owner = w
    BY <1>1, <2>1, SettledGrows DEF NoLoss, ReadSettled
  <2>2. CASE owner # w
    BY <1>1, <2>2, ReadKept DEF NoLoss, OthersKept
  <2> QED
    BY <2>1, <2>2
<1> QED
  BY <1>1, <1>2, LeftRecord DEF NoLoss, Busy

\* A caller neither reads nor commits.
LEMMA CallerNoLoss ==
    ASSUME Types, NoLoss, TopicsGrow, NEW c \in Callers, IssueCommands(c) \/ Respond(c),
           \A a \in Actors : InOrder(a)'
    PROVE  NoLoss'
<1>1. /\ OthersKept(c) /\ UNCHANGED <<owner, position, committed>>
      /\ c \in Actors /\ owner \in Actors /\ owner # c /\ Workers \subseteq Actors \ {c}
  BY IssueCommandsTypes, RespondTypes, TypesNow, ClosureAssumption
     DEF Actors, kafkaVars, IssueCommands
<1>2. ReadSettled'
  BY <1>1, ReadKept DEF NoLoss, OthersKept
<1>3. \A w \in Workers : BehindSettled(w)' /\ CommitSettled(w)'
  BY <1>1, WorkerKept DEF NoLoss, OthersKept
<1> QED
  BY <1>1, <1>2, <1>3, SettledGrows DEF NoLoss

\* Orphans and rebalances settle nothing and lose nothing: the new owner starts
\* at the committed offset.
LEMMA EnvironmentNoLoss ==
    ASSUME Types, NoLoss, TopicsGrow, Orphan \/ Rebalance, \A a \in Actors : InOrder(a)'
    PROVE  NoLoss'
<1>1. /\ UNCHANGED <<pc, cur>> /\ committed' = committed
      /\ \/ owner' = owner /\ position' = position
         \/ position' = committed + 1
      /\ committed \in Nat /\ Workers \subseteq Actors
  BY OrphanTypes, RebalanceTypes, TypesNow DEF kafkaVars, actorVars, Actors
<1>2. ReadSettled'
  <2>1. CASE owner' = owner /\ position' = position
    BY <1>1, <2>1, ReadKept DEF NoLoss
  <2>2. CASE position' = committed + 1
    BY <1>1, <2>2, SettledGrows DEF NoLoss, ReadSettled
  <2> QED
    BY <1>1, <2>1, <2>2
<1>3. \A w \in Workers : BehindSettled(w)' /\ CommitSettled(w)'
  BY <1>1, WorkerKept DEF NoLoss
<1> QED
  BY <1>1, <1>2, <1>3, SettledGrows DEF NoLoss

\* Nothing is lost at the start.
LEMMA NoLossInit == Init => NoLoss
<1> SUFFICES ASSUME Init PROVE NoLoss
  OBVIOUS
<1>1. 1..committed = {} /\ 1..(position - 1) = {} /\ Workers \subseteq Actors
  BY DEF Init, Actors
<1>2. \A a \in Actors : pc[a] = "idle"
  BY DEF Init
<1> QED
  BY <1>1, <1>2 DEF NoLoss, ReadSettled, BehindSettled, CommitSettled, InOrder, Busy

\* No step loses an event.
LEMMA NoLossNext == Types /\ NoLoss /\ [Next]_vars => NoLoss'
<1> SUFFICES ASSUME Types, NoLoss, [Next]_vars PROVE NoLoss'
  OBVIOUS
<1>1. TopicsGrow /\ \A a \in Actors : InOrder(a)'
  BY Growth, InOrderNext DEF NoLoss
<1>2. CASE UNCHANGED vars
  <2>1. UNCHANGED <<pc, cur, owner, position, committed>> /\ Workers \subseteq Actors
    BY <1>2 DEF vars, kafkaVars, actorVars, Actors
  <2> QED
    BY <1>1, <2>1, SettledGrows, ReadKept, WorkerKept DEF NoLoss
<1>3. ASSUME NEW a \in Actors, \/ Call(a) \/ StoreGet(a) \/ Infer(a) \/ StorePut(a)
                               \/ TimeOut(a) \/ Publish(a)
      PROVE  NoLoss'
  <2>1. /\ OthersKept(a) /\ cur' = cur /\ UNCHANGED kafkaVars
        /\ Busy(a) /\ Busy(a)'
        /\ pc'[a] = "commit" => Publish(a)
    BY <1>3, CallTypes, StoreGetTypes, InferTypes, StorePutTypes, TimeOutTypes, PublishTypes
       DEF Busy, AtInterceptor
  <2>2. CommitSettled(a)'
    BY <2>1, PublishSettles DEF CommitSettled
  <2> QED
    BY <1>1, <2>1, <2>2, WithinRecord
<1>4. ASSUME NEW w \in Workers, DeadLetter(w) PROVE NoLoss'
  <2>1. /\ OthersKept(w) /\ cur' = cur /\ UNCHANGED kafkaVars
        /\ pc[w] = "dead" /\ pc'[w] = "commit" /\ cur[w] \in dead' \cup dropped'
        /\ w \in Actors
    BY <1>4, DeadLetterTypes DEF Actors
  <2>2. cur[w] \in Events /\ Busy(w) /\ Busy(w)'
    BY <2>1, TypesNow DEF Busy
  <2>3. CommitSettled(w)'
    BY <2>1, <2>2 DEF CommitSettled, Settled, Accounted
  <2> QED
    BY <1>1, <2>1, <2>2, <2>3, WithinRecord
<1> QED
  BY <1>1, <1>2, <1>3, <1>4, StepCases, ConsumeNoLoss, RewindNoLoss, CommitNoLoss,
     ReconnectNoLoss, CallerNoLoss, EnvironmentNoLoss

\* CommandWorker: an offset is committed "only after a message is fully
\* handled".  For any number of workers, any log and plans, and however often
\* calls fail, processes die and the partition moves, a committed mutation has
\* all the commands of a plan on the topic, or a dead letter, or a counted
\* failure of one.
THEOREM NothingLost == Spec => []NoSilentLoss
<1>1. Types /\ NoLoss => NoSilentLoss
  BY DEF NoLoss, NoSilentLoss, Settled
<1>2. Init => Types /\ NoLoss
  BY TypesInit, NoLossInit
<1>3. Types /\ NoLoss /\ [Next]_vars => (Types /\ NoLoss)'
  BY TypesNext, NoLossNext
<1> QED
  BY <1>1, <1>2, <1>3, PTL DEF Spec

-----------------------------------------------------------------------------
(* One plan for an event *)

\* A request between a miss and the end of its write, awaited or not.
ActorPlans(a, e) == cur[a] = e /\ pc[a] \in {"infer", "put"}

\* The same of a request whose caller is gone.
OrphanPlans(o, e) == o.event = e /\ o.stage \in {"infer", "put"}

\* At most one request plans e.
OnePlanner(e) ==
    /\ \A a, b \in Actors : ActorPlans(a, e) /\ ActorPlans(b, e) => a = b
    /\ \A a \in Actors, o \in orphans : ~(ActorPlans(a, e) /\ OrphanPlans(o, e))
    /\ \A o, r \in orphans : OrphanPlans(o, e) /\ OrphanPlans(r, e) => o = r

\* An actor that publishes has the plan of the store.
PublishesStored(e) ==
    \A a \in Actors : pc[a] = "publish" /\ cur[a] = e => plan[a] = store[e]

\* The commands of e are those of the plan in the store.
IssuedFromStored(e) ==
    \A c \in issued : c.event = e =>
        /\ store[e] \in Plans
        /\ c.sequence \in 1..Len(Commands(store[e]))
        /\ Commands(store[e])[c.sequence] = c.action

\* What the order of the requests for e gives when they did not race.
Sequential(e) ==
    /\ OnePlanner(e)
    /\ Planning(e) => store[e] = NoPlan
    /\ PublishesStored(e)
    /\ IssuedFromStored(e)

\* What holds of every event whose planning never raced.
SequentialPlans == \A e \in Events \ raced : Sequential(e)

\* A step that makes no request plan e, and keeps what is stored for it.
LEMMA QuietStep ==
    ASSUME NEW e \in Events, Sequential(e),
           \A b \in Actors : ActorPlans(b, e)' => ActorPlans(b, e),
           \A o \in orphans' : OrphanPlans(o, e) => o \in orphans,
           store'[e] = store[e], PublishesStored(e)', IssuedFromStored(e)'
    PROVE  Sequential(e)'
<1>1. OnePlanner(e)'
  BY DEF Sequential, OnePlanner, OrphanPlans
<1>2. Planning(e)' => Planning(e)
  BY DEF Planning, ActorPlans, OrphanPlans
<1> QED
  BY <1>1, <1>2 DEF Sequential

\* The same when the commands on the topic stay as they are.
LEMMA IssuedKept ==
    ASSUME NEW e \in Events, IssuedFromStored(e), issued' = issued, store'[e] = store[e]
    PROVE  IssuedFromStored(e)'
  BY DEF IssuedFromStored

\* A step that leaves nobody publishing who was not, with the same plan.
LEMMA PublishersKept ==
    ASSUME NEW e \in Events, PublishesStored(e), store'[e] = store[e],
           \A b \in Actors : pc'[b] = "publish" /\ cur'[b] = e =>
                \/ pc[b] = "publish" /\ cur[b] = e /\ plan'[b] = plan[b]
                \/ plan'[b] = store[e]
    PROVE  PublishesStored(e)'
  BY DEF PublishesStored

\* A step that makes actor a the only one to plan e.
LEMMA SoleActor ==
    ASSUME NEW e \in Events, NEW a \in Actors, store'[e] = NoPlan,
           \A b \in Actors : ActorPlans(b, e)' => b = a,
           \A o \in orphans' : ~OrphanPlans(o, e),
           PublishesStored(e)', IssuedFromStored(e)'
    PROVE  Sequential(e)'
  BY DEF Sequential, OnePlanner

\* A step that makes an orphan the only one to plan e.
LEMMA SoleOrphan ==
    ASSUME NEW e \in Events, NEW r, store'[e] = NoPlan,
           \A b \in Actors : ~ActorPlans(b, e)',
           \A o \in orphans' : OrphanPlans(o, e) => o = r,
           PublishesStored(e)', IssuedFromStored(e)'
    PROVE  Sequential(e)'
  BY DEF Sequential, OnePlanner

\* The only request that plans e writes its plan: nobody has published for e.
LEMMA FirstWrite ==
    ASSUME Types, NEW e \in Events, Sequential(e), store[e] = NoPlan, issued' = issued,
           \A b \in Actors : ~ActorPlans(b, e)',
           \A o \in orphans' : ~OrphanPlans(o, e),
           \A b \in Actors : pc'[b] = "publish" /\ cur'[b] = e =>
                \/ pc[b] = "publish" /\ cur[b] = e
                \/ plan'[b] = store'[e]
    PROVE  Sequential(e)'
<1>1. OnePlanner(e)' /\ ~Planning(e)'
  BY DEF OnePlanner, Planning, ActorPlans, OrphanPlans
<1>2. PublishesStored(e)'
  <2>1. ASSUME NEW b \in Actors, pc[b] = "publish", cur[b] = e PROVE FALSE
    BY <2>1, TypesNow DEF Sequential, PublishesStored
  <2> QED
    BY <2>1 DEF PublishesStored
<1>3. IssuedFromStored(e)'
  BY TypesNow DEF Sequential, IssuedFromStored
<1> QED
  BY <1>1, <1>2, <1>3 DEF Sequential

\* A step of a that begins no planning, writes nothing and publishes nothing.
LEMMA IdleStep ==
    ASSUME NEW e \in Events, Sequential(e), NEW a \in Actors, OthersKept(a),
           store' = store, issued' = issued, orphans' = orphans,
           ActorPlans(a, e)' => ActorPlans(a, e), pc'[a] # "publish"
    PROVE  Sequential(e)'
<1>1. \A b \in Actors : ActorPlans(b, e)' => ActorPlans(b, e)
  BY DEF OthersKept, ActorPlans
<1>2. PublishesStored(e)'
  BY PublishersKept DEF OthersKept, Sequential
<1>3. IssuedFromStored(e)'
  BY IssuedKept DEF Sequential
<1> QED
  BY <1>1, <1>2, <1>3, QuietStep

\* A miss makes its request the only one that plans the event, or races.
LEMMA StoreGetSequential ==
    ASSUME Types, NEW a \in Actors, StoreGet(a), NEW e \in Events, e \notin raced',
           Sequential(e)
    PROVE  Sequential(e)'
<1>1. /\ OthersKept(a) /\ pc[a] = "get" /\ cur' = cur
      /\ store' = store /\ orphans' = orphans /\ issued' = issued
  BY StoreGetTypes
<1>2. IssuedFromStored(e)'
  BY <1>1, IssuedKept DEF Sequential
<1>3. CASE pc'[a] = "infer" /\ store[cur[a]] = NoPlan /\ Missed(cur[a]) /\ cur[a] = e
  <2>1. ~Planning(e)
    BY <1>3 DEF Missed
  <2>2. /\ \A b \in Actors : ActorPlans(b, e)' => b = a
        /\ \A o \in orphans' : ~OrphanPlans(o, e)
    BY <1>1, <2>1 DEF Planning, OthersKept, ActorPlans, OrphanPlans
  <2>3. PublishesStored(e)'
    BY <1>1, <1>3, PublishersKept DEF OthersKept, Sequential
  <2> QED
    BY <1>1, <1>2, <1>3, <2>2, <2>3, SoleActor
<1>4. CASE pc'[a] = "infer" /\ cur[a] # e
  <2>1. ~ActorPlans(a, e)'
    BY <1>1, <1>4 DEF ActorPlans
  <2> QED
    BY <1>1, <1>4, <2>1, IdleStep
<1>5. CASE pc'[a] = "publish" /\ plan'[a] = store[cur[a]]
  <2>1. \A b \in Actors : ActorPlans(b, e)' => ActorPlans(b, e)
    BY <1>1, <1>5 DEF OthersKept, ActorPlans
  <2>2. PublishesStored(e)'
    BY <1>1, <1>5, PublishersKept DEF OthersKept, Sequential
  <2> QED
    BY <1>1, <1>2, <2>1, <2>2, QuietStep
<1>6. CASE pc'[a] \in {"call", "rewind", "dead"}
  BY <1>1, <1>6, IdleStep DEF ActorPlans
<1> QED
  BY <1>3, <1>4, <1>5, <1>6, StoreGetTypes

\* A request's write: its own event has nothing else planning or published,
\* another event is not touched.
LEMMA StorePutSequential ==
    ASSUME Types, NEW a \in Actors, StorePut(a), NEW e \in Events, e \notin raced',
           Sequential(e)
    PROVE  Sequential(e)'
<1>1. /\ OthersKept(a) /\ pc[a] = "put" /\ cur' = cur /\ cur[a] \in Events
      /\ orphans' = orphans /\ issued' = issued
      /\ plan[a] \in Plans /\ plan'[a] = plan[a]
      /\ pc'[a] \in {"call", "rewind", "publish", "dead"}
      /\ \/ store' = Stored(cur[a], plan[a]) /\ raced' = raced
         \/ /\ store' = Stored(cur[a], plan[a]) \/ store' = store
            /\ raced' = raced \cup {cur[a]}
  BY StorePutTypes, TypesNow
<1>2. CASE cur[a] = e
  <2>1. store' = Stored(e, plan[a]) /\ ActorPlans(a, e) /\ ~ActorPlans(a, e)'
    BY <1>1, <1>2 DEF ActorPlans
  <2>2. store[e] = NoPlan
    BY <2>1 DEF Sequential, Planning, ActorPlans
  <2>3. store'[e] = plan'[a]
    BY <1>1, <2>1, <2>2, StoredType
  <2>4. /\ \A b \in Actors : ~ActorPlans(b, e)'
        /\ \A o \in orphans' : ~OrphanPlans(o, e)
    BY <1>1, <2>1 DEF Sequential, OnePlanner, OthersKept, ActorPlans
  <2> QED
    BY <1>1, <2>2, <2>3, <2>4, FirstWrite DEF OthersKept
<1>3. CASE cur[a] # e
  <2>1. store'[e] = store[e]
    BY <1>1, <1>3, StoredType
  <2>2. \A b \in Actors : ActorPlans(b, e)' => ActorPlans(b, e)
    BY <1>1, <1>3 DEF OthersKept, ActorPlans
  <2>3. PublishesStored(e)'
    BY <1>1, <1>3, <2>1, PublishersKept DEF OthersKept, Sequential
  <2>4. IssuedFromStored(e)'
    BY <1>1, <2>1, IssuedKept DEF Sequential
  <2> QED
    BY <1>1, <2>1, <2>2, <2>3, <2>4, QuietStep
<1> QED
  BY <1>2, <1>3

\* An abandoned request plans on as an orphan, in its caller's place.
LEMMA AbandonSequential ==
    ASSUME Types, NEW a \in Actors, AtInterceptor(a), OthersKept(a),
           pc'[a] \in {"call", "rewind", "reconnect"}, UNCHANGED <<store, issued>>,
           orphans' = orphans \cup {Request(a)}, NEW e \in Events, Sequential(e)
    PROVE  Sequential(e)'
<1>1. Request(a).event = cur[a] /\ Request(a).stage = pc[a]
  BY RequestType
<1>2. ~ActorPlans(a, e)' /\ pc'[a] # "publish"
  BY DEF ActorPlans
<1>3. PublishesStored(e)' /\ IssuedFromStored(e)'
  BY <1>2, PublishersKept, IssuedKept DEF OthersKept, Sequential
<1>4. CASE ActorPlans(a, e)
  <2>1. store[e] = NoPlan
    BY <1>4 DEF Sequential, Planning, ActorPlans
  <2>2. /\ \A b \in Actors : ~ActorPlans(b, e)'
        /\ \A o \in orphans' : OrphanPlans(o, e) => o = Request(a)
    BY <1>2, <1>4 DEF Sequential, OnePlanner, OthersKept, ActorPlans
  <2> QED
    BY <1>3, <2>1, <2>2, SoleOrphan
<1>5. CASE ~ActorPlans(a, e)
  <2>1. \A b \in Actors : ActorPlans(b, e)' => ActorPlans(b, e)
    BY <1>2 DEF OthersKept, ActorPlans
  <2>2. \A o \in orphans' : OrphanPlans(o, e) => o \in orphans
    BY <1>1, <1>5 DEF OrphanPlans, ActorPlans
  <2> QED
    BY <1>3, <2>1, <2>2, QuietStep
<1> QED
  BY <1>4, <1>5

\* A command of a batch is one of the stored plan.
LEMMA PublishSequential ==
    ASSUME Types, NEW a \in Actors, Publish(a), InOrder(a), NEW e \in Events, Sequential(e)
    PROVE  Sequential(e)'
<1>1. /\ OthersKept(a) /\ pc[a] = "publish" /\ cur' = cur /\ plan' = plan
      /\ store' = store /\ orphans' = orphans
      /\ pc'[a] \in {"commit", "publish", "rewind"}
      /\ issued' = issued \cup {Command(a)} \/ issued' = issued
  BY PublishTypes
<1>2. \A b \in Actors : ActorPlans(b, e)' => ActorPlans(b, e)
  BY <1>1 DEF OthersKept, ActorPlans
<1>3. PublishesStored(e)'
  BY <1>1, PublishersKept DEF OthersKept, Sequential
<1>4. ASSUME cur[a] = e
      PROVE  /\ store[e] \in Plans
             /\ Command(a).sequence \in 1..Len(Commands(store[e]))
             /\ Commands(store[e])[Command(a).sequence] = Command(a).action
  <2>1. plan[a] = store[e] /\ plan[a] \in Plans
    BY <1>1, <1>4, TypesNow DEF Sequential, PublishesStored
  <2>2. next[a] \in Nat \ {0} /\ next[a] <= Len(Commands(plan[a]))
    BY <1>1, TypesNow DEF InOrder
  <2>3. Len(Commands(plan[a])) \in Nat
    BY <2>1, CommandsType
  <2> QED
    BY <2>1, <2>2, <2>3 DEF Command
<1>5. IssuedFromStored(e)'
  <2>1. Command(a).event = cur[a]
    BY DEF Command
  <2> HIDE DEF Command
  <2> QED
    BY <1>1, <1>4, <2>1 DEF Sequential, IssuedFromStored
<1> QED
  BY <1>1, <1>2, <1>3, <1>5, QuietStep

\* An orphan's stages: a miss, a plan and a write, as for a request that is
\* waited for, except that nobody publishes.
LEMMA OrphanSequential ==
    ASSUME Types, Orphan, NEW e \in Events, e \notin raced', Sequential(e)
    PROVE  Sequential(e)'
<1>1. UNCHANGED <<pc, cur, plan, next, issued>>
  BY OrphanTypes DEF actorVars
<1>2. \A b \in Actors : ActorPlans(b, e)' <=> ActorPlans(b, e)
  BY <1>1 DEF ActorPlans
<1>3. ASSUME store'[e] = store[e] PROVE PublishesStored(e)' /\ IssuedFromStored(e)'
  BY <1>1, <1>3, PublishersKept, IssuedKept DEF Sequential
<1>4. ASSUME NEW o \in orphans, NEW r, r.event = o.event,
             orphans' = (orphans \ {o}) \cup {r}, r.stage \in {"infer", "put"},
             store' = store,
             \/ o.stage = "infer"
             \/ store[o.event] = NoPlan /\ Missed(o.event)
      PROVE  Sequential(e)'
  <2>1. CASE o.event # e
    <3>1. \A q \in orphans' : OrphanPlans(q, e) => q \in orphans
      BY <1>4, <2>1 DEF OrphanPlans
    <3> QED
      BY <1>2, <1>3, <1>4, <3>1, QuietStep
  <2>2. CASE o.event = e
    <3>1. /\ store[e] = NoPlan
          /\ \A b \in Actors : ~ActorPlans(b, e)
          /\ \A q \in orphans : OrphanPlans(q, e) => q = o
      <4>1. CASE o.stage = "infer"
        <5>1. OrphanPlans(o, e)
          BY <2>2, <4>1 DEF OrphanPlans
        <5> QED
          BY <1>4, <5>1 DEF Sequential, OnePlanner, Planning, OrphanPlans
      <4>2. CASE store[o.event] = NoPlan /\ Missed(o.event)
        <5>1. ~Planning(e)
          BY <2>2, <4>2 DEF Missed
        <5> QED
          BY <2>2, <4>2, <5>1 DEF Planning, ActorPlans, OrphanPlans
      <4> QED
        BY <1>4, <4>1, <4>2
    <3>2. \A q \in orphans' : OrphanPlans(q, e) => q = r
      BY <1>4, <3>1
    <3> QED
      BY <1>2, <1>3, <1>4, <3>1, <3>2, SoleOrphan
  <2> QED
    BY <2>1, <2>2
<1>5. ASSUME NEW o \in orphans, orphans' = orphans \ {o}, store' = store
      PROVE  Sequential(e)'
  <2>1. \A q \in orphans' : OrphanPlans(q, e) => q \in orphans
    BY <1>5
  <2> QED
    BY <1>2, <1>3, <1>5, <2>1, QuietStep
<1>6. ASSUME NEW o \in orphans, orphans' = orphans \ {o}, o.stage = "put",
             o.plan \in Plans, store' = Stored(o.event, o.plan)
      PROVE  Sequential(e)'
  <2>0. o.event \in Events
    BY <1>6, TypesNow DEF Requests
  <2>1. CASE o.event = e
    <3>1. OrphanPlans(o, e)
      BY <1>6, <2>1 DEF OrphanPlans
    <3>2. /\ store[e] = NoPlan
          /\ \A b \in Actors : ~ActorPlans(b, e)'
          /\ \A q \in orphans' : ~OrphanPlans(q, e)
      BY <1>2, <1>6, <3>1 DEF Sequential, OnePlanner, Planning, OrphanPlans
    <3> QED
      BY <1>1, <3>2, FirstWrite
  <2>2. CASE o.event # e
    <3>1. store'[e] = store[e]
      BY <1>6, <2>0, <2>2, StoredType
    <3>2. \A q \in orphans' : OrphanPlans(q, e) => q \in orphans
      BY <1>6
    <3> QED
      BY <1>2, <1>3, <3>1, <3>2, QuietStep
  <2> QED
    BY <2>1, <2>2
<1> QED
  BY <1>4, <1>5, <1>6, OrphanTypes

\* Every step keeps an event that has not raced in sequence.
LEMMA StepSequential ==
    ASSUME Types, [Next]_vars, NEW e \in Events, e \notin raced', Sequential(e),
           \A a \in Actors : InOrder(a)
    PROVE  Sequential(e)'
<1>1. CASE UNCHANGED <<pc, cur, plan, store, orphans, issued>>
  <2>1. \A b \in Actors : ActorPlans(b, e)' => ActorPlans(b, e)
    BY <1>1 DEF ActorPlans
  <2>2. PublishesStored(e)' /\ IssuedFromStored(e)'
    BY <1>1, PublishersKept, IssuedKept DEF Sequential
  <2> QED
    BY <1>1, <2>1, <2>2, QuietStep
<1>2. ASSUME NEW w \in Workers, Consume(w) PROVE Sequential(e)'
  <2>1. OthersKept(w) /\ pc'[w] \in {"call", "dead"} /\ UNCHANGED <<store, orphans, issued>>
    BY <1>2, ConsumeTypes DEF Consume, history
  <2> QED
    BY <2>1, IdleStep DEF ActorPlans, Actors
<1>3. ASSUME NEW w \in Workers, DeadLetter(w) \/ Rewind(w) \/ Commit(w) PROVE Sequential(e)'
  <2>1. /\ OthersKept(w) /\ pc'[w] \in {"commit", "idle", "reconnect"}
        /\ UNCHANGED <<store, orphans, issued>>
    BY <1>3, DeadLetterTypes, RewindTypes, CommitTypes DEF history
  <2> QED
    BY <2>1, IdleStep DEF ActorPlans, Actors
<1>4. ASSUME NEW w \in Workers, PollFails(w) \/ Reconnect(w) PROVE Sequential(e)'
  <2>1. /\ OthersKept(w) /\ pc'[w] \in {"idle", "reconnect"}
        /\ UNCHANGED <<store, orphans, issued>>
    BY <1>4, ReconnectTypes DEF history
  <2> QED
    BY <2>1, IdleStep DEF ActorPlans, Actors
<1>5. ASSUME NEW w \in Workers, Crash(w) PROVE Sequential(e)'
  <2>1. /\ OthersKept(w) /\ pc'[w] = "reconnect" /\ UNCHANGED <<store, issued>> /\ w \in Actors
        /\ \/ orphans' = orphans
           \/ AtInterceptor(w) /\ orphans' = orphans \cup {Request(w)}
    BY <1>5, CrashTypes DEF history, Actors
  <2> QED
    BY <2>1, IdleStep, AbandonSequential DEF ActorPlans
<1>6. ASSUME NEW c \in Callers, IssueCommands(c) \/ Respond(c) PROVE Sequential(e)'
  <2>1. OthersKept(c) /\ pc'[c] \in {"call", "idle"} /\ UNCHANGED <<store, orphans, issued>>
    BY <1>6, IssueCommandsTypes, RespondTypes DEF IssueCommands, history
  <2> QED
    BY <2>1, IdleStep DEF ActorPlans, Actors
<1>7. ASSUME NEW a \in Actors, Call(a) \/ Infer(a) PROVE Sequential(e)'
  <2>1. /\ OthersKept(a) /\ cur' = cur /\ UNCHANGED <<store, orphans, issued>>
        /\ pc'[a] # "publish" /\ (pc'[a] \in {"infer", "put"} => pc[a] \in {"infer", "put"})
    BY <1>7, CallTypes, InferTypes DEF history
  <2> QED
    BY <2>1, IdleStep DEF ActorPlans
<1>8. ASSUME NEW a \in Actors, TimeOut(a) PROVE Sequential(e)'
  BY <1>8, TimeOutTypes, AbandonSequential DEF history
<1>9. CASE Rebalance
  BY <1>1, <1>9, RebalanceTypes DEF actorVars, history
<1> QED
  BY <1>1, <1>2, <1>3, <1>4, <1>5, <1>6, <1>7, <1>8, <1>9, StepCases, StoreGetSequential,
     StorePutSequential, PublishSequential, OrphanSequential
  DEF vars, actorVars, history

\* An event that has raced has raced for good.
LEMMA RacedGrows == Types /\ [Next]_vars => raced \subseteq raced'
<1> SUFFICES ASSUME Types, [Next]_vars PROVE raced \subseteq raced'
  OBVIOUS
<1>1. CASE \E w \in Workers : Consume(w)
  BY <1>1 DEF Consume, history
<1>2. CASE \E c \in Callers : IssueCommands(c)
  BY <1>2 DEF IssueCommands, history
<1>3. CASE \E a \in Actors : StoreGet(a)
  BY <1>3, StoreGetTypes DEF Missed
<1>4. CASE \E a \in Actors : StorePut(a)
  BY <1>4, StorePutTypes
<1>5. CASE Orphan
  BY <1>5, OrphanTypes DEF Missed
<1> QED
  BY <1>1, <1>2, <1>3, <1>4, <1>5, StepCases, DeadLetterTypes, RewindTypes, CommitTypes,
     ReconnectTypes, CrashTypes, RespondTypes, CallTypes, InferTypes, TimeOutTypes,
     PublishTypes, RebalanceTypes DEF history, vars

\* README, "Known limits": the plan store "closes the sequential case
\* completely".  For any number of workers and callers, an event whose plan was
\* stored, and which no two requests were planning at once, never has commands
\* of two plans on the topic, whatever is retried, replayed, abandoned or moved.
THEOREM SequentialCaseClosed == Spec => []OnePlanUnlessRaced
<1> DEFINE Inv == Types /\ (\A a \in Actors : InOrder(a)) /\ SequentialPlans
<1>1. Init => Inv
  <2> SUFFICES ASSUME Init PROVE Inv
    OBVIOUS
  <2>1. \A a \in Actors : InOrder(a) /\ pc[a] = "idle"
    BY DEF Init, InOrder
  <2>2. SequentialPlans
    BY <2>1 DEF Init, SequentialPlans, Sequential, OnePlanner, ActorPlans, OrphanPlans,
       Planning, PublishesStored, IssuedFromStored
  <2> QED
    BY <2>1, <2>2, TypesInit
<1>2. Inv /\ [Next]_vars => Inv'
  <2> SUFFICES ASSUME Inv, [Next]_vars PROVE Inv'
    OBVIOUS
  <2>1. Types' /\ \A a \in Actors : InOrder(a)'
    BY TypesNext, InOrderNext
  <2>2. ASSUME NEW e \in Events \ raced' PROVE Sequential(e)'
    BY StepSequential, RacedGrows DEF SequentialPlans
  <2> QED
    BY <2>1, <2>2 DEF SequentialPlans
<1>3. Inv => OnePlanUnlessRaced
  <2> SUFFICES ASSUME Inv, NEW e \in Events \ raced
               PROVE  \E p \in Plans : \A c \in CommandsOf(e) :
                          /\ c.sequence <= Len(Commands(p))
                          /\ Commands(p)[c.sequence] = c.action
    BY DEF OnePlanUnlessRaced
  <2>1. IssuedFromStored(e)
    BY DEF SequentialPlans, Sequential
  <2>2. CASE CommandsOf(e) = {}
    BY <2>2, ClosureAssumption
  <2>3. CASE CommandsOf(e) # {}
    <3>1. store[e] \in Plans
      BY <2>1, <2>3 DEF IssuedFromStored, CommandsOf
    <3>2. Len(Commands(store[e])) \in Nat
      BY <3>1, CommandsType
    <3>3. ASSUME NEW c \in CommandsOf(e)
          PROVE  /\ c.sequence <= Len(Commands(store[e]))
                 /\ Commands(store[e])[c.sequence] = c.action
      BY <2>1, <3>2 DEF IssuedFromStored, CommandsOf
    <3> QED
      BY <3>1, <3>3
  <2> QED
    BY <2>2, <2>3
<1> QED
  BY <1>1, <1>2, <1>3, PTL DEF Spec

=============================================================================
