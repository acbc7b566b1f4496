---------------------------- MODULE IngestProofs ----------------------------
(***************************************************************************)
(* Proofs about the ingestion path, for any number of processes, workers,  *)
(* partitions and channels, any topic, and any bound on failures: its      *)
(* types; and, under the conditions stated with the theorems, that the     *)
(* alarm state machine believes what it got acknowledged, that no          *)
(* committed message vanishes, that the twin misses no committed reading,  *)
(* and that the published alarm, its hash and the state machine agree.     *)
(***************************************************************************)
EXTENDS Ingest, TLAPS

\* Where a worker can be in the pipeline.
Labels == {"idle", "admit", "apply", "evaluate", "mark", "emit", "rollback", "release",
           "dead", "commit", "stopped"}

\* A worker between FetchMessage and the end of CommitMessages.
Busy(w) == pc[w] \notin {"idle", "stopped"}

\* A worker that has validated its message.
Validated(w) == pc[w] \in {"apply", "evaluate", "mark", "emit", "rollback", "release", "dead"}

\* What a mutation and an acknowledgement say of a channel.
Alarms == [state: {"NORMAL", "ANOMALOUS"}, severity: Severities]

\* TypeOK with what it leaves open: the log, the control state, and what the
\* code relies on where it uses a message.
Types ==
    /\ TypeOK
    /\ log \in Logs
    /\ position \in [Partitions -> Nat] /\ committed \in [Partitions -> Nat]
    /\ pc \in [Workers -> Labels]
    /\ \A w \in Workers : Busy(w) => cur[w] \in Ids
    /\ \A w \in Workers : Validated(w) => Msg(cur[w]).val # Malformed
    /\ DOMAIN cur = Workers
    /\ acked \in [Procs -> [Channels -> Alarms]]
    /\ now \in Nat

\* What a step of worker w leaves of the others.
OthersKept(w) ==
    \A v \in Workers \ {w} : /\ pc'[v] = pc[v] /\ cur'[v] = cur[v]
                             /\ attempt'[v] = attempt[v] /\ undo'[v] = undo[v]
                             /\ kind'[v] = kind[v]

-----------------------------------------------------------------------------
(* Messages and entries *)

\* An id names a message of its partition.
LEMMA IdsDef ==
    ASSUME Types, NEW m
    PROVE  m \in Ids <=> \E p \in Partitions : \E o \in 1..Len(log[p]) : m = <<p, o>>
  BY DEF Ids

\* A message has a channel, a timestamp and a reading.
LEMMA MsgType ==
    ASSUME Types, NEW m \in Ids
    PROVE  /\ m[1] \in Partitions /\ m[2] \in 1..Len(log[m[1]]) /\ m[2] \in Nat \ {0}
           /\ m = <<m[1], m[2]>>
           /\ Len(log[m[1]]) \in Nat
           /\ Msg(m) \in Messages
           /\ Msg(m).ch \in Channels /\ Msg(m).ts \in Nat
           /\ Msg(m).val # Malformed => Msg(m).val \in Readings
<1>0. PICK p \in Partitions : \E o \in 1..Len(log[p]) : m = <<p, o>>
  BY IdsDef
<1>1. PICK o \in 1..Len(log[p]) : m = <<p, o>>
  BY <1>0
<1>2. log \in [Partitions -> Seq(Messages)]
  BY IngestAssumption DEF Types
<1>3. log[p] \in Seq(Messages)
  BY <1>2
<1>4. Len(log[p]) \in Nat /\ o \in Nat \ {0} /\ log[p][o] \in Messages
  BY <1>1, <1>3
<1>5. Msg(m) = log[p][o] /\ m[1] = p /\ m[2] = o
  BY <1>1 DEF Msg
<1> QED
  BY <1>1, <1>4, <1>5 DEF Messages

\* A log has a length.
LEMMA LogType ==
    ASSUME Types, NEW p \in Partitions
    PROVE  Len(log[p]) \in Nat
<1>1. log[p] \in Seq(Messages)
  BY IngestAssumption DEF Types
<1> QED
  BY <1>1

\* An undo token takes any entry and any number.
LEMMA UndoType ==
    ASSUME NEW e \in Entries, NEW b \in BOOLEAN, NEW n \in Nat
    PROVE  [previous |-> e, existed |-> b, sequence |-> n] \in Undos
  BY DEF Undos

\* The entry an Evaluate works on, and its token.
LEMMA EntryOfType ==
    ASSUME NEW e \in Entries \cup {Absent}
    PROVE  /\ EntryOf(e) \in Entries /\ EntryOf(e).sequence \in Nat
           /\ UndoOf(e) \in Undos
<1>1. EntryOf(e) \in Entries
  BY DEF EntryOf, NewEntry, Entries, Severities, Info, ZeroTime
<1>2. EntryOf(e).sequence \in Nat
  BY <1>1 DEF Entries
<1>3. (e # Absent) \in BOOLEAN /\ EntryOf(e).sequence + 1 \in Nat
  BY <1>2
<1> QED
  BY <1>1, <1>2, <1>3, UndoType DEF UndoOf

\* The transition of an Evaluate is one of the code's, or none.
LEMMA TransitionType ==
    ASSUME NEW st, NEW v, NEW t
    PROVE  TransitionOf(st, v, t) \in Kinds \cup {NoKind}
  BY DEF TransitionOf, Kinds, NoKind

\* The entry an Evaluate leaves.
LEMMA EvaluatedType ==
    ASSUME NEW st \in Entries, NEW v \in Readings, NEW t \in Nat
    PROVE  /\ Evaluated(st, v, t) \in Entries
           /\ Evaluated(st, v, t).sequence = st.sequence + 1
           /\ Evaluated(st, v, t).lastSeen = t
<1>1. SeverityOf(v) \in Severities
  BY DEF SeverityOf, Severities
<1> QED
  BY <1>1 DEF Evaluated, Entries, Severities, ZeroTime

\* A rollback leaves an entry, or none.
LEMMA RolledBackType ==
    ASSUME NEW e \in Entries \cup {Absent}, NEW u \in Undos
    PROVE  RolledBack(e, u) \in Entries \cup {Absent}
  BY DEF RolledBack, Undos

-----------------------------------------------------------------------------
(* Types *)

\* What a step of worker w has to leave well typed of the workers.
LocalTypes(w) ==
    /\ pc' \in [Workers -> Labels] /\ DOMAIN cur' = Workers
    /\ attempt' \in [Workers -> 0..MaxAttempts]
    /\ undo' \in [Workers -> Undos] /\ kind' \in [Workers -> Kinds \cup {NoKind}]
    /\ OthersKept(w)
    /\ Busy(w)' => cur'[w] \in Ids
    /\ Validated(w)' => Msg(cur'[w]).val # Malformed

\* What any step has to leave well typed of the rest.
GlobalTypes ==
    /\ log' = log /\ owner' \in [Partitions -> Workers]
    /\ position' \in [Partitions -> Nat] /\ committed' \in [Partitions -> Nat]
    /\ \A p \in Partitions : /\ position'[p] \in 1..(Len(log[p]) + 1)
                             /\ committed'[p] \in 0..Len(log[p])
    /\ twin' \in [Channels -> [ts: Nat, val: Readings]]
    /\ alarm' \in [Channels -> Kinds \cup {NoKind}]
    /\ entries' \in [Procs -> [Channels -> Entries \cup {Absent}]]
    /\ handled' \subseteq Ids /\ dead' \subseteq Ids
    /\ acked' \in [Procs -> [Channels -> Alarms]]
    /\ now' \in Nat

\* A log that is kept keeps its ids and messages.
LEMMA SameLog ==
    ASSUME log' = log
    PROVE  Ids' = Ids /\ \A m : Msg(m)' = Msg(m)
  BY DEF Ids, Msg

\* The two together are the types after the step.
LEMMA TypesFromParts ==
    ASSUME Types, NEW w \in Workers, LocalTypes(w), GlobalTypes
    PROVE  Types'
<1>0. log' = log /\ Ids' = Ids /\ \A m : Msg(m)' = Msg(m)
  BY SameLog DEF GlobalTypes
<1>1. TypeOK'
  BY <1>0 DEF TypeOK, LocalTypes, GlobalTypes
<1>2. \A v \in Workers : Busy(v)' => cur'[v] \in Ids
  BY DEF Types, LocalTypes, OthersKept, Busy
<1>3. ASSUME NEW v \in Workers, Validated(v)' PROVE log'[cur'[v][1]][cur'[v][2]].val # Malformed
  <2>1. CASE v = w
    BY <1>0, <1>3, <2>1 DEF LocalTypes, Msg
  <2>2. CASE v # w
    <3>1. Validated(v) /\ cur'[v] = cur[v]
      BY <1>3, <2>2 DEF LocalTypes, OthersKept, Validated
    <3> QED
      BY <1>0, <3>1 DEF Types, Msg
  <2> QED
    BY <2>1, <2>2
<1> QED
  BY <1>0, <1>1, <1>2, <1>3 DEF Types, LocalTypes, GlobalTypes, Msg

\* What the types say before a step, for the cases to use.
LEMMA TypesNow ==
    ASSUME Types
    PROVE  /\ owner \in [Partitions -> Workers]
           /\ position \in [Partitions -> Nat] /\ committed \in [Partitions -> Nat]
           /\ \A p \in Partitions : /\ position[p] \in 1..(Len(log[p]) + 1)
                                    /\ committed[p] \in 0..Len(log[p])
           /\ twin \in [Channels -> [ts: Nat, val: Readings]]
           /\ alarm \in [Channels -> Kinds \cup {NoKind}]
           /\ entries \in [Procs -> [Channels -> Entries \cup {Absent}]]
           /\ attempt \in [Workers -> 0..MaxAttempts]
           /\ undo \in [Workers -> Undos] /\ kind \in [Workers -> Kinds \cup {NoKind}]
           /\ handled \subseteq Ids /\ dead \subseteq Ids
           /\ pc \in [Workers -> Labels] /\ DOMAIN cur = Workers
           /\ acked \in [Procs -> [Channels -> Alarms]] /\ now \in Nat
           /\ MaxAttempts \in Nat \ {0} /\ ProcOf \in [Workers -> Procs]
  BY IngestAssumption DEF Types, TypeOK

\* Nothing outside the workers changes.
LEMMA GlobalKept ==
    ASSUME Types, UNCHANGED <<log, owner, position, committed, twin, alarm, entries>>,
           UNCHANGED <<handled, dead, acked, now>>
    PROVE  GlobalTypes
  BY TypesNow DEF GlobalTypes

\* A worker that goes on with the message it has.
LEMMA LocalGoes ==
    ASSUME Types, NEW w \in Workers, Busy(w), NEW l \in Labels, Goto(w, l),
           UNCHANGED <<cur, attempt, undo, kind>>,
           l \in {"commit", "idle", "stopped", "admit"} \/ Msg(cur[w]).val # Malformed
    PROVE  LocalTypes(w) /\ pc'[w] = l
<1>1. pc' = [pc EXCEPT ![w] = l] /\ cur[w] \in Ids
  BY DEF Goto, Types
<1> QED
  BY <1>1, TypesNow DEF LocalTypes, OthersKept, Validated

\* withRetry and processWithRetry after an error.
LEMMA LocalErrs ==
    ASSUME Types, NEW w \in Workers, Validated(w) \/ pc[w] = "admit",
           Msg(cur[w]).val # Malformed, NEW gaveUp, AfterError(w, gaveUp),
           UNCHANGED <<cur, undo, kind>>
    PROVE  /\ LocalTypes(w) /\ pc'[w] \in {"commit", "dead", "admit"}
           /\ pc'[w] = "commit" => Stopping(w)
           /\ gaveUp = TRUE => pc'[w] # "admit"
<1>0. Busy(w) /\ cur[w] \in Ids
  BY DEF Validated, Busy, Types
<1>1. CASE Stopping(w)
  <2>1. Goto(w, "commit") /\ attempt' = attempt
    BY <1>1 DEF AfterError
  <2> QED
    BY <1>0, <1>1, <2>1, LocalGoes DEF Labels
<1>2. CASE ~Stopping(w) /\ (gaveUp \/ attempt[w] = MaxAttempts)
  <2>1. Goto(w, "dead") /\ attempt' = attempt
    BY <1>2 DEF AfterError
  <2> QED
    BY <1>0, <1>2, <2>1, LocalGoes DEF Labels
<1>3. CASE ~Stopping(w) /\ ~(gaveUp \/ attempt[w] = MaxAttempts)
  <2>1. pc' = [pc EXCEPT ![w] = "admit"] /\ attempt' = [attempt EXCEPT ![w] = @ + 1]
    BY <1>3 DEF AfterError, Goto
  <2>2. attempt[w] + 1 \in 0..MaxAttempts
    BY <1>3, TypesNow
  <2>3. attempt' \in [Workers -> 0..MaxAttempts]
    BY <2>1, <2>2, TypesNow
  <2>4. LocalTypes(w) /\ pc'[w] = "admit"
    BY <1>0, <2>1, <2>3, TypesNow DEF LocalTypes, OthersKept, Validated, Labels
  <2> QED
    BY <1>3, <2>4
<1> QED
  BY <1>1, <1>2, <1>3

\* FetchMessage keeps the types: the worker has the next message of a
\* partition it owns.
LEMMA FetchTypes ==
    ASSUME Types, NEW w \in Workers, Fetch(w)
    PROVE  /\ Types' /\ OthersKept(w) /\ pc[w] = "idle" /\ pc'[w] = "admit"
           /\ \E p \in Partitions : /\ owner[p] = w /\ cur'[w] = <<p, position[p]>>
                                    /\ <<p, position[p]>> \in Ids
                                    /\ position' = [position EXCEPT ![p] = @ + 1]
           /\ UNCHANGED <<log, owner, committed, redisVars, entries, stopping, history,
                          envVars, faults>>
<1>1. PICK p \in Partitions : /\ owner[p] = w /\ position[p] <= Len(log[p])
                              /\ cur' = [cur EXCEPT ![w] = <<p, position[p]>>]
                              /\ position' = [position EXCEPT ![p] = @ + 1]
  BY DEF Fetch
<1>2. /\ pc[w] = "idle" /\ pc' = [pc EXCEPT ![w] = "admit"]
      /\ attempt' = [attempt EXCEPT ![w] = 1]
      /\ UNCHANGED <<log, owner, committed, entries, undo, kind>>
      /\ UNCHANGED <<twin, alarm, handled, dead, acked, now>>
  BY DEF Fetch, Goto, redisVars, history, envVars
<1>3. Len(log[p]) \in Nat /\ position[p] \in 1..(Len(log[p]) + 1)
  BY LogType, TypesNow
<1>4. <<p, position[p]>> \in Ids
  BY <1>1, <1>3, IdsDef
<1>5. LocalTypes(w) /\ pc'[w] = "admit" /\ cur'[w] = <<p, position[p]>>
  BY <1>1, <1>2, <1>4, TypesNow DEF LocalTypes, OthersKept, Validated, Labels
<1>6. position' \in [Partitions -> Nat]
      /\ \A r \in Partitions : position'[r] \in 1..(Len(log[r]) + 1)
  BY <1>1, <1>3, TypesNow
<1>7. GlobalTypes
  BY <1>2, <1>6, TypesNow DEF GlobalTypes
<1> QED
  BY <1>1, <1>2, <1>4, <1>5, <1>7, TypesFromParts DEF Fetch, LocalTypes

\* Abandoning, rejecting and dead-lettering a message keep the types.
LEMMA EndTypes ==
    ASSUME Types, NEW w \in Workers, Abandon(w) \/ Reject(w) \/ DeadLetter(w)
    PROVE  /\ Types' /\ OthersKept(w) /\ cur' = cur /\ pc'[w] = "commit"
           /\ \/ Abandon(w) /\ pc[w] = "admit" /\ Stopping(w) /\ dead' = dead
              \/ /\ pc[w] \in {"admit", "dead"}
                 /\ \/ dead' = dead \cup {cur[w]}
                    \/ CallFails(w, "dlq") /\ dead' = dead
           /\ UNCHANGED <<kafkaVars, redisVars, entries, stopping, acked, view, handled,
                          envVars>>
<1>1. /\ UNCHANGED <<cur, attempt, undo, kind>> /\ Goto(w, "commit")
      /\ UNCHANGED <<log, owner, position, committed, entries>>
      /\ UNCHANGED <<twin, alarm, claims, stopping, handled, acked, view, now>>
      /\ UNCHANGED <<moves, crashes, shutdowns>>
  BY DEF Abandon, Reject, DeadLetter, kafkaVars, redisVars, history, envVars
<1>2. \/ Abandon(w) /\ pc[w] = "admit" /\ Stopping(w) /\ dead' = dead
      \/ /\ pc[w] \in {"admit", "dead"}
         /\ \/ dead' = dead \cup {cur[w]}
            \/ CallFails(w, "dlq") /\ dead' = dead
  BY DEF Abandon, Reject, DeadLetter, DeadLettered, history
<1>3. Busy(w) /\ cur[w] \in Ids
  BY <1>2 DEF Busy, Types
<1>4. LocalTypes(w) /\ pc'[w] = "commit"
  BY <1>1, <1>3, LocalGoes DEF Labels
<1>5. dead' \subseteq Ids
  BY <1>2, <1>3, TypesNow
<1>6. GlobalTypes
  BY <1>1, <1>5, TypesNow DEF GlobalTypes
<1> QED
  BY <1>1, <1>2, <1>4, <1>6, TypesFromParts DEF LocalTypes, kafkaVars, redisVars, envVars

\* Admit keeps the types: an admitted message is claimed, unless the filter is
\* down and open; a duplicate is done; any other error counts as an attempt.
LEMMA AdmitTypes ==
    ASSUME Types, NEW w \in Workers, Admit(w)
    PROVE  /\ Types' /\ OthersKept(w) /\ cur' = cur /\ pc[w] = "admit"
           /\ Msg(cur[w]).val # Malformed
           /\ \/ /\ pc'[w] = "commit" /\ Coordinate(cur[w]) \in claims /\ claims' = claims
              \/ /\ pc'[w] = "apply" /\ claims' \subseteq claims \cup {Coordinate(cur[w])}
              \/ /\ CallFails(w, "admit") /\ pc'[w] \in {"commit", "dead", "admit"}
                 /\ claims' \subseteq claims \cup {Coordinate(cur[w])}
                 /\ pc'[w] = "commit" => Stopping(w)
                 /\ FailOpen /\ ~Stopping(w) => pc'[w] = "dead"
           /\ UNCHANGED <<kafkaVars, twin, alarm, entries, stopping, undo, kind, history,
                          envVars>>
<1>1. /\ UNCHANGED <<cur, undo, kind>>
      /\ UNCHANGED <<log, owner, position, committed, entries>>
      /\ UNCHANGED <<twin, alarm, stopping, handled, dead, acked, view, now>>
      /\ UNCHANGED <<moves, crashes, shutdowns>>
      /\ pc[w] = "admit" /\ Msg(cur[w]).val # Malformed
  BY DEF Admit, kafkaVars, history, envVars
<1>2. GlobalTypes
  BY <1>1, GlobalKept
<1>3. CASE /\ claims' = claims \cup {Coordinate(cur[w])}
           /\ Goto(w, IF Coordinate(cur[w]) \in claims THEN "commit" ELSE "apply")
           /\ UNCHANGED <<attempt, deadline, faults>>
  <2>1. \E l \in {"commit", "apply"} : /\ Goto(w, l)
                                       /\ l = "commit" <=> Coordinate(cur[w]) \in claims
    BY <1>3
  <2>2. PICK l \in {"commit", "apply"} : /\ Goto(w, l)
                                         /\ l = "commit" <=> Coordinate(cur[w]) \in claims
    BY <2>1
  <2>3. LocalTypes(w) /\ pc'[w] = l
    BY <1>1, <1>3, <2>2, LocalGoes DEF Labels, Busy
  <2> QED
    BY <1>1, <1>2, <1>3, <2>2, <2>3, TypesFromParts
    DEF LocalTypes, kafkaVars, history, envVars
<1>4. CASE \E took, expired \in BOOLEAN :
            /\ CallFails(w, "admit")
            /\ claims' = IF took THEN claims \cup {Coordinate(cur[w])} ELSE claims
            /\ GivesUp(w, expired)
            /\ IF FailOpen /\ ~expired /\ ~Stopping(w)
               THEN Goto(w, "apply") /\ UNCHANGED attempt
               ELSE AfterError(w, expired)
  <2>1. PICK took, expired \in BOOLEAN :
            /\ CallFails(w, "admit")
            /\ claims' = IF took THEN claims \cup {Coordinate(cur[w])} ELSE claims
            /\ IF FailOpen /\ ~expired /\ ~Stopping(w)
               THEN Goto(w, "apply") /\ UNCHANGED attempt
               ELSE AfterError(w, expired)
    BY <1>4
  <2>2. claims' \subseteq claims \cup {Coordinate(cur[w])}
    BY <2>1
  <2>3. CASE FailOpen /\ ~expired /\ ~Stopping(w)
    <3>1. LocalTypes(w) /\ pc'[w] = "apply"
      BY <1>1, <2>1, <2>3, LocalGoes DEF Labels, Busy
    <3> QED
      BY <1>1, <1>2, <2>2, <3>1, TypesFromParts DEF LocalTypes, kafkaVars, history, envVars
  <2>4. CASE ~(FailOpen /\ ~expired /\ ~Stopping(w))
    <3>1. AfterError(w, expired)
      BY <2>1, <2>4
    <3>2. /\ LocalTypes(w) /\ pc'[w] \in {"commit", "dead", "admit"}
          /\ pc'[w] = "commit" => Stopping(w)
          /\ expired = TRUE => pc'[w] # "admit"
      BY <1>1, <3>1, LocalErrs
    <3>3. FailOpen /\ ~Stopping(w) => pc'[w] = "dead"
      BY <2>4, <3>2
    <3> QED
      BY <1>1, <1>2, <2>1, <2>2, <3>2, <3>3, TypesFromParts
      DEF LocalTypes, kafkaVars, history, envVars
  <2> QED
    BY <2>3, <2>4
<1> QED
  BY <1>3, <1>4 DEF Admit

\* The script writes a reading that is newer, and nothing else.
LEMMA TwinWithType ==
    ASSUME Types, NEW m \in Ids, Msg(m).val # Malformed
    PROVE  /\ TwinWith(m) \in [Channels -> [ts: Nat, val: Readings]]
           /\ \A c \in Channels : TwinWith(m)[c] # twin[c] => TwinWith(m)[c].ts > twin[c].ts
<1>1. /\ twin \in [Channels -> [ts: Nat, val: Readings]]
      /\ Msg(m).ch \in Channels /\ Msg(m).ts \in Nat /\ Msg(m).val \in Readings
  BY MsgType, TypesNow
<1> DEFINE new == [ts |-> Msg(m).ts, val |-> Msg(m).val]
<1>2. new \in [ts: Nat, val: Readings] /\ new.ts = Msg(m).ts
  BY <1>1
<1> HIDE DEF new
<1>3. CASE Newer(m)
  <2>1. TwinWith(m) = [twin EXCEPT ![Msg(m).ch] = new]
    BY <1>3 DEF TwinWith, new
  <2> QED
    BY <1>1, <1>2, <1>3, <2>1 DEF Newer
<1>4. CASE ~Newer(m)
  BY <1>1, <1>4 DEF TwinWith
<1> QED
  BY <1>3, <1>4

\* Apply keeps the types: a fresh reading of a governed channel is evaluated,
\* another is done, and an error releases the claim.
LEMMA ApplyTypes ==
    ASSUME Types, NEW w \in Workers, Apply(w)
    PROVE  /\ Types' /\ OthersKept(w) /\ cur' = cur /\ pc[w] = "apply"
           /\ twin' \in {twin, TwinWith(cur[w])}
           /\ \/ pc'[w] \in {"evaluate", "release"} /\ handled' = handled
              \/ pc'[w] = "commit" /\ handled' = handled \cup {cur[w]}
           /\ UNCHANGED <<kafkaVars, claims, alarm, entries, stopping, acked, view, dead,
                          envVars>>
<1>1. /\ UNCHANGED <<cur, attempt, undo, kind>>
      /\ UNCHANGED <<log, owner, position, committed, claims, entries>>
      /\ UNCHANGED <<alarm, stopping, dead, acked, view, now>>
      /\ UNCHANGED <<moves, crashes, shutdowns>>
      /\ pc[w] = "apply"
  BY DEF Apply, kafkaVars, envVars
<1>2. cur[w] \in Ids /\ Msg(cur[w]).val # Malformed /\ Busy(w)
  BY <1>1 DEF Types, Busy, Validated
<1>3. twin' \in {twin, TwinWith(cur[w])}
  BY DEF Apply
<1>4. \E l \in {"evaluate", "release", "commit"} :
        /\ Goto(w, l)
        /\ handled' = IF l = "commit" THEN handled \cup {cur[w]} ELSE handled
  BY DEF Apply
<1>5. PICK l \in {"evaluate", "release", "commit"} :
        /\ Goto(w, l)
        /\ handled' = IF l = "commit" THEN handled \cup {cur[w]} ELSE handled
  BY <1>4
<1>6. LocalTypes(w) /\ pc'[w] = l
  BY <1>1, <1>2, <1>5, LocalGoes DEF Labels
<1>7. handled' \subseteq Ids /\ twin' \in [Channels -> [ts: Nat, val: Readings]]
  BY <1>2, <1>3, <1>5, TwinWithType, TypesNow
<1>8. GlobalTypes
  BY <1>1, <1>7, TypesNow DEF GlobalTypes
<1> QED
  BY <1>1, <1>3, <1>5, <1>6, <1>8, TypesFromParts DEF LocalTypes, kafkaVars, envVars

\* Evaluate keeps the types; it changes the entry of one channel, whose token
\* it holds when it emits.
LEMMA EvaluateTypes ==
    ASSUME Types, NEW w \in Workers, Evaluate(w)
    PROVE  LET q == ProcOf[w]
               c == Msg(cur[w]).ch
               v == Msg(cur[w]).val
               t == TransitionOf(EntryOf(entries[q][c]), v, now)
           IN
           /\ Types' /\ OthersKept(w) /\ cur' = cur /\ pc[w] = "evaluate"
           /\ q \in Procs /\ c \in Channels /\ v \in Readings
           /\ entries' = [entries EXCEPT ![q][c] = Evaluated(EntryOf(@), v, now)]
           /\ undo'[w] = UndoOf(entries[q][c]) /\ kind'[w] = t
           /\ pc'[w] = IF t = NoKind THEN "commit" ELSE "mark"
           /\ handled' = IF t = NoKind THEN handled \cup {cur[w]} ELSE handled
           /\ UNCHANGED <<kafkaVars, redisVars, stopping, acked, view, dead, envVars>>
<1> DEFINE m == cur[w]
           q == ProcOf[w]
           c == Msg(m).ch
           v == Msg(m).val
           t == TransitionOf(EntryOf(entries[q][c]), v, now)
           l == IF t = NoKind THEN "commit" ELSE "mark"
<1>1. /\ pc[w] = "evaluate"
      /\ entries' = [entries EXCEPT ![q][c] = Evaluated(EntryOf(@), v, now)]
      /\ undo' = [undo EXCEPT ![w] = UndoOf(entries[q][c])]
      /\ kind' = [kind EXCEPT ![w] = t]
      /\ pc' = [pc EXCEPT ![w] = l]
      /\ handled' = IF t = NoKind THEN handled \cup {m} ELSE handled
      /\ UNCHANGED <<cur, attempt, log, owner, position, committed>>
      /\ UNCHANGED <<twin, alarm, claims, stopping, dead, acked, view, now>>
      /\ UNCHANGED <<moves, crashes, shutdowns>>
  BY DEF Evaluate, Goto, kafkaVars, redisVars, envVars
<1>2. /\ m \in Ids /\ v # Malformed /\ q \in Procs
      /\ entries[q] \in [Channels -> Entries \cup {Absent}]
  BY <1>1, TypesNow DEF Types, Busy, Validated
<1>3. c \in Channels /\ v \in Readings /\ entries[q][c] \in Entries \cup {Absent}
  BY <1>2, MsgType
<1>4. /\ UndoOf(entries[q][c]) \in Undos
      /\ Evaluated(EntryOf(entries[q][c]), v, now) \in Entries
      /\ t \in Kinds \cup {NoKind}
  BY <1>3, EntryOfType, EvaluatedType, TransitionType, TypesNow
<1>5. l \in {"commit", "mark"}
  OBVIOUS
<1> HIDE DEF m, q, c, v, t, l
<1>6. entries' \in [Procs -> [Channels -> Entries \cup {Absent}]]
  BY <1>1, <1>2, <1>3, <1>4, TypesNow
<1>7. handled' \subseteq Ids
  BY <1>1, <1>2, TypesNow
<1>8. GlobalTypes
  BY <1>1, <1>6, <1>7, TypesNow DEF GlobalTypes
<1>9. /\ pc' \in [Workers -> Labels] /\ pc'[w] = l
      /\ undo' \in [Workers -> Undos] /\ undo'[w] = UndoOf(entries[q][c])
      /\ kind' \in [Workers -> Kinds \cup {NoKind}] /\ kind'[w] = t
      /\ OthersKept(w)
  BY <1>1, <1>4, <1>5, TypesNow DEF Labels, OthersKept
<1>10. LocalTypes(w)
  BY <1>1, <1>2, <1>9, TypesNow DEF LocalTypes, m, v
<1>11. Types'
  BY <1>8, <1>10, TypesFromParts
<1> QED
  BY <1>1, <1>2, <1>3, <1>9, <1>11 DEF m, q, c, v, t, l, kafkaVars, redisVars, envVars

\* MarkAlarm keeps the types; an error ends in the rollback.
LEMMA MarkTypes ==
    ASSUME Types, NEW w \in Workers, Mark(w)
    PROVE  /\ Types' /\ OthersKept(w) /\ cur' = cur /\ pc[w] = "mark"
           /\ alarm' \in {alarm, Marked(w)} /\ undo' = undo /\ kind' = kind
           /\ \/ pc'[w] = "emit" /\ alarm' = Marked(w)
              \/ pc'[w] = "rollback"
           /\ UNCHANGED <<kafkaVars, claims, twin, entries, stopping, history, envVars>>
<1>1. /\ UNCHANGED <<cur, attempt, undo, kind>>
      /\ UNCHANGED <<log, owner, position, committed, claims, entries>>
      /\ UNCHANGED <<twin, stopping, dead, handled, acked, view, now>>
      /\ UNCHANGED <<moves, crashes, shutdowns>>
      /\ pc[w] = "mark"
  BY DEF Mark, kafkaVars, history, envVars
<1>2. /\ cur[w] \in Ids /\ Msg(cur[w]).val # Malformed /\ Busy(w)
      /\ kind[w] \in Kinds \cup {NoKind}
  BY <1>1, TypesNow DEF Types, Busy, Validated
<1>3. alarm' \in {alarm, Marked(w)}
  BY DEF Mark
<1>4. PICK l \in {"emit", "rollback"} : Goto(w, l) /\ (l = "emit" => alarm' = Marked(w))
  BY DEF Mark
<1>5. LocalTypes(w) /\ pc'[w] = l
  BY <1>1, <1>2, <1>4, LocalGoes DEF Labels
<1>6. alarm' \in [Channels -> Kinds \cup {NoKind}]
  BY <1>2, <1>3, TypesNow DEF Marked
<1>7. GlobalTypes
  BY <1>1, <1>6, TypesNow DEF GlobalTypes
<1> QED
  BY <1>1, <1>3, <1>4, <1>5, <1>7, TypesFromParts
  DEF LocalTypes, kafkaVars, history, envVars

\* The severity an acknowledged transition tells.
LEMMA AckedType ==
    ASSUME Types, NEW w \in Workers, cur[w] \in Ids
    PROVE  Acked(w) \in [Procs -> [Channels -> Alarms]]
<1> DEFINE q == ProcOf[w]
           c == Msg(cur[w]).ch
           v == Msg(cur[w]).val
           a == IF kind[w] \in {"RAISED", "ESCALATED"}
                THEN [state |-> "ANOMALOUS", severity |-> SeverityOf(v)]
                ELSE IF kind[w] = "CLEARED" THEN Calm ELSE acked[q][c]
<1>1. q \in Procs /\ c \in Channels /\ acked[q] \in [Channels -> Alarms]
  BY MsgType, TypesNow
<1>2. SeverityOf(v) \in Severities
  BY DEF SeverityOf, Severities
<1>3. a \in Alarms
  BY <1>1, <1>2 DEF Alarms, Calm, Severities
<1>4. Acked(w) = [acked EXCEPT ![q][c] = a]
  BY <1>1, TypesNow DEF Acked
<1> HIDE DEF a, q, c
<1> QED
  BY <1>1, <1>3, <1>4, TypesNow

\* The publish keeps the types; an error ends in the rollback.
LEMMA EmitTypes ==
    ASSUME Types, NEW w \in Workers, Emit(w)
    PROVE  /\ Types' /\ OthersKept(w) /\ cur' = cur /\ pc[w] = "emit"
           /\ undo' = undo /\ kind' = kind /\ view' \in {view, Shown(w)}
           /\ \/ /\ pc'[w] = "commit" /\ acked' = Acked(w) /\ view' = Shown(w)
                 /\ handled' = handled \cup {cur[w]}
              \/ pc'[w] = "rollback" /\ acked' = acked /\ handled' = handled
           /\ UNCHANGED <<kafkaVars, redisVars, entries, stopping, dead, envVars>>
<1>1. /\ UNCHANGED <<cur, attempt, undo, kind>>
      /\ UNCHANGED <<log, owner, position, committed, claims, entries>>
      /\ UNCHANGED <<twin, alarm, stopping, dead, now>>
      /\ UNCHANGED <<moves, crashes, shutdowns>>
      /\ pc[w] = "emit"
  BY DEF Emit, kafkaVars, redisVars, envVars
<1>2. cur[w] \in Ids /\ Msg(cur[w]).val # Malformed /\ Busy(w)
  BY <1>1, TypesNow DEF Types, Busy, Validated
<1>3. view' \in {view, Shown(w)}
  BY DEF Emit
<1>4. PICK l \in {"commit", "rollback"} :
        /\ Goto(w, l)
        /\ \/ l = "commit" /\ acked' = Acked(w) /\ handled' = handled \cup {cur[w]}
              /\ view' = Shown(w)
           \/ l = "rollback" /\ acked' = acked /\ handled' = handled
  BY DEF Emit
<1>5. LocalTypes(w) /\ pc'[w] = l
  BY <1>1, <1>2, <1>4, LocalGoes DEF Labels
<1>6. acked' \in [Procs -> [Channels -> Alarms]] /\ handled' \subseteq Ids
  BY <1>2, <1>4, AckedType, TypesNow
<1>7. GlobalTypes
  BY <1>1, <1>6, TypesNow DEF GlobalTypes
<1> QED
  BY <1>1, <1>3, <1>4, <1>5, <1>7, TypesFromParts
  DEF LocalTypes, kafkaVars, redisVars, envVars

\* The rollback keeps the types.
LEMMA RollbackTypes ==
    ASSUME Types, NEW w \in Workers, Rollback(w)
    PROVE  LET q == ProcOf[w]
               c == Msg(cur[w]).ch
           IN
           /\ Types' /\ OthersKept(w) /\ cur' = cur /\ pc[w] = "rollback"
           /\ pc'[w] = "release" /\ q \in Procs /\ c \in Channels
           /\ entries' = [entries EXCEPT ![q][c] = RolledBack(@, undo[w])]
           /\ UNCHANGED <<kafkaVars, redisVars, stopping, history, envVars>>
<1> DEFINE q == ProcOf[w]
           c == Msg(cur[w]).ch
<1>1. /\ UNCHANGED <<cur, attempt, undo, kind>>
      /\ UNCHANGED <<log, owner, position, committed, claims, acked, view>>
      /\ UNCHANGED <<twin, alarm, stopping, dead, handled, now>>
      /\ UNCHANGED <<moves, crashes, shutdowns>>
      /\ pc[w] = "rollback" /\ Goto(w, "release")
      /\ entries' = [entries EXCEPT ![q][c] = RolledBack(@, undo[w])]
  BY DEF Rollback, kafkaVars, redisVars, history, envVars
<1>2. cur[w] \in Ids /\ Msg(cur[w]).val # Malformed /\ Busy(w)
  BY <1>1, TypesNow DEF Types, Busy, Validated
<1>3. /\ c \in Channels /\ q \in Procs
      /\ entries[q] \in [Channels -> Entries \cup {Absent}] /\ undo[w] \in Undos
  BY <1>2, MsgType, TypesNow
<1>4. RolledBack(entries[q][c], undo[w]) \in Entries \cup {Absent}
  BY <1>3, RolledBackType
<1>5. LocalTypes(w) /\ pc'[w] = "release"
  BY <1>1, <1>2, LocalGoes DEF Labels
<1> HIDE DEF q, c
<1>6. entries' \in [Procs -> [Channels -> Entries \cup {Absent}]]
  BY <1>1, <1>3, <1>4, TypesNow
<1>7. GlobalTypes
  BY <1>1, <1>6, TypesNow DEF GlobalTypes
<1>8. Types'
  BY <1>5, <1>7, TypesFromParts
<1> QED
  BY <1>1, <1>3, <1>5, <1>8 DEF LocalTypes, kafkaVars, redisVars, history, envVars, q, c

\* The release keeps the types: the claim is gone, unless the call failed, and
\* the attempt counts.
LEMMA ReleaseTypes ==
    ASSUME Types, NEW w \in Workers, Release(w)
    PROVE  /\ Types' /\ OthersKept(w) /\ cur' = cur /\ pc[w] = "release"
           /\ pc'[w] \in {"commit", "dead", "admit"} /\ (pc'[w] = "commit" => Stopping(w))
           /\ \/ claims' = claims \ {Coordinate(cur[w])}
              \/ CallFails(w, "release") /\ claims' = claims
           /\ UNCHANGED <<kafkaVars, twin, alarm, entries, stopping, undo, kind, history,
                          envVars>>
<1>1. /\ UNCHANGED <<cur, undo, kind>>
      /\ UNCHANGED <<log, owner, position, committed, entries>>
      /\ UNCHANGED <<twin, alarm, stopping, handled, dead, acked, view, now>>
      /\ UNCHANGED <<moves, crashes, shutdowns>>
      /\ pc[w] = "release" /\ AfterError(w, deadline[w])
      /\ \/ claims' = claims \ {Coordinate(cur[w])}
         \/ CallFails(w, "release") /\ claims' = claims
  BY DEF Release, kafkaVars, history, envVars
<1>2. GlobalTypes
  BY <1>1, GlobalKept
<1>3. Validated(w) /\ Msg(cur[w]).val # Malformed
  BY <1>1 DEF Types, Validated
<1>4. LocalTypes(w) /\ pc'[w] \in {"commit", "dead", "admit"} /\ (pc'[w] = "commit" => Stopping(w))
  BY <1>1, <1>3, LocalErrs
<1> QED
  BY <1>1, <1>2, <1>4, TypesFromParts DEF LocalTypes, kafkaVars, history, envVars

\* CommitMessages keeps the types; only a cancelled context ends the worker.
LEMMA CommitTypes ==
    ASSUME Types, NEW w \in Workers, Commit(w)
    PROVE  /\ Types' /\ OthersKept(w) /\ cur' = cur /\ pc[w] = "commit"
           /\ pc'[w] = "idle" \/ (pc'[w] = "stopped" /\ Stopping(w))
           /\ \/ committed' = [committed EXCEPT ![cur[w][1]] = cur[w][2]]
              \/ committed' = committed
           /\ UNCHANGED <<log, owner, position, redisVars, entries, stopping, undo, kind,
                          history, envVars>>
<1>1. /\ UNCHANGED <<cur, attempt, undo, kind>>
      /\ UNCHANGED <<log, owner, position, claims, entries>>
      /\ UNCHANGED <<twin, alarm, stopping, handled, dead, acked, view, now>>
      /\ UNCHANGED <<moves, crashes, shutdowns>>
      /\ pc[w] = "commit"
      /\ \/ committed' = [committed EXCEPT ![cur[w][1]] = cur[w][2]]
         \/ committed' = committed
  BY DEF Commit, redisVars, history, envVars
<1>2. PICK l \in {"idle", "stopped"} : Goto(w, l) /\ (l = "stopped" => Stopping(w))
  BY DEF Commit
<1>3. Busy(w) /\ cur[w] \in Ids
  BY <1>1 DEF Types, Busy
<1>4. LocalTypes(w) /\ pc'[w] = l
  BY <1>1, <1>2, <1>3, LocalGoes DEF Labels
<1>5. /\ committed' \in [Partitions -> Nat]
      /\ \A p \in Partitions : committed'[p] \in 0..Len(log[p])
  <2>1. /\ cur[w][1] \in Partitions /\ cur[w][2] \in Nat
        /\ cur[w][2] \in 1..Len(log[cur[w][1]]) /\ Len(log[cur[w][1]]) \in Nat
    BY <1>3, MsgType
  <2>2. cur[w][2] \in 0..Len(log[cur[w][1]])
    BY <2>1
  <2> QED
    BY <1>1, <2>1, <2>2, TypesNow
<1>6. GlobalTypes
  BY <1>1, <1>5, TypesNow DEF GlobalTypes
<1> QED
  BY <1>1, <1>2, <1>4, <1>6, TypesFromParts DEF LocalTypes, redisVars, history, envVars

\* A step outside the workers keeps the types when the rest is well typed.
LEMMA EnvironmentTypes ==
    ASSUME Types, GlobalTypes, UNCHANGED <<cur, attempt, undo, kind>>,
           pc' \in [Workers -> Labels],
           \A w \in Workers : pc'[w] \in {pc[w], "idle"}
    PROVE  Types'
<1>0. log' = log /\ Ids' = Ids /\ \A m : Msg(m)' = Msg(m)
  BY SameLog DEF GlobalTypes
<1>1. TypeOK'
  BY <1>0, TypesNow DEF TypeOK, GlobalTypes
<1>2. \A w \in Workers : Busy(w)' => cur'[w] \in Ids
  BY DEF Types, Busy
<1>3. ASSUME NEW w \in Workers, Validated(w)' PROVE log'[cur'[w][1]][cur'[w][2]].val # Malformed
  <2>1. Validated(w) /\ cur'[w] = cur[w]
    BY <1>3 DEF Validated
  <2> QED
    BY <1>0, <2>1 DEF Types, Msg
<1> QED
  BY <1>0, <1>1, <1>2, <1>3, TypesNow DEF Types, GlobalTypes, Msg

\* A rebalance keeps the types.
LEMMA RebalanceTypes ==
    ASSUME Types, NEW p \in Partitions, Rebalance(p)
    PROVE  /\ Types' /\ moves < MaxMoves /\ moves' = moves + 1
           /\ position' = [position EXCEPT ![p] = committed[p] + 1]
           /\ UNCHANGED <<log, committed, redisVars, entries, stopping, workerVars, history,
                          now, crashes, shutdowns, faults>>
<1>1. /\ UNCHANGED <<log, committed, twin, alarm, entries>>
      /\ UNCHANGED <<handled, dead, acked, now, pc, cur, attempt, undo, kind>>
      /\ position' = [position EXCEPT ![p] = committed[p] + 1]
      /\ \E w \in Workers : owner' = [owner EXCEPT ![p] = w]
  BY DEF Rebalance, redisVars, workerVars, history
<1>2. committed[p] \in 0..Len(log[p]) /\ Len(log[p]) \in Nat
  BY LogType, TypesNow
<1>3. committed[p] + 1 \in 1..(Len(log[p]) + 1) /\ committed[p] + 1 \in Nat
  BY <1>2
<1>4. GlobalTypes
  BY <1>1, <1>3, TypesNow DEF GlobalTypes
<1> QED
  BY <1>1, <1>4, EnvironmentTypes, TypesNow DEF Rebalance

\* A new process keeps the types.
LEMMA RebornTypes ==
    ASSUME Types, NEW q \in Procs, Reborn(q)
    PROVE  /\ Types'
           /\ entries' = [entries EXCEPT ![q] = [c \in Channels |-> Absent]]
           /\ acked' = [acked EXCEPT ![q] = [c \in Channels |-> Calm]]
           /\ \A w \in Workers : pc'[w] = IF ProcOf[w] = q THEN "idle" ELSE pc[w]
           /\ \A p \in Partitions : position'[p] = IF ProcOf[owner[p]] = q
                                                   THEN committed[p] + 1 ELSE position[p]
           /\ stopping' \subseteq stopping
           /\ UNCHANGED <<log, owner, committed, twin, alarm, cur, attempt, undo, kind,
                          view, handled, dead, now, moves, faults>>
<1>1. /\ UNCHANGED <<log, owner, committed, twin, alarm>>
      /\ UNCHANGED <<handled, dead, now, cur, attempt, undo, kind>>
      /\ entries' = [entries EXCEPT ![q] = [c \in Channels |-> Absent]]
      /\ acked' = [acked EXCEPT ![q] = [c \in Channels |-> Calm]]
      /\ pc' = [w \in Workers |-> IF ProcOf[w] = q THEN "idle" ELSE pc[w]]
      /\ position' = [p \in Partitions |-> IF ProcOf[owner[p]] = q
                                           THEN committed[p] + 1 ELSE position[p]]
      /\ stopping' = stopping \ {q}
  BY DEF Reborn
<1>2. [c \in Channels |-> Absent] \in [Channels -> Entries \cup {Absent}]
  OBVIOUS
<1>3. Calm \in Alarms
  BY DEF Calm, Alarms, Severities
<1>4. /\ entries' \in [Procs -> [Channels -> Entries \cup {Absent}]]
      /\ acked' \in [Procs -> [Channels -> Alarms]]
  BY <1>1, <1>2, <1>3, TypesNow
<1>5. \A p \in Partitions : committed[p] + 1 \in 1..(Len(log[p]) + 1) /\ committed[p] + 1 \in Nat
  BY LogType, TypesNow
<1>6. /\ position' \in [Partitions -> Nat]
      /\ \A p \in Partitions : position'[p] \in 1..(Len(log[p]) + 1)
  BY <1>1, <1>5, TypesNow
<1>7. GlobalTypes
  BY <1>1, <1>4, <1>6, TypesNow DEF GlobalTypes
<1>8. pc' \in [Workers -> Labels] /\ \A w \in Workers : pc'[w] \in {pc[w], "idle"}
  BY <1>1, TypesNow DEF Labels
<1> QED
  BY <1>1, <1>7, <1>8, EnvironmentTypes DEF Reborn

\* A cancelled context, an expiring claim, the janitor and the clock keep the
\* types.
LEMMA OtherTypes ==
    ASSUME Types, \/ \E q \in Procs : Shutdown(q)
                  \/ ClaimExpires
                  \/ \E q \in Procs, c \in Channels : Prune(q, c)
                  \/ Tick
    PROVE  /\ Types'
           /\ UNCHANGED <<kafkaVars, twin, alarm, workerVars, history, moves, crashes>>
<1>1. /\ UNCHANGED <<log, owner, position, committed, twin, alarm, acked>>
      /\ UNCHANGED <<handled, dead, view, pc, cur, attempt, undo, kind>>
      /\ UNCHANGED <<kafkaVars, twin, alarm, workerVars, history, moves, crashes>>
  BY DEF Shutdown, ClaimExpires, Prune, Tick, kafkaVars, redisVars, workerVars, history, envVars
<1>2. now' \in Nat
  BY TypesNow DEF Shutdown, ClaimExpires, Prune, Tick, envVars
<1>3. entries' \in [Procs -> [Channels -> Entries \cup {Absent}]]
  <2>1. CASE entries' = entries
    BY <2>1, TypesNow
  <2>2. ASSUME NEW q \in Procs, NEW c \in Channels,
               entries' = [entries EXCEPT ![q][c] = Absent]
        PROVE  entries' \in [Procs -> [Channels -> Entries \cup {Absent}]]
    BY <2>2, TypesNow
  <2> QED
    BY <2>1, <2>2 DEF Shutdown, ClaimExpires, Prune, Tick
<1>4. GlobalTypes
  BY <1>1, <1>2, <1>3, TypesNow DEF GlobalTypes
<1> QED
  BY <1>1, <1>4, EnvironmentTypes, TypesNow

\* The types hold at the start.
LEMMA TypesInit == Init => Types
<1> SUFFICES ASSUME Init PROVE Types
  OBVIOUS
<1>1. log \in [Partitions -> Seq(Messages)]
  BY IngestAssumption DEF Init
<1>2. \A p \in Partitions : Len(log[p]) \in Nat
  BY <1>1
<1>3. UndoOf(Absent) \in Undos
  BY EntryOfType
<1>4. Calm \in Alarms /\ NoReading \in [ts: Nat, val: Readings]
  BY DEF Calm, Alarms, Severities, NoReading, Readings
<1>5. TypeOK
  BY <1>2, <1>3, <1>4, IngestAssumption DEF Init, TypeOK
<1> QED
  BY <1>4, <1>5 DEF Init, Types, Labels, Busy, Validated

\* Every step keeps the types.
LEMMA TypesNext == Types /\ [Next]_vars => Types'
<1> SUFFICES ASSUME Types, [Next]_vars PROVE Types'
  OBVIOUS
<1>1. CASE UNCHANGED vars
  <2>1. /\ UNCHANGED <<log, owner, position, committed, twin, alarm, entries>>
        /\ UNCHANGED <<handled, dead, acked, now, pc, cur, attempt, undo, kind>>
    BY <1>1 DEF vars, kafkaVars, redisVars, workerVars, history, envVars
  <2> QED
    BY <2>1, GlobalKept, EnvironmentTypes, TypesNow
<1>2. ASSUME NEW w \in Workers, Work(w) PROVE Types'
  BY <1>2, FetchTypes, EndTypes, AdmitTypes, ApplyTypes, EvaluateTypes, MarkTypes,
     EmitTypes, RollbackTypes, ReleaseTypes, CommitTypes DEF Work
<1>3. ASSUME NEW q \in Procs, Crash(q) \/ Restart(q) PROVE Types'
  BY <1>3, RebornTypes DEF Crash, Restart
<1> QED
  BY <1>1, <1>2, <1>3, RebalanceTypes, OtherTypes DEF Next

\* Type correctness of the ingestion path.
THEOREM TypesAlways == Spec => []Types
<1> QED
  BY TypesInit, TypesNext, PTL DEF Spec

\* TypeOK of the specification, for any topic, processes, workers and bounds.
THEOREM TypeCorrect == Spec => []TypeOK
<1>1. Types => TypeOK
  BY DEF Types
<1> QED
  BY <1>1, TypesAlways, PTL

-----------------------------------------------------------------------------
(* What the state machine believes *)

\* README, quick start: "Telemetry must be keyed by asset", so all messages of
\* a channel are in one partition.
Keyed ==
    \A l \in Logs : \A p, r \in Partitions : \A i \in 1..Len(l[p]), j \in 1..Len(l[r]) :
        /\ l[p][i].val # Malformed /\ l[r][j].val # Malformed
        /\ l[p][i].ch = l[r][j].ch
        => p = r

\* A worker whose Evaluate is not yet settled.
Holds(w) == pc[w] \in {"mark", "emit", "rollback"}

\* The channel of the message a worker holds.
ChannelOf(w) == Msg(cur[w]).ch

\* The alarm an entry, or its absence, stands for.
Told(e) == [state |-> EntryOf(e).state, severity |-> EntryOf(e).severity]

\* A healthy channel has no severity left over.
Healthy(e) == e.state = "NORMAL" => e.severity = Info

\* Partitions do not move, and a worker's message is of a partition it owns.
OwnersStay == moves = 0 /\ \A w \in Workers : Busy(w) => owner[cur[w][1]] = w

\* A token in hand: the channel is as the Evaluate left it, the token restores
\* what was acknowledged, and an acknowledged emit would tell what is there.
TokenExact(w) ==
    LET q == ProcOf[w]
        c == ChannelOf(w)
        e == entries[q][c]
        u == undo[w]
    IN
    /\ e # Absent /\ e.sequence = u.sequence /\ e.lastSeen = now
    /\ u.existed = FALSE => u.previous = NewEntry
    /\ Healthy(u.previous) /\ acked[q][c] = Told(u.previous)
    /\ Acked(w)[q][c] = Told(e)

\* A channel without a token is as acknowledged.
Agreed(q, c) ==
    \/ \E w \in Workers : Holds(w) /\ ProcOf[w] = q /\ ChannelOf(w) = c
    \/ acked[q][c] = Told(entries[q][c])

\* The inductive invariant of TrackerMatchesAcked.
TrackerInv ==
    /\ OwnersStay
    /\ \A w \in Workers : Holds(w) => TokenExact(w)
    /\ \A q \in Procs, c \in Channels : /\ Healthy(EntryOf(entries[q][c]))
                                        /\ Agreed(q, c)

\* What Evaluate does to the alarm: absorbed and repeated readings keep it, a
\* raise or an escalation sets it to the reading's severity, a clear resets it.
LEMMA EvaluatedTold ==
    ASSUME NEW st \in Entries, NEW v \in Readings, NEW t \in Nat, Healthy(st)
    PROVE  LET k == TransitionOf(st, v, t)
               e == Evaluated(st, v, t)
           IN
           /\ k \in {NoKind, "SUSTAINED"} => e.state = st.state /\ e.severity = st.severity
           /\ k \in {"RAISED", "ESCALATED"} =>
                 e.state = "ANOMALOUS" /\ e.severity = SeverityOf(v)
           /\ k = "CLEARED" => e.state = "NORMAL" /\ e.severity = Info
           /\ Healthy(e)
<1>1. st.state \in {"NORMAL", "ANOMALOUS"} /\ st.severity \in {1, 2, 3} /\ ReAlert \in Nat
  BY ReAlertAssumption DEF Entries, Severities, Info, High, Critical
<1>2. CASE Breached(v)
  <2>1. SeverityOf(v) \in {2, 3}
    BY <1>2 DEF Breached, SeverityOf, High, Critical
  <2>2. /\ Evaluated(st, v, t).state = "ANOMALOUS"
        /\ Evaluated(st, v, t).severity = IF SeverityOf(v) > st.severity
                                          THEN SeverityOf(v) ELSE st.severity
    <3>1. TransitionOf(st, v, t) # "CLEARED"
      BY <1>2 DEF TransitionOf, NoKind
    <3> QED
      BY <1>2, <3>1 DEF Evaluated
  <2>3. TransitionOf(st, v, t) \in {NoKind, "SUSTAINED"} =>
           st.state = "ANOMALOUS" /\ ~(SeverityOf(v) > st.severity)
    BY <1>1, <1>2 DEF TransitionOf, NoKind
  <2>4. TransitionOf(st, v, t) \in {"RAISED", "ESCALATED"} => SeverityOf(v) > st.severity
    BY <1>1, <1>2, <2>1 DEF TransitionOf, NoKind, Healthy, Info
  <2>5. TransitionOf(st, v, t) # "CLEARED"
    BY <1>2 DEF TransitionOf, NoKind
  <2> QED
    BY <1>1, <2>1, <2>2, <2>3, <2>4, <2>5 DEF Healthy
<1>3. CASE ~Breached(v)
  <2>1. TransitionOf(st, v, t) = IF st.state = "ANOMALOUS" /\ v = "ok" THEN "CLEARED" ELSE NoKind
    BY <1>3 DEF TransitionOf
  <2>2. /\ Evaluated(st, v, t).state = IF TransitionOf(st, v, t) = "CLEARED"
                                       THEN "NORMAL" ELSE st.state
        /\ Evaluated(st, v, t).severity = IF TransitionOf(st, v, t) = "CLEARED"
                                          THEN Info ELSE st.severity
    BY <1>3 DEF Evaluated
  <2> QED
    BY <2>1, <2>2 DEF NoKind, Healthy
<1> QED
  BY <1>2, <1>3

\* One worker at a time is busy with a channel.
LEMMA OneOwner ==
    ASSUME Keyed, Types, OwnersStay, NEW v \in Workers, NEW w \in Workers,
           Validated(v), Validated(w), ChannelOf(v) = ChannelOf(w)
    PROVE  v = w
<1>1. /\ cur[v] \in Ids /\ cur[w] \in Ids /\ owner[cur[v][1]] = v /\ owner[cur[w][1]] = w
      /\ Msg(cur[v]).val # Malformed /\ Msg(cur[w]).val # Malformed /\ log \in Logs
  BY DEF Types, OwnersStay, Validated, Busy
<1>2. /\ cur[v][1] \in Partitions /\ cur[v][2] \in 1..Len(log[cur[v][1]])
      /\ cur[w][1] \in Partitions /\ cur[w][2] \in 1..Len(log[cur[w][1]])
  BY <1>1, MsgType
<1>3. cur[v][1] = cur[w][1]
  BY <1>1, <1>2 DEF Keyed, ChannelOf, Msg
<1> QED
  BY <1>1, <1>3
\* Acknowledging w's transition changes what is told of its channel only.
LEMMA AckedAt ==
    ASSUME Types, NEW w \in Workers, Holds(w) \/ pc[w] = "evaluate"
    PROVE  LET q == ProcOf[w]
               c == ChannelOf(w)
           IN
           /\ cur[w] \in Ids /\ q \in Procs /\ c \in Channels
           /\ Msg(cur[w]).val \in Readings
           /\ Acked(w)[q][c] = IF kind[w] \in {"RAISED", "ESCALATED"}
                               THEN [state |-> "ANOMALOUS",
                                     severity |-> SeverityOf(Msg(cur[w]).val)]
                               ELSE IF kind[w] = "CLEARED" THEN Calm ELSE acked[q][c]
           /\ \A p \in Procs, d \in Channels :
                 p # q \/ d # c => Acked(w)[p][d] = acked[p][d]
<1>1. /\ cur[w] \in Ids /\ Msg(cur[w]).val # Malformed /\ ProcOf[w] \in Procs
      /\ acked \in [Procs -> [Channels -> Alarms]]
  BY TypesNow DEF Types, Holds, Busy, Validated
<1>2. ChannelOf(w) \in Channels /\ Msg(cur[w]).val \in Readings
  BY <1>1, MsgType DEF ChannelOf
<1> DEFINE a == IF kind[w] \in {"RAISED", "ESCALATED"}
                THEN [state |-> "ANOMALOUS", severity |-> SeverityOf(Msg(cur[w]).val)]
                ELSE IF kind[w] = "CLEARED" THEN Calm ELSE acked[ProcOf[w]][ChannelOf(w)]
<1>3. Acked(w) = [acked EXCEPT ![ProcOf[w]][ChannelOf(w)] = a]
  BY <1>1, <1>2 DEF Acked, ChannelOf
<1> HIDE DEF a
<1>4. /\ Acked(w)[ProcOf[w]][ChannelOf(w)] = a
      /\ \A p \in Procs, d \in Channels :
            p # ProcOf[w] \/ d # ChannelOf(w) => Acked(w)[p][d] = acked[p][d]
  BY <1>1, <1>2, <1>3
<1> QED
  BY <1>1, <1>2, <1>4 DEF a

\* A token stays exact while its worker, its channel and the clock stay.
LEMMA TokenStays ==
    ASSUME Types, Types', NEW w \in Workers, Holds(w), TokenExact(w),
           pc'[w] \in {"mark", "emit", "rollback"},
           cur'[w] = cur[w], undo'[w] = undo[w], kind'[w] = kind[w],
           log' = log, now' = now,
           entries'[ProcOf[w]][ChannelOf(w)] = entries[ProcOf[w]][ChannelOf(w)],
           acked'[ProcOf[w]][ChannelOf(w)] = acked[ProcOf[w]][ChannelOf(w)]
    PROVE  TokenExact(w)'
<1> DEFINE q == ProcOf[w]
           c == ChannelOf(w)
<1>1. Msg(cur[w])' = Msg(cur[w]) /\ ChannelOf(w)' = c
  BY DEF Msg, ChannelOf
<1>2. Holds(w)'
  BY DEF Holds
<1>3. Acked(w)[q][c] = IF kind[w] \in {"RAISED", "ESCALATED"}
                       THEN [state |-> "ANOMALOUS", severity |-> SeverityOf(Msg(cur[w]).val)]
                       ELSE IF kind[w] = "CLEARED" THEN Calm ELSE acked[q][c]
  BY AckedAt
<1>4. (Acked(w)[q][ChannelOf(w)])' = IF kind'[w] \in {"RAISED", "ESCALATED"}
                       THEN [state |-> "ANOMALOUS", severity |-> SeverityOf(Msg(cur[w])'.val)]
                       ELSE IF kind'[w] = "CLEARED" THEN Calm ELSE acked'[q][c]
  <2> DEFINE a == IF kind'[w] \in {"RAISED", "ESCALATED"}
                  THEN [state |-> "ANOMALOUS", severity |-> SeverityOf(Msg(cur[w])'.val)]
                  ELSE IF kind'[w] = "CLEARED" THEN Calm ELSE acked'[q][c]
  <2>1. acked' \in [Procs -> [Channels -> Alarms]] /\ q \in Procs /\ c \in Channels
    BY AckedAt DEF Types
  <2>2. Acked(w)' = [acked' EXCEPT ![q][c] = a]
    BY <1>1, <2>1 DEF Acked, ChannelOf
  <2> HIDE DEF a
  <2>3. Acked(w)'[q][c] = a
    BY <2>1, <2>2
  <2> QED
    BY <1>1, <2>3 DEF a
<1>5. (Acked(w)[q][ChannelOf(w)])' = Acked(w)[q][c]
  BY <1>1, <1>3, <1>4
<1> QED
  BY <1>1, <1>5 DEF TokenExact

\* A step that touches no entry and no acknowledgement, takes no token and
\* drops none, leaves everything as believed.
LEMMA BeliefsKept ==
    ASSUME Types, Types', TrackerInv,
           log' = log, entries' = entries, acked' = acked, moves' = moves,
           now' = now \/ \A v \in Workers : ~Holds(v),
           \A v \in Workers : Busy(v)' => owner'[cur'[v][1]] = v,
           \A v \in Workers : Holds(v)' <=> Holds(v),
           \A v \in Workers : Holds(v) =>
               cur'[v] = cur[v] /\ undo'[v] = undo[v] /\ kind'[v] = kind[v]
    PROVE  TrackerInv'
<1>1. OwnersStay'
  BY DEF TrackerInv, OwnersStay
<1>2. ASSUME NEW v \in Workers, Holds(v)' PROVE TokenExact(v)'
  <2>1. Holds(v) /\ TokenExact(v) /\ now' = now
    BY <1>2 DEF TrackerInv
  <2> QED
    BY <1>2, <2>1, TokenStays DEF Holds
<1>3. ASSUME NEW q \in Procs, NEW c \in Channels PROVE Agreed(q, c)'
  <2>1. CASE acked[q][c] = Told(entries[q][c])
    BY <2>1 DEF Agreed, Told
  <2>2. CASE \E w \in Workers : Holds(w) /\ ProcOf[w] = q /\ ChannelOf(w) = c
    BY <2>2 DEF Agreed, ChannelOf, Msg
  <2> QED
    BY <2>1, <2>2, <1>3 DEF TrackerInv, Agreed
<1> QED
  BY <1>1, <1>2, <1>3 DEF TrackerInv, Healthy

\* A step of the one worker busy with a channel, on that channel.
LEMMA ChannelStep ==
    ASSUME Types, Types', Keyed, TrackerInv, NEW w \in Workers, Validated(w),
           Holds(w) \/ pc[w] = "evaluate",
           OthersKept(w), cur' = cur, log' = log, now' = now, owner' = owner, moves' = moves,
           \A p \in Procs, d \in Channels :
              p # ProcOf[w] \/ d # ChannelOf(w) =>
                 entries'[p][d] = entries[p][d] /\ acked'[p][d] = acked[p][d],
           Healthy(EntryOf(entries'[ProcOf[w]][ChannelOf(w)])),
           pc'[w] \in {"mark", "emit", "rollback"} => TokenExact(w)',
           pc'[w] \notin {"mark", "emit", "rollback"} =>
              acked'[ProcOf[w]][ChannelOf(w)] = Told(entries'[ProcOf[w]][ChannelOf(w)])
    PROVE  TrackerInv'
<1>0. \A v \in Workers : Msg(cur[v])' = Msg(cur[v]) /\ ChannelOf(v)' = ChannelOf(v)
  BY DEF Msg, ChannelOf
<1>1. OwnersStay'
  BY DEF TrackerInv, OwnersStay, OthersKept, Busy, Validated
<1>2. ASSUME NEW v \in Workers \ {w}, Holds(v)'
      PROVE  Holds(v) /\ TokenExact(v)' /\ ChannelOf(v) # ChannelOf(w)
  <2>1. Holds(v) /\ pc'[v] = pc[v]
    BY <1>2 DEF OthersKept, Holds
  <2>2. TokenExact(v)
    BY <2>1 DEF TrackerInv
  <2>3. ChannelOf(v) # ChannelOf(w)
    BY <2>1, OneOwner DEF TrackerInv, Holds, Validated
  <2>4. ProcOf[v] \in Procs /\ ChannelOf(v) \in Channels
    BY <2>1, AckedAt
  <2>5. /\ entries'[ProcOf[v]][ChannelOf(v)] = entries[ProcOf[v]][ChannelOf(v)]
        /\ acked'[ProcOf[v]][ChannelOf(v)] = acked[ProcOf[v]][ChannelOf(v)]
        /\ undo'[v] = undo[v] /\ kind'[v] = kind[v]
    BY <2>3, <2>4 DEF OthersKept
  <2>6. TokenExact(v)'
    BY <2>1, <2>2, <2>5, TokenStays DEF Holds
  <2> QED
    BY <2>1, <2>3, <2>6
<1>3. \A v \in Workers : Holds(v)' => TokenExact(v)'
  BY <1>2 DEF Holds
<1>4. ASSUME NEW q \in Procs, NEW c \in Channels
      PROVE  Healthy(EntryOf(entries'[q][c])) /\ Agreed(q, c)'
  <2>1. CASE q = ProcOf[w] /\ c = ChannelOf(w)
    BY <1>0, <2>1 DEF Agreed, Holds, Told
  <2>2. CASE q # ProcOf[w] \/ c # ChannelOf(w)
    <3>1. entries'[q][c] = entries[q][c] /\ acked'[q][c] = acked[q][c]
      BY <1>4, <2>2
    <3>2. Healthy(EntryOf(entries[q][c])) /\ Agreed(q, c)
      BY <1>4 DEF TrackerInv
    <3>3. CASE acked[q][c] = Told(entries[q][c])
      BY <3>1, <3>2, <3>3 DEF Agreed, Told
    <3>4. CASE \E v \in Workers : Holds(v) /\ ProcOf[v] = q /\ ChannelOf(v) = c
      <4>1. PICK v \in Workers : Holds(v) /\ ProcOf[v] = q /\ ChannelOf(v) = c
        BY <3>4
      <4>2. v # w /\ pc'[v] = pc[v]
        BY <2>2, <4>1 DEF OthersKept
      <4> QED
        BY <1>0, <3>1, <3>2, <4>1, <4>2 DEF Agreed, Holds
    <3> QED
      BY <3>2, <3>3, <3>4 DEF Agreed
  <2> QED
    BY <2>1, <2>2
<1>5. \A q \in Procs, c \in Channels : Healthy(EntryOf(entries[q][c]))'
  BY <1>4 DEF Healthy, EntryOf
<1> QED
  BY <1>1, <1>3, <1>4, <1>5 DEF TrackerInv
\* Evaluate: a reading that is absorbed leaves what was acknowledged; one that
\* emits leaves the token exact.
LEMMA EvaluateBelieved ==
    ASSUME Keyed, Types, TrackerInv, NEW w \in Workers, Evaluate(w)
    PROVE  TrackerInv'
<1> DEFINE m == cur[w]
           q == ProcOf[w]
           c == ChannelOf(w)
           v == Msg(cur[w]).val
           st == EntryOf(entries[q][c])
           t == TransitionOf(st, v, now)
           e == Evaluated(st, v, now)
<1>1. /\ Types' /\ OthersKept(w) /\ cur' = cur /\ pc[w] = "evaluate"
      /\ q \in Procs /\ c \in Channels /\ v \in Readings
      /\ entries' = [entries EXCEPT ![q][c] = Evaluated(EntryOf(@), v, now)]
      /\ undo'[w] = UndoOf(entries[q][c]) /\ kind'[w] = t
      /\ pc'[w] = IF t = NoKind THEN "commit" ELSE "mark"
      /\ UNCHANGED <<kafkaVars, redisVars, stopping, acked, view, dead, envVars>>
  BY EvaluateTypes DEF ChannelOf
<1>2. /\ log' = log /\ owner' = owner /\ acked' = acked /\ now' = now /\ moves' = moves
      /\ Validated(w) /\ now \in Nat /\ st.sequence \in Nat /\ st \in Entries
  BY <1>1, EntryOfType, TypesNow DEF kafkaVars, envVars, Validated
<1>3. Healthy(st) /\ Agreed(q, c)
  BY <1>1 DEF TrackerInv
<1>4. acked[q][c] = [state |-> st.state, severity |-> st.severity]
  <2>1. ASSUME NEW x \in Workers, Holds(x), ChannelOf(x) = c PROVE FALSE
    BY <1>1, <1>2, <2>1, OneOwner DEF Holds, Validated, TrackerInv
  <2> QED
    BY <1>3, <2>1 DEF Agreed, Told
<1>5. /\ t \in {NoKind, "SUSTAINED"} => e.state = st.state /\ e.severity = st.severity
      /\ t \in {"RAISED", "ESCALATED"} => e.state = "ANOMALOUS" /\ e.severity = SeverityOf(v)
      /\ t = "CLEARED" => e.state = "NORMAL" /\ e.severity = Info
      /\ Healthy(e)
  BY <1>1, <1>2, <1>3, EvaluatedTold
<1>6. e \in Entries /\ e.sequence = st.sequence + 1 /\ e.lastSeen = now /\ t \in Kinds \cup {NoKind}
  BY <1>1, <1>2, EvaluatedType, TransitionType
<1>7. /\ entries'[q][c] = e
      /\ \A p \in Procs, d \in Channels : p # q \/ d # c => entries'[p][d] = entries[p][d]
  <2>1. entries \in [Procs -> [Channels -> Entries \cup {Absent}]]
    BY TypesNow
  <2> HIDE DEF c, v, q
  <2> QED
    BY <1>1, <2>1
<1>8. e # Absent /\ EntryOf(e) = e /\ Told(e) = [state |-> e.state, severity |-> e.severity]
  BY <1>6, AbsentAssumption DEF EntryOf, Told
<1>9. ASSUME t # NoKind PROVE TokenExact(w)'
  <2>1. pc'[w] = "mark" /\ undo'[w] = UndoOf(entries[q][c]) /\ Holds(w)'
    BY <1>1, <1>9 DEF Holds
  <2>2. ChannelOf(w)' = c /\ Msg(cur[w])' = Msg(cur[w])
    BY <1>1, <1>2 DEF ChannelOf, Msg
  <2> DEFINE u == undo'[w]
  <2>3. /\ u.previous = st /\ u.sequence = st.sequence + 1
        /\ u.existed = FALSE => st = NewEntry
    <3>1. u.previous = st /\ u.sequence = st.sequence + 1
      BY <2>1 DEF UndoOf
    <3>2. u.existed = (entries[q][c] # Absent)
      BY <2>1 DEF UndoOf
    <3>3. u.existed = FALSE => entries[q][c] = Absent
      BY <3>2
    <3> QED
      BY <3>1, <3>3 DEF EntryOf
  <2>4. Told(u.previous) = acked'[q][c] /\ Healthy(u.previous)
    <3>1. EntryOf(st) = st
      BY <1>2, AbsentAssumption DEF EntryOf
    <3> QED
      BY <1>2, <1>3, <1>4, <2>3, <3>1 DEF Told
  <2> DEFINE a == IF kind'[w] \in {"RAISED", "ESCALATED"}
                  THEN [state |-> "ANOMALOUS", severity |-> SeverityOf(v)]
                  ELSE IF kind'[w] = "CLEARED" THEN Calm ELSE acked'[q][c]
  <2>5. a = Told(e)
    <3>1. CASE t = "SUSTAINED"
      BY <1>1, <1>2, <1>4, <1>5, <1>8, <3>1
    <3>2. CASE t \in {"RAISED", "ESCALATED"}
      BY <1>1, <1>5, <1>8, <3>2
    <3>3. CASE t = "CLEARED"
      BY <1>1, <1>5, <1>8, <3>3 DEF Calm
    <3> QED
      BY <1>6, <1>9, <3>1, <3>2, <3>3 DEF Kinds
  <2>6. Acked(w)'[q][c] = a
    <3>1. acked' \in [Procs -> [Channels -> Alarms]]
      BY <1>1 DEF Types
    <3>2. Acked(w)' = [acked' EXCEPT ![q][c] = a]
      BY <1>1, <2>2, <3>1 DEF Acked, ChannelOf
    <3> HIDE DEF a, q, c
    <3> QED
      BY <1>1, <3>1, <3>2
  <2> HIDE DEF a, e, st, t, u
  <2>7. /\ entries'[q][c] # Absent /\ entries'[q][c].sequence = u.sequence
        /\ entries'[q][c].lastSeen = now'
    BY <1>2, <1>6, <1>7, <1>8, <2>3
  <2>8. u.existed = FALSE => u.previous = NewEntry
    BY <2>3
  <2> QED
    BY <1>7, <2>2, <2>4, <2>5, <2>6, <2>7, <2>8 DEF TokenExact, u
<1>10. t = NoKind => acked'[q][c] = Told(entries'[q][c])
  BY <1>2, <1>4, <1>5, <1>7, <1>8
<1>11. Healthy(EntryOf(entries'[q][c]))
  BY <1>5, <1>7, <1>8
<1> HIDE DEF e, st, t
<1>12. pc'[w] \in {"mark", "emit", "rollback"} <=> t # NoKind
  BY <1>1
<1> QED
  BY <1>1, <1>2, <1>7, <1>9, <1>10, <1>11, <1>12, ChannelStep

\* The acknowledged publish: what was told is now acknowledged.
LEMMA EmitBelieved ==
    ASSUME Keyed, Types, TrackerInv, NEW w \in Workers, Emit(w)
    PROVE  TrackerInv'
<1>1. /\ Types' /\ OthersKept(w) /\ cur' = cur /\ pc[w] = "emit"
      /\ undo' = undo /\ kind' = kind /\ entries' = entries
      /\ log' = log /\ owner' = owner /\ now' = now /\ moves' = moves
      /\ Validated(w) /\ Holds(w) /\ Busy(w)
  BY EmitTypes DEF kafkaVars, envVars, Validated, Holds, Busy
<1>2. CASE pc'[w] = "rollback" /\ acked' = acked
  <2>1. \A v \in Workers : Holds(v)' <=> Holds(v)
    BY <1>1, <1>2 DEF OthersKept, Holds
  <2>2. \A v \in Workers : Busy(v)' => owner'[cur'[v][1]] = v
    BY <1>1 DEF OthersKept, Busy, TrackerInv, OwnersStay
  <2> QED
    BY <1>1, <1>2, <2>1, <2>2, BeliefsKept
<1>3. CASE pc'[w] = "commit" /\ acked' = Acked(w)
  <2>1. /\ Acked(w)[ProcOf[w]][ChannelOf(w)] = Told(entries[ProcOf[w]][ChannelOf(w)])
        /\ ProcOf[w] \in Procs /\ ChannelOf(w) \in Channels
        /\ Healthy(EntryOf(entries[ProcOf[w]][ChannelOf(w)]))
    BY <1>1, AckedAt DEF TrackerInv, TokenExact
  <2>2. \A p \in Procs, d \in Channels :
           p # ProcOf[w] \/ d # ChannelOf(w) => acked'[p][d] = acked[p][d]
    BY <1>1, <1>3, AckedAt
  <2> QED
    BY <1>1, <1>3, <2>1, <2>2, ChannelStep
<1> QED
  BY <1>2, <1>3, EmitTypes

\* The rollback: back to what was acknowledged.
LEMMA RollbackBelieved ==
    ASSUME Keyed, Types, TrackerInv, NEW w \in Workers, Rollback(w)
    PROVE  TrackerInv'
<1> DEFINE q == ProcOf[w]
           c == ChannelOf(w)
           u == undo[w]
<1>1. /\ Types' /\ OthersKept(w) /\ cur' = cur /\ pc[w] = "rollback" /\ pc'[w] = "release"
      /\ q \in Procs /\ c \in Channels
      /\ entries' = [entries EXCEPT ![q][c] = RolledBack(@, u)]
      /\ log' = log /\ owner' = owner /\ now' = now /\ moves' = moves /\ acked' = acked
      /\ Validated(w) /\ Holds(w)
  BY RollbackTypes DEF kafkaVars, history, envVars, Validated, Holds, ChannelOf
<1>2. /\ entries[q][c] # Absent /\ entries[q][c].sequence = u.sequence
      /\ u.existed = FALSE => u.previous = NewEntry
      /\ Healthy(u.previous) /\ acked[q][c] = Told(u.previous)
  BY <1>1 DEF TrackerInv, TokenExact
<1>3. u \in Undos /\ u.existed \in BOOLEAN /\ u.previous \in Entries
  BY TypesNow DEF Undos
<1>4. RolledBack(entries[q][c], u) = IF u.existed THEN u.previous ELSE Absent
  BY <1>2 DEF RolledBack, EntryOf
<1>5. EntryOf(RolledBack(entries[q][c], u)) = u.previous
  BY <1>2, <1>3, <1>4, AbsentAssumption DEF EntryOf
<1>6. EntryOf(u.previous) = u.previous
  BY <1>3, AbsentAssumption DEF EntryOf
<1>7. /\ entries'[q][c] = RolledBack(entries[q][c], u)
      /\ \A p \in Procs, d \in Channels : p # q \/ d # c => entries'[p][d] = entries[p][d]
  <2>1. entries \in [Procs -> [Channels -> Entries \cup {Absent}]]
    BY TypesNow
  <2> HIDE DEF q, c, u
  <2> QED
    BY <1>1, <2>1
<1>8. Healthy(EntryOf(entries'[q][c])) /\ acked'[q][c] = Told(entries'[q][c])
  BY <1>1, <1>2, <1>5, <1>6, <1>7 DEF Told
<1> QED
  BY <1>1, <1>7, <1>8, ChannelStep

\* The janitor: a channel it may drop is held by nobody and told as healthy.
LEMMA PruneBelieved ==
    ASSUME Types, Types', TrackerInv, NEW q \in Procs, NEW c \in Channels, Prune(q, c)
    PROVE  TrackerInv'
<1>1. /\ Prunable(entries[q][c], now, Idle)
      /\ entries' = [entries EXCEPT ![q][c] = Absent]
      /\ UNCHANGED <<log, owner, pc, cur, undo, kind, acked, now, moves>>
  BY DEF Prune, kafkaVars, workerVars, history, envVars
<1>2. entries \in [Procs -> [Channels -> Entries \cup {Absent}]] /\ now \in Nat /\ Idle \in Nat
  BY TypesNow, IngestAssumption
<1>3. /\ entries[q][c].state = "NORMAL" /\ entries[q][c] # Absent
      /\ entries[q][c].lastSeen # now
  BY <1>1, <1>2 DEF Prunable
<1>4. \A w \in Workers : Holds(w) => ProcOf[w] # q \/ ChannelOf(w) # c
  BY <1>3 DEF TrackerInv, TokenExact
<1>5. /\ entries'[q][c] = Absent
      /\ \A p \in Procs, d \in Channels : p # q \/ d # c => entries'[p][d] = entries[p][d]
  BY <1>1, <1>2
<1>6. \A w \in Workers : (Holds(w)' <=> Holds(w)) /\ ChannelOf(w)' = ChannelOf(w)
  BY <1>1 DEF Holds, ChannelOf, Msg
<1>7. ASSUME NEW w \in Workers, Holds(w)' PROVE TokenExact(w)'
  <2>1. Holds(w) /\ TokenExact(w) /\ ProcOf[w] \in Procs /\ ChannelOf(w) \in Channels
    BY <1>6, <1>7, AckedAt DEF TrackerInv
  <2>2. entries'[ProcOf[w]][ChannelOf(w)] = entries[ProcOf[w]][ChannelOf(w)]
    BY <1>4, <1>5, <2>1
  <2> QED
    BY <1>1, <1>7, <2>1, <2>2, TokenStays DEF Holds
<1>8. ASSUME NEW p \in Procs, NEW d \in Channels
      PROVE  Healthy(EntryOf(entries'[p][d])) /\ Agreed(p, d)'
  <2>1. Healthy(EntryOf(entries[p][d])) /\ Agreed(p, d)
    BY DEF TrackerInv
  <2>2. CASE p = q /\ d = c
    <3>1. acked[q][c] = Told(entries[q][c])
      BY <1>4, <2>1, <2>2 DEF Agreed
    <3>2. Told(entries[q][c]) = Told(Absent) /\ Healthy(EntryOf(Absent))
      BY <1>3, <2>1, <2>2 DEF Told, EntryOf, NewEntry, Healthy
    <3> QED
      BY <1>1, <1>5, <2>2, <3>1, <3>2 DEF Agreed, Told
  <2>3. CASE p # q \/ d # c
    BY <1>1, <1>5, <1>6, <2>1, <2>3 DEF Agreed, Told
  <2> QED
    BY <2>2, <2>3
<1>9. OwnersStay'
  BY <1>1 DEF TrackerInv, OwnersStay, Busy
<1>10. \A p \in Procs, d \in Channels : Healthy(EntryOf(entries[p][d]))'
  BY <1>8 DEF Healthy, EntryOf
<1> QED
  BY <1>7, <1>8, <1>9, <1>10 DEF TrackerInv

\* A new process: it believes nothing and was acknowledged nothing.
LEMMA RebornBelieved ==
    ASSUME Types, TrackerInv, NEW q \in Procs, Reborn(q)
    PROVE  TrackerInv'
<1>1. /\ Types'
      /\ entries' = [entries EXCEPT ![q] = [c \in Channels |-> Absent]]
      /\ acked' = [acked EXCEPT ![q] = [c \in Channels |-> Calm]]
      /\ \A w \in Workers : pc'[w] = IF ProcOf[w] = q THEN "idle" ELSE pc[w]
      /\ UNCHANGED <<log, owner, cur, undo, kind, now, moves>>
  BY RebornTypes
<1>2. /\ \A c \in Channels : entries'[q][c] = Absent /\ acked'[q][c] = Calm
      /\ \A p \in Procs \ {q} : entries'[p] = entries[p] /\ acked'[p] = acked[p]
  BY <1>1, TypesNow
<1>3. \A w \in Workers : /\ ChannelOf(w)' = ChannelOf(w)
                         /\ Holds(w)' <=> Holds(w) /\ ProcOf[w] # q
                         /\ Busy(w)' => Busy(w)
  BY <1>1 DEF Holds, Busy, ChannelOf, Msg
<1>4. ASSUME NEW w \in Workers, Holds(w)' PROVE TokenExact(w)'
  <2>1. Holds(w) /\ TokenExact(w) /\ ProcOf[w] \in Procs \ {q}
    BY <1>3, <1>4, AckedAt DEF TrackerInv
  <2>2. /\ entries'[ProcOf[w]] = entries[ProcOf[w]] /\ acked'[ProcOf[w]] = acked[ProcOf[w]]
    BY <1>2, <2>1
  <2> QED
    BY <1>1, <1>4, <2>1, <2>2, TokenStays DEF Holds
<1>5. ASSUME NEW p \in Procs, NEW d \in Channels
      PROVE  Healthy(EntryOf(entries'[p][d])) /\ Agreed(p, d)'
  <2>1. CASE p = q
    BY <1>2, <2>1 DEF Healthy, EntryOf, NewEntry, Agreed, Told, Calm
  <2>2. CASE p # q
    <3>1. Healthy(EntryOf(entries[p][d])) /\ Agreed(p, d)
      BY DEF TrackerInv
    <3> QED
      BY <1>2, <1>3, <2>2, <3>1 DEF Agreed, Told
  <2> QED
    BY <2>1, <2>2
<1>6. OwnersStay'
  BY <1>1, <1>3 DEF TrackerInv, OwnersStay
<1>7. \A p \in Procs, d \in Channels : Healthy(EntryOf(entries[p][d]))'
  BY <1>5 DEF Healthy, EntryOf
<1> QED
  BY <1>4, <1>5, <1>6, <1>7 DEF TrackerInv
\* The beliefs at the start.
LEMMA TrackerInit == Init => TrackerInv
<1> SUFFICES ASSUME Init PROVE TrackerInv
  OBVIOUS
<1>1. OwnersStay /\ \A w \in Workers : ~Holds(w)
  BY DEF Init, OwnersStay, Busy, Holds
<1>2. Healthy(EntryOf(Absent)) /\ Calm = Told(Absent)
  BY DEF Healthy, EntryOf, NewEntry, Calm, Told
<1> QED
  BY <1>1, <1>2 DEF Init, TrackerInv, Agreed

\* Every step keeps the beliefs, if telemetry is keyed and partitions stay.
LEMMA TrackerNext ==
    ASSUME MaxMoves = 0, Keyed
    PROVE  Types /\ TrackerInv /\ [Next]_vars => TrackerInv'
<1> SUFFICES ASSUME Types, TrackerInv, [Next]_vars PROVE TrackerInv'
  OBVIOUS
<1>0. Types'
  BY TypesNext
<1>1. CASE UNCHANGED vars
  <2>1. UNCHANGED <<log, owner, entries, acked, moves, now, pc, cur, undo, kind>>
    BY <1>1 DEF vars, kafkaVars, workerVars, history, envVars
  <2> QED
    BY <1>0, <2>1, BeliefsKept DEF TrackerInv, OwnersStay, Busy, Holds
<1>2. ASSUME NEW w \in Workers, Fetch(w) PROVE TrackerInv'
  <2>1. /\ OthersKept(w) /\ pc[w] = "idle" /\ pc'[w] = "admit"
        /\ \E p \in Partitions : owner[p] = w /\ cur'[w] = <<p, position[p]>>
        /\ UNCHANGED <<log, owner, entries, acked, moves, now>>
    BY <1>2, FetchTypes DEF history, envVars
  <2>2. \A v \in Workers : (Holds(v)' <=> Holds(v)) /\ (Holds(v) => v # w)
    BY <2>1 DEF OthersKept, Holds
  <2>3. \A v \in Workers : Busy(v)' => owner'[cur'[v][1]] = v
    BY <2>1 DEF OthersKept, Busy, TrackerInv, OwnersStay
  <2> QED
    BY <1>0, <2>1, <2>2, <2>3, BeliefsKept DEF OthersKept
<1>3. ASSUME NEW w \in Workers, Abandon(w) \/ Reject(w) \/ DeadLetter(w) \/ Admit(w)
                                \/ Apply(w) \/ Release(w) \/ Commit(w)
      PROVE  TrackerInv'
  <2>1. /\ OthersKept(w) /\ cur' = cur
        /\ pc[w] \in {"admit", "dead", "apply", "release", "commit"}
        /\ pc'[w] \notin {"mark", "emit", "rollback"}
        /\ UNCHANGED <<log, owner, entries, acked, moves, now>>
    BY <1>3, EndTypes, AdmitTypes, ApplyTypes, ReleaseTypes, CommitTypes
    DEF kafkaVars, history, envVars
  <2>2. \A v \in Workers : (Holds(v)' <=> Holds(v)) /\ (Holds(v) => v # w)
    BY <2>1 DEF OthersKept, Holds
  <2>3. \A v \in Workers : Busy(v)' => owner'[cur'[v][1]] = v
    BY <2>1 DEF OthersKept, Busy, TrackerInv, OwnersStay
  <2> QED
    BY <1>0, <2>1, <2>2, <2>3, BeliefsKept DEF OthersKept
<1>4. ASSUME NEW w \in Workers, Mark(w) PROVE TrackerInv'
  <2>1. /\ OthersKept(w) /\ cur' = cur /\ undo' = undo /\ kind' = kind
        /\ pc[w] = "mark" /\ pc'[w] \in {"emit", "rollback"}
        /\ UNCHANGED <<log, owner, entries, acked, moves, now>>
    BY <1>4, MarkTypes DEF kafkaVars, history, envVars
  <2>2. \A v \in Workers : Holds(v)' <=> Holds(v)
    BY <2>1 DEF OthersKept, Holds
  <2>3. \A v \in Workers : Busy(v)' => owner'[cur'[v][1]] = v
    BY <2>1 DEF OthersKept, Busy, TrackerInv, OwnersStay
  <2> QED
    BY <1>0, <2>1, <2>2, <2>3, BeliefsKept
<1>5. ASSUME NEW p \in Partitions, Rebalance(p) PROVE FALSE
  BY <1>5, RebalanceTypes DEF TrackerInv, OwnersStay
<1>6. ASSUME NEW q \in Procs, Crash(q) \/ Restart(q) PROVE TrackerInv'
  BY <1>6, RebornBelieved DEF Crash, Restart
<1>7. ASSUME NEW q \in Procs, Shutdown(q) PROVE TrackerInv'
  <2>1. UNCHANGED <<log, owner, entries, acked, moves, now, pc, cur, undo, kind>>
    BY <1>7 DEF Shutdown, kafkaVars, workerVars, history
  <2> QED
    BY <1>0, <2>1, BeliefsKept DEF TrackerInv, OwnersStay, Busy, Holds
<1>8. CASE ClaimExpires
  <2>1. UNCHANGED <<log, owner, entries, acked, moves, now, pc, cur, undo, kind>>
    BY <1>8 DEF ClaimExpires, kafkaVars, workerVars, history, envVars
  <2> QED
    BY <1>0, <2>1, BeliefsKept DEF TrackerInv, OwnersStay, Busy, Holds
<1>9. CASE Tick
  <2>1. /\ UNCHANGED <<log, owner, entries, acked, moves, pc, cur, undo, kind>>
        /\ \A w \in Workers : pc[w] = "idle"
    BY <1>9 DEF Tick, kafkaVars, workerVars, history
  <2> QED
    BY <1>0, <2>1, BeliefsKept DEF Busy, Holds
<1>10. ASSUME NEW w \in Workers, Work(w) PROVE TrackerInv'
  BY <1>2, <1>3, <1>4, <1>10, EvaluateBelieved, EmitBelieved, RollbackBelieved DEF Work
<1>11. ASSUME NEW q \in Procs, NEW c \in Channels, Prune(q, c) PROVE TrackerInv'
  BY <1>0, <1>11, PruneBelieved
<1> QED
  BY <1>1, <1>5, <1>6, <1>7, <1>8, <1>9, <1>10, <1>11 DEF Next

\* engine.go, step 3: "a transition is provisional until its mutation is
\* published".  For any processes, workers, topic, failures, crashes and
\* shutdowns, as long as an asset's telemetry is in one partition and
\* partitions do not move, the state machine of a process believes exactly the
\* alarms, at exactly the severities, it got acknowledged, on every channel
\* that is not between Evaluate and its publish or rollback.
THEOREM BelievesAcknowledged ==
    ASSUME MaxMoves = 0, Keyed
    PROVE  Spec => []TrackerMatchesAcked
<1>1. Types /\ TrackerInv => TrackerMatchesAcked
  <2> SUFFICES ASSUME TrackerInv, NEW q \in Procs, NEW c \in Channels, ~Provisional(q, c)
               PROVE  acked[q][c] = Told(entries[q][c])
    BY DEF TrackerMatchesAcked, Told
  <2> QED
    BY DEF TrackerInv, Agreed, Provisional, Holds, ChannelOf
<1> QED
  BY <1>1, TrackerInit, TrackerNext, TypesAlways, PTL DEF Spec

-----------------------------------------------------------------------------
(* No message vanishes *)

\* When nothing can be lost.  SIGTERM makes withRetry give up on a message that
\* RunWorker then commits; a failed dead-letter publish is swallowed; a release
\* that fails, or a claim taken by an Admit whose error counts as an attempt,
\* makes the next attempt a duplicate of nothing; and after a crash the same is
\* true of the claims of the dead process unless they have run out, and of
\* commits out of order when a partition has moved.
Lossless ==
    /\ MaxShutdowns = 0
    /\ "release" \notin Faulty /\ "dlq" \notin Faulty
    /\ FailOpen \/ "admit" \notin Faulty
    /\ MaxCrashes = 0 \/ (MaxMoves = 0 /\ SlowRejoin)

\* What the group is in the middle of, when partitions do not move: a busy
\* worker has the last message handed out of its partition, not yet committed.
InOrder ==
    /\ \A p \in Partitions : committed[p] < position[p]
    /\ \A w \in Workers : Busy(w) => /\ committed[cur[w][1]] < cur[w][2]
                                     /\ position[cur[w][1]] = cur[w][2] + 1

\* No context is cancelled, and what is excluded did not happen.
Steady ==
    /\ shutdowns = 0 /\ stopping = {}
    /\ MaxCrashes = 0 => crashes = 0
    /\ MaxMoves = 0 => OwnersStay /\ InOrder

\* A message the pipeline can process.
Good(m) == Msg(m).val # Malformed

\* Messages that are settled, in process, or not handed out yet.
Kept == {m \in Ids : \/ Settled(m)
                     \/ \E w \in Workers : InProcess(w) /\ cur[w] = m
                     \/ MaxMoves = 0 /\ position[m[1]] <= m[2]}

\* Messages that are kept, or another delivery of whose coordinate is.
Covered == {m \in Ids : \/ m \in Kept
                        \/ Good(m) /\ \E n \in Kept : /\ Good(n)
                                                      /\ Coordinate(n) = Coordinate(m)}

\* A claim that somebody took: its message is settled or past admission.
Active(c) == \E n \in Ids : /\ Good(n) /\ Coordinate(n) = c
                            /\ \/ Settled(n)
                               \/ \E w \in Workers : Validated(w) /\ cur[w] = n

\* The inductive invariant of NoSilentLoss.
LossInv ==
    /\ \A m \in Ids : m[2] < position[m[1]] => m \in Covered
    /\ \A m \in Ids : m[2] <= committed[m[1]] => m \in Covered
    /\ \A w \in Workers, m \in Ids :
          Busy(w) /\ m[1] = cur[w][1] /\ m[2] < cur[w][2] => m \in Covered
    /\ \A w \in Workers : pc[w] = "commit" => cur[w] \in Covered
    /\ \A c \in claims : Active(c)
\* Covered grows when nothing kept is uncovered.
LEMMA CoveredGrows ==
    ASSUME log' = log, Kept \subseteq Covered'
    PROVE  Covered \subseteq Covered'
<1>1. Ids' = Ids /\ \A m : Msg(m)' = Msg(m)
  BY SameLog
<1>2. \A m : (Good(m)' <=> Good(m)) /\ Coordinate(m)' = Coordinate(m)
  BY <1>1 DEF Good, Coordinate, Msg
<1> SUFFICES ASSUME NEW m \in Covered PROVE m \in Covered'
  OBVIOUS
<1>3. CASE m \in Kept
  BY <1>3
<1>4. CASE m \notin Kept
  <2>1. PICK n \in Kept : Good(m) /\ Good(n) /\ Coordinate(n) = Coordinate(m)
    BY <1>4 DEF Covered
  <2>2. n \in Covered' /\ m \in Ids'
    BY <1>1, <2>1 DEF Covered
  <2>3. PICK k \in Kept' : k = n \/ (Good(k)' /\ Coordinate(k)' = Coordinate(n)')
    BY <2>2 DEF Covered
  <2>4. Good(k)' /\ Good(m)' /\ Coordinate(k)' = Coordinate(m)'
    BY <1>2, <2>1, <2>3
  <2> QED
    BY <2>2, <2>3, <2>4 DEF Covered
<1> QED
  BY <1>3, <1>4

\* A claim stays active while its message is settled or past admission.
LEMMA ActiveStays ==
    ASSUME log' = log, NEW c, NEW n \in Ids, Good(n), Coordinate(n) = c,
           \/ n \in handled' \cup dead'
           \/ \E w \in Workers : Validated(w)' /\ cur'[w] = n
    PROVE  Active(c)'
<1>1. Ids' = Ids /\ Msg(n)' = Msg(n)
  BY SameLog
<1> QED
  BY <1>1 DEF Active, Good, Coordinate, Settled, Msg

\* The whole invariant survives a step that moves no offset and no worker.
LEMMA LossKept ==
    ASSUME LossInv, UNCHANGED <<log, position, committed, pc, cur, handled, dead>>,
           claims' \subseteq claims
    PROVE  LossInv'
<1>1. Ids' = Ids /\ \A m : Msg(m)' = Msg(m)
  BY SameLog
<1>2. Kept' = Kept
  BY <1>1 DEF Kept, Settled, InProcess
<1>3. Covered' = Covered
  BY <1>1, <1>2 DEF Covered, Good, Coordinate, Msg
<1>4. ASSUME NEW c \in claims' PROVE Active(c)'
  <2>1. PICK n \in Ids : /\ Good(n) /\ Coordinate(n) = c
                         /\ Settled(n) \/ \E w \in Workers : Validated(w) /\ cur[w] = n
    BY <1>4 DEF LossInv, Active
  <2> QED
    BY <2>1, ActiveStays DEF Settled, Validated
<1> QED
  BY <1>1, <1>3, <1>4 DEF LossInv, Busy

\* The environment stays steady in a step that leaves it and keeps the order.
LEMMA SteadyKept ==
    ASSUME Steady, UNCHANGED <<shutdowns, stopping, crashes, moves, owner>>,
           MaxMoves = 0 =>
              /\ InOrder'
              /\ \A w \in Workers : Busy(w)' => owner[cur'[w][1]] = w
    PROVE  Steady'
  BY DEF Steady, OwnersStay

\* The order of a partition: nothing fetched, nothing committed.
LEMMA OrderKept ==
    ASSUME InOrder, UNCHANGED <<position, committed>>,
           \A w \in Workers : Busy(w)' => Busy(w) /\ cur'[w] = cur[w]
    PROVE  InOrder'
  BY DEF InOrder

\* A step of a worker that is busy before and after with the same message,
\* neither fetches nor commits.
LEMMA WorkerKeepsSteady ==
    ASSUME Steady, NEW w \in Workers, OthersKept(w), cur' = cur, Busy(w),
           UNCHANGED <<shutdowns, stopping, crashes, moves, owner, position, committed>>
    PROVE  Steady'
<1>1. \A v \in Workers : Busy(v)' => Busy(v) /\ cur'[v] = cur[v]
  BY DEF OthersKept, Busy
<1>2. MaxMoves = 0 => /\ InOrder'
                      /\ \A v \in Workers : Busy(v)' => owner[cur'[v][1]] = v
  BY <1>1, OrderKept DEF Steady, OwnersStay
<1> QED
  BY <1>2, SteadyKept

\* A step of a busy worker on its message: what ends is settled or a duplicate
\* of what is not, what is claimed is in process, and what gives up a claim
\* without settling its message has released it.
LEMMA WorkerStep ==
    ASSUME Types, Types', LossInv, NEW w \in Workers, OthersKept(w), cur' = cur,
           UNCHANGED <<log, position, committed>>,
           Busy(w), Busy(w)', pc[w] # "commit",
           handled \subseteq handled', dead \subseteq dead',
           \/ pc'[w] # "commit"
           \/ cur[w] \in handled' \cup dead'
           \/ pc[w] = "admit" /\ Good(cur[w]) /\ Coordinate(cur[w]) \in claims,
           \/ claims' \subseteq claims
           \/ claims' \subseteq claims \cup {Coordinate(cur[w])} /\ Validated(w)',
           Validated(w) => \/ Validated(w)'
                           \/ cur[w] \in handled' \cup dead'
                           \/ Coordinate(cur[w]) \notin claims'
    PROVE  LossInv'
<1>1. Ids' = Ids /\ (\A m : Msg(m)' = Msg(m)) /\ cur[w] \in Ids
  BY SameLog DEF Types
<1>2. \A v \in Workers \ {w} : /\ Validated(v)' <=> Validated(v)
                               /\ InProcess(v)' <=> InProcess(v)
                               /\ Busy(v)' <=> Busy(v)
                               /\ pc'[v] = pc[v]
  BY DEF OthersKept, Validated, InProcess, Busy
<1>3. ASSUME NEW c \in claims' PROVE Active(c)'
  <2>1. CASE c \notin claims
    <3>1. c = Coordinate(cur[w]) /\ Validated(w)'
      BY <1>3, <2>1
    <3>2. Good(cur[w])
      BY <1>1, <3>1 DEF Types, Good, Msg
    <3> QED
      BY <1>1, <3>1, <3>2, ActiveStays
  <2>2. CASE c \in claims
    <3>1. PICK n \in Ids : /\ Good(n) /\ Coordinate(n) = c
                           /\ Settled(n) \/ \E v \in Workers : Validated(v) /\ cur[v] = n
      BY <2>2 DEF LossInv, Active
    <3>2. CASE Settled(n)
      BY <3>1, <3>2, ActiveStays DEF Settled
    <3>3. ASSUME NEW v \in Workers, Validated(v), cur[v] = n PROVE Active(c)'
      <4>1. CASE v # w
        BY <1>2, <3>1, <3>3, <4>1, ActiveStays
      <4>2. CASE v = w
        BY <1>3, <3>1, <3>3, <4>2, ActiveStays
      <4> QED
        BY <4>1, <4>2
    <3> QED
      BY <3>1, <3>2, <3>3
  <2> QED
    BY <2>1, <2>2
<1>4. Kept \subseteq Covered'
  <2> SUFFICES ASSUME NEW m \in Kept PROVE m \in Covered'
    OBVIOUS
  <2>1. m \in Ids'
    BY <1>1 DEF Kept
  <2>2. CASE Settled(m)
    BY <2>1, <2>2 DEF Covered, Kept, Settled
  <2>3. CASE MaxMoves = 0 /\ position[m[1]] <= m[2]
    BY <2>1, <2>3 DEF Covered, Kept
  <2>4. ASSUME NEW v \in Workers \ {w}, InProcess(v), cur[v] = m PROVE m \in Covered'
    BY <1>2, <2>1, <2>4 DEF Covered, Kept
  <2>5. CASE cur[w] = m /\ pc'[w] # "commit"
    <3>1. InProcess(w)'
      BY <2>5 DEF InProcess, Busy
    <3> QED
      BY <2>1, <2>5, <3>1 DEF Covered, Kept
  <2>6. CASE cur[w] = m /\ m \in handled' \cup dead'
    BY <2>1, <2>6 DEF Covered, Kept, Settled
  <2>7. CASE cur[w] = m /\ pc[w] = "admit" /\ Good(m) /\ Coordinate(m) \in claims
    <3>1. PICK n \in Ids : /\ Good(n) /\ Coordinate(n) = Coordinate(m)
                           /\ Settled(n) \/ \E v \in Workers : Validated(v) /\ cur[v] = n
      BY <2>7 DEF LossInv, Active
    <3>2. n \in Kept'
      <4>1. CASE Settled(n)
        BY <1>1, <4>1 DEF Kept, Settled
      <4>2. ASSUME NEW v \in Workers, Validated(v), cur[v] = n PROVE n \in Kept'
        <5>1. v # w /\ InProcess(v)
          BY <2>7, <4>2 DEF Validated, InProcess
        <5> QED
          BY <1>1, <1>2, <4>2, <5>1 DEF Kept
      <4> QED
        BY <3>1, <4>1, <4>2
    <3>3. Good(m)' /\ Good(n)' /\ Coordinate(n)' = Coordinate(m)'
      BY <1>1, <2>7, <3>1 DEF Good, Coordinate, Msg
    <3> QED
      BY <2>1, <3>2, <3>3 DEF Covered
  <2> QED
    BY <2>2, <2>3, <2>4, <2>5, <2>6, <2>7 DEF Kept
<1>5. Covered \subseteq Covered'
  BY <1>4, CoveredGrows
<1>6. cur[w] \in Kept
  BY <1>1 DEF Kept, InProcess, Busy
<1>7. ASSUME NEW v \in Workers, pc'[v] = "commit" PROVE cur'[v] \in Covered'
  <2>1. CASE v = w
    BY <1>4, <1>6, <2>1
  <2>2. CASE v # w
    BY <1>2, <1>5, <1>7, <2>2 DEF LossInv
  <2> QED
    BY <2>1, <2>2
<1>8. \A v \in Workers : Busy(v)' => Busy(v)
  BY <1>2
<1> QED
  BY <1>1, <1>3, <1>5, <1>7, <1>8 DEF LossInv
\* The calls that cannot fail here, and how Admit fails.
LEMMA LosslessCalls ==
    ASSUME Lossless, Steady, NEW w \in Workers
    PROVE  /\ ~Stopping(w) /\ ~CallFails(w, "release") /\ ~CallFails(w, "dlq")
           /\ CallFails(w, "admit") => FailOpen
  BY DEF Lossless, Steady, Stopping, CallFails

\* FetchMessage: the next message is in process.
LEMMA FetchLoses ==
    ASSUME Types, Steady, LossInv, NEW w \in Workers, Fetch(w)
    PROVE  Steady' /\ LossInv'
<1>1. /\ Types' /\ OthersKept(w) /\ pc[w] = "idle" /\ pc'[w] = "admit"
      /\ UNCHANGED <<log, owner, committed, claims, stopping, handled, dead, moves,
                     crashes, shutdowns>>
  BY FetchTypes DEF redisVars, history, envVars
<1>2. PICK p \in Partitions : /\ owner[p] = w /\ cur'[w] = <<p, position[p]>>
                              /\ <<p, position[p]>> \in Ids
                              /\ position' = [position EXCEPT ![p] = @ + 1]
  BY FetchTypes
<1>3. /\ position'[p] = position[p] + 1 /\ position[p] \in Nat
      /\ \A r \in Partitions \ {p} : position'[r] = position[r]
      /\ \A r \in Partitions : position[r] \in Nat /\ committed[r] \in Nat
  BY <1>2, TypesNow
<1>4. Ids' = Ids /\ \A m : Msg(m)' = Msg(m)
  BY <1>1, SameLog
<1>5. \A v \in Workers \ {w} : /\ Validated(v)' <=> Validated(v)
                               /\ InProcess(v)' <=> InProcess(v)
                               /\ Busy(v)' <=> Busy(v)
                               /\ pc'[v] = pc[v] /\ cur'[v] = cur[v]
  BY <1>1 DEF OthersKept, Validated, InProcess, Busy
<1>6. cur'[w] \in Kept'
  BY <1>1, <1>2, <1>4 DEF Kept, InProcess
<1>7. Kept \subseteq Kept'
  <2> SUFFICES ASSUME NEW m \in Kept PROVE m \in Kept'
    OBVIOUS
  <2>1. m \in Ids' /\ m[1] \in Partitions /\ m[2] \in Nat /\ m = <<m[1], m[2]>>
    BY <1>4, MsgType DEF Kept
  <2>2. CASE Settled(m)
    BY <1>1, <2>1, <2>2 DEF Kept, Settled
  <2>3. ASSUME NEW v \in Workers, InProcess(v), cur[v] = m PROVE m \in Kept'
    <3>1. v # w
      BY <1>1, <2>3 DEF InProcess
    <3> QED
      BY <1>5, <2>1, <2>3, <3>1 DEF Kept
  <2>4. CASE MaxMoves = 0 /\ position[m[1]] <= m[2]
    <3>1. CASE m[1] = p /\ m[2] = position[p]
      BY <1>2, <1>6, <2>1, <3>1
    <3>2. CASE m[1] # p \/ m[2] # position[p]
      <4>1. position'[m[1]] <= m[2]
        BY <1>3, <2>1, <2>4, <3>2
      <4> QED
        BY <2>1, <2>4, <4>1 DEF Kept
    <3> QED
      BY <3>1, <3>2
  <2> QED
    BY <2>2, <2>3, <2>4 DEF Kept
<1>8. Covered \subseteq Covered' /\ Kept' \subseteq Covered'
  <2>1. Kept' \subseteq Covered'
    BY DEF Covered, Kept
  <2> QED
    BY <1>1, <1>7, <2>1, CoveredGrows
<1>9. ASSUME NEW c \in claims' PROVE Active(c)'
  <2>1. PICK n \in Ids : /\ Good(n) /\ Coordinate(n) = c
                         /\ Settled(n) \/ \E v \in Workers : Validated(v) /\ cur[v] = n
    BY <1>1, <1>9 DEF LossInv, Active
  <2>2. Settled(n) \/ \E v \in Workers : Validated(v)' /\ cur'[v] = n
    BY <1>1, <1>5, <2>1 DEF Validated
  <2> QED
    BY <1>1, <2>1, <2>2, ActiveStays DEF Settled
<1>10. ASSUME NEW m \in Ids', m[2] < position'[m[1]] PROVE m \in Covered'
  <2>1. m \in Ids /\ m[1] \in Partitions /\ m[2] \in Nat /\ m = <<m[1], m[2]>>
    BY <1>4, MsgType
  <2>2. CASE m[2] < position[m[1]]
    BY <1>8, <2>1, <2>2 DEF LossInv
  <2>3. CASE ~(m[2] < position[m[1]])
    <3>1. m[1] = p /\ m[2] = position[p]
      BY <1>3, <1>10, <2>1, <2>3
    <3> QED
      BY <1>2, <1>6, <1>8, <2>1, <3>1
  <2> QED
    BY <2>2, <2>3
<1>11. ASSUME NEW v \in Workers, NEW m \in Ids', Busy(v)', m[1] = cur'[v][1], m[2] < cur'[v][2]
       PROVE  m \in Covered'
  <2>1. CASE v = w
    BY <1>2, <1>4, <1>8, <1>11, <2>1 DEF LossInv
  <2>2. CASE v # w
    BY <1>4, <1>5, <1>8, <1>11, <2>2 DEF LossInv
  <2> QED
    BY <2>1, <2>2
<1>12. LossInv'
  BY <1>1, <1>4, <1>5, <1>8, <1>9, <1>10, <1>11 DEF LossInv
<1>13. Steady'
  <2>1. ASSUME MaxMoves = 0
        PROVE  InOrder' /\ \A v \in Workers : Busy(v)' => owner[cur'[v][1]] = v
    <3>1. OwnersStay /\ InOrder
      BY <2>1 DEF Steady
    <3>2. \A v \in Workers : Busy(v)' => owner[cur'[v][1]] = v
      BY <1>2, <1>5, <3>1 DEF OwnersStay
    <3>3. \A r \in Partitions : committed'[r] < position'[r]
      BY <1>1, <1>3, <3>1 DEF InOrder
    <3>4. ASSUME NEW v \in Workers, Busy(v)'
          PROVE  /\ committed'[cur'[v][1]] < cur'[v][2]
                 /\ position'[cur'[v][1]] = cur'[v][2] + 1
      <4>1. CASE v = w
        BY <1>1, <1>2, <1>3, <3>1, <4>1 DEF InOrder
      <4>2. CASE v # w
        <5>1. Busy(v) /\ cur'[v] = cur[v] /\ cur[v] \in Ids
          BY <1>5, <3>4, <4>2 DEF Types
        <5>2. cur[v][1] \in Partitions /\ cur[v][1] # p
          BY <1>2, <3>1, <4>2, <5>1, MsgType DEF OwnersStay
        <5> QED
          BY <1>1, <1>3, <3>1, <5>1, <5>2 DEF InOrder
      <4> QED
        BY <4>1, <4>2
    <3> QED
      BY <3>2, <3>3, <3>4 DEF InOrder
  <2> QED
    BY <1>1, <2>1, SteadyKept
<1> QED
  BY <1>12, <1>13

\* CommitMessages: what it covers is covered.
LEMMA CommitLoses ==
    ASSUME Types, Steady, LossInv, NEW w \in Workers, Commit(w)
    PROVE  Steady' /\ LossInv'
<1>1. /\ Types' /\ OthersKept(w) /\ cur' = cur /\ pc[w] = "commit"
      /\ pc'[w] \in {"idle", "stopped"} /\ Busy(w) /\ cur[w] \in Ids
      /\ UNCHANGED <<log, owner, position, claims, stopping, handled, dead, moves,
                     crashes, shutdowns>>
  BY CommitTypes DEF redisVars, history, envVars, Types, Busy
<1>2. /\ cur[w][1] \in Partitions /\ cur[w][2] \in Nat /\ cur[w] = <<cur[w][1], cur[w][2]>>
  BY <1>1, MsgType
<1>3. \/ committed' = committed
      \/ /\ committed'[cur[w][1]] = cur[w][2]
         /\ \A r \in Partitions \ {cur[w][1]} : committed'[r] = committed[r]
  BY <1>2, CommitTypes, TypesNow
<1>4. Ids' = Ids /\ \A m : Msg(m)' = Msg(m)
  BY <1>1, SameLog
<1>5. \A v \in Workers : /\ Validated(v)' <=> Validated(v)
                         /\ InProcess(v)' <=> InProcess(v)
                         /\ Busy(v)' => Busy(v) /\ v # w
                         /\ pc'[v] = "commit" => pc[v] = "commit"
  BY <1>1 DEF OthersKept, Validated, InProcess, Busy
<1>6. Kept' = Kept
  BY <1>1, <1>4, <1>5 DEF Kept, Settled
<1>7. Covered' = Covered
  BY <1>1, <1>4, <1>6 DEF Covered, Good, Coordinate, Msg
<1>8. ASSUME NEW c \in claims' PROVE Active(c)'
  <2>1. PICK n \in Ids : /\ Good(n) /\ Coordinate(n) = c
                         /\ Settled(n) \/ \E v \in Workers : Validated(v) /\ cur[v] = n
    BY <1>1, <1>8 DEF LossInv, Active
  <2> QED
    BY <1>1, <1>5, <2>1, ActiveStays DEF Settled
<1>9. ASSUME NEW m \in Ids', m[2] <= committed'[m[1]] PROVE m \in Covered'
  <2>1. m \in Ids /\ m[1] \in Partitions /\ m[2] \in Nat /\ m = <<m[1], m[2]>>
    BY <1>4, MsgType
  <2>2. CASE m[2] <= committed[m[1]]
    BY <1>7, <2>1, <2>2 DEF LossInv
  <2>3. CASE ~(m[2] <= committed[m[1]])
    <3>1. m[1] = cur[w][1] /\ m[2] <= cur[w][2]
      BY <1>3, <1>9, <2>1, <2>3
    <3>2. CASE m[2] < cur[w][2]
      BY <1>1, <1>7, <2>1, <3>1, <3>2 DEF LossInv
    <3>3. CASE m[2] = cur[w][2]
      BY <1>1, <1>2, <1>7, <2>1, <3>1, <3>3 DEF LossInv
    <3> QED
      BY <1>2, <2>1, <3>1, <3>2, <3>3
  <2> QED
    BY <2>2, <2>3
<1>10. LossInv'
  BY <1>1, <1>4, <1>5, <1>7, <1>8, <1>9 DEF LossInv
<1>11. Steady'
  <2>1. ASSUME MaxMoves = 0
        PROVE  InOrder' /\ \A v \in Workers : Busy(v)' => owner[cur'[v][1]] = v
    <3>1. OwnersStay /\ InOrder
      BY <2>1 DEF Steady
    <3>2. \A v \in Workers : Busy(v)' => owner[cur'[v][1]] = v
      BY <1>1, <1>5, <3>1 DEF OwnersStay
    <3>3. \A r \in Partitions : committed'[r] < position'[r]
      BY <1>1, <1>2, <1>3, <3>1 DEF InOrder
    <3>4. ASSUME NEW v \in Workers, Busy(v)'
          PROVE  /\ committed'[cur'[v][1]] < cur'[v][2]
                 /\ position'[cur'[v][1]] = cur'[v][2] + 1
      <4>1. Busy(v) /\ v # w /\ cur[v] \in Ids
        BY <1>5, <3>4 DEF Types
      <4>2. cur[v][1] \in Partitions /\ cur[v][1] # cur[w][1]
        BY <1>1, <3>1, <4>1, MsgType DEF OwnersStay
      <4> QED
        BY <1>1, <1>3, <3>1, <4>1, <4>2 DEF InOrder
    <3> QED
      BY <3>2, <3>3, <3>4 DEF InOrder
  <2> QED
    BY <1>1, <2>1, SteadyKept
<1> QED
  BY <1>10, <1>11

\* The rest of a worker's run: process, its retries and the dead letter.
LEMMA ProcessLoses ==
    ASSUME Lossless, Types, Steady, LossInv, NEW w \in Workers,
           \/ Abandon(w) \/ Reject(w) \/ Admit(w) \/ Apply(w) \/ Evaluate(w) \/ Mark(w)
           \/ Emit(w) \/ Rollback(w) \/ Release(w) \/ DeadLetter(w)
    PROVE  Steady' /\ LossInv'
<1>0. /\ ~Stopping(w) /\ ~CallFails(w, "release") /\ ~CallFails(w, "dlq")
      /\ CallFails(w, "admit") => FailOpen
  BY LosslessCalls
<1>1. CASE Abandon(w) \/ Reject(w) \/ DeadLetter(w)
  <2>1. /\ Types' /\ OthersKept(w) /\ cur' = cur /\ pc'[w] = "commit"
        /\ pc[w] \in {"admit", "dead"} /\ dead' = dead \cup {cur[w]}
        /\ UNCHANGED <<log, owner, position, committed, claims, stopping, handled,
                       moves, crashes, shutdowns>>
    BY <1>0, <1>1, EndTypes DEF kafkaVars, redisVars, envVars
  <2>2. Busy(w) /\ Busy(w)'
    BY <2>1 DEF Busy
  <2> QED
    BY <2>1, <2>2, WorkerKeepsSteady, WorkerStep
<1>2. CASE Admit(w)
  <2>1. /\ Types' /\ OthersKept(w) /\ cur' = cur /\ pc[w] = "admit" /\ Good(cur[w])
        /\ UNCHANGED <<log, owner, position, committed, stopping, handled, dead,
                       moves, crashes, shutdowns>>
    BY <1>2, AdmitTypes DEF kafkaVars, history, envVars, Good
  <2>2. \/ /\ pc'[w] = "commit" /\ Coordinate(cur[w]) \in claims /\ claims' = claims
        \/ /\ pc'[w] \in {"apply", "dead"}
           /\ claims' \subseteq claims \cup {Coordinate(cur[w])}
    BY <1>0, <1>2, AdmitTypes
  <2>3. Busy(w) /\ Busy(w)' /\ ~Validated(w)
    BY <2>1, <2>2 DEF Busy, Validated
  <2>4. pc'[w] \in {"apply", "dead"} => Validated(w)' /\ pc'[w] # "commit"
    BY DEF Validated
  <2> QED
    BY <2>1, <2>2, <2>3, <2>4, WorkerKeepsSteady, WorkerStep
<1>3. CASE Release(w)
  <2>1. /\ Types' /\ OthersKept(w) /\ cur' = cur /\ pc[w] = "release"
        /\ pc'[w] \in {"dead", "admit"} /\ claims' = claims \ {Coordinate(cur[w])}
        /\ UNCHANGED <<log, owner, position, committed, stopping, handled, dead,
                       moves, crashes, shutdowns>>
    BY <1>0, <1>3, ReleaseTypes DEF kafkaVars, history, envVars
  <2>2. Busy(w) /\ Busy(w)'
    BY <2>1 DEF Busy
  <2> QED
    BY <2>1, <2>2, WorkerKeepsSteady, WorkerStep
<1>4. CASE Apply(w) \/ Evaluate(w) \/ Mark(w) \/ Emit(w) \/ Rollback(w)
  <2>1. /\ Types' /\ OthersKept(w) /\ cur' = cur /\ dead' = dead
        /\ pc[w] \in {"apply", "evaluate", "mark", "emit", "rollback"}
        /\ \/ pc'[w] \in {"evaluate", "mark", "emit", "rollback", "release"} /\ handled' = handled
           \/ pc'[w] = "commit" /\ handled' = handled \cup {cur[w]}
        /\ UNCHANGED <<log, owner, position, committed, claims, stopping,
                       moves, crashes, shutdowns>>
    <3>1. CASE Apply(w)
      BY <3>1, ApplyTypes DEF kafkaVars, envVars
    <3>2. CASE Evaluate(w)
      BY <3>2, EvaluateTypes DEF kafkaVars, redisVars, envVars
    <3>3. CASE Mark(w)
      BY <3>3, MarkTypes DEF kafkaVars, history, envVars
    <3>4. CASE Emit(w)
      BY <3>4, EmitTypes DEF kafkaVars, redisVars, envVars
    <3>5. CASE Rollback(w)
      BY <3>5, RollbackTypes DEF kafkaVars, redisVars, history, envVars
    <3> QED
      BY <1>4, <3>1, <3>2, <3>3, <3>4, <3>5
  <2>2. Busy(w) /\ Busy(w)'
    BY <2>1 DEF Busy
  <2>3. pc'[w] \in {"evaluate", "mark", "emit", "rollback", "release"} =>
           Validated(w)' /\ pc'[w] # "commit"
    BY DEF Validated
  <2> QED
    BY <2>1, <2>2, <2>3, WorkerKeepsSteady, WorkerStep
<1> QED
  BY <1>1, <1>2, <1>3, <1>4
\* A move: the new owner starts after what is committed, hence covered.
LEMMA RebalanceLoses ==
    ASSUME Types, Steady, LossInv, NEW p \in Partitions, Rebalance(p)
    PROVE  Steady' /\ LossInv'
<1>1. /\ moves < MaxMoves /\ position' = [position EXCEPT ![p] = committed[p] + 1]
      /\ UNCHANGED <<log, committed, claims, stopping, pc, cur, handled, dead, crashes,
                     shutdowns>>
  BY RebalanceTypes DEF redisVars, workerVars, history
<1>2. MaxMoves # 0
  BY <1>1 DEF Steady, OwnersStay
<1>3. Ids' = Ids /\ \A m : Msg(m)' = Msg(m)
  BY <1>1, SameLog
<1>4. Kept' = Kept
  BY <1>1, <1>2, <1>3 DEF Kept, Settled, InProcess
<1>5. Covered' = Covered
  BY <1>1, <1>3, <1>4 DEF Covered, Good, Coordinate, Msg
<1>6. ASSUME NEW c \in claims' PROVE Active(c)'
  <2>1. PICK n \in Ids : /\ Good(n) /\ Coordinate(n) = c
                         /\ Settled(n) \/ \E v \in Workers : Validated(v) /\ cur[v] = n
    BY <1>1, <1>6 DEF LossInv, Active
  <2> QED
    BY <1>1, <2>1, ActiveStays DEF Settled, Validated
<1>7. ASSUME NEW m \in Ids', m[2] < position'[m[1]] PROVE m \in Covered'
  <2>1. m \in Ids /\ m[1] \in Partitions /\ m[2] \in Nat
    BY <1>3, MsgType
  <2>2. m[2] < position[m[1]] \/ m[2] <= committed[m[1]]
    BY <1>1, <1>7, <2>1, TypesNow
  <2> QED
    BY <1>5, <2>1, <2>2 DEF LossInv
<1>8. Steady'
  BY <1>1, <1>2 DEF Steady
<1> QED
  BY <1>1, <1>3, <1>5, <1>6, <1>7, <1>8 DEF LossInv, Busy

\* A crash: what the dead workers had is handed out again.
LEMMA CrashLoses ==
    ASSUME Lossless, Types, Steady, LossInv, NEW q \in Procs, Crash(q)
    PROVE  Steady' /\ LossInv'
<1>1. /\ crashes < MaxCrashes /\ Reborn(q) /\ shutdowns' = shutdowns
      /\ claims' = IF SlowRejoin THEN {} ELSE claims
  BY DEF Crash
<1>2. MaxMoves = 0 /\ claims' = {} /\ OwnersStay /\ InOrder /\ MaxCrashes # 0
  BY <1>1 DEF Lossless, Steady
<1>3. /\ \A w \in Workers : pc'[w] = IF ProcOf[w] = q THEN "idle" ELSE pc[w]
      /\ \A p \in Partitions : position'[p] = IF ProcOf[owner[p]] = q
                                              THEN committed[p] + 1 ELSE position[p]
      /\ stopping' \subseteq stopping
      /\ UNCHANGED <<log, owner, committed, cur, handled, dead, moves>>
  BY <1>1, RebornTypes
<1>4. Ids' = Ids /\ \A m : Msg(m)' = Msg(m)
  BY <1>3, SameLog
<1>5. /\ \A p \in Partitions : position[p] \in Nat /\ committed[p] \in Nat
      /\ \A p \in Partitions : committed'[p] < position'[p] /\ position'[p] <= position[p]
  <2>1. \A p \in Partitions : position[p] \in Nat /\ committed[p] \in Nat
    BY TypesNow
  <2>2. \A p \in Partitions : committed[p] < position[p] /\ committed'[p] = committed[p]
    BY <1>2, <1>3 DEF InOrder
  <2>3. ASSUME NEW p \in Partitions
        PROVE  committed'[p] < position'[p] /\ position'[p] <= position[p]
    BY <1>3, <2>1, <2>2
  <2> QED
    BY <2>1, <2>3
<1>6. \A w \in Workers : /\ Busy(w)' => Busy(w) /\ ProcOf[w] # q
                         /\ InProcess(w) /\ ProcOf[w] # q => InProcess(w)'
                         /\ pc'[w] = "commit" => pc[w] = "commit"
  BY <1>3 DEF Busy, InProcess
<1>7. Kept \subseteq Kept'
  <2> SUFFICES ASSUME NEW m \in Kept PROVE m \in Kept'
    OBVIOUS
  <2>1. m \in Ids' /\ m[1] \in Partitions /\ m[2] \in Nat
    BY <1>4, MsgType DEF Kept
  <2>2. CASE Settled(m)
    BY <1>3, <2>1, <2>2 DEF Kept, Settled
  <2>3. ASSUME NEW w \in Workers, InProcess(w), cur[w] = m PROVE m \in Kept'
    <3>1. CASE ProcOf[w] = q
      <4>1. owner[m[1]] = w /\ committed[m[1]] < m[2]
        BY <1>2, <2>3 DEF OwnersStay, InOrder, Busy, InProcess
      <4>2. position'[m[1]] <= m[2]
        BY <1>3, <1>5, <2>1, <3>1, <4>1
      <4> QED
        BY <1>2, <2>1, <4>2 DEF Kept
    <3>2. CASE ProcOf[w] # q
      BY <1>3, <1>6, <2>1, <2>3, <3>2 DEF Kept
    <3> QED
      BY <3>1, <3>2
  <2>4. CASE position[m[1]] <= m[2]
    <3>1. position'[m[1]] \in Nat
      BY <1>3, <1>5, <2>1
    <3>2. position'[m[1]] <= m[2]
      BY <1>5, <2>1, <2>4, <3>1
    <3> QED
      BY <1>2, <2>1, <3>2 DEF Kept
  <2> QED
    BY <2>2, <2>3, <2>4 DEF Kept
<1>8. Covered \subseteq Covered'
  <2>1. Kept' \subseteq Covered'
    BY DEF Covered, Kept
  <2> QED
    BY <1>3, <1>7, <2>1, CoveredGrows
<1>9. ASSUME NEW m \in Ids', m[2] < position'[m[1]] PROVE m \in Covered'
  <2>1. m \in Ids /\ m[1] \in Partitions /\ m[2] \in Nat
    BY <1>4, MsgType
  <2>2. position'[m[1]] \in Nat
    BY <1>3, <1>5, <2>1
  <2>3. m[2] < position[m[1]]
    BY <1>5, <1>9, <2>1, <2>2
  <2> QED
    BY <1>8, <2>1, <2>3 DEF LossInv
<1>10. LossInv'
  BY <1>2, <1>3, <1>4, <1>6, <1>8, <1>9 DEF LossInv
<1>11. Steady'
  <2>1. OwnersStay'
    BY <1>2, <1>3, <1>6 DEF OwnersStay
  <2>2. ASSUME NEW w \in Workers, Busy(w)'
        PROVE  committed[cur[w][1]] < cur[w][2] /\ position'[cur[w][1]] = cur[w][2] + 1
    <3>1. Busy(w) /\ ProcOf[w] # q /\ cur[w] \in Ids
      BY <1>6, <2>2 DEF Types
    <3>2. owner[cur[w][1]] = w /\ cur[w][1] \in Partitions
      BY <1>2, <3>1, MsgType DEF OwnersStay
    <3> QED
      BY <1>2, <1>3, <3>1, <3>2 DEF InOrder
  <2>3. InOrder'
    BY <1>3, <1>5, <2>2 DEF InOrder
  <2> QED
    BY <1>1, <1>2, <1>3, <2>1, <2>3 DEF Steady
<1> QED
  BY <1>10, <1>11

\* Nothing is lost at the start.
LEMMA LossInit == Types /\ Init => Steady /\ LossInv
<1> SUFFICES ASSUME Types, Init PROVE Steady /\ LossInv
  OBVIOUS
<1>1. \A m \in Ids : m[1] \in Partitions /\ m[2] \in Nat \ {0}
  BY MsgType
<1>2. \A m \in Ids : ~(m[2] < position[m[1]]) /\ ~(m[2] <= committed[m[1]])
  BY <1>1 DEF Init
<1>3. \A w \in Workers : ~Busy(w) /\ pc[w] # "commit"
  BY DEF Init, Busy
<1>4. \A p \in Partitions : committed[p] < position[p]
  BY DEF Init
<1>5. claims = {} /\ shutdowns = 0 /\ stopping = {} /\ crashes = 0 /\ moves = 0
  BY DEF Init
<1> QED
  BY <1>2, <1>3, <1>4, <1>5 DEF Steady, OwnersStay, InOrder, LossInv

\* No step loses anything.
LEMMA LossNext ==
    ASSUME Lossless
    PROVE  Types /\ Steady /\ LossInv /\ [Next]_vars => Steady' /\ LossInv'
<1> SUFFICES ASSUME Types, Steady, LossInv, [Next]_vars PROVE Steady' /\ LossInv'
  OBVIOUS
<1>1. ASSUME UNCHANGED <<log, owner, position, committed, pc, cur, handled, dead, stopping>>,
             UNCHANGED <<moves, crashes, shutdowns>>, claims' \subseteq claims
      PROVE  Steady' /\ LossInv'
  <2>1. LossInv'
    BY <1>1, LossKept
  <2>2. MaxMoves = 0 => InOrder'
    BY <1>1, OrderKept DEF Steady, Busy
  <2>3. MaxMoves = 0 => \A w \in Workers : Busy(w)' => owner[cur'[w][1]] = w
    BY <1>1 DEF Steady, OwnersStay, Busy
  <2> QED
    BY <1>1, <2>1, <2>2, <2>3, SteadyKept
<1>2. CASE UNCHANGED vars
  BY <1>1, <1>2 DEF vars, kafkaVars, redisVars, workerVars, history, envVars
<1>3. ASSUME NEW w \in Workers, Work(w) PROVE Steady' /\ LossInv'
  BY <1>3, FetchLoses, ProcessLoses, CommitLoses DEF Work
<1>4. ASSUME NEW p \in Partitions, Rebalance(p) PROVE Steady' /\ LossInv'
  BY <1>4, RebalanceLoses
<1>5. ASSUME NEW q \in Procs, Crash(q) PROVE Steady' /\ LossInv'
  BY <1>5, CrashLoses
<1>6. ASSUME NEW q \in Procs, Shutdown(q) \/ Restart(q) PROVE FALSE
  BY <1>6 DEF Shutdown, Restart, Lossless, Steady
<1>7. CASE ClaimExpires
  BY <1>1, <1>7 DEF ClaimExpires, kafkaVars, workerVars, history, envVars
<1>8. ASSUME NEW q \in Procs, NEW c \in Channels, Prune(q, c) PROVE Steady' /\ LossInv'
  BY <1>1, <1>8 DEF Prune, kafkaVars, redisVars, workerVars, history, envVars
<1>9. CASE Tick
  BY <1>1, <1>9 DEF Tick, kafkaVars, redisVars, workerVars, history
<1> QED
  BY <1>2, <1>3, <1>4, <1>5, <1>6, <1>7, <1>8, <1>9 DEF Next

\* README, "Failure handling": a message is retried and then dead-lettered.
\* For any workers, partitions, topic and number of failed calls, and for
\* partition moves or crashes, under the conditions of Lossless a committed
\* message was handled, is on the dead-letter topic, or another delivery of its
\* coordinate was or still will be.
THEOREM NothingLost ==
    ASSUME Lossless
    PROVE  Spec => []NoSilentLoss
<1>1. Types /\ Steady /\ LossInv => NoSilentLoss
  <2> SUFFICES ASSUME Types, Steady, LossInv, NEW m \in Ids, m[2] <= committed[m[1]]
               PROVE  \/ Settled(m) \/ Owed(m)
                      \/ /\ Good(m)
                         /\ \E n \in Ids : /\ Good(n) /\ Coordinate(n) = Coordinate(m)
                                           /\ Settled(n) \/ Owed(n)
    BY DEF NoSilentLoss, Good
  <2>1. ASSUME NEW n \in Kept PROVE n \in Ids /\ (Settled(n) \/ Owed(n))
    <3>1. n \in Ids /\ n[1] \in Partitions /\ n[2] \in Nat
      BY MsgType DEF Kept
    <3>2. CASE MaxMoves = 0 /\ position[n[1]] <= n[2]
      <4>1. committed[n[1]] < position[n[1]]
        BY <3>1, <3>2 DEF Steady, InOrder
      <4>2. n[2] > committed[n[1]]
        BY <3>1, <3>2, <4>1, TypesNow
      <4> QED
        BY <3>1, <4>2 DEF Owed
    <3> QED
      BY <3>1, <3>2 DEF Kept, Owed
  <2>2. m \in Covered
    BY DEF LossInv
  <2> QED
    BY <2>1, <2>2 DEF Covered
<1>2. Spec => [](Types /\ Steady /\ LossInv)
  <2>1. Init => Types /\ Steady /\ LossInv
    BY TypesInit, LossInit
  <2>2. Types /\ Steady /\ LossInv /\ [Next]_vars => (Types /\ Steady /\ LossInv)'
    BY TypesNext, LossNext
  <2> QED
    BY <2>1, <2>2, PTL DEF Spec
<1> QED
  BY <1>1, <1>2, PTL

-----------------------------------------------------------------------------
(* The twin and the committed readings *)

\* The twin has the reading of m, or a newer one of its channel.
InTwin(m) == Msg(m).ts <= twin[Msg(m).ch].ts

\* What is past the twin write, still in process or done, is in the twin.
TwinInv ==
    /\ \A m \in handled : InTwin(m)
    /\ \A w \in Workers : pc[w] \in {"evaluate", "mark", "emit"} => InTwin(cur[w])

\* Whoever writes the twin next, no channel of it goes back.
LEMMA TwinGrows ==
    ASSUME Types, Next
    PROVE  log' = log /\ \A c \in Channels : twin[c].ts <= twin'[c].ts
<1>1. ASSUME NEW w \in Workers, Apply(w)
      PROVE  log' = log /\ \A c \in Channels : twin[c].ts <= twin'[c].ts
  <2>1. /\ cur[w] \in Ids /\ Msg(cur[w]).val # Malformed /\ log' = log
        /\ twin' \in {twin, TwinWith(cur[w])}
    BY <1>1, ApplyTypes DEF Types, Busy, Validated, kafkaVars
  <2>2. \A c \in Channels : twin'[c] # twin[c] => twin'[c].ts > twin[c].ts
    BY <2>1, TwinWithType
  <2>3. twin' \in [Channels -> [ts: Nat, val: Readings]]
    BY <2>1, TwinWithType, TypesNow
  <2> QED
    BY <2>1, <2>2, <2>3, TypesNow
<1>2. ASSUME NEW w \in Workers, Work(w), ~Apply(w) PROVE log' = log /\ twin' = twin
  BY <1>2, FetchTypes, EndTypes, AdmitTypes, EvaluateTypes, MarkTypes,
     EmitTypes, RollbackTypes, ReleaseTypes, CommitTypes DEF Work, redisVars, kafkaVars
<1>3. CASE ~\E w \in Workers : Work(w)
  <2>1. log' = log /\ twin' = twin
    BY <1>3, RebalanceTypes, RebornTypes, OtherTypes
    DEF Next, redisVars, kafkaVars, Crash, Restart
  <2> QED
    BY <2>1, TypesNow
<1> QED
  BY <1>1, <1>2, <1>3, TypesNow

\* So what is in the twin stays there.
LEMMA InTwinStays ==
    ASSUME Types, Types', Next, NEW m \in Ids, InTwin(m)
    PROVE  InTwin(m)'
<1>1. /\ log' = log /\ Msg(m).ch \in Channels /\ Msg(m).ts \in Nat
      /\ \A c \in Channels : twin[c].ts <= twin'[c].ts
  BY TwinGrows, MsgType
<1>2. Msg(m)' = Msg(m)
  BY <1>1, SameLog
<1>3. twin[Msg(m).ch].ts \in Nat /\ twin'[Msg(m).ch].ts \in Nat
  BY <1>1 DEF Types, TypeOK
<1> QED
  BY <1>1, <1>2, <1>3 DEF InTwin

\* A worker's step: only a message in the twin goes on to be evaluated or is
\* handled.
LEMMA TwinInvStep ==
    ASSUME Types, Types', Next, TwinInv, NEW w \in Workers, OthersKept(w),
           handled' \subseteq handled \cup {cur[w]}, cur[w] \in Ids, cur'[w] = cur[w],
           \/ InTwin(cur[w])'
           \/ handled' = handled /\ pc'[w] \notin {"evaluate", "mark", "emit"}
    PROVE  TwinInv'
<1>1. ASSUME NEW m \in handled' PROVE InTwin(m)'
  <2>1. CASE m \in handled
    BY <2>1, InTwinStays, TypesNow DEF TwinInv
  <2>2. CASE m \notin handled
    BY <1>1, <2>2
  <2> QED
    BY <2>1, <2>2
<1>2. ASSUME NEW v \in Workers, pc'[v] \in {"evaluate", "mark", "emit"}
      PROVE  cur'[v] = cur[v] /\ InTwin(cur[v])'
  <2>1. CASE v = w
    BY <1>2, <2>1
  <2>2. CASE v # w
    <3>1. cur'[v] = cur[v] /\ pc[v] \in {"evaluate", "mark", "emit"}
      BY <1>2, <2>2 DEF OthersKept
    <3>2. cur[v] \in Ids /\ InTwin(cur[v])
      BY <3>1 DEF Types, Busy, TwinInv
    <3> QED
      BY <3>1, <3>2, InTwinStays
  <2> QED
    BY <2>1, <2>2
<1> QED
  BY <1>1, <1>2 DEF TwinInv, InTwin, Msg

\* A step that ends messages or keeps them where they are.
LEMMA TwinInvKept ==
    ASSUME Types, Types', Next, TwinInv, handled' = handled,
           \A w \in Workers : pc'[w] \in {"evaluate", "mark", "emit"} =>
                                 pc[w] = pc'[w] /\ cur'[w] = cur[w]
    PROVE  TwinInv'
<1>1. \A m \in handled' : InTwin(m)'
  BY InTwinStays, TypesNow DEF TwinInv
<1>2. ASSUME NEW w \in Workers, pc'[w] \in {"evaluate", "mark", "emit"}
      PROVE  cur'[w] = cur[w] /\ InTwin(cur[w])'
  <2>1. cur'[w] = cur[w] /\ cur[w] \in Ids /\ InTwin(cur[w])
    BY <1>2 DEF Types, Busy, TwinInv
  <2> QED
    BY <2>1, InTwinStays
<1> QED
  BY <1>1, <1>2 DEF TwinInv, InTwin, Msg

\* Apply: whether the script writes or refuses, the reading is in the twin.
LEMMA ApplyFills ==
    ASSUME Types, Next, TwinInv, NEW w \in Workers, Apply(w)
    PROVE  TwinInv'
<1> DEFINE c == Msg(cur[w]).ch
           new == [ts |-> Msg(cur[w]).ts, val |-> Msg(cur[w]).val]
<1>1. /\ Types' /\ OthersKept(w) /\ cur' = cur /\ pc[w] = "apply" /\ log' = log
      /\ cur[w] \in Ids /\ handled' \subseteq handled \cup {cur[w]}
  BY ApplyTypes DEF kafkaVars, Types, Busy
<1>2. twin' = TwinWith(cur[w]) \/ (handled' = handled /\ pc'[w] = "release")
  BY <1>1, TypesNow DEF Apply, Goto
<1>3. TwinWith(cur[w]) = IF new.ts > twin[c].ts THEN [twin EXCEPT ![c] = new] ELSE twin
  BY DEF TwinWith, Newer
<1>4. /\ c \in Channels /\ new.ts \in Nat /\ new.ts = Msg(cur[w]).ts
      /\ twin \in [Channels -> [ts: Nat, val: Readings]]
  BY <1>1, MsgType, TypesNow
<1> HIDE DEF new
<1>5. twin' = TwinWith(cur[w]) => InTwin(cur[w])'
  <2>1. TwinWith(cur[w])[c].ts >= new.ts
    BY <1>3, <1>4
  <2>2. Msg(cur[w])' = Msg(cur[w])
    BY <1>1, SameLog DEF Msg
  <2> QED
    BY <1>1, <1>4, <2>1, <2>2 DEF InTwin
<1> QED
  BY <1>1, <1>2, <1>5, TwinInvStep

\* Every step keeps what is past the twin write in the twin.
LEMMA TwinInvNext == Types /\ TwinInv /\ [Next]_vars => TwinInv'
<1> SUFFICES ASSUME Types, TwinInv, [Next]_vars PROVE TwinInv'
  OBVIOUS
<1>1. CASE UNCHANGED vars
  BY <1>1 DEF TwinInv, InTwin, Msg, vars, kafkaVars, redisVars, workerVars, history
<1>2. Types'
  BY TypesNext
<1>3. ASSUME Next, NEW w \in Workers, Work(w) PROVE TwinInv'
  <2>1. CASE Apply(w)
    BY <1>3, <2>1, ApplyFills
  <2>2. CASE Evaluate(w) \/ Mark(w) \/ Emit(w)
    <3>1. /\ OthersKept(w) /\ cur' = cur /\ pc[w] \in {"evaluate", "mark", "emit"}
          /\ handled' \subseteq handled \cup {cur[w]}
      BY <2>2, EvaluateTypes, MarkTypes, EmitTypes DEF history
    <3>2. cur[w] \in Ids /\ InTwin(cur[w])
      BY <3>1 DEF Types, Busy, TwinInv
    <3> QED
      BY <1>2, <1>3, <3>1, <3>2, InTwinStays, TwinInvStep
  <2>3. CASE ~(Apply(w) \/ Evaluate(w) \/ Mark(w) \/ Emit(w))
    <3>1. /\ OthersKept(w) /\ handled' = handled
          /\ pc'[w] \notin {"evaluate", "mark", "emit"}
      BY <1>3, <2>3, FetchTypes, EndTypes, AdmitTypes, RollbackTypes, ReleaseTypes,
         CommitTypes DEF Work, history
    <3> QED
      BY <1>2, <1>3, <3>1, TwinInvKept DEF OthersKept
  <2> QED
    BY <2>1, <2>2, <2>3
<1>4. ASSUME Next, NEW q \in Procs, Reborn(q) PROVE TwinInv'
  BY <1>2, <1>4, RebornTypes, TwinInvKept
<1>5. CASE Next /\ ~(\E w \in Workers : Work(w)) /\ ~(\E q \in Procs : Reborn(q))
  <2>1. handled' = handled /\ pc' = pc /\ cur' = cur
    BY <1>5, RebalanceTypes, OtherTypes DEF Next, Crash, Restart, workerVars, history
  <2> QED
    BY <1>2, <1>5, <2>1, TwinInvKept
<1> QED
  BY <1>1, <1>3, <1>4, <1>5

\* cache.go, Apply, and README, "Failure handling": for any workers, partitions,
\* topic and number of failed calls, and for partition moves or crashes, under
\* the conditions of Lossless, a reading whose offset is committed is in the
\* twin or superseded there, unless its coordinate was dead-lettered or is still
\* owed.
THEOREM TwinMissesNothing ==
    ASSUME Lossless
    PROVE  Spec => []TwinComplete
<1>1. Types /\ TwinInv /\ NoSilentLoss => TwinComplete
  <2> SUFFICES ASSUME Types, TwinInv, NoSilentLoss,
                      NEW m \in Ids, m[2] <= committed[m[1]], Good(m)
               PROVE  \/ InTwin(m)
                      \/ \E n \in Ids : /\ Good(n) /\ Coordinate(n) = Coordinate(m)
                                        /\ n \in dead \/ Owed(n)
    BY DEF TwinComplete, InTwin, Good
  <2>1. PICK n \in Ids : /\ Good(n) /\ Coordinate(n) = Coordinate(m)
                         /\ Settled(n) \/ Owed(n)
    BY DEF NoSilentLoss, Good
  <2>2. CASE n \in handled
    <3>1. InTwin(n) /\ Msg(n).ch = Msg(m).ch /\ Msg(n).ts = Msg(m).ts
      BY <2>1, <2>2 DEF TwinInv, Coordinate
    <3> QED
      BY <3>1 DEF InTwin
  <2> QED
    BY <2>1, <2>2 DEF Settled
<1>2. Init => TwinInv
  BY DEF Init, TwinInv
<1>3. Types /\ TwinInv /\ [Next]_vars => TwinInv'
  BY TwinInvNext
<1>4. Spec => []NoSilentLoss
  BY NothingLost
<1>5. Spec => []TwinInv
  BY <1>2, <1>3, TypesAlways, PTL DEF Spec
<1> QED
  BY <1>1, <1>4, <1>5, TypesAlways, PTL

-----------------------------------------------------------------------------
(* The alarm everybody sees *)

\* When every attempt is told apart: a release that fails, or a claim taken by
\* an Admit whose error counts as an attempt, turns a retry into a duplicate
\* and leaves what the failed attempt half did; a dead letter that fails leaves
\* it without a trace.
Retried ==
    /\ "release" \notin Faulty /\ "dlq" \notin Faulty
    /\ FailOpen \/ "admit" \notin Faulty

\* Nothing was dead-lettered or restarted.
Quiet == crashes + shutdowns = 0 /\ dead = {}

\* Topic, alarm hash and state machine agree on the channel.
Story(c) == /\ Alarmed(c) <=> view[c] = "open"
            /\ Alarmed(c) <=> alarm[c] # NoKind

\* The process whose worker owns the partition of the channel.
Reads(q, c) == \E m \in Ids : Good(m) /\ Msg(m).ch = c /\ ProcOf[owner[m[1]]] = q

\* The twin is at the message of the worker, on a channel with a rule.
Current(w) == /\ twin[ChannelOf(w)].ts = Msg(cur[w]).ts
              /\ ChannelOf(w) \notin Ungoverned

\* The entry after a transition of this kind.
Leaves(e, k) == EntryOf(e).state = "ANOMALOUS" <=> k # "CLEARED"

\* A worker from Evaluate to the end of its emit: its transition is under way,
\* and evaluating the restored entry again reports a transition again.
Underway(w) ==
    LET c == ChannelOf(w) IN
    /\ pc[w] = "evaluate" \/ Holds(w) => Current(w)
    /\ Holds(w) => /\ kind[w] \in Kinds
                   /\ Leaves(entries[ProcOf[w]][c], kind[w])
                   /\ TransitionOf(undo[w].previous, Msg(cur[w]).val, now) # NoKind
    /\ pc[w] = "emit" => (alarm[c] # NoKind <=> kind[w] # "CLEARED")

\* A worker that will evaluate its message again, and report a transition.
Redo(w) ==
    LET c == ChannelOf(w) IN
    /\ pc[w] \in {"release", "admit", "apply", "evaluate"}
    /\ Current(w)
    /\ TransitionOf(EntryOf(entries[ProcOf[w]][c]), Msg(cur[w]).val, now) # NoKind
    /\ pc[w] = "admit" => Coordinate(cur[w]) \notin claims

\* A worker that still has to put the story of its channel right.
Mends(w) == Good(cur[w]) /\ (Holds(w) \/ Redo(w) \/ pc[w] = "dead")

\* What the pipeline keeps as long as nothing is dead-lettered or restarted: a
\* channel whose story is wrong has a worker that still has to put it right.
StoryInv ==
    /\ stopping = {}
    /\ \A q \in Procs, c \in Channels : entries[q][c] # Absent => Reads(q, c)
    /\ \A w \in Workers : Underway(w)
    /\ \A c \in Channels : Story(c) \/ \E w \in Workers : ChannelOf(w) = c /\ Mends(w)

\* The inductive invariant of AlarmVisible.
VisibleInv ==
    /\ crashes \in Nat /\ shutdowns \in Nat /\ DOMAIN view = Channels
    /\ Quiet => StoryInv
\* A channel is read in one process.
LEMMA OneReader ==
    ASSUME Keyed, Types, NEW c, NEW q, NEW r, Reads(q, c), Reads(r, c)
    PROVE  q = r
<1>1. PICK m \in Ids : Good(m) /\ Msg(m).ch = c /\ ProcOf[owner[m[1]]] = q
  BY DEF Reads
<1>2. PICK n \in Ids : Good(n) /\ Msg(n).ch = c /\ ProcOf[owner[n[1]]] = r
  BY DEF Reads
<1>3. /\ m[1] \in Partitions /\ m[2] \in 1..Len(log[m[1]])
      /\ n[1] \in Partitions /\ n[2] \in 1..Len(log[n[1]]) /\ log \in Logs
  BY MsgType DEF Types
<1>4. m[1] = n[1]
  BY <1>1, <1>2, <1>3 DEF Keyed, Good, Msg
<1> QED
  BY <1>1, <1>2, <1>4

\* A busy worker's channel is read in its process.
LEMMA WorkerReads ==
    ASSUME Types, OwnersStay, NEW w \in Workers, Busy(w), Good(cur[w])
    PROVE  /\ Reads(ProcOf[w], ChannelOf(w)) /\ ChannelOf(w) \in Channels
           /\ ProcOf[w] \in Procs /\ cur[w] \in Ids /\ Msg(cur[w]).val \in Readings
           /\ Msg(cur[w]).ts \in Nat
<1>1. cur[w] \in Ids /\ owner[cur[w][1]] = w
  BY DEF Types, OwnersStay
<1> QED
  BY <1>1, MsgType, TypesNow DEF Reads, ChannelOf, Good

\* One worker at a time is busy with a channel, from FetchMessage on.
LEMMA OneBusy ==
    ASSUME Keyed, Types, OwnersStay, NEW v \in Workers, NEW w \in Workers,
           Busy(v), Busy(w), Good(cur[v]), Good(cur[w]), ChannelOf(v) = ChannelOf(w)
    PROVE  v = w
<1>1. /\ cur[v] \in Ids /\ cur[w] \in Ids /\ owner[cur[v][1]] = v /\ owner[cur[w][1]] = w
      /\ log \in Logs
  BY DEF Types, OwnersStay
<1>2. /\ cur[v][1] \in Partitions /\ cur[v][2] \in 1..Len(log[cur[v][1]])
      /\ cur[w][1] \in Partitions /\ cur[w][2] \in 1..Len(log[cur[w][1]])
  BY <1>1, MsgType
<1>3. cur[v][1] = cur[w][1]
  BY <1>1, <1>2 DEF Keyed, ChannelOf, Msg, Good
<1> QED
  BY <1>1, <1>3

\* When entries are only where a channel is read, an alarm is one of its reader.
LEMMA AlarmAtReader ==
    ASSUME Keyed, Types, NEW f, NEW c \in Channels, NEW q \in Procs, Reads(q, c),
           \A r \in Procs, d \in Channels : f[r][d] # Absent => Reads(r, d)
    PROVE  (\E r \in Procs : EntryOf(f[r][c]).state = "ANOMALOUS")
              <=> EntryOf(f[q][c]).state = "ANOMALOUS"
<1>1. ASSUME NEW r \in Procs, r # q PROVE EntryOf(f[r][c]).state # "ANOMALOUS"
  <2>1. f[r][c] = Absent
    BY <1>1, OneReader
  <2> QED
    BY <2>1 DEF EntryOf, NewEntry
<1> QED
  BY <1>1

\* Story, at the process of a worker.
StoryAt(w) ==
    LET c == ChannelOf(w)
        up == EntryOf(entries[ProcOf[w]][c]).state = "ANOMALOUS"
    IN  (up <=> view[c] = "open") /\ (up <=> alarm[c] # NoKind)

\* A busy worker with nothing to put right finds the story right.
LEMMA NothingToMend ==
    ASSUME Keyed, Types, OwnersStay, StoryInv, NEW w \in Workers, Busy(w), Good(cur[w]),
           ~Mends(w)
    PROVE  StoryAt(w)
<1>1. Reads(ProcOf[w], ChannelOf(w)) /\ ChannelOf(w) \in Channels /\ ProcOf[w] \in Procs
  BY WorkerReads
<1>2. ASSUME NEW v \in Workers, ChannelOf(v) = ChannelOf(w), Mends(v) PROVE FALSE
  <2>1. Busy(v) /\ Good(cur[v])
    BY <1>2 DEF Mends, Holds, Redo, Busy
  <2> QED
    BY <1>2, <2>1, OneBusy
<1>3. Story(ChannelOf(w))
  BY <1>1, <1>2 DEF StoryInv
<1>4. Alarmed(ChannelOf(w)) <=> EntryOf(entries[ProcOf[w]][ChannelOf(w)]).state = "ANOMALOUS"
  BY <1>1, AlarmAtReader DEF Alarmed, StoryInv
<1> QED
  BY <1>3, <1>4 DEF Story, StoryAt

\* A transition under way stays so while its worker and its channel stay.
LEMMA UnderwayStays ==
    ASSUME NEW v \in Workers, Underway(v), log' = log,
           pc'[v] = pc[v], cur'[v] = cur[v], undo'[v] = undo[v], kind'[v] = kind[v],
           pc[v] = "evaluate" \/ Holds(v) =>
              /\ entries'[ProcOf[v]][ChannelOf(v)] = entries[ProcOf[v]][ChannelOf(v)]
              /\ alarm'[ChannelOf(v)] = alarm[ChannelOf(v)]
              /\ twin'[ChannelOf(v)] = twin[ChannelOf(v)] /\ now' = now
    PROVE  Underway(v)'
<1>1. Msg(cur[v])' = Msg(cur[v]) /\ ChannelOf(v)' = ChannelOf(v) /\ (Holds(v)' <=> Holds(v))
  BY DEF Msg, ChannelOf, Holds
<1>2. CASE pc[v] = "evaluate" \/ Holds(v)
  BY <1>1, <1>2 DEF Underway, Current, Leaves
<1>3. CASE ~(pc[v] = "evaluate" \/ Holds(v))
  BY <1>1, <1>3 DEF Underway, Holds
<1> QED
  BY <1>2, <1>3

\* So does what a worker still has to put right.
LEMMA MendsStays ==
    ASSUME NEW v \in Workers, Mends(v), UNCHANGED <<log, now>>,
           pc'[v] = pc[v], cur'[v] = cur[v],
           TransitionOf(EntryOf(entries'[ProcOf[v]][ChannelOf(v)]), Msg(cur[v]).val, now) =
              TransitionOf(EntryOf(entries[ProcOf[v]][ChannelOf(v)]), Msg(cur[v]).val, now),
           twin'[ChannelOf(v)] = twin[ChannelOf(v)],
           Coordinate(cur[v]) \in claims' => Coordinate(cur[v]) \in claims
    PROVE  Mends(v)' /\ ChannelOf(v)' = ChannelOf(v)
<1>1. /\ Msg(cur[v])' = Msg(cur[v]) /\ ChannelOf(v)' = ChannelOf(v)
      /\ (Holds(v)' <=> Holds(v)) /\ Coordinate(cur[v])' = Coordinate(cur[v])
  BY DEF Msg, ChannelOf, Holds, Coordinate
<1>2. Good(cur[v])' <=> Good(cur[v])
  BY <1>1 DEF Good
<1>3. Redo(v) => Redo(v)'
  BY <1>1 DEF Redo, Current
<1> QED
  BY <1>1, <1>2, <1>3 DEF Mends

\* Channels are read where they were while the log and the owners stay.
LEMMA ReadsStay ==
    ASSUME UNCHANGED <<log, owner>>, NEW q, NEW c
    PROVE  Reads(q, c)' <=> Reads(q, c)
  BY SameLog DEF Reads, Good, Msg

\* A step of a busy worker on its channel: it has to leave its transition under
\* way, and the story right or itself with something to put right.
LEMMA OwnChannel ==
    ASSUME Keyed, Types, Types', OwnersStay, StoryInv, NEW w \in Workers, Busy(w),
           Good(cur[w]), OthersKept(w), UNCHANGED <<cur, log, owner, now, stopping>>,
           claims' \subseteq claims \cup {Coordinate(cur[w])},
           \A p \in Procs, d \in Channels :
              p # ProcOf[w] \/ d # ChannelOf(w) => entries'[p][d] = entries[p][d],
           \A d \in Channels \ {ChannelOf(w)} :
              alarm'[d] = alarm[d] /\ view'[d] = view[d] /\ twin'[d] = twin[d],
           Underway(w)', Mends(w)' \/ StoryAt(w)'
    PROVE  StoryInv'
<1>0. /\ \A v \in Workers : Msg(cur[v])' = Msg(cur[v]) /\ ChannelOf(v)' = ChannelOf(v)
      /\ \A v \in Workers : Coordinate(cur[v])' = Coordinate(cur[v])
      /\ Reads(ProcOf[w], ChannelOf(w)) /\ ChannelOf(w) \in Channels /\ ProcOf[w] \in Procs
  BY WorkerReads DEF Msg, ChannelOf, Coordinate
<1>1. \A q \in Procs, c \in Channels : entries'[q][c] # Absent => Reads(q, c)
  BY <1>0 DEF StoryInv
<1>2. \A q \in Procs, c \in Channels : Reads(q, c)' <=> Reads(q, c)
  BY ReadsStay
<1>3. ASSUME NEW v \in Workers \ {w}, Busy(v), Good(cur[v])
      PROVE  /\ ChannelOf(v) \in Channels \ {ChannelOf(w)} /\ ProcOf[v] \in Procs
             /\ entries'[ProcOf[v]][ChannelOf(v)] = entries[ProcOf[v]][ChannelOf(v)]
             /\ alarm'[ChannelOf(v)] = alarm[ChannelOf(v)]
             /\ twin'[ChannelOf(v)] = twin[ChannelOf(v)]
             /\ Coordinate(cur[v]) \in claims' => Coordinate(cur[v]) \in claims
  <2>1. ChannelOf(v) # ChannelOf(w) /\ ChannelOf(v) \in Channels /\ ProcOf[v] \in Procs
    BY <1>3, OneBusy, WorkerReads
  <2>2. Coordinate(cur[v]) # Coordinate(cur[w])
    BY <2>1 DEF Coordinate, ChannelOf
  <2> QED
    BY <2>1, <2>2
<1>4. ASSUME NEW v \in Workers PROVE Underway(v)'
  <2>1. CASE v = w
    BY <2>1
  <2>2. CASE v # w
    <3>1. /\ pc'[v] = pc[v] /\ cur'[v] = cur[v] /\ undo'[v] = undo[v] /\ kind'[v] = kind[v]
      BY <2>2 DEF OthersKept
    <3>2. pc[v] = "evaluate" \/ Holds(v) => Busy(v) /\ Good(cur[v])
      BY DEF Holds, Busy, Types, Validated, Good
    <3>3. Underway(v)
      BY DEF StoryInv
    <3> QED
      BY <1>3, <2>2, <3>1, <3>2, <3>3, UnderwayStays
  <2> QED
    BY <2>1, <2>2
<1>5. ASSUME NEW c \in Channels
      PROVE  Story(c)' \/ \E v \in Workers : ChannelOf(v)' = c /\ Mends(v)'
  <2>1. CASE c = ChannelOf(w)
    <3>1. CASE StoryAt(w)'
      <4>1. (\E r \in Procs : EntryOf(entries'[r][c]).state = "ANOMALOUS")
               <=> EntryOf(entries'[ProcOf[w]][c]).state = "ANOMALOUS"
        BY <1>0, <1>1, <2>1, AlarmAtReader
      <4>2. Story(c)'
        BY <1>0, <2>1, <3>1, <4>1 DEF Story, StoryAt, Alarmed
      <4> QED
        BY <4>2
    <3>2. CASE Mends(w)'
      BY <1>0, <2>1, <3>2
    <3> QED
      BY <3>1, <3>2
  <2>2. CASE c # ChannelOf(w)
    <3>1. CASE Story(c)
      <4>1. Story(c)'
        BY <2>2, <3>1 DEF Story, Alarmed
      <4> QED
        BY <4>1
    <3>2. ASSUME NEW v \in Workers, ChannelOf(v) = c, Mends(v)
          PROVE  ChannelOf(v)' = c /\ Mends(v)'
      <4>1. v # w /\ Busy(v) /\ Good(cur[v])
        BY <2>2, <3>2 DEF Mends, Holds, Redo, Busy
      <4>2. pc'[v] = pc[v] /\ cur'[v] = cur[v]
        BY <4>1 DEF OthersKept
      <4> QED
        BY <1>3, <3>2, <4>1, <4>2, MendsStays
    <3> QED
      BY <3>1, <3>2 DEF StoryInv
  <2> QED
    BY <2>1, <2>2
<1> QED
  BY <1>1, <1>2, <1>4, <1>5 DEF StoryInv

\* A step that touches no channel, of a worker that has nothing to put right.
LEMMA OffChannel ==
    ASSUME StoryInv, NEW w \in Workers, OthersKept(w),
           pc[w] \in {"idle", "commit"}, pc'[w] \in {"admit", "idle", "stopped"},
           UNCHANGED <<log, owner, now, stopping, entries, alarm, view, twin, claims>>
    PROVE  StoryInv'
<1>1. ASSUME NEW v \in Workers PROVE Underway(v)'
  <2>1. CASE v = w
    BY <2>1 DEF Underway, Holds
  <2>2. CASE v # w
    <3>1. /\ pc'[v] = pc[v] /\ cur'[v] = cur[v] /\ undo'[v] = undo[v] /\ kind'[v] = kind[v]
      BY <2>2 DEF OthersKept
    <3>2. Underway(v)
      BY DEF StoryInv
    <3> QED
      BY <3>1, <3>2, UnderwayStays
  <2> QED
    BY <2>1, <2>2
<1>2. ASSUME NEW v \in Workers, Mends(v) PROVE Mends(v)' /\ ChannelOf(v)' = ChannelOf(v)
  <2>1. v # w
    BY <1>2 DEF Mends, Holds, Redo
  <2>2. pc'[v] = pc[v] /\ cur'[v] = cur[v]
    BY <2>1 DEF OthersKept
  <2> QED
    BY <1>2, <2>2, MendsStays
<1>3. \A c \in Channels : Story(c) => Story(c)'
  BY DEF Story, Alarmed
<1>4. \A q \in Procs, c \in Channels : Reads(q, c)' <=> Reads(q, c)
  BY ReadsStay
<1> QED
  BY <1>1, <1>2, <1>3, <1>4 DEF StoryInv
\* Admit: a message to be evaluated again is admitted or dead-lettered, and
\* never a duplicate.
LEMMA AdmitTells ==
    ASSUME Keyed, Retried, Types, OwnersStay, StoryInv, NEW w \in Workers, Admit(w)
    PROVE  StoryInv'
<1>1. /\ Types' /\ OthersKept(w) /\ cur' = cur /\ pc[w] = "admit" /\ Good(cur[w])
      /\ UNCHANGED <<log, owner, now, stopping, entries, alarm, view, twin>>
      /\ Busy(w) /\ ~Stopping(w)
      /\ CallFails(w, "admit") => FailOpen
  BY AdmitTypes
  DEF kafkaVars, history, envVars, Good, Busy, StoryInv, Stopping, Retried, CallFails
<1>2. \/ /\ pc'[w] = "commit" /\ Coordinate(cur[w]) \in claims /\ claims' = claims
      \/ /\ pc'[w] \in {"apply", "dead"}
         /\ claims' \subseteq claims \cup {Coordinate(cur[w])}
  BY <1>1, AdmitTypes
<1>3. Underway(w)'
  BY <1>2 DEF Underway, Holds
<1>4. Msg(cur[w])' = Msg(cur[w]) /\ ChannelOf(w)' = ChannelOf(w)
  BY <1>1 DEF Msg, ChannelOf
<1>5. Mends(w)' \/ StoryAt(w)'
  <2>1. CASE Mends(w)
    <3>1. Redo(w) /\ Coordinate(cur[w]) \notin claims
      BY <1>1, <2>1 DEF Mends, Holds, Redo
    <3>2. pc'[w] \in {"apply", "dead"}
      BY <1>2, <3>1
    <3>3. Good(cur[w])'
      BY <1>1, <1>4 DEF Good
    <3>4. pc'[w] = "apply" => Redo(w)'
      BY <1>1, <1>4, <3>1 DEF Redo, Current
    <3> QED
      BY <3>2, <3>3, <3>4 DEF Mends
  <2>2. CASE ~Mends(w)
    <3>1. StoryAt(w)
      BY <1>1, <2>2, NothingToMend
    <3> QED
      BY <1>1, <1>4, <3>1 DEF StoryAt
  <2> QED
    BY <2>1, <2>2
<1> QED
  BY <1>1, <1>2, <1>3, <1>5, OwnChannel

\* Apply: the reading evaluated is the one in the twin, and a message to be
\* evaluated again is still fresh.
LEMMA ApplyTells ==
    ASSUME Keyed, Types, OwnersStay, StoryInv, NEW w \in Workers, Apply(w)
    PROVE  StoryInv'
<1> DEFINE c == ChannelOf(w)
<1>1. /\ Types' /\ OthersKept(w) /\ cur' = cur /\ pc[w] = "apply"
      /\ twin' \in {twin, TwinWith(cur[w])}
      /\ pc'[w] \in {"evaluate", "release", "commit"}
      /\ UNCHANGED <<log, owner, now, stopping, entries, alarm, view, claims>>
      /\ Busy(w) /\ Good(cur[w])
  BY ApplyTypes DEF kafkaVars, envVars, Busy, Types, Validated, Good
<1>2. /\ pc'[w] = "evaluate" => /\ Fresh(cur[w]) /\ c \notin Ungoverned
                                /\ twin' = TwinWith(cur[w])
      /\ pc'[w] = "commit" => ~(Fresh(cur[w]) /\ c \notin Ungoverned)
  BY TypesNow DEF Apply, Goto, ChannelOf
<1>3. /\ c \in Channels /\ Msg(cur[w]).ts \in Nat /\ cur[w] \in Ids
      /\ twin \in [Channels -> [ts: Nat, val: Readings]] /\ twin[c].ts \in Nat
  BY <1>1, WorkerReads, TypesNow
<1>4. /\ \A d \in Channels \ {c} : TwinWith(cur[w])[d] = twin[d]
      /\ Fresh(cur[w]) => TwinWith(cur[w])[c].ts = Msg(cur[w]).ts
      /\ twin[c].ts = Msg(cur[w]).ts => TwinWith(cur[w]) = twin
  <2> DEFINE new == [ts |-> Msg(cur[w]).ts, val |-> Msg(cur[w]).val]
  <2>1. TwinWith(cur[w]) = IF Msg(cur[w]).ts > twin[c].ts THEN [twin EXCEPT ![c] = new] ELSE twin
    BY DEF TwinWith, Newer, ChannelOf
  <2>2. new.ts = Msg(cur[w]).ts /\ (Fresh(cur[w]) <=> Msg(cur[w]).ts >= twin[c].ts)
    BY DEF Fresh, ChannelOf
  <2> HIDE DEF new, c
  <2> QED
    BY <1>3, <2>1, <2>2
<1>5. Msg(cur[w])' = Msg(cur[w]) /\ ChannelOf(w)' = c
  BY <1>1 DEF Msg, ChannelOf
<1>6. Underway(w)'
  <2>1. CASE pc'[w] = "evaluate"
    BY <1>2, <1>4, <1>5, <2>1 DEF Underway, Holds, Current
  <2>2. CASE pc'[w] # "evaluate"
    BY <1>1, <2>2 DEF Underway, Holds
  <2> QED
    BY <2>1, <2>2
<1>7. Mends(w)' \/ StoryAt(w)'
  <2>1. CASE Mends(w)
    <3>1. Redo(w) /\ twin[c].ts = Msg(cur[w]).ts /\ c \notin Ungoverned
      BY <1>1, <2>1 DEF Mends, Holds, Redo, Current
    <3>2. twin' = twin
      BY <1>1, <1>4, <3>1
    <3>3. pc'[w] \in {"evaluate", "release"}
      BY <1>1, <1>2, <1>3, <3>1 DEF Fresh, ChannelOf
    <3>4. Redo(w)'
      BY <1>1, <1>5, <3>1, <3>2, <3>3 DEF Redo, Current
    <3> QED
      BY <1>1, <1>5, <3>4 DEF Mends, Good
  <2>2. CASE ~Mends(w)
    <3>1. StoryAt(w)
      BY <1>1, <2>2, NothingToMend
    <3> QED
      BY <1>1, <1>5, <3>1 DEF StoryAt
  <2> QED
    BY <2>1, <2>2
<1>8. \A d \in Channels \ {c} : twin'[d] = twin[d]
  BY <1>1, <1>4
<1> QED
  BY <1>1, <1>6, <1>7, <1>8, OwnChannel

\* Evaluate: a transition is under way; an absorbed reading had nothing to put
\* right and changes no alarm.
LEMMA EvaluateTells ==
    ASSUME Keyed, Types, TrackerInv, StoryInv, NEW w \in Workers, Evaluate(w)
    PROVE  StoryInv'
<1> DEFINE q == ProcOf[w]
           c == ChannelOf(w)
           v == Msg(cur[w]).val
           st == EntryOf(entries[q][c])
           t == TransitionOf(st, v, now)
           e == Evaluated(st, v, now)
<1>1. /\ Types' /\ OthersKept(w) /\ cur' = cur /\ pc[w] = "evaluate"
      /\ q \in Procs /\ c \in Channels /\ v \in Readings
      /\ entries' = [entries EXCEPT ![q][c] = Evaluated(EntryOf(@), v, now)]
      /\ undo'[w] = UndoOf(entries[q][c]) /\ kind'[w] = t
      /\ pc'[w] = IF t = NoKind THEN "commit" ELSE "mark"
      /\ UNCHANGED <<kafkaVars, redisVars, stopping, acked, view, dead, envVars>>
  BY EvaluateTypes DEF ChannelOf
<1>2. /\ UNCHANGED <<log, owner, now, stopping, alarm, view, twin, claims>>
      /\ Busy(w) /\ Good(cur[w]) /\ now \in Nat /\ st \in Entries /\ OwnersStay
  BY <1>1, EntryOfType, TypesNow
  DEF kafkaVars, redisVars, envVars, Busy, Types, Validated, Good, TrackerInv
<1>3. /\ entries'[q][c] = e
      /\ \A p \in Procs, d \in Channels : p # q \/ d # c => entries'[p][d] = entries[p][d]
  <2>1. entries \in [Procs -> [Channels -> Entries \cup {Absent}]]
    BY TypesNow
  <2> HIDE DEF c, v, q
  <2> QED
    BY <1>1, <2>1
<1>4. e \in Entries /\ EntryOf(e) = e /\ t \in Kinds \cup {NoKind}
  BY <1>1, <1>2, EvaluatedType, TransitionType, AbsentAssumption DEF EntryOf
<1>5. /\ t # NoKind => (e.state = "ANOMALOUS" <=> t # "CLEARED")
      /\ t = NoKind => e.state = st.state
  <2>1. Healthy(st)
    BY <1>1 DEF TrackerInv
  <2>2. /\ t \in {NoKind, "SUSTAINED"} => e.state = st.state
        /\ t \in {"RAISED", "ESCALATED"} => e.state = "ANOMALOUS"
        /\ t = "CLEARED" => e.state = "NORMAL"
    BY <1>1, <1>2, <2>1, EvaluatedTold
  <2>3. t = "SUSTAINED" => st.state = "ANOMALOUS"
    BY <1>2 DEF TransitionOf, Entries, NoKind
  <2> QED
    BY <1>4, <2>2, <2>3 DEF Kinds
<1>6. Msg(cur[w])' = Msg(cur[w]) /\ ChannelOf(w)' = c /\ Good(cur[w])'
  BY <1>1, <1>2 DEF Msg, ChannelOf, Good
<1>7. Underway(w) /\ Current(w)
  BY <1>1 DEF StoryInv, Underway
<1>8. Current(w)'
  BY <1>1, <1>2, <1>6, <1>7 DEF Current
<1>9. undo'[w].previous = st
  BY <1>1 DEF UndoOf
<1> HIDE DEF e, t, st, v
<1>10. CASE t = NoKind
  <2>1. pc'[w] = "commit"
    BY <1>1, <1>10
  <2>2. ~Mends(w)
    BY <1>1, <1>10 DEF Mends, Holds, Redo, t, st, v
  <2>3. StoryAt(w)
    BY <1>2, <2>2, NothingToMend
  <2>4. StoryAt(w)'
    BY <1>2, <1>3, <1>4, <1>5, <1>6, <1>10, <2>3 DEF StoryAt, st
  <2>5. Underway(w)'
    BY <2>1 DEF Underway, Holds
  <2> QED
    BY <1>1, <1>2, <1>3, <2>4, <2>5, OwnChannel
<1>11. CASE t # NoKind
  <2>1. pc'[w] = "mark" /\ Holds(w)'
    BY <1>1, <1>11 DEF Holds
  <2>2. Mends(w)'
    BY <1>6, <2>1 DEF Mends
  <2>3. kind'[w] \in Kinds /\ Leaves(entries'[q][c], kind'[w])
    BY <1>1, <1>3, <1>4, <1>5, <1>11 DEF Leaves
  <2>4. TransitionOf(undo'[w].previous, Msg(cur[w])'.val, now') # NoKind
    BY <1>2, <1>6, <1>9, <1>11 DEF t, v
  <2>5. Underway(w)'
    BY <1>6, <1>8, <2>1, <2>3, <2>4 DEF Underway, Leaves
  <2> QED
    BY <1>1, <1>2, <1>3, <2>2, <2>5, OwnChannel
<1> QED
  BY <1>10, <1>11

\* MarkAlarm: the hash is as the entry, or the rollback comes.
LEMMA MarkTells ==
    ASSUME Keyed, Types, OwnersStay, StoryInv, NEW w \in Workers, Mark(w)
    PROVE  StoryInv'
<1> DEFINE c == ChannelOf(w)
<1>1. /\ Types' /\ OthersKept(w) /\ cur' = cur /\ pc[w] = "mark"
      /\ alarm' \in {alarm, Marked(w)} /\ undo' = undo /\ kind' = kind
      /\ pc'[w] \in {"emit", "rollback"} /\ (pc'[w] = "emit" => alarm' = Marked(w))
      /\ UNCHANGED <<log, owner, now, stopping, entries, view, twin, claims>>
      /\ Busy(w) /\ Good(cur[w]) /\ Holds(w)
  BY MarkTypes DEF kafkaVars, history, envVars, Busy, Types, Validated, Good, Holds
<1>2. c \in Channels /\ alarm \in [Channels -> Kinds \cup {NoKind}] /\ Underway(w)
  BY <1>1, WorkerReads, TypesNow DEF StoryInv
<1>3. /\ \A d \in Channels \ {c} : Marked(w)[d] = alarm[d]
      /\ Marked(w)[c] = IF kind[w] = "CLEARED" THEN NoKind ELSE kind[w]
  BY <1>2 DEF Marked, ChannelOf
<1>4. Msg(cur[w])' = Msg(cur[w]) /\ ChannelOf(w)' = c /\ Good(cur[w])' /\ Holds(w)'
  BY <1>1 DEF Msg, ChannelOf, Good, Holds
<1>5. kind[w] \in Kinds /\ NoKind \notin Kinds
  BY <1>1, <1>2 DEF Underway, Kinds, NoKind
<1>6. Underway(w)'
  <2>1. pc'[w] = "emit" => (alarm'[c] # NoKind <=> kind'[w] # "CLEARED")
    BY <1>1, <1>3, <1>5
  <2> HIDE DEF c
  <2> QED
    BY <1>1, <1>2, <1>4, <2>1 DEF Underway, Current, Leaves, c
<1>7. Mends(w)'
  BY <1>4 DEF Mends
<1>8. \A d \in Channels \ {c} : alarm'[d] = alarm[d]
  BY <1>1, <1>3
<1> QED
  BY <1>1, <1>6, <1>7, <1>8, OwnChannel

\* The publish: all three agree, or the rollback comes.
LEMMA EmitTells ==
    ASSUME Keyed, Types, OwnersStay, StoryInv, DOMAIN view = Channels,
           NEW w \in Workers, Emit(w)
    PROVE  StoryInv'
<1> DEFINE c == ChannelOf(w)
<1>1. /\ Types' /\ OthersKept(w) /\ cur' = cur /\ pc[w] = "emit"
      /\ view' \in {view, Shown(w)} /\ undo' = undo /\ kind' = kind
      /\ pc'[w] \in {"commit", "rollback"} /\ (pc'[w] = "commit" => view' = Shown(w))
      /\ UNCHANGED <<log, owner, now, stopping, entries, alarm, twin, claims>>
      /\ Busy(w) /\ Good(cur[w]) /\ Holds(w)
  BY EmitTypes DEF kafkaVars, redisVars, envVars, Busy, Types, Validated, Good, Holds
<1>2. c \in Channels /\ Underway(w) /\ DOMAIN view = Channels
  BY <1>1, WorkerReads DEF StoryInv
<1>3. /\ \A d \in Channels \ {c} : Shown(w)[d] = view[d]
      /\ Shown(w)[c] = IF kind[w] = "CLEARED" THEN "closed" ELSE "open"
  BY <1>2 DEF Shown, ChannelOf
<1>4. Msg(cur[w])' = Msg(cur[w]) /\ ChannelOf(w)' = c /\ Good(cur[w])'
  BY <1>1 DEF Msg, ChannelOf, Good
<1>5. CASE pc'[w] = "rollback"
  <2>1. Holds(w)'
    BY <1>5 DEF Holds
  <2>2. Underway(w)' /\ Mends(w)'
    BY <1>1, <1>2, <1>4, <1>5, <2>1 DEF Underway, Current, Leaves, Mends
  <2>3. \A d \in Channels \ {c} : view'[d] = view[d]
    BY <1>1, <1>3
  <2> QED
    BY <1>1, <2>2, <2>3, OwnChannel
<1>6. CASE pc'[w] = "commit"
  <2>1. Underway(w)'
    BY <1>6 DEF Underway, Holds
  <2>2. /\ alarm[c] # NoKind <=> kind[w] # "CLEARED"
        /\ EntryOf(entries[ProcOf[w]][c]).state = "ANOMALOUS" <=> kind[w] # "CLEARED"
    BY <1>1, <1>2 DEF Underway, Leaves
  <2>3. view'[c] = "open" <=> kind[w] # "CLEARED"
    BY <1>1, <1>3, <1>6
  <2>4. StoryAt(w)'
    BY <1>1, <1>4, <2>2, <2>3 DEF StoryAt
  <2>5. \A d \in Channels \ {c} : view'[d] = view[d]
    BY <1>1, <1>3
  <2> QED
    BY <1>1, <2>1, <2>4, <2>5, OwnChannel
<1> QED
  BY <1>1, <1>5, <1>6

\* The rollback: the transition is evaluated again or dead-lettered.
LEMMA RollbackTells ==
    ASSUME Keyed, Types, TrackerInv, StoryInv, NEW w \in Workers, Rollback(w)
    PROVE  StoryInv'
<1> DEFINE q == ProcOf[w]
           c == ChannelOf(w)
           u == undo[w]
<1>1. /\ Types' /\ OthersKept(w) /\ cur' = cur /\ pc[w] = "rollback" /\ pc'[w] = "release"
      /\ q \in Procs /\ c \in Channels
      /\ entries' = [entries EXCEPT ![q][c] = RolledBack(@, u)]
      /\ UNCHANGED <<log, owner, now, stopping, alarm, view, twin, claims>>
      /\ Busy(w) /\ Good(cur[w]) /\ Holds(w) /\ OwnersStay
  BY RollbackTypes
  DEF kafkaVars, redisVars, history, envVars, Busy, Types, Validated, Good, Holds, ChannelOf,
      TrackerInv
<1>2. /\ entries[q][c] # Absent /\ entries[q][c].sequence = u.sequence
      /\ u.existed = FALSE => u.previous = NewEntry
  BY <1>1 DEF TrackerInv, TokenExact
<1>3. u \in Undos /\ u.existed \in BOOLEAN /\ u.previous \in Entries
  BY TypesNow DEF Undos
<1>4. RolledBack(entries[q][c], u) = IF u.existed THEN u.previous ELSE Absent
  BY <1>2 DEF RolledBack, EntryOf
<1>5. EntryOf(RolledBack(entries[q][c], u)) = u.previous
  BY <1>2, <1>3, <1>4, AbsentAssumption DEF EntryOf
<1>6. /\ entries'[q][c] = RolledBack(entries[q][c], u)
      /\ \A p \in Procs, d \in Channels : p # q \/ d # c => entries'[p][d] = entries[p][d]
  <2>1. entries \in [Procs -> [Channels -> Entries \cup {Absent}]]
    BY TypesNow
  <2> HIDE DEF q, c, u
  <2> QED
    BY <1>1, <2>1
<1>7. Msg(cur[w])' = Msg(cur[w]) /\ ChannelOf(w)' = c /\ Good(cur[w])'
  BY <1>1 DEF Msg, ChannelOf, Good
<1>8. Current(w) /\ TransitionOf(u.previous, Msg(cur[w]).val, now) # NoKind
  BY <1>1 DEF StoryInv, Underway
<1>9. Redo(w)'
  BY <1>1, <1>5, <1>6, <1>7, <1>8 DEF Redo, Current
<1>10. Underway(w)' /\ Mends(w)'
  BY <1>1, <1>7, <1>9 DEF Underway, Holds, Mends
<1> QED
  BY <1>1, <1>6, <1>10, OwnChannel

\* The release: the claim of a message to be evaluated again is gone.
LEMMA ReleaseTells ==
    ASSUME Keyed, Retried, Types, OwnersStay, StoryInv, NEW w \in Workers, Release(w)
    PROVE  StoryInv'
<1>1. /\ Types' /\ OthersKept(w) /\ cur' = cur /\ pc[w] = "release"
      /\ UNCHANGED <<log, owner, now, stopping, entries, alarm, view, twin>>
      /\ Busy(w) /\ Good(cur[w]) /\ ~Stopping(w) /\ ~CallFails(w, "release")
  BY ReleaseTypes
  DEF kafkaVars, history, envVars, Busy, Types, Validated, Good, StoryInv, Stopping, Retried,
      CallFails
<1>2. pc'[w] \in {"dead", "admit"} /\ claims' = claims \ {Coordinate(cur[w])}
  BY <1>1, ReleaseTypes
<1>3. Underway(w)'
  BY <1>2 DEF Underway, Holds
<1>4. /\ Msg(cur[w])' = Msg(cur[w]) /\ ChannelOf(w)' = ChannelOf(w) /\ Good(cur[w])'
      /\ Coordinate(cur[w])' = Coordinate(cur[w])
  BY <1>1 DEF Msg, ChannelOf, Good, Coordinate
<1>5. Mends(w)' \/ StoryAt(w)'
  <2>1. CASE Mends(w)
    <3>1. Redo(w)
      BY <1>1, <2>1 DEF Mends, Holds
    <3>2. pc'[w] = "admit" => Redo(w)'
      BY <1>1, <1>2, <1>4, <3>1 DEF Redo, Current
    <3> QED
      BY <1>2, <1>4, <3>2 DEF Mends
  <2>2. CASE ~Mends(w)
    <3>1. StoryAt(w)
      BY <1>1, <2>2, NothingToMend
    <3> QED
      BY <1>1, <1>4, <3>1 DEF StoryAt
  <2> QED
    BY <2>1, <2>2
<1> QED
  BY <1>1, <1>2, <1>3, <1>5, OwnChannel
\* The janitor drops a channel that is told as healthy.
LEMMA PruneTells ==
    ASSUME Types, TrackerInv, StoryInv, NEW q \in Procs, NEW c \in Channels, Prune(q, c)
    PROVE  StoryInv'
<1>1. /\ Prunable(entries[q][c], now, Idle)
      /\ entries' = [entries EXCEPT ![q][c] = Absent]
      /\ UNCHANGED <<log, owner, now, stopping, alarm, view, twin, claims, pc, cur, undo, kind>>
  BY DEF Prune, kafkaVars, redisVars, workerVars, history, envVars
<1>2. entries \in [Procs -> [Channels -> Entries \cup {Absent}]] /\ now \in Nat /\ Idle \in Nat
  BY TypesNow, IngestAssumption
<1>3. /\ entries[q][c].state = "NORMAL" /\ entries[q][c] # Absent
      /\ entries[q][c].lastSeen # now
  BY <1>1, <1>2 DEF Prunable
<1>4. /\ entries'[q][c] = Absent
      /\ \A p \in Procs, d \in Channels : p # q \/ d # c => entries'[p][d] = entries[p][d]
      /\ \A p \in Procs, d \in Channels : entries'[p][d] # Absent => entries[p][d] # Absent
  BY <1>1, <1>2
<1>5. \A p \in Procs, d \in Channels :
         EntryOf(entries'[p][d]).state = EntryOf(entries[p][d]).state
  BY <1>3, <1>4 DEF EntryOf, NewEntry
<1>6. ASSUME NEW v, NEW p \in Procs, NEW d \in Channels
      PROVE  TransitionOf(EntryOf(entries'[p][d]), v, now) =
                TransitionOf(EntryOf(entries[p][d]), v, now)
  <2>1. CASE p = q /\ d = c
    BY <1>3, <1>4, <2>1 DEF TransitionOf, EntryOf, NewEntry
  <2>2. CASE p # q \/ d # c
    BY <1>4, <2>2
  <2> QED
    BY <2>1, <2>2
<1>7. \A w \in Workers : Validated(w) \/ pc[w] = "admit" => cur[w] \in Ids
  BY DEF Types, Validated, Busy
<1>8. ASSUME NEW w \in Workers PROVE Underway(w)'
  <2>1. CASE pc[w] = "evaluate" \/ Holds(w)
    <3>1. ProcOf[w] \in Procs /\ ChannelOf(w) \in Channels
      BY <2>1, AckedAt
    <3>2. CASE Holds(w)
      <4>1. ProcOf[w] # q \/ ChannelOf(w) # c
        BY <1>3, <3>2 DEF TrackerInv, TokenExact
      <4>2. Underway(w) /\ entries'[ProcOf[w]][ChannelOf(w)] = entries[ProcOf[w]][ChannelOf(w)]
        BY <1>4, <3>1, <4>1 DEF StoryInv
      <4> QED
        BY <1>1, <4>2, UnderwayStays
    <3>3. CASE pc[w] = "evaluate"
      BY <1>1, <3>3 DEF StoryInv, Underway, Holds, Current, ChannelOf, Msg
    <3> QED
      BY <2>1, <3>2, <3>3
  <2>2. CASE ~(pc[w] = "evaluate" \/ Holds(w))
    BY <1>1, <2>2 DEF Underway, Holds
  <2> QED
    BY <2>1, <2>2
<1>9. ASSUME NEW w \in Workers, Mends(w) PROVE Mends(w)' /\ ChannelOf(w)' = ChannelOf(w)
  <2>1. ProcOf[w] \in Procs /\ ChannelOf(w) \in Channels
    <3>1. cur[w] \in Ids
      BY <1>7, <1>9 DEF Mends, Holds, Redo, Validated
    <3> QED
      BY <3>1, MsgType, TypesNow DEF ChannelOf
  <2> QED
    BY <1>1, <1>6, <1>9, <2>1, MendsStays
<1>10. \A d \in Channels : Story(d) => Story(d)'
  BY <1>1, <1>5 DEF Story, Alarmed
<1>11. \A p \in Procs, d \in Channels : Reads(p, d)' <=> Reads(p, d)
  BY <1>1, ReadsStay
<1> QED
  BY <1>1, <1>4, <1>8, <1>9, <1>10, <1>11 DEF StoryInv

\* Steps outside that touch no channel; the clock moves only while all is idle.
LEMMA OutsideTells ==
    ASSUME StoryInv, claims' \subseteq claims,
           UNCHANGED <<log, owner, stopping, entries, alarm, view, twin, pc, cur, undo, kind>>,
           now' = now \/ \A w \in Workers : pc[w] = "idle"
    PROVE  StoryInv'
<1>1. ASSUME NEW w \in Workers PROVE Underway(w)'
  BY UnderwayStays DEF StoryInv, Holds
<1>2. ASSUME NEW w \in Workers, Mends(w) PROVE Mends(w)' /\ ChannelOf(w)' = ChannelOf(w)
  <2>1. now' = now
    BY <1>2 DEF Mends, Holds, Redo
  <2> QED
    BY <1>2, <2>1, MendsStays
<1>3. \A c \in Channels : Story(c) => Story(c)'
  BY DEF Story, Alarmed
<1>4. \A q \in Procs, c \in Channels : Reads(q, c)' <=> Reads(q, c)
  BY ReadsStay
<1> QED
  BY <1>1, <1>2, <1>3, <1>4 DEF StoryInv

\* The story at the start.
LEMMA VisibleInit == Init => VisibleInv
<1> SUFFICES ASSUME Init PROVE VisibleInv
  OBVIOUS
<1>1. \A c \in Channels : Story(c)
  BY DEF Init, Story, Alarmed, EntryOf, NewEntry, NoKind
<1>2. \A w \in Workers : Underway(w)
  BY DEF Init, Underway, Holds
<1> QED
  BY <1>1, <1>2 DEF Init, VisibleInv, StoryInv

\* Every step keeps it.
LEMMA VisibleNext ==
    ASSUME MaxMoves = 0, Keyed, Retried
    PROVE  Types /\ TrackerInv /\ VisibleInv /\ [Next]_vars => VisibleInv'
<1> SUFFICES ASSUME Types, TrackerInv, VisibleInv, [Next]_vars PROVE VisibleInv'
  OBVIOUS
<1>0. OwnersStay /\ crashes \in Nat /\ shutdowns \in Nat /\ DOMAIN view = Channels
  BY DEF TrackerInv, VisibleInv
<1>1. ASSUME UNCHANGED <<view, crashes, shutdowns>>, dead \subseteq dead', Quiet => StoryInv'
      PROVE  VisibleInv'
  <2>1. Quiet' => Quiet
    BY <1>1 DEF Quiet
  <2> QED
    BY <1>0, <1>1, <2>1 DEF VisibleInv
<1>2. ASSUME Quiet PROVE StoryInv
  BY <1>2 DEF VisibleInv
<1>3. CASE UNCHANGED vars
  <2>1. /\ UNCHANGED <<view, crashes, shutdowns, dead, claims, now>>
        /\ UNCHANGED <<log, owner, stopping, entries, alarm, view, twin, pc, cur, undo, kind>>
    BY <1>3 DEF vars, kafkaVars, redisVars, workerVars, history, envVars
  <2> QED
    BY <1>1, <1>2, <2>1, OutsideTells
<1>4. ASSUME NEW w \in Workers, Fetch(w) PROVE VisibleInv'
  <2>1. /\ OthersKept(w) /\ pc[w] = "idle" /\ pc'[w] = "admit"
        /\ UNCHANGED <<log, owner, now, stopping, entries, alarm, view, twin, claims>>
        /\ UNCHANGED <<crashes, shutdowns, dead>>
    BY <1>4, FetchTypes DEF redisVars, history, envVars
  <2> QED
    BY <1>1, <1>2, <2>1, OffChannel
<1>5. ASSUME NEW w \in Workers, Commit(w) PROVE VisibleInv'
  <2>1. /\ OthersKept(w) /\ pc[w] = "commit" /\ pc'[w] \in {"idle", "stopped"}
        /\ UNCHANGED <<log, owner, now, stopping, entries, alarm, view, twin, claims>>
        /\ UNCHANGED <<crashes, shutdowns, dead>>
    BY <1>5, CommitTypes DEF redisVars, history, envVars
  <2> QED
    BY <1>1, <1>2, <2>1, OffChannel
<1>6. ASSUME NEW w \in Workers, Abandon(w) \/ Reject(w) \/ DeadLetter(w) PROVE VisibleInv'
  <2>1. UNCHANGED <<view, crashes, shutdowns>>
    BY <1>6, EndTypes DEF envVars
  <2>2. dead' \in {dead, dead \cup {cur[w]}}
    BY <1>6, EndTypes
  <2>3. Quiet => dead' = dead \cup {cur[w]}
    <3>1. SUFFICES ASSUME Quiet PROVE dead' = dead \cup {cur[w]}
      OBVIOUS
    <3>2. ~Stopping(w)
      BY <1>2, <3>1 DEF StoryInv, Stopping
    <3>3. ~CallFails(w, "dlq")
      BY DEF CallFails, Retried
    <3> QED
      BY <1>6, <3>2, <3>3, EndTypes
  <2>4. ~Quiet'
    BY <2>1, <2>2, <2>3 DEF Quiet
  <2> QED
    BY <1>0, <2>1, <2>4 DEF VisibleInv
<1>7. ASSUME NEW w \in Workers, Admit(w) \/ Apply(w) \/ Evaluate(w) \/ Mark(w) \/ Rollback(w)
                                \/ Release(w)
      PROVE  VisibleInv'
  <2>1. UNCHANGED <<view, crashes, shutdowns, dead>>
    BY <1>7, AdmitTypes, ApplyTypes, EvaluateTypes, MarkTypes, RollbackTypes, ReleaseTypes
    DEF history, envVars
  <2>2. ASSUME Quiet PROVE StoryInv'
    BY <1>0, <1>2, <1>7, <2>2, AdmitTells, ApplyTells, EvaluateTells, MarkTells,
       RollbackTells, ReleaseTells
  <2> QED
    BY <1>1, <2>1, <2>2
<1>8. ASSUME NEW w \in Workers, Emit(w) PROVE VisibleInv'
  <2>1. UNCHANGED <<crashes, shutdowns, dead>> /\ view' \in {view, Shown(w)}
    BY <1>8, EmitTypes DEF envVars
  <2>2. DOMAIN view' = Channels
    BY <1>0, <2>1 DEF Shown
  <2>3. ASSUME Quiet PROVE StoryInv'
    BY <1>0, <1>2, <1>8, <2>3, EmitTells
  <2> QED
    BY <1>0, <2>1, <2>2, <2>3 DEF VisibleInv, Quiet
<1>9. ASSUME NEW p \in Partitions, Rebalance(p) PROVE FALSE
  BY <1>0, <1>9, RebalanceTypes DEF OwnersStay
<1>10. ASSUME NEW q \in Procs, Crash(q) \/ Shutdown(q) PROVE VisibleInv'
  <2>1. /\ view' = view
        /\ \/ crashes' = crashes + 1 /\ shutdowns' = shutdowns
           \/ crashes' = crashes /\ shutdowns' = shutdowns + 1
    BY <1>10 DEF Crash, Reborn, Shutdown, history
  <2>2. crashes' \in Nat /\ shutdowns' \in Nat /\ crashes' + shutdowns' # 0
    BY <1>0, <2>1
  <2> QED
    BY <1>0, <2>1, <2>2 DEF VisibleInv, Quiet
<1>11. ASSUME NEW q \in Procs, Restart(q) PROVE VisibleInv'
  <2>1. UNCHANGED <<view, crashes, shutdowns, dead>> /\ stopping # {}
    BY <1>11 DEF Restart, Reborn
  <2> QED
    BY <1>1, <1>2, <2>1 DEF StoryInv
<1>12. CASE ClaimExpires
  <2>1. /\ UNCHANGED <<view, crashes, shutdowns, dead, now>> /\ claims' \subseteq claims
        /\ UNCHANGED <<log, owner, stopping, entries, alarm, view, twin, pc, cur, undo, kind>>
    BY <1>12 DEF ClaimExpires, kafkaVars, workerVars, history, envVars
  <2> QED
    BY <1>1, <1>2, <2>1, OutsideTells
<1>13. CASE Tick
  <2>1. /\ UNCHANGED <<view, crashes, shutdowns, dead, claims>>
        /\ UNCHANGED <<log, owner, stopping, entries, alarm, view, twin, pc, cur, undo, kind>>
        /\ \A w \in Workers : pc[w] = "idle"
    BY <1>13 DEF Tick, kafkaVars, redisVars, workerVars, history
  <2> QED
    BY <1>1, <1>2, <2>1, OutsideTells
<1>14. ASSUME NEW q \in Procs, NEW c \in Channels, Prune(q, c) PROVE VisibleInv'
  <2>1. UNCHANGED <<view, crashes, shutdowns, dead>>
    BY <1>14 DEF Prune, history, envVars
  <2> QED
    BY <1>1, <1>2, <1>14, <2>1, PruneTells
<1>15. ASSUME NEW w \in Workers, Work(w) PROVE VisibleInv'
  BY <1>4, <1>5, <1>6, <1>7, <1>8, <1>15 DEF Work
<1> QED
  BY <1>3, <1>9, <1>10, <1>11, <1>12, <1>13, <1>14, <1>15 DEF Next

\* engine.go, step 3: no alarm is lost "without even a dead letter to show for
\* it".  For any processes, workers, partitions, topic and number of failed
\* calls, also ones that took effect: with an asset's telemetry in one
\* partition, partitions that stay, and under the conditions of Retried, once
\* all messages are handled, with nothing dead-lettered or restarted, the
\* mutation topic, the alarm hash and the state machine tell the same story.
THEOREM EverybodySees ==
    ASSUME MaxMoves = 0, Keyed, Retried
    PROVE  Spec => []AlarmVisible
<1>1. VisibleInv => AlarmVisible
  <2> SUFFICES ASSUME VisibleInv, Quiescent, dead = {}, ~Restarted, NEW c \in Channels
               PROVE  Story(c)
    BY DEF AlarmVisible, Story
  <2>1. Quiet
    BY DEF VisibleInv, Quiet, Restarted
  <2>2. \A w \in Workers : ~Mends(w)
    BY DEF Quiescent, Mends, Holds, Redo
  <2> QED
    BY <2>1, <2>2 DEF VisibleInv, StoryInv
<1>2. Spec => [](Types /\ TrackerInv /\ VisibleInv)
  <2>1. Init => Types /\ TrackerInv /\ VisibleInv
    BY TypesInit, TrackerInit, VisibleInit
  <2>2. Types /\ TrackerInv /\ VisibleInv /\ [Next]_vars => (Types /\ TrackerInv /\ VisibleInv)'
    BY TypesNext, TrackerNext, VisibleNext
  <2> QED
    BY <2>1, <2>2, PTL DEF Spec
<1> QED
  BY <1>1, <1>2, PTL

=============================================================================
