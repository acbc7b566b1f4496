----------------------------- MODULE AlarmState -----------------------------
(***************************************************************************)
(* The per-channel alarm state machine of the resolution engine            *)
(* (services/resolution-engine/state.go) and the rule verdict it consumes  *)
(* (model.go), as operators on one channel's entry.  StateTracker puts     *)
(* them under concurrent deliveries, Ingest under the whole Kafka/Redis    *)
(* pipeline.                                                               *)
(*                                                                         *)
(* A reading is abstracted to the only thing the code tells apart: on      *)
(* which side of limit * (1 - hysteresis), limit and                       *)
(* limit * (1 + criticalRatio) its value falls.                            *)
(***************************************************************************)
EXTENDS Integers

CONSTANTS
    Absent,    \* a channel with no entry in the shard's map
    ReAlert    \* RULE_REALERT_INTERVAL; 0 disables SUSTAINED

ASSUME ReAlertAssumption == ReAlert \in Nat

-----------------------------------------------------------------------------
(* Rule verdicts *)

\* ok: at or under the clearing point; band: inside the hysteresis band;
\* high and crit: over the limit.
Readings == {"ok", "band", "high", "crit"}

Info     == 1
High     == 2
Critical == 3

Severities == {Info, High, Critical}

Breached(v) == v \in {"high", "crit"}

SeverityOf(v) == IF v = "crit" THEN Critical
                 ELSE IF v = "high" THEN High ELSE Info

-----------------------------------------------------------------------------
(* Entries and transitions *)

\* The zero time.Time; real instants are positive.
ZeroTime == 0

Entries == [state: {"NORMAL", "ANOMALOUS"}, severity: Severities,
            activeSince: Nat, lastEmit: Nat, lastSeen: Nat,
            breachCount: Nat, sequence: Nat]

ASSUME AbsentAssumption == Absent \notin Entries

\* What Evaluate puts in the map the first time it sees a channel.
NewEntry == [state |-> "NORMAL", severity |-> Info,
             activeSince |-> ZeroTime, lastEmit |-> ZeroTime,
             lastSeen |-> ZeroTime, breachCount |-> 0, sequence |-> 0]

\* The entry an Evaluate works on: the one in the map, or a fresh one.
EntryOf(e) == IF e = Absent THEN NewEntry ELSE e

Kinds == {"RAISED", "ESCALATED", "SUSTAINED", "CLEARED"}

NoKind == "none"

\* The transition Evaluate reports on entry st for reading v at time t;
\* NoKind when the reading is absorbed.
TransitionOf(st, v, t) ==
    IF Breached(v)
    THEN IF st.state = "NORMAL" THEN "RAISED"
         ELSE IF SeverityOf(v) > st.severity THEN "ESCALATED"
         ELSE IF ReAlert > 0 /\ t - st.lastEmit >= ReAlert THEN "SUSTAINED"
         ELSE NoKind
    ELSE IF st.state = "ANOMALOUS" /\ v = "ok" THEN "CLEARED" ELSE NoKind

\* Mutation: only an emitting Evaluate advances the sequence.
MutEvaluatedNoBump(st, v, t) ==
    LET kind == TransitionOf(st, v, t) IN
    [state       |-> IF Breached(v) THEN "ANOMALOUS"
                     ELSE IF kind = "CLEARED" THEN "NORMAL" ELSE st.state,
     severity    |-> IF Breached(v) /\ SeverityOf(v) > st.severity THEN SeverityOf(v)
                     ELSE IF kind = "CLEARED" THEN Info ELSE st.severity,
     activeSince |-> st.activeSince,
     lastEmit    |-> IF kind = NoKind THEN st.lastEmit ELSE t,
     lastSeen    |-> t,
     breachCount |-> st.breachCount,
     sequence    |-> IF kind = NoKind /\ st.sequence > 0
                     THEN st.sequence ELSE st.sequence + 1]

\* Mutation: every breach raises the severity by one rank.
MutEvaluatedClimb(st, v, t) ==
    [MutEvaluatedNoBump(st, v, t) EXCEPT
        !.severity = IF Breached(v) THEN @ + 1 ELSE @, !.sequence = st.sequence + 1]

\* The entry as Evaluate leaves it.  Severity is a high-water mark of the
\* episode; breachCount survives the episode, severity and activeSince do not.
Evaluated(st, v, t) ==
    LET kind == TransitionOf(st, v, t) IN
    [state       |-> IF Breached(v) THEN "ANOMALOUS"
                     ELSE IF kind = "CLEARED" THEN "NORMAL" ELSE st.state,
     severity    |-> IF Breached(v) /\ SeverityOf(v) > st.severity THEN SeverityOf(v)
                     ELSE IF kind = "CLEARED" THEN Info ELSE st.severity,
     activeSince |-> IF kind = "RAISED" THEN t
                     ELSE IF kind = "CLEARED" THEN ZeroTime ELSE st.activeSince,
     lastEmit    |-> IF kind = NoKind THEN st.lastEmit ELSE t,
     lastSeen    |-> t,
     breachCount |-> IF Breached(v) THEN st.breachCount + 1 ELSE st.breachCount,
     sequence    |-> st.sequence + 1]

-----------------------------------------------------------------------------
(* Undo tokens *)

\* The token of an Evaluate that found the map slot e.
UndoOf(e) == [previous |-> EntryOf(e), existed |-> e # Absent,
              sequence |-> EntryOf(e).sequence + 1]

Undos == [previous: Entries, existed: BOOLEAN, sequence: Nat]

\* Mutation: the sequence check is dropped.
MutRolledBackAlways(e, u) ==
    IF e = Absent THEN e ELSE IF u.existed THEN u.previous ELSE Absent

\* The map slot after Rollback(u) on slot e: restored only when nothing has
\* advanced the channel since the Evaluate that produced u.
RolledBack(e, u) ==
    IF e = Absent \/ EntryOf(e).sequence # u.sequence THEN e
    ELSE IF u.existed THEN u.previous ELSE Absent

\* Mutation: the janitor forgets the idle window.
MutPrunableNow(e, t, idle) ==
    /\ e # Absent
    /\ e.state = "NORMAL"

\* The janitor may drop the channel: quiet and healthy for longer than idle.
Prunable(e, t, idle) ==
    /\ e # Absent
    /\ e.state = "NORMAL"
    /\ t - e.lastSeen > idle

=============================================================================
