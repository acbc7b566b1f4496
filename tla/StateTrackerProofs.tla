------------------------- MODULE StateTrackerProofs -------------------------
(***************************************************************************)
(* For any set of channels, any number of concurrent deliveries and any    *)
(* timing with OpTimeout + Skew <= Idle, a rollback undoes exactly the     *)
(* evaluation that produced its token.                                     *)
(*                                                                         *)
(* The argument.  Sequence numbers are reused: a rollback hands its number *)
(* back.  They are never ambiguous all the same, because the tokens        *)
(* outstanding on a channel form a chain: their numbers are distinct, none *)
(* exceeds the channel's, and the copy a token would restore is the state  *)
(* in which every lower token is still exact.  A rollback therefore        *)
(* re-establishes the facts about the tokens below it, and the janitor     *)
(* cannot break the chain because a channel with an outstanding token was  *)
(* evaluated within OpTimeout + Skew.                                      *)
(***************************************************************************)
EXTENDS StateTracker, TLAPS

\* Entries in the map have been evaluated at least once, and the clock is
\* past the zero time even for a delivery with a stale reading of it.
EntriesCounted ==
    /\ now >= 1 + Skew
    /\ \A k \in Keys : entries[k] # Absent => entries[k].sequence >= 1

\* What a token records, and that it is young.
TokenWellFormed ==
    \A d \in Deliveries : Held(d) =>
        /\ undo[d].sequence = undo[d].previous.sequence + 1
        /\ undo[d].existed => undo[d].previous.sequence >= 1
        /\ lockedAt[d] <= now
        /\ now - lockedAt[d] <= OpTimeout

\* The top of the chain: a token against the channel as it is now.
TokenAgainstEntry ==
    \A d \in Deliveries : Held(d) =>
        /\ entries[chan[d]] # Absent
        /\ undo[d].sequence <= entries[chan[d]].sequence
        /\ undo[d].sequence = entries[chan[d]].sequence
              => applied[chan[d]] = before[d] \cup {d}
        /\ entries[chan[d]].lastSeen + Skew >= lockedAt[d]

\* The chain: a token e below a token d of the same channel is to the copy d
\* would restore what it would be to the channel.
TokenChain ==
    \A d, e \in Deliveries :
        Held(d) /\ Held(e) /\ chan[d] = chan[e] /\ d # e =>
            /\ undo[d].sequence # undo[e].sequence
            /\ undo[e].sequence < undo[d].sequence =>
                 /\ undo[d].existed
                 /\ undo[d].previous.sequence = undo[e].sequence
                       => before[d] = before[e] \cup {e}
                 /\ undo[d].previous.lastSeen + Skew >= lockedAt[e]

\* The inductive invariant.
IInv ==
    /\ TypeOK
    /\ EntriesCounted
    /\ TokenWellFormed
    /\ TokenAgainstEntry
    /\ TokenChain

-----------------------------------------------------------------------------
(* What the entry operators return. *)

\* The entry of a channel, present or not, is one.
LEMMA EntryOfType ==
    ASSUME NEW e \in Entries \cup {Absent}
    PROVE  /\ EntryOf(e) \in Entries
           /\ UndoOf(e) \in Undos
  BY AbsentAssumption
     DEF EntryOf, NewEntry, Entries, Severities, Info, High, Critical, ZeroTime,
         UndoOf, Undos

\* Evaluating an entry gives an entry.
LEMMA EvaluatedType ==
    ASSUME NEW st \in Entries, NEW v \in Readings, NEW t \in Nat
    PROVE  /\ Evaluated(st, v, t) \in Entries
           /\ Evaluated(st, v, t).sequence = st.sequence + 1
           /\ Evaluated(st, v, t).lastSeen = t
  <1>1. SeverityOf(v) \in Severities
    BY DEF SeverityOf, Severities
  <1>2. QED
    BY <1>1 DEF Evaluated, Entries, Severities, ZeroTime

\* So does rolling it back.
LEMMA RolledBackType ==
    ASSUME NEW e \in Entries \cup {Absent}, NEW u \in Undos
    PROVE  RolledBack(e, u) \in Entries \cup {Absent}
  BY DEF RolledBack, Undos

-----------------------------------------------------------------------------
(* Type correctness. *)

\* No channel is known and no token is held.
LEMMA InitIInv == Init => IInv
  <1> SUFFICES ASSUME Init PROVE IInv
    OBVIOUS
  <1>1. UndoOf(Absent) \in Undos
    BY EntryOfType
  <1>2. TypeOK
    BY <1>1, TimeAssumption DEF Init, TypeOK
  <1>3. EntriesCounted
    BY TimeAssumption DEF Init, EntriesCounted
  <1>4. \A d \in Deliveries : ~Held(d)
    BY DEF Init, Held
  <1>5. QED
    BY <1>2, <1>3, <1>4 DEF IInv, TokenWellFormed, TokenAgainstEntry, TokenChain

\* Every step keeps the types.
LEMMA TypeStep ==
    ASSUME TypeOK, EntriesCounted, [Next]_vars
    PROVE  TypeOK'
  <1> USE DEF TypeOK
  <1>1. ASSUME NEW d \in Deliveries, Evaluate(d) PROVE TypeOK'
    <2> DEFINE k == chan[d]
    <2>1. PICK v \in Readings, t \in (now - Skew)..now :
            /\ entries' = [entries EXCEPT ![k] = Evaluated(EntryOf(entries[k]), v, t)]
            /\ phase' = [phase EXCEPT ![d] =
                           IF TransitionOf(EntryOf(entries[k]), v, t) = NoKind
                           THEN "done" ELSE "held"]
      BY <1>1 DEF Evaluate
    <2>2. t \in Nat
      BY TimeAssumption DEF EntriesCounted
    <2>3. EntryOf(entries[k]) \in Entries /\ UndoOf(entries[k]) \in Undos
      BY EntryOfType
    <2>4. Evaluated(EntryOf(entries[k]), v, t) \in Entries
      BY <2>2, <2>3, EvaluatedType
    <2>5. QED
      BY <1>1, <2>1, <2>3, <2>4 DEF Evaluate
  <1>2. ASSUME NEW d \in Deliveries, Settle(d) PROVE TypeOK'
    BY <1>2 DEF Settle
  <1>3. ASSUME NEW d \in Deliveries, Rollback(d) PROVE TypeOK'
    <2>1. RolledBack(entries[chan[d]], undo[d]) \in Entries \cup {Absent}
      BY RolledBackType
    <2>2. QED
      BY <1>3, <2>1 DEF Rollback
  <1>4. ASSUME NEW k \in Keys, Prune(k) PROVE TypeOK'
    BY <1>4 DEF Prune
  <1>5. CASE Tick
    BY <1>5 DEF Tick
  <1>6. CASE UNCHANGED vars
    BY <1>6 DEF vars
  <1>7. QED
    BY <1>1, <1>2, <1>3, <1>4, <1>5, <1>6 DEF Next

-----------------------------------------------------------------------------
(* The inductive step, one lemma per action. *)

\* A new token is the newest of its channel, and exact.
LEMMA EvaluateStep ==
    ASSUME IInv, NEW d \in Deliveries, Evaluate(d), TypeOK'
    PROVE  EntriesCounted' /\ TokenWellFormed' /\ TokenAgainstEntry' /\ TokenChain'
  <1> DEFINE k  == chan[d]
             st == EntryOf(entries[k])
  <1> USE DEF IInv, TypeOK
  <1>1. PICK v \in Readings, t \in (now - Skew)..now :
          /\ entries' = [entries EXCEPT ![k] = Evaluated(st, v, t)]
          /\ phase' = [phase EXCEPT ![d] =
                         IF TransitionOf(st, v, t) = NoKind THEN "done" ELSE "held"]
    BY DEF Evaluate
  <1>2. /\ undo' = [undo EXCEPT ![d] = UndoOf(entries[k])]
        /\ applied' = [applied EXCEPT ![k] = @ \cup {d}]
        /\ before' = [before EXCEPT ![d] = applied[k]]
        /\ lockedAt' = [lockedAt EXCEPT ![d] = now]
        /\ UNCHANGED <<now, chan>>
        /\ phase[d] = "new"
    BY DEF Evaluate
  <1>3. t \in Nat /\ t + Skew >= now
    BY TimeAssumption DEF EntriesCounted
  <1>4. k \in Keys /\ st \in Entries
    BY EntryOfType
  <1>5. /\ entries'[k] \in Entries
        /\ entries'[k] # Absent
        /\ entries'[k].sequence = st.sequence + 1
        /\ entries'[k].lastSeen = t
    <2>1. entries'[k] = Evaluated(st, v, t)
      BY <1>1, <1>4
    <2>2. /\ Evaluated(st, v, t) \in Entries
          /\ Evaluated(st, v, t).sequence = st.sequence + 1
          /\ Evaluated(st, v, t).lastSeen = t
      BY <1>3, <1>4, EvaluatedType
    <2>3. QED
      BY <2>1, <2>2, AbsentAssumption
  <1>6. /\ undo'[d].previous = st
        /\ undo'[d].sequence = st.sequence + 1
        /\ undo'[d].existed <=> entries[k] # Absent
        /\ before'[d] = applied[k]
        /\ lockedAt'[d] = now
    BY <1>2 DEF UndoOf
  <1>7. st.sequence \in Nat /\ st.lastSeen \in Nat
    BY <1>4 DEF Entries
  <1>8. entries[k] # Absent => st = entries[k] /\ st.sequence >= 1
    BY <1>4 DEF EntryOf, EntriesCounted
  <1>9. \A e \in Deliveries \ {d} :
          /\ Held(e)' <=> Held(e)
          /\ undo'[e] = undo[e] /\ before'[e] = before[e] /\ lockedAt'[e] = lockedAt[e]
          /\ chan'[e] = chan[e]
          /\ chan[e] # k => entries'[chan[e]] = entries[chan[e]]
                            /\ applied'[chan[e]] = applied[chan[e]]
    BY <1>1, <1>2 DEF Held
  \* What held of the other tokens of the channel, said of st.
  <1>10. \A e \in Deliveries \ {d} : Held(e) /\ chan[e] = k =>
          /\ entries[k] # Absent
          /\ undo[e].sequence <= st.sequence
          /\ undo[e].sequence = st.sequence => applied[k] = before[e] \cup {e}
          /\ st.lastSeen + Skew >= lockedAt[e]
    BY <1>8 DEF TokenAgainstEntry
  <1>11. \A e \in Deliveries : undo[e].sequence \in Nat /\ lockedAt[e] \in Nat
    BY DEF Undos
  <1>12. EntriesCounted'
    BY <1>1, <1>2, <1>4, <1>5, <1>7 DEF EntriesCounted
  <1>13. TokenWellFormed'
    BY <1>2, <1>6, <1>7, <1>8, <1>9, TimeAssumption DEF TokenWellFormed
  <1>14. TokenAgainstEntry'
    <2> SUFFICES ASSUME NEW e \in Deliveries, Held(e)'
                 PROVE  /\ entries'[chan'[e]] # Absent
                        /\ undo'[e].sequence <= entries'[chan'[e]].sequence
                        /\ undo'[e].sequence = entries'[chan'[e]].sequence
                              => applied'[chan'[e]] = before'[e] \cup {e}
                        /\ entries'[chan'[e]].lastSeen + Skew >= lockedAt'[e]
      BY DEF TokenAgainstEntry
    <2>1. CASE e = d
      BY <2>1, <1>2, <1>3, <1>4, <1>5, <1>6, <1>7
    <2>2. CASE e # d /\ chan[e] = k
      <3>1. lockedAt[e] <= now
        BY <2>2, <1>9 DEF TokenWellFormed
      <3>2. QED
        BY <2>2, <3>1, <1>3, <1>4, <1>5, <1>7, <1>9, <1>10, <1>11, TimeAssumption
    <2>3. CASE e # d /\ chan[e] # k
      BY <2>3, <1>9 DEF TokenAgainstEntry
    <2>4. QED
      BY <2>1, <2>2, <2>3
  <1>15. TokenChain'
    <2> SUFFICES ASSUME NEW a \in Deliveries, NEW b \in Deliveries,
                        Held(a)', Held(b)', chan'[a] = chan'[b], a # b
                 PROVE  /\ undo'[a].sequence # undo'[b].sequence
                        /\ undo'[b].sequence < undo'[a].sequence =>
                             /\ undo'[a].existed
                             /\ undo'[a].previous.sequence = undo'[b].sequence
                                   => before'[a] = before'[b] \cup {b}
                             /\ undo'[a].previous.lastSeen + Skew >= lockedAt'[b]
      BY DEF TokenChain
    <2>1. CASE a = d
      <3>1. b \in Deliveries \ {d} /\ Held(b) /\ chan[b] = k
        BY <2>1, <1>2, <1>9
      <3>2. QED
        BY <2>1, <3>1, <1>6, <1>7, <1>9, <1>10, <1>11
    <2>2. CASE b = d
      <3>1. a \in Deliveries \ {d} /\ Held(a) /\ chan[a] = k
        BY <2>2, <1>2, <1>9
      <3>2. QED
        BY <2>2, <3>1, <1>6, <1>7, <1>9, <1>10, <1>11
    <2>3. CASE a # d /\ b # d
      BY <2>3, <1>9 DEF TokenChain
    <2>4. QED
      BY <2>1, <2>2, <2>3
  <1>16. QED
    BY <1>12, <1>13, <1>14, <1>15

\* A rollback of the newest token makes the one below it exact.
LEMMA RollbackStep ==
    ASSUME IInv, NEW d \in Deliveries, Rollback(d), TypeOK'
    PROVE  EntriesCounted' /\ TokenWellFormed' /\ TokenAgainstEntry' /\ TokenChain'
  <1> DEFINE k == chan[d]
             u == undo[d]
  <1> USE DEF IInv, TypeOK
  <1>1. /\ Held(d)
        /\ phase' = [phase EXCEPT ![d] = "done"]
        /\ entries' = [entries EXCEPT ![k] = RolledBack(@, u)]
        /\ applied' = [applied EXCEPT ![k] =
                         IF entries'[k] = entries[k] THEN @ ELSE before[d]]
        /\ UNCHANGED <<now, chan, undo, before, lockedAt>>
    BY DEF Rollback
  <1>2. \A e \in Deliveries : Held(e)' => Held(e) /\ e # d
    BY <1>1 DEF Held
  <1>3. TokenWellFormed' /\ TokenChain'
    BY <1>1, <1>2 DEF TokenWellFormed, TokenChain
  <1>4. /\ k \in Keys /\ entries[k] \in Entries /\ entries[k] # Absent
        /\ u \in Undos /\ u.previous \in Entries
        /\ u.sequence \in Nat /\ u.previous.sequence \in Nat
        /\ entries[k].sequence \in Nat /\ entries[k].sequence >= 1
        /\ u.sequence = u.previous.sequence + 1
    BY <1>1 DEF TokenAgainstEntry, TokenWellFormed, EntriesCounted, Undos, Entries
  <1>5. CASE entries[k].sequence # u.sequence
    <2>1. entries' = entries /\ applied' = applied
      BY <1>1, <1>4, <1>5 DEF RolledBack, EntryOf
    <2>2. QED
      BY <1>1, <1>2, <1>3, <2>1 DEF EntriesCounted, TokenAgainstEntry
  <1>6. CASE entries[k].sequence = u.sequence
    <2>1. entries'[k] = IF u.existed THEN u.previous ELSE Absent
      BY <1>1, <1>4, <1>6 DEF RolledBack, EntryOf
    <2>2. applied'[k] = before[d]
      <3>1. entries'[k] # entries[k]
        BY <1>4, <1>6, <2>1
      <3>2. QED
        BY <1>1, <1>4, <3>1
    <2>3. EntriesCounted'
      BY <1>1, <1>4, <2>1, AbsentAssumption DEF EntriesCounted, TokenWellFormed
    <2>4. TokenAgainstEntry'
      <3> SUFFICES ASSUME NEW e \in Deliveries, Held(e), e # d
                   PROVE  /\ entries'[chan[e]] # Absent
                          /\ undo[e].sequence <= entries'[chan[e]].sequence
                          /\ undo[e].sequence = entries'[chan[e]].sequence
                                => applied'[chan[e]] = before[e] \cup {e}
                          /\ entries'[chan[e]].lastSeen + Skew >= lockedAt[e]
        BY <1>1, <1>2 DEF TokenAgainstEntry
      <3>1. CASE chan[e] # k
        BY <3>1, <1>1 DEF TokenAgainstEntry
      <3>2. CASE chan[e] = k
        <4>1. undo[e].sequence \in Nat /\ undo[e].sequence < u.sequence
          <5>1. undo[e].sequence \in Nat
            BY DEF Undos
          <5>2. undo[e].sequence <= entries[k].sequence
            BY <3>2 DEF TokenAgainstEntry
          <5>3. undo[e].sequence # u.sequence
            BY <3>2, <1>1 DEF TokenChain
          <5>4. undo[e].sequence <= u.sequence
            BY <5>2, <1>6, Zenon
          <5>5. u.sequence \in Nat
            BY <1>4, Zenon
          <5> HIDE DEF IInv, TypeOK, k, u
          <5>6. QED
            BY <5>1, <5>3, <5>4, <5>5
        <4>2. /\ u.existed
              /\ u.previous.sequence = undo[e].sequence => before[d] = before[e] \cup {e}
              /\ u.previous.lastSeen + Skew >= lockedAt[e]
          BY <3>2, <4>1, <1>1 DEF TokenChain
        <4>3. entries'[k] = u.previous
          BY <2>1, <4>2
        <4>4. QED
          BY <3>2, <4>1, <4>2, <4>3, <2>2, <1>4, AbsentAssumption
      <3>3. QED
        BY <3>1, <3>2
    <2>5. QED
      BY <1>3, <2>3, <2>4
  <1>7. QED
    BY <1>5, <1>6

\* The janitor drops channels without tokens only.
LEMMA PruneStep ==
    ASSUME IInv, NEW k \in Keys, Prune(k), TypeOK'
    PROVE  EntriesCounted' /\ TokenWellFormed' /\ TokenAgainstEntry' /\ TokenChain'
  <1> USE DEF IInv, TypeOK
  <1>1. \A d \in Deliveries : Held(d) => chan[d] # k
    <2> SUFFICES ASSUME NEW d \in Deliveries, Held(d), chan[d] = k
                 PROVE  FALSE
      OBVIOUS
    <2>1. /\ entries[k] # Absent /\ entries[k] \in Entries
          /\ now - entries[k].lastSeen > Idle
      BY DEF Prune, Prunable
    <2>2. entries[k].lastSeen \in Nat /\ lockedAt[d] \in Nat
      BY <2>1 DEF Entries
    <2>3. /\ entries[k].lastSeen + Skew >= lockedAt[d]
          /\ now - lockedAt[d] <= OpTimeout
      BY DEF TokenAgainstEntry, TokenWellFormed
    <2>4. QED
      BY <2>1, <2>2, <2>3, TimeAssumption
  <1>2. /\ UNCHANGED <<now, phase, chan, undo, before, lockedAt>>
        /\ entries' = [entries EXCEPT ![k] = Absent]
        /\ applied' = [applied EXCEPT ![k] = {}]
    BY DEF Prune
  <1>3. EntriesCounted'
    BY <1>2 DEF EntriesCounted
  <1>4. TokenWellFormed' /\ TokenChain'
    BY <1>2 DEF TokenWellFormed, TokenChain, Held
  <1>5. TokenAgainstEntry'
    BY <1>1, <1>2 DEF TokenAgainstEntry, Held
  <1>6. QED
    BY <1>3, <1>4, <1>5

\* Every step keeps the invariant.
LEMMA Step == IInv /\ [Next]_vars => IInv'
  <1> SUFFICES ASSUME IInv, [Next]_vars
               PROVE  IInv'
    OBVIOUS
  <1>1. TypeOK'
    BY TypeStep DEF IInv
  <1>2. ASSUME NEW d \in Deliveries, Evaluate(d) PROVE IInv'
    BY <1>1, <1>2, EvaluateStep DEF IInv
  <1>3. ASSUME NEW d \in Deliveries, Settle(d) PROVE IInv'
    <2>1. /\ UNCHANGED <<now, entries, chan, undo, applied, before, lockedAt>>
          /\ \A e \in Deliveries : Held(e)' => Held(e)
      BY <1>3 DEF Settle, Held, IInv, TypeOK
    <2>2. QED
      BY <1>1, <2>1
         DEF IInv, EntriesCounted, TokenWellFormed, TokenAgainstEntry, TokenChain
  <1>4. ASSUME NEW d \in Deliveries, Rollback(d) PROVE IInv'
    BY <1>1, <1>4, RollbackStep DEF IInv
  <1>5. ASSUME NEW k \in Keys, Prune(k) PROVE IInv'
    BY <1>1, <1>5, PruneStep DEF IInv
  <1>6. CASE Tick
    <2>1. /\ now' = now + 1 /\ now \in Nat
          /\ UNCHANGED <<entries, phase, chan, undo, applied, before, lockedAt>>
          /\ \A e \in Deliveries : Held(e) => now - lockedAt[e] < OpTimeout
      BY <1>6 DEF Tick, IInv, TypeOK
    <2>2. EntriesCounted'
      BY <2>1, TimeAssumption DEF IInv, EntriesCounted
    <2>3. TokenWellFormed'
      BY <2>1, TimeAssumption DEF IInv, TypeOK, TokenWellFormed, Held
    <2>4. TokenAgainstEntry' /\ TokenChain'
      BY <2>1 DEF IInv, TokenAgainstEntry, TokenChain, Held
    <2>5. QED
      BY <1>1, <2>2, <2>3, <2>4 DEF IInv
  <1>7. CASE UNCHANGED vars
    BY <1>1, <1>7
       DEF vars, IInv, EntriesCounted, TokenWellFormed, TokenAgainstEntry, TokenChain, Held
  <1>8. QED
    BY <1>2, <1>3, <1>4, <1>5, <1>6, <1>7 DEF Next

-----------------------------------------------------------------------------
(* The theorems. *)

\* The token chain is an invariant of the tracker.
THEOREM Inductive == Spec => []IInv
  BY InitIInv, Step, PTL DEF Spec

\* Every entry, token and history value keeps its type, whatever the
\* interleaving of Evaluate, Rollback and Prune in state.go.
THEOREM TypeCorrect == Spec => []TypeOK
  <1>1. IInv => TypeOK
    BY DEF IInv
  <1>2. QED
    BY <1>1, Inductive, PTL

\* A token that matches its channel undoes exactly the evaluation that
\* produced it (StateTracker.Rollback).
THEOREM UndoIsExact == Spec => []UndoExact
  <1>1. IInv => UndoExact
    BY DEF IInv, TokenAgainstEntry, UndoExact
  <1>2. QED
    BY <1>1, Inductive, PTL

\* Prune never drops a channel whose transition is still being published.
THEOREM PruneSparesHeldChannels == Spec => []HeldChannelPresent
  <1>1. IInv => HeldChannelPresent
    BY DEF IInv, TokenAgainstEntry, HeldChannelPresent
  <1>2. QED
    BY <1>1, Inductive, PTL

\* A rollback never discards the progress of another delivery.
THEOREM NoLostProgress == Spec => RollbackKeepsOthers
  <1> DEFINE A == \A k \in Keys : \A d \in applied[k] \ applied'[k] :
                     \/ Held(d) /\ ~Held(d)'
                     \/ Prunable(entries[k], now, Idle)
  <1>1. IInv /\ [Next]_vars => [A]_vars
    <2> SUFFICES ASSUME IInv, [Next]_vars, NEW k \in Keys, NEW d \in applied[k] \ applied'[k]
                 PROVE  (Held(d) /\ ~Held(d)') \/ Prunable(entries[k], now, Idle)
      OBVIOUS
    <2> USE DEF IInv, TypeOK
    <2>1. ASSUME NEW e \in Deliveries, Evaluate(e) PROVE FALSE
      BY <2>1 DEF Evaluate
    <2>2. ASSUME NEW e \in Deliveries, Settle(e) PROVE FALSE
      BY <2>2 DEF Settle
    <2>3. ASSUME NEW e \in Deliveries, Rollback(e) PROVE Held(d) /\ ~Held(d)'
      <3>1. chan[e] = k /\ applied'[k] = before[e] /\ entries'[k] # entries[k]
        BY <2>3 DEF Rollback
      <3>2. /\ Held(e) /\ phase'[e] = "done"
            /\ entries'[k] = RolledBack(entries[k], undo[e])
        BY <2>3, <3>1 DEF Rollback
      <3>3. entries[k] # Absent /\ entries[k].sequence = undo[e].sequence
        BY <3>1, <3>2 DEF RolledBack, EntryOf
      <3>4. applied[k] = before[e] \cup {e}
        BY <3>1, <3>2, <3>3 DEF TokenAgainstEntry
      <3>5. d = e
        BY <3>1, <3>4
      <3>6. QED
        BY <3>2, <3>5 DEF Held
    <2>4. ASSUME NEW j \in Keys, Prune(j) PROVE Prunable(entries[k], now, Idle)
      BY <2>4 DEF Prune
    <2>5. CASE Tick
      BY <2>5 DEF Tick
    <2>6. CASE UNCHANGED vars
      BY <2>6 DEF vars
    <2>7. QED
      BY <2>1, <2>2, <2>3, <2>4, <2>5, <2>6 DEF Next
  <1>2. QED
    BY <1>1, Inductive, PTL DEF Spec, RollbackKeepsOthers

=============================================================================
