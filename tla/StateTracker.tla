---------------------------- MODULE StateTracker ----------------------------
(***************************************************************************)
(* StateTracker (services/resolution-engine/state.go) under concurrent     *)
(* deliveries.  Each delivery is one run of Engine.process: it evaluates   *)
(* its channel once and, when that emits a transition, holds the undo      *)
(* token until the mutation is published (Settle) or the publish fails     *)
(* (Rollback).  The shard mutex makes each call atomic; nothing orders the *)
(* calls of different deliveries.  The janitor prunes one channel at a     *)
(* time, since it takes one shard lock at a time.                          *)
(*                                                                         *)
(* Time.  A delivery reads its clock before it takes the shard lock, so    *)
(* the time it evaluates with may be up to Skew old.  A token lives at     *)
(* most OpTimeout: every call between Evaluate and the deferred Rollback   *)
(* runs under opCtx (ENGINE_OP_TIMEOUT).                                   *)
(***************************************************************************)
EXTENDS AlarmState

CONSTANTS
    Keys,        \* channels, twin:<asset>:<sensor>
    Deliveries,  \* runs of Engine.process
    Idle,        \* ENGINE_STATE_IDLE_TTL
    OpTimeout,   \* ENGINE_OP_TIMEOUT
    Skew,        \* age of the clock reading when the lock is taken
    MaxTime      \* bound on time

\* The defaults are 5s and 6h; nothing in config.go enforces the order.
ASSUME TimeAssumption ==
    /\ Idle \in Nat /\ OpTimeout \in Nat /\ Skew \in Nat /\ MaxTime \in Nat
    /\ OpTimeout + Skew <= Idle

VARIABLES
    now,       \* wall clock
    entries,   \* the shards' maps: channel -> entry or Absent
    phase,     \* delivery -> "new", "held" (token outstanding), "done"
    chan,      \* delivery -> the channel it evaluates (undo.key)
    undo,      \* delivery -> its token, meaningful while held
    applied,   \* history: deliveries whose Evaluate is in effect on a channel
    before,    \* history: applied[chan[d]] when d evaluated
    lockedAt   \* history: when d evaluated

vars == <<now, entries, phase, chan, undo, applied, before, lockedAt>>

Held(d) == phase[d] = "held"

-----------------------------------------------------------------------------

Init ==
    /\ now = 1 + Skew
    /\ entries = [k \in Keys |-> Absent]
    /\ phase = [d \in Deliveries |-> "new"]
    /\ chan \in [Deliveries -> Keys]
    /\ undo = [d \in Deliveries |-> UndoOf(Absent)]
    /\ applied = [k \in Keys |-> {}]
    /\ before = [d \in Deliveries |-> {}]
    /\ lockedAt = [d \in Deliveries |-> 0]

\* Evaluate(key, eval, now).  An absorbed reading never uses its token:
\* process returns before it defers the Rollback.
Evaluate(d) ==
    LET k == chan[d] IN
    /\ phase[d] = "new"
    /\ \E v \in Readings, t \in (now - Skew)..now :
         /\ entries' = [entries EXCEPT ![k] = Evaluated(EntryOf(entries[k]), v, t)]
         /\ phase' = [phase EXCEPT ![d] =
                        IF TransitionOf(EntryOf(entries[k]), v, t) = NoKind
                        THEN "done" ELSE "held"]
    /\ undo' = [undo EXCEPT ![d] = UndoOf(entries[k])]
    /\ applied' = [applied EXCEPT ![k] = @ \cup {d}]
    /\ before' = [before EXCEPT ![d] = applied[k]]
    /\ lockedAt' = [lockedAt EXCEPT ![d] = now]
    /\ UNCHANGED <<now, chan>>

\* The mutation is published; process returns nil and the token is dropped.
Settle(d) ==
    /\ Held(d)
    /\ phase' = [phase EXCEPT ![d] = "done"]
    /\ UNCHANGED <<now, entries, chan, undo, applied, before, lockedAt>>

\* Rollback(undo), deferred by a process that could not publish.
Rollback(d) ==
    LET k == chan[d] IN
    /\ Held(d)
    /\ phase' = [phase EXCEPT ![d] = "done"]
    /\ entries' = [entries EXCEPT ![k] = RolledBack(@, undo[d])]
    /\ applied' = [applied EXCEPT ![k] =
                     IF entries'[k] = entries[k] THEN @ ELSE before[d]]
    /\ UNCHANGED <<now, chan, undo, before, lockedAt>>

\* One channel of one Prune(now, idle) pass.
Prune(k) ==
    /\ Prunable(entries[k], now, Idle)
    /\ entries' = [entries EXCEPT ![k] = Absent]
    /\ applied' = [applied EXCEPT ![k] = {}]
    /\ UNCHANGED <<now, phase, chan, undo, before, lockedAt>>

Tick ==
    /\ now < MaxTime
    /\ \A d \in Deliveries : Held(d) => now - lockedAt[d] < OpTimeout
    /\ now' = now + 1
    /\ UNCHANGED <<entries, phase, chan, undo, applied, before, lockedAt>>

Next ==
    \/ \E d \in Deliveries : Evaluate(d) \/ Settle(d) \/ Rollback(d)
    \/ \E k \in Keys : Prune(k)
    \/ Tick

Spec == Init /\ [][Next]_vars

-----------------------------------------------------------------------------
(* Properties *)

TypeOK ==
    /\ now \in Nat
    /\ entries \in [Keys -> Entries \cup {Absent}]
    /\ phase \in [Deliveries -> {"new", "held", "done"}]
    /\ chan \in [Deliveries -> Keys]
    /\ undo \in [Deliveries -> Undos]
    /\ applied \in [Keys -> SUBSET Deliveries]
    /\ before \in [Deliveries -> SUBSET Deliveries]
    /\ lockedAt \in [Deliveries -> Nat]

\* state.go: sequence tells "nothing has touched this channel since I
\* evaluated it" from "another delivery has moved it on".  When the sequence
\* of an outstanding token matches its channel, the channel holds exactly what
\* that delivery's Evaluate left, on top of what it found: although a rollback
\* gives sequence numbers back and later evaluations reuse them, no stale
\* token ever matches again.
UndoExact ==
    \A d \in Deliveries :
        /\ Held(d)
        /\ entries[chan[d]] # Absent
        /\ entries[chan[d]].sequence = undo[d].sequence
        => applied[chan[d]] = before[d] \cup {d}

\* The janitor never drops a channel whose transition is still being
\* published: the entry a token refers to is there until the token is used.
HeldChannelPresent ==
    \A d \in Deliveries : Held(d) => entries[chan[d]] # Absent

\* state.go: "so a rollback can never discard someone else's progress".  A
\* delivery's evaluation leaves a channel only by its own rollback, or with
\* an idle channel that the janitor drops.
RollbackKeepsOthers ==
    [][\A k \in Keys : \A d \in applied[k] \ applied'[k] :
          \/ Held(d) /\ ~Held(d)'
          \/ Prunable(entries[k], now, Idle)]_vars

=============================================================================
