------------------------ MODULE SlidingWindowProofs ------------------------
(***************************************************************************)
(* The sliding-window limiter keeps its quota and implements QuotaWindow,  *)
(* for any number of stores, any window and any limit.  A store may forget *)
(* hits; the argument is that it still holds each one that counts, because *)
(* a key lives one window longer than its last hit.                        *)
(***************************************************************************)
EXTENDS SlidingWindow, FiniteSetTheorems, WellFoundedInduction, TLAPS

\* What a store holds was recorded for it, and what still counts is held and
\* outlived by its key.
Remembered ==
    \A s \in Stores :
        /\ \A h \in zset[s] : h \in served /\ h.store = s
        /\ \A h \in served :
            h.store = s /\ h.at > now - Window
                => h \in zset[s] /\ h.at + Window <= expireAt[s]

\* No window of any store ever held more than the limit.
EveryWindow == \A s \in Stores, t \in Int : Cardinality(Span(s, t)) <= Limit

\* The inductive invariant.
LimiterInv ==
    /\ LimiterTypeOK
    /\ IsFiniteSet(served) /\ \A h \in served : h.at <= now
    /\ Remembered
    /\ EveryWindow

-----------------------------------------------------------------------------

\* The instance of QuotaWindow counts as this module does.
LEMMA SameCount == \A S : Promise!Cardinality(S) = Cardinality(S)
  BY DEF Promise!Cardinality, Cardinality

\* Trimming and expiry leave exactly the hits of the current window.
LEMMA TrimmedExact ==
    ASSUME LimiterInv, NEW s \in Stores
    PROVE  /\ Trimmed(s) = Promise!Within(s, now)
           /\ IsFiniteSet(Trimmed(s))
           /\ Full(s) <=> ~Promise!Room(s, now)
           /\ Trimmed(s) = Span(s, now)
<1>1. \A h \in served : h \in Promise!Hits
  BY DEF LimiterInv, LimiterTypeOK
<1>2. \A h \in Promise!Hits : h.at \in Nat
  BY DEF Promise!Hits
<1>3. now \in Nat /\ Window \in Nat /\ Limit \in Nat /\ expireAt[s] \in Nat
  BY LimiterAssumption DEF LimiterInv, LimiterTypeOK
<1>4. ASSUME NEW h \in Trimmed(s) PROVE h \in Promise!Within(s, now)
  BY <1>4 DEF Trimmed, Held, Promise!Within, LimiterInv, Remembered
<1>5. ASSUME NEW h \in Promise!Within(s, now) PROVE h \in Trimmed(s)
  <2>1. h \in zset[s] /\ h.at + Window <= expireAt[s] /\ h.at > now - Window
    BY <1>5 DEF Promise!Within, LimiterInv, Remembered
  <2>2. h.at \in Nat
    BY <1>1, <1>2, <1>5 DEF Promise!Within
  <2>3. now < expireAt[s]
    BY <1>3, <2>1, <2>2
  <2> QED
    BY <2>1, <2>3 DEF Trimmed, Held
<1>6. Trimmed(s) = Promise!Within(s, now)
  BY <1>4, <1>5
<1>7. Promise!Within(s, now) \subseteq served
  BY DEF Promise!Within
<1>8. IsFiniteSet(Trimmed(s))
  BY <1>6, <1>7, FS_Subset DEF LimiterInv
<1>9. Cardinality(Trimmed(s)) \in Nat
  BY <1>8, FS_CardinalityType
<1>10. Full(s) <=> ~Promise!Room(s, now)
  BY <1>3, <1>6, <1>9, SameCount DEF Full, Promise!Room
<1>11. Promise!Within(s, now) = Span(s, now)
  BY DEF Promise!Within, Span, LimiterInv
<1> QED
  BY <1>6, <1>8, <1>10, <1>11


\* A fresh member makes a well-formed hit that no store has.
LEMMA HitType ==
    ASSUME LimiterTypeOK, Available, NEW s \in Stores
    PROVE  Hit(s) \in Promise!Hits /\ Fresh \in Members /\ \A h \in served : h.id # Fresh
<1>1. Fresh \in Members /\ \A h \in served : h.id # Fresh
  BY DEF Fresh, Available
<1> QED
  BY <1>1 DEF Hit, Promise!Hits, LimiterTypeOK

\* The script's answer to a full store changes only what it forgets.
LEMMA DeclineKeeps ==
    ASSUME LimiterInv, NEW s \in Stores, Decline(s), now' = now, answer' \in Promise!Answers
    PROVE  LimiterInv'
<1>1. now \in Nat /\ Window \in Nat /\ now + Window \in Nat
  BY LimiterAssumption DEF LimiterInv, LimiterTypeOK
<1>2. Trimmed(s) \subseteq served /\ Trimmed(s) = Promise!Within(s, now)
  BY TrimmedExact DEF Promise!Within
<1>3. zset' = [zset EXCEPT ![s] = Trimmed(s)] /\ served' = served
      /\ expireAt' = [expireAt EXCEPT ![s] = now + Window]
  BY DEF Decline, Script
<1>4. LimiterTypeOK'
  BY <1>1, <1>2, <1>3 DEF LimiterInv, LimiterTypeOK
<1>5. Remembered'
  <2> SUFFICES ASSUME NEW r \in Stores
               PROVE  /\ \A h \in zset'[r] : h \in served' /\ h.store = r
                      /\ \A h \in served' :
                            h.store = r /\ h.at > now' - Window
                                => h \in zset'[r] /\ h.at + Window <= expireAt'[r]
    BY DEF Remembered
  <2>1. CASE r # s
    BY <1>3, <2>1 DEF LimiterInv, LimiterTypeOK, Remembered
  <2>2. CASE r = s
    <3>1. zset'[s] = Promise!Within(s, now) /\ expireAt'[s] = now + Window
      BY <1>2, <1>3 DEF LimiterInv, LimiterTypeOK
    <3>2. \A h \in served : h.at \in Nat /\ h.at <= now
      BY DEF LimiterInv, LimiterTypeOK, Promise!Hits
    <3>3. \A h \in served : h.at + Window <= now + Window
      BY <1>1, <3>2
    <3> QED
      BY <1>3, <2>2, <3>1, <3>3 DEF Promise!Within
  <2> QED
    BY <2>1, <2>2
<1>6. EveryWindow'
  BY <1>3 DEF LimiterInv, EveryWindow, Span
<1> QED
  BY <1>3, <1>4, <1>5, <1>6 DEF LimiterInv

\* A hit fits into every window that contains its moment.
LEMMA AdmitFits ==
    ASSUME LimiterInv, NEW s \in Stores, Admit(s)
    PROVE  EveryWindow'
<1> DEFINE new == Hit(s)
<1>1. served' = served \cup {new} /\ new \in Promise!Hits /\ new.at = now /\ new.store = s
  BY HitType DEF Admit, Hit, LimiterInv
<1>2. now \in Nat /\ Window \in Nat \ {0} /\ Limit \in Nat
  BY LimiterAssumption DEF LimiterInv, LimiterTypeOK
<1>3. \A h \in served : h.at \in Nat /\ h.at <= now
  BY DEF LimiterInv, LimiterTypeOK, Promise!Hits
<1> SUFFICES ASSUME NEW r \in Stores, NEW t \in Int
             PROVE  Cardinality(Span(r, t)') <= Limit
  BY DEF EveryWindow
<1>4. CASE Span(r, t)' = Span(r, t)
  BY <1>4 DEF LimiterInv, EveryWindow
<1>5. CASE Span(r, t)' # Span(r, t)
  <2>1. r = s /\ t - Window < now /\ now <= t
    <3>1. Span(r, t)' = {g \in served \cup {new} : g.store = r /\ t - Window < g.at /\ g.at <= t}
      BY <1>1 DEF Span
    <3> QED
      BY <1>1, <1>5, <3>1 DEF Span
  <2>2. Span(r, t)' \subseteq Trimmed(s) \cup {new}
    <3>1. ASSUME NEW g \in Span(r, t)', g # new PROVE g \in Span(s, now)
      <4>1. g \in served /\ g.store = s /\ t - Window < g.at
        BY <1>1, <2>1, <3>1 DEF Span
      <4>2. now - Window < g.at /\ g.at <= now
        BY <1>2, <1>3, <2>1, <4>1
      <4> QED
        BY <4>1, <4>2 DEF Span
    <3> QED
      BY <3>1, TrimmedExact
  <2>3. IsFiniteSet(Trimmed(s)) /\ Cardinality(Trimmed(s)) \in Nat
    BY TrimmedExact, FS_CardinalityType
  <2>4. Cardinality(Trimmed(s)) < Limit
    BY <1>2, <2>3 DEF Admit, Full
  <2>5. IsFiniteSet(Trimmed(s) \cup {new})
        /\ Cardinality(Trimmed(s) \cup {new}) <= Cardinality(Trimmed(s)) + 1
        /\ Cardinality(Trimmed(s) \cup {new}) \in Nat
    <3> HIDE DEF new
    <3>1. IsFiniteSet(Trimmed(s) \cup {new})
          /\ (Cardinality(Trimmed(s) \cup {new}) = Cardinality(Trimmed(s))
              \/ Cardinality(Trimmed(s) \cup {new}) = Cardinality(Trimmed(s)) + 1)
      BY <2>3, FS_AddElement
    <3> QED
      BY <2>3, <3>1
  <2>6. Cardinality(Span(r, t)') <= Cardinality(Trimmed(s) \cup {new})
        /\ Cardinality(Span(r, t)') \in Nat
    BY <2>2, <2>5, FS_Subset, FS_CardinalityType
  <2> QED
    BY <1>2, <2>3, <2>4, <2>5, <2>6
<1> QED
  BY <1>4, <1>5

\* Recording a hit keeps the invariant.
LEMMA AdmitKeeps ==
    ASSUME LimiterInv, NEW s \in Stores, Admit(s), now' = now, answer' \in Promise!Answers
    PROVE  LimiterInv'
<1> DEFINE new == Hit(s)
<1>1. new \in Promise!Hits /\ new.at = now /\ new.store = s
  BY HitType DEF Admit, Hit, LimiterInv
<1>2. served' = served \cup {new}
      /\ zset' = [zset EXCEPT ![s] = Trimmed(s) \cup {new}]
      /\ expireAt' = [expireAt EXCEPT ![s] = now + Window]
  BY DEF Admit, Script
<1>3. now \in Nat /\ Window \in Nat /\ now + Window \in Nat
  BY LimiterAssumption DEF LimiterInv, LimiterTypeOK
<1>4. Trimmed(s) \subseteq served /\ Trimmed(s) = Promise!Within(s, now)
  BY TrimmedExact DEF Promise!Within
<1>5. LimiterTypeOK'
  BY <1>1, <1>2, <1>3, <1>4 DEF LimiterInv, LimiterTypeOK
<1>6. IsFiniteSet(served') /\ \A h \in served' : h.at <= now'
  BY <1>1, <1>2, <1>3, FS_AddElement DEF LimiterInv
<1>7. Remembered'
  <2> SUFFICES ASSUME NEW r \in Stores
               PROVE  /\ \A h \in zset'[r] : h \in served' /\ h.store = r
                      /\ \A h \in served' :
                            h.store = r /\ h.at > now' - Window
                                => h \in zset'[r] /\ h.at + Window <= expireAt'[r]
    BY DEF Remembered
  <2>1. CASE r # s
    BY <1>1, <1>2, <2>1 DEF LimiterInv, LimiterTypeOK, Remembered
  <2>2. CASE r = s
    <3>1. zset'[s] = Promise!Within(s, now) \cup {new} /\ expireAt'[s] = now + Window
      BY <1>2, <1>4 DEF LimiterInv, LimiterTypeOK
    <3>2. \A h \in served : h.at \in Nat /\ h.at <= now
      BY DEF LimiterInv, LimiterTypeOK, Promise!Hits
    <3>3. \A h \in served' : h.at + Window <= now + Window
      BY <1>1, <1>2, <1>3, <3>2
    <3> QED
      BY <1>1, <1>2, <2>2, <3>1, <3>3 DEF Promise!Within
  <2> QED
    BY <2>1, <2>2
<1>8. EveryWindow'
  BY AdmitFits
<1> QED
  BY <1>5, <1>6, <1>7, <1>8 DEF LimiterInv

\* Time passing lets hits leave the window, never enter it.
LEMMA TickKeeps ==
    ASSUME LimiterInv, Tick
    PROVE  LimiterInv'
<1>1. now \in Nat /\ now' = now + 1 /\ Window \in Nat
  BY LimiterAssumption DEF LimiterInv, LimiterTypeOK, Tick
<1>2. served' = served /\ answer' = answer /\ zset' = zset /\ expireAt' = expireAt
  BY DEF Tick
<1>3. LimiterTypeOK'
  BY <1>1, <1>2 DEF LimiterInv, LimiterTypeOK
<1>4. \A h \in served : h.at \in Nat /\ h.at <= now
  BY DEF LimiterInv, LimiterTypeOK, Promise!Hits
<1>5. \A h \in served' : h.at <= now'
  BY <1>1, <1>2, <1>4
<1>6. \A h \in served : h.at > now' - Window => h.at > now - Window
  BY <1>1, <1>4
<1>7. Remembered'
  BY <1>2, <1>6 DEF LimiterInv, Remembered
<1>8. EveryWindow'
  BY <1>2 DEF LimiterInv, EveryWindow, Span
<1> QED
  BY <1>2, <1>3, <1>5, <1>7, <1>8 DEF LimiterInv

\* A nonempty set of numbers has a least one.
LEMMA LeastNumber ==
    ASSUME NEW T, T \subseteq Nat, T # {}
    PROVE  \E x \in T : \A y \in T : x <= y
<1> DEFINE R == OpToRel(<, Nat)
<1>1. PICK x \in T : \A y \in T : ~(<<y, x>> \in R)
  <2> HIDE DEF R
  <2>1. IsWellFoundedOn(R, Nat)
    BY NatLessThanWellFounded DEF R
  <2> QED
    BY <2>1, WFMin
<1>2. \A y \in T : ~(y < x)
  BY <1>1 DEF OpToRel
<1> QED
  BY <1>2

\* The oldest hit of a full store is in its window, and no hit is older.
LEMMA OldestExists ==
    ASSUME LimiterInv, NEW s \in Stores, Full(s)
    PROVE  /\ Oldest(s) \in Trimmed(s)
           /\ \A g \in Trimmed(s) : Oldest(s).at <= g.at
           /\ RetryAfter(s) \in Nat \ {0}
<1>1. IsFiniteSet(Trimmed(s)) /\ Cardinality(Trimmed(s)) >= Limit /\ Limit \in Nat \ {0}
  BY TrimmedExact, LimiterAssumption DEF Full
<1>2. Trimmed(s) # {}
  BY <1>1, FS_EmptySet
<1>3. \A h \in Trimmed(s) : h.at \in Nat /\ h.at <= now /\ h.at > now - Window
  BY TrimmedExact DEF Promise!Within, LimiterInv, LimiterTypeOK, Promise!Hits
<1>4. PICK x \in {h.at : h \in Trimmed(s)} : \A y \in {h.at : h \in Trimmed(s)} : x <= y
  <2>1. {h.at : h \in Trimmed(s)} \subseteq Nat /\ {h.at : h \in Trimmed(s)} # {}
    BY <1>2, <1>3
  <2> QED
    BY <2>1, LeastNumber
<1>5. \E h \in Trimmed(s) : \A g \in Trimmed(s) : h.at <= g.at
  BY <1>4
<1>6. Oldest(s) \in Trimmed(s) /\ \A g \in Trimmed(s) : Oldest(s).at <= g.at
  BY <1>5 DEF Oldest
<1>7. now \in Nat /\ Window \in Nat
  BY LimiterAssumption DEF LimiterInv, LimiterTypeOK
<1>8. Oldest(s).at + Window - now \in Nat \ {0}
  BY <1>3, <1>6, <1>7
<1> QED
  BY <1>6, <1>8 DEF RetryAfter

\* After the wait it is told, a refused client finds the oldest hit gone.
LEMMA WaitSuffices ==
    ASSUME LimiterInv, NEW s \in Stores, Full(s)
    PROVE  Promise!Room(s, now + RetryAfter(s))
<1> DEFINE later == Promise!Within(s, now + RetryAfter(s))
<1>1. now \in Nat /\ Window \in Nat /\ Limit \in Nat
  BY LimiterAssumption DEF LimiterInv, LimiterTypeOK
<1>2. Oldest(s) \in Trimmed(s) /\ Oldest(s).at \in Nat
  BY OldestExists, TrimmedExact DEF Promise!Within, LimiterInv, LimiterTypeOK, Promise!Hits
<1>3. now + RetryAfter(s) - Window = Oldest(s).at
  BY <1>1, <1>2 DEF RetryAfter
<1>4. later \subseteq Trimmed(s) \ {Oldest(s)}
  <2> SUFFICES ASSUME NEW h \in later PROVE h \in Trimmed(s) /\ h # Oldest(s)
    OBVIOUS
  <2>0. h \in served /\ h.store = s /\ h.at > (now + RetryAfter(s)) - Window
    BY DEF Promise!Within
  <2>1. h \in served /\ h.store = s /\ h.at > Oldest(s).at /\ h.at \in Nat
    <3>1. h.at \in Nat
      BY <2>0 DEF LimiterInv, LimiterTypeOK, Promise!Hits
    <3>2. RetryAfter(s) \in Nat
      BY OldestExists
    <3> HIDE DEF later
    <3> QED
      BY <1>1, <1>2, <1>3, <2>0, <3>1, <3>2
  <2>2. Oldest(s).at > now - Window
    BY <1>2, TrimmedExact DEF Promise!Within
  <2>3. h.at > now - Window
    BY <1>1, <1>2, <2>1, <2>2
  <2>4. h # Oldest(s)
    BY <1>2, <2>1
  <2> QED
    BY <2>1, <2>3, <2>4, TrimmedExact DEF Promise!Within
<1>5. IsFiniteSet(Trimmed(s)) /\ Cardinality(Trimmed(s)) <= Limit /\ Cardinality(Trimmed(s)) \in Nat
  BY <1>1, TrimmedExact, FS_CardinalityType DEF LimiterInv, EveryWindow
<1>6. IsFiniteSet(Trimmed(s) \ {Oldest(s)})
      /\ Cardinality(Trimmed(s) \ {Oldest(s)}) = Cardinality(Trimmed(s)) - 1
  BY <1>2, <1>5, FS_RemoveElement
<1>7. Cardinality(later) <= Cardinality(Trimmed(s) \ {Oldest(s)}) /\ Cardinality(later) \in Nat
  BY <1>4, <1>6, FS_Subset, FS_CardinalityType
<1>8. Cardinality(later) < Limit
  BY <1>1, <1>5, <1>6, <1>7
<1> QED
  BY <1>8, SameCount DEF Promise!Room

-----------------------------------------------------------------------------
(* Theorems *)

\* What a check answers is an answer.
LEMMA AnswerType ==
    ASSUME LimiterInv, NEW r \in Replicas, Check(r) \/ CheckFails(r)
    PROVE  answer' \in Promise!Answers
<1>1. Failed \in Promise!Answers
  BY LimiterAssumption DEF Failed, Promise!Answers
<1>2. StoreOf[r] \in Stores
  BY LimiterAssumption
<1>3. ASSUME Decline(StoreOf[r]) PROVE RetryAfter(StoreOf[r]) \in Nat
  BY <1>2, <1>3, OldestExists DEF Decline
<1> QED
  BY <1>1, <1>3 DEF Check, CheckFails, Promise!Answers

\* Every decision of the limiter keeps the invariant.
LEMMA CheckKeeps ==
    ASSUME LimiterInv, NEW r \in Replicas, Check(r) \/ CheckFails(r)
    PROVE  LimiterInv'
<1> DEFINE s == StoreOf[r]
<1>1. s \in Stores
  BY LimiterAssumption
<1>2. now' = now /\ answer' \in Promise!Answers
  BY AnswerType DEF Check, CheckFails
<1>3. CASE Admit(s)
  BY <1>1, <1>2, <1>3, AdmitKeeps
<1>4. CASE Decline(s)
  BY <1>1, <1>2, <1>4, DeclineKeeps
<1>5. CASE UNCHANGED <<served, zset, expireAt>>
  BY <1>2, <1>5 DEF LimiterInv, LimiterTypeOK, Remembered, EveryWindow, Span
<1> QED
  BY <1>3, <1>4, <1>5 DEF Check, CheckFails

\* The initial state satisfies the invariant.
LEMMA LimiterInitInv == ASSUME LimiterInit PROVE LimiterInv
<1>1. LimiterTypeOK
  BY DEF LimiterInit, LimiterTypeOK, Promise!QuotaInit, Promise!Answers
<1>2. IsFiniteSet(served) /\ served = {}
  BY FS_EmptySet DEF LimiterInit, Promise!QuotaInit
<1>3. Remembered
  BY <1>2 DEF LimiterInit, Remembered
<1>4. EveryWindow
  <2>1. \A s \in Stores, t \in Int : Span(s, t) = {}
    BY <1>2 DEF Span
  <2> QED
    BY <2>1, FS_EmptySet, LimiterAssumption DEF EveryWindow
<1> QED
  BY <1>1, <1>2, <1>3, <1>4 DEF LimiterInv

\* Every step keeps the invariant.
LEMMA LimiterNextInv == ASSUME LimiterInv, [LimiterNext]_limiterVars PROVE LimiterInv'
<1>1. CASE Tick
  BY <1>1, TickKeeps
<1>2. CASE \E r \in Replicas : Check(r) \/ CheckFails(r)
  BY <1>2, CheckKeeps
<1>3. CASE UNCHANGED limiterVars
  BY <1>3 DEF limiterVars, LimiterInv, LimiterTypeOK, Remembered, EveryWindow, Span
<1> QED
  BY <1>1, <1>2, <1>3 DEF LimiterNext

\* The state of the limiter is well typed.
THEOREM LimiterTypeCorrect == LimiterSpec => []LimiterTypeOK
<1>1. LimiterInv => LimiterTypeOK
  BY DEF LimiterInv
<1> QED
  BY <1>1, LimiterInitInv, LimiterNextInv, PTL DEF LimiterSpec

\* redis_state.py: no window, wherever it ends, holds more hits than the limit,
\* however many replicas race, whatever replies are lost and keys expire.
THEOREM LimiterQuotaHeld == LimiterSpec => []QuotaHeld
<1>1. LimiterInv => QuotaHeld
  <2>1. LimiterInv => \A h \in served : h.at \in Int
    BY DEF LimiterInv, LimiterTypeOK, Promise!Hits
  <2> QED
    BY <2>1 DEF LimiterInv, EveryWindow, QuotaHeld
<1> QED
  BY <1>1, LimiterInitInv, LimiterNextInv, PTL DEF LimiterSpec

\* Every step of the limiter is a step of QuotaWindow.
LEMMA StepRefines ==
    ASSUME LimiterInv, [LimiterNext]_limiterVars
    PROVE  [Promise!QuotaNext]_(Promise!quotaVars)
<1>1. CASE UNCHANGED limiterVars
  BY <1>1 DEF limiterVars, Promise!quotaVars
<1>2. CASE Tick
  BY <1>2 DEF Tick, LimiterInv, LimiterTypeOK, Promise!QuotaNext, Promise!Pass
<1>3. ASSUME NEW r \in Replicas, Check(r) \/ CheckFails(r)
      PROVE  [Promise!QuotaNext]_(Promise!quotaVars)
  <2> DEFINE s == StoreOf[r]
  <2>1. s \in Stores
    BY LimiterAssumption
  <2>2. now' = now /\ answer' \in Promise!Answers
    BY <1>3, AnswerType DEF Check, CheckFails
  <2>3. Failed.how \in {"open", "closed"}
    BY DEF Failed
  <2>4. ASSUME Admit(s), answer'.how \in {"admitted", "open", "closed"} PROVE Promise!Record(s)
    <3>1. Promise!Room(s, now)
      BY <2>1, <2>4, TrimmedExact DEF Admit
    <3>2. Fresh \in Members /\ \A h \in served : h.id # Fresh
      BY <2>1, <2>4, HitType DEF Admit, LimiterInv
    <3>3. served' = served \cup {[store |-> s, at |-> now, id |-> Fresh]}
      BY <2>4 DEF Admit, Hit
    <3> QED
      BY <2>2, <2>4, <3>1, <3>2, <3>3 DEF Promise!Record
  <2>5. CASE Check(r) /\ Admit(s)
    <3>1. answer'.how = "admitted"
      BY <2>5 DEF Check, Admit, Decline
    <3> QED
      BY <2>1, <2>4, <2>5, <3>1 DEF Promise!QuotaNext
  <2>6. CASE Check(r) /\ Decline(s)
    <3>1. answer'.how = "refused" /\ answer'.wait = RetryAfter(s) /\ Full(s) /\ served' = served
      BY <2>6 DEF Check, Admit, Decline
    <3>2. ~Promise!Room(s, now) /\ Promise!Room(s, now + answer'.wait)
      BY <2>1, <3>1, TrimmedExact, WaitSuffices
    <3>3. Promise!Refuse(s)
      BY <2>2, <3>1, <3>2 DEF Promise!Refuse
    <3> QED
      BY <2>1, <3>3 DEF Promise!QuotaNext
  <2>7. CASE CheckFails(r) /\ Admit(s)
    <3>1. answer'.how \in {"open", "closed"}
      BY <2>3, <2>7 DEF CheckFails
    <3> QED
      BY <2>1, <2>4, <2>7, <3>1 DEF Promise!QuotaNext
  <2>8. CASE CheckFails(r) /\ served' = served
    <3>1. answer'.how \in {"open", "closed"}
      BY <2>3, <2>8 DEF CheckFails
    <3> QED
      BY <2>2, <2>8, <3>1 DEF Promise!QuotaNext, Promise!Unmetered
  <2> QED
    BY <1>3, <2>5, <2>6, <2>7, <2>8 DEF Check, CheckFails, Decline
<1> QED
  BY <1>1, <1>2, <1>3 DEF LimiterNext

\* The limiter, which forgets, implements the one that forgets nothing: trimming
\* and expiry lose no hit that counts, a refusal is never premature, and the wait
\* it names is long enough.
THEOREM LimiterRefinesQuota == LimiterSpec => Metered
<1>1. LimiterInit => Promise!QuotaInit
  BY DEF LimiterInit
<1> QED
  BY <1>1, LimiterInitInv, LimiterNextInv, StepRefines, PTL
  DEF LimiterSpec, Metered, Promise!QuotaSpec

=============================================================================
