--------------------------- MODULE SlidingWindow ---------------------------
(***************************************************************************)
(* The sliding-window limiters: the Redis script that the replicas of the  *)
(* AI interceptor share (redis_state.py), and the per-process deques of    *)
(* security.py and graphrag_interceptor.py, which are the same algorithm   *)
(* over a store of their own.  Only the hits of the current window are     *)
(* kept, and the key of an idle licence expires.                           *)
(***************************************************************************)
EXTENDS Integers, FiniteSets

CONSTANTS Replicas,   \* processes of the interceptor
          Stores, StoreOf, Members, Window, Limit,
          FailOpen    \* rate_limit_fail_open

ASSUME LimiterAssumption ==
    /\ Window \in Nat \ {0} /\ Limit \in Nat \ {0}
    /\ StoreOf \in [Replicas -> Stores]
    /\ FailOpen \in BOOLEAN

VARIABLES now, served, answer,
          zset,       \* the hits a store holds
          expireAt    \* when its key expires

limiterVars == <<now, served, answer, zset, expireAt>>

Promise == INSTANCE QuotaWindow WITH now <- now, served <- served, answer <- answer

LimiterTypeOK ==
    /\ now \in Nat
    /\ served \in SUBSET Promise!Hits
    /\ answer \in Promise!Answers
    /\ zset \in [Stores -> SUBSET Promise!Hits]
    /\ expireAt \in [Stores -> Nat]

LimiterInit ==
    /\ Promise!QuotaInit
    /\ zset = [s \in Stores |-> {}]
    /\ expireAt = [s \in Stores |-> 0]

-----------------------------------------------------------------------------
(* The script *)

\* An expired key is an empty set.
Held(s) == IF now < expireAt[s] THEN zset[s] ELSE {}

\* Mutation: a hit leaves the window one tick early.
MutTrimmedEarly(s) == {h \in Held(s) : h.at > now - Window + 1}

\* ZREMRANGEBYSCORE key -inf (now - window).
Trimmed(s) == {h \in Held(s) : h.at > now - Window}

\* uuid4: a member no hit has.
Fresh == CHOOSE m \in Members : \A h \in served : h.id # m

\* Bound: as many hits as there are Members.
Available == \E m \in Members : \A h \in served : h.id # m

Hit(s) == [store |-> s, at |-> now, id |-> Fresh]

Full(s) == Cardinality(Trimmed(s)) >= Limit

Oldest(s) == CHOOSE h \in Trimmed(s) : \A g \in Trimmed(s) : h.at <= g.at

\* Mutation: the wait the client is told is cut down to whole seconds.
MutRetryAfterCut(s) == Oldest(s).at + Window - now - 1

\* (oldest + window) - now, rounded up by the middleware's int(retry) + 1.
RetryAfter(s) == Oldest(s).at + Window - now

\* PEXPIRE on every path: a store that is asked stays for one more window.
Script(s, hits) ==
    /\ zset' = [zset EXCEPT ![s] = hits]
    /\ expireAt' = [expireAt EXCEPT ![s] = now + Window]

Admit(s) ==
    /\ ~Full(s) /\ Available
    /\ Script(s, Trimmed(s) \cup {Hit(s)})
    /\ served' = served \cup {Hit(s)}

Decline(s) ==
    /\ Full(s)
    /\ Script(s, Trimmed(s))
    /\ served' = served

-----------------------------------------------------------------------------
(* check *)

\* A transport error: admitted unmetered, or refused for a whole window.
Failed == IF FailOpen THEN [how |-> "open", wait |-> 0]
          ELSE [how |-> "closed", wait |-> Window]

Check(r) ==
    LET s == StoreOf[r] IN
    /\ UNCHANGED now
    /\ \/ Admit(s) /\ answer' = [how |-> "admitted", wait |-> 0]
       \/ Decline(s) /\ answer' = [how |-> "refused", wait |-> RetryAfter(s)]

\* The script ran and its reply was lost, or it never ran.
CheckFails(r) ==
    LET s == StoreOf[r] IN
    /\ UNCHANGED now
    /\ answer' = Failed
    /\ Admit(s) \/ Decline(s) \/ UNCHANGED <<served, zset, expireAt>>

Tick == now' = now + 1 /\ UNCHANGED <<served, answer, zset, expireAt>>

LimiterNext == Tick \/ \E r \in Replicas : Check(r) \/ CheckFails(r)

LimiterSpec == LimiterInit /\ [][LimiterNext]_limiterVars

-----------------------------------------------------------------------------
(* Properties *)

\* The hits of a store in the window that ends at t.
Span(s, t) == {g \in served : g.store = s /\ t - Window < g.at /\ g.at <= t}

\* Script comment: "at most limit members can ever exist in the window no matter
\* how many replicas race".  For every window, not only those that end at a
\* check, and counting the hits whose reply was lost.
QuotaHeld == \A s \in Stores, h \in served : Cardinality(Span(s, h.at)) <= Limit

\* The limiter keeps the promise of QuotaWindow: trimming and key expiry lose no
\* hit that still counts, a refusal is never premature, and a client that waits
\* as long as it is told finds room if it is alone.
Metered == Promise!QuotaSpec

=============================================================================
