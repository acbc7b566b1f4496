---------------------------- MODULE QuotaWindow ----------------------------
(***************************************************************************)
(* What a rate limiter promises: it forgets nothing, admits a request only *)
(* when the window that ends now has room, and refuses one only when it    *)
(* has none, naming a wait after which it has room again.                  *)
(***************************************************************************)
EXTENDS Integers, FiniteSets

CONSTANTS Stores,     \* where hits are counted: one shared store, or one per process
          Members,    \* identities of hits
          Window, Limit

VARIABLES now,        \* the store's clock
          served,     \* every hit ever recorded
          answer      \* the last decision

quotaVars == <<now, served, answer>>

Hits == [store: Stores, at: Nat, id: Members]

Answers == [how: {"none", "open", "closed", "admitted", "refused"}, wait: Nat]

\* The hits of a store that a window ending at t counts.
Within(s, t) == {h \in served : h.store = s /\ h.at > t - Window}

Room(s, t) == Cardinality(Within(s, t)) < Limit

QuotaInit ==
    /\ now = 0
    /\ served = {}
    /\ answer = [how |-> "none", wait |-> 0]

Pass == now' > now /\ now' \in Nat /\ UNCHANGED <<served, answer>>

\* A hit is recorded; the caller may not learn of it.
Record(s) ==
    /\ Room(s, now)
    /\ \E m \in Members :
        /\ \A h \in served : h.id # m
        /\ served' = served \cup {[store |-> s, at |-> now, id |-> m]}
    /\ answer' \in Answers /\ answer'.how \in {"admitted", "open", "closed"}
    /\ UNCHANGED now

Refuse(s) ==
    /\ ~Room(s, now)
    /\ answer' \in Answers /\ answer'.how = "refused"
    /\ Room(s, now + answer'.wait)
    /\ UNCHANGED <<now, served>>

\* The store did not answer: the decision is not a count's.
Unmetered ==
    /\ answer' \in Answers /\ answer'.how \in {"open", "closed"}
    /\ UNCHANGED <<now, served>>

QuotaNext == Pass \/ Unmetered \/ \E s \in Stores : Record(s) \/ Refuse(s)

QuotaSpec == QuotaInit /\ [][QuotaNext]_quotaVars

=============================================================================
