----------------------------- MODULE GraphCRDT -----------------------------
(***************************************************************************)
(* The replicated asset topology (internal/crdt/graph_crdt.go) and its     *)
(* anti-entropy exchange (replica.go, replica_http.go).                    *)
(*                                                                         *)
(* Each replica holds, for every vertex and edge, an add and a remove      *)
(* timeline (replica id -> highest Lamport stamp) and, for a vertex, one   *)
(* last-writer-wins payload.  Whole states travel as snapshots: pulled     *)
(* (RunSync) or offered (POST /v1/replica/merge), late, repeated, lost or  *)
(* joined only in part.  Every operation holds the replica's lock, so it   *)
(* is one step.                                                            *)
(*                                                                         *)
(* An element without an entry is one with empty timelines.  Replica ids   *)
(* and payloads are numbers: the code only compares them (ids as strings,  *)
(* payloads by their canonical encoding); 0 is the empty payload.          *)
(***************************************************************************)
EXTENDS Naturals, FiniteSets

CONSTANTS
    Replicas, Vertices, Edges,
    Ends,          \* edge -> its two endpoints
    Peers,         \* REPLICA_PEERS of each replica
    Payloads,      \* the property maps a site writes
    MaxWrites,     \* bound on local mutations
    MaxOffers,     \* bound on snapshots offered and not yet forgotten
    MaxRestarts,   \* bound on restarts
    Watermarks,    \* the stamps Compact may be called with
    InFlightCounts \* does a watermark also wait for snapshots in flight?

ASSUME GraphAssumption ==
    /\ Replicas \subseteq Nat /\ Payloads \subseteq Nat
    /\ Vertices \cap Edges = {}
    /\ Ends \in [Edges -> SUBSET Vertices]
    /\ Peers \in [Replicas -> SUBSET Replicas]
    /\ Watermarks \subseteq Nat \ {0}

VARIABLES
    clock,    \* replica -> Lamport clock
    elems,    \* replica -> element -> entry
    inbox,    \* replica -> snapshots its pull loop fetched and has to join
    offers,   \* snapshots offered to the fleet
    seen,     \* history: replica -> the writes its state stands for
    writes, restarts

vars == <<clock, elems, inbox, offers, seen, writes, restarts>>

-----------------------------------------------------------------------------
(* Elements *)

Elements == Vertices \cup Edges

Timelines == [Replicas -> Nat]

Entries == [add: Timelines, rem: Timelines, props: Nat]

Untouched == [q \in Replicas |-> 0]

Blank == [add |-> Untouched, rem |-> Untouched, props |-> 0]

\* Vertex.Live and Edge.Live: the highest add exceeds the highest remove.
Live(x) == \E q \in Replicas : \A p \in Replicas : x.rem[p] < x.add[q]

Larger(m, n) == IF m < n THEN n ELSE m

\* Mutation: the replica id does not break stamp ties.
MutAfterStampOnly(x, y) ==
    \E q \in Replicas : \A p \in Replicas : x.add[q] > y.add[p]

\* dominantWrite(x) after dominantWrite(y): the greatest (stamp, id) pair.
After(x, y) ==
    \E q \in Replicas : \A p \in Replicas :
        x.add[q] > y.add[p] \/ (x.add[q] = y.add[p] /\ q > p)

\* mergeTimelineInto.
Merged(s, t) == [q \in Replicas |-> Larger(s[q], t[q])]

\* Mutation: of two payloads with one stamp, the local one stays.
MutJoinedKeepsLocal(x, y) ==
    [add |-> Merged(x.add, y.add), rem |-> Merged(x.rem, y.rem),
     props |-> IF After(y, x) THEN y.props ELSE x.props]

\* Mutation: tombstones are not replicated.
MutJoinedAddsOnly(x, y) ==
    [add |-> Merged(x.add, y.add), rem |-> x.rem,
     props |-> IF After(y, x) THEN y.props
               ELSE IF After(x, y) THEN x.props ELSE Larger(x.props, y.props)]

\* joinVertexLocked and joinEdgeLocked of a local x and a remote y.
Joined(x, y) ==
    [add |-> Merged(x.add, y.add), rem |-> Merged(x.rem, y.rem),
     props |-> IF After(y, x) THEN y.props
               ELSE IF After(x, y) THEN x.props ELSE Larger(x.props, y.props)]

-----------------------------------------------------------------------------
(* Writes (history) and snapshots *)

Writes == [elem: Elements, op: {"add", "rem"}, by: Replicas, stamp: Nat \ {0},
           props: Nat]

AddOf(e, r, s, p) == [elem |-> e, op |-> "add", by |-> r, stamp |-> s,
                      props |-> p]

RemOf(e, r, s) == [elem |-> e, op |-> "rem", by |-> r, stamp |-> s,
                   props |-> 0]

Snapshots == [from: Replicas, clock: Nat, elems: [Elements -> Entries],
              seen: SUBSET Writes]

Snapshot(r) == [from |-> r, clock |-> clock[r], elems |-> elems[r], seen |-> seen[r]]

Init ==
    /\ clock = [r \in Replicas |-> 0]
    /\ elems = [r \in Replicas |-> [e \in Elements |-> Blank]]
    /\ inbox = [r \in Replicas |-> {}]
    /\ offers = {}
    /\ seen = [r \in Replicas |-> {}]
    /\ writes = 0 /\ restarts = 0

-----------------------------------------------------------------------------
(* Local mutation: tickLocked, then one timeline entry per element *)

\* Mutation: the stamp is read before the clock advances.
MutTickedLate(r) == clock[r]

Ticked(r) == clock[r] + 1

Write(r) ==
    /\ writes < MaxWrites
    /\ writes' = writes + 1
    /\ clock' = [clock EXCEPT ![r] = Ticked(r)]
    /\ UNCHANGED <<inbox, offers, restarts>>

Added(x, r, s, p) == [add |-> [x.add EXCEPT ![r] = s], rem |-> x.rem, props |-> p]

Removed(x, r, s) == [add |-> x.add, rem |-> [x.rem EXCEPT ![r] = s], props |-> x.props]

Add(r, e, p) ==
    /\ Write(r)
    /\ elems' = [elems EXCEPT ![r][e] = Added(@, r, Ticked(r), p)]
    /\ seen' = [seen EXCEPT ![r] = @ \cup {AddOf(e, r, Ticked(r), p)}]

Remove(r, gone) ==
    /\ Write(r)
    /\ elems' = [elems EXCEPT ![r] = [e \in Elements |->
                    IF e \in gone THEN Removed(elems[r][e], r, Ticked(r))
                    ELSE elems[r][e]]]
    /\ seen' = [seen EXCEPT ![r] = @ \cup
                    {RemOf(e, r, Ticked(r)) : e \in gone}]

AddVertex(r, v, p) == Add(r, v, p)

\* The cascade of RemoveVertex: the live edges this replica knows at v.
Incident(r, v) == {e \in Edges : v \in Ends[e] /\ Live(elems[r][e])}

RemoveVertex(r, v) == Remove(r, {v} \cup Incident(r, v))

AddEdge(r, e) == Add(r, e, 0)

RemoveEdge(r, e) == Remove(r, {e})

-----------------------------------------------------------------------------
(* The join *)

\* Mutation: the receive rule is skipped.
MutObservedOwn(r, s, part) == {clock[r]}

\* The stamps raiseClockLocked takes into account once part of s is joined.
Observed(r, s, part) ==
    {clock[r], s.clock} \cup {s.elems[e].add[q] : e \in part, q \in Replicas}
                        \cup {s.elems[e].rem[q] : e \in part, q \in Replicas}

\* applyLocked over the elements in part.
Join(r, s, part) ==
    /\ elems' = [elems EXCEPT ![r] = [e \in Elements |->
                    IF e \in part THEN Joined(elems[r][e], s.elems[e])
                    ELSE elems[r][e]]]
    /\ \E n \in Observed(r, s, part) :
         /\ \A m \in Observed(r, s, part) : m <= n
         /\ clock' = [clock EXCEPT ![r] = n]
    /\ seen' = [seen EXCEPT ![r] = @ \cup {w \in s.seen : w.elem \in part}]

\* syncOnce: FetchState of a peer ...
Fetch(r, p) ==
    /\ p \in Peers[r]
    /\ inbox[r] = {}
    /\ inbox' = [inbox EXCEPT ![r] = {Snapshot(p)}]
    /\ UNCHANGED <<clock, elems, offers, seen, writes, restarts>>

\* ... and MergeSnapshot of what came back, however late.
Pull(r) ==
    \E s \in inbox[r] :
        /\ Join(r, s, Elements)
        /\ inbox' = [inbox EXCEPT ![r] = {}]
        /\ UNCHANGED <<offers, writes, restarts>>

Offer(p) ==
    /\ Snapshot(p) \notin offers
    /\ Cardinality(offers) < MaxOffers
    /\ offers' = offers \cup {Snapshot(p)}
    /\ UNCHANGED <<clock, elems, inbox, seen, writes, restarts>>

Forget ==
    \E s \in offers :
        /\ offers' = offers \ {s}
        /\ UNCHANGED <<clock, elems, inbox, seen, writes, restarts>>

\* POST /v1/replica/merge; a client that repeats its request is joined again.
Accept(r) ==
    \E s \in offers :
        /\ s.from # r
        /\ Join(r, s, Elements)
        /\ UNCHANGED <<inbox, offers, writes, restarts>>

\* ReconcileRemoteDelta when its context ends early: vertices are joined
\* before edges, and what was joined stays.
Reconcile(r) ==
    \E s \in offers, part \in SUBSET Elements :
        /\ s.from # r
        /\ part \cap Edges # {} => Vertices \subseteq part
        /\ Join(r, s, part)
        /\ UNCHANGED <<inbox, offers, writes, restarts>>

\* NewTopologyReplica in a new process: same id, no state, clock zero.
Restart(r) ==
    /\ restarts < MaxRestarts
    /\ restarts' = restarts + 1
    /\ clock' = [clock EXCEPT ![r] = 0]
    /\ elems' = [elems EXCEPT ![r] = [e \in Elements |-> Blank]]
    /\ seen' = [seen EXCEPT ![r] = {}]
    /\ inbox' = [inbox EXCEPT ![r] = {}]
    /\ UNCHANGED <<offers, writes>>

-----------------------------------------------------------------------------
(* Compaction *)

InFlight == offers \cup UNION {inbox[r] : r \in Replicas}

\* The caller's obligation in Compact's comment: every replica has observed
\* all there is below the watermark, and writes nothing below it any more.
Stable(watermark) ==
    LET old == {w \in UNION {seen[r] : r \in Replicas} : w.stamp < watermark} IN
    /\ \A r \in Replicas : old \subseteq seen[r] /\ clock[r] + 1 >= watermark
    /\ InFlightCounts => \A s \in InFlight : old \subseteq s.seen

\* Mutation: a tombstone at the watermark goes too.
MutCompactableAt(x, watermark) ==
    ~Live(x) /\ \A q \in Replicas : x.rem[q] <= watermark

Compactable(x, watermark) ==
    ~Live(x) /\ \A q \in Replicas : x.rem[q] < watermark

Compact(r, watermark) ==
    /\ Stable(watermark)
    /\ elems' = [elems EXCEPT ![r] = [e \in Elements |->
                    IF Compactable(elems[r][e], watermark) THEN Blank ELSE elems[r][e]]]
    /\ UNCHANGED <<clock, inbox, offers, seen, writes, restarts>>

-----------------------------------------------------------------------------

Next ==
    \/ \E r \in Replicas, v \in Vertices, p \in Payloads : AddVertex(r, v, p)
    \/ \E r \in Replicas, v \in Vertices : RemoveVertex(r, v)
    \/ \E r \in Replicas, e \in Edges : AddEdge(r, e) \/ RemoveEdge(r, e)
    \/ \E r, p \in Replicas : Fetch(r, p)
    \/ \E r \in Replicas : Pull(r) \/ Offer(r) \/ Accept(r) \/ Reconcile(r) \/ Restart(r)
    \/ Forget
    \/ \E r \in Replicas, w \in Watermarks : Compact(r, w)

\* RunSync asks every peer once an interval and joins each answer; that a
\* partition ends is assumed, and nothing is assumed of offers.
Fairness ==
    /\ \A r, p \in Replicas : SF_vars(Fetch(r, p))
    /\ \A r \in Replicas : WF_vars(Pull(r))

Spec == Init /\ [][Next]_vars /\ Fairness

-----------------------------------------------------------------------------
(* Properties *)

TypeOK ==
    /\ clock \in [Replicas -> Nat]
    /\ elems \in [Replicas -> [Elements -> Entries]]
    /\ inbox \in [Replicas -> SUBSET Snapshots]
    /\ offers \subseteq Snapshots
    /\ seen \in [Replicas -> SUBSET Writes]
    /\ writes \in Nat /\ restarts \in Nat

Dominates(n, es) ==
    \A e \in Elements, q \in Replicas : es[e].add[q] <= n /\ es[e].rem[q] <= n

\* raiseClockLocked: "every stamp this replica issues must exceed everything it
\* has seen", through late, repeated and partial joins; and a snapshot's clock
\* covers its own content.
ClockDominates ==
    /\ \A r \in Replicas : Dominates(clock[r], elems[r])
    /\ \A s \in InFlight : Dominates(s.clock, s.elems)

Beats(u, w) ==
    \/ u.stamp > w.stamp
    \/ u.stamp = w.stamp /\ u.by > w.by
    \/ u.stamp = w.stamp /\ u.by = w.by /\ u.props > w.props

OpsOn(ws, e, op) == {w \in ws : w.elem = e /\ w.op = op}

\* The timeline holds each author's highest stamp among ws.
Records(t, ws) ==
    /\ \A w \in ws : w.stamp <= t[w.by]
    /\ \A q \in Replicas : t[q] # 0 => \E w \in ws : w.by = q /\ w.stamp = t[q]

\* The payload is that of the last write.
Holds(p, ws) ==
    IF ws = {} THEN p = 0
    ELSE \E w \in ws : p = w.props /\ \A u \in ws : ~Beats(u, w)

\* The entry is what the writes ws amount to.
Reflects(x, ws, e) ==
    /\ Records(x.add, OpsOn(ws, e, "add"))
    /\ Records(x.rem, OpsOn(ws, e, "rem"))
    /\ Holds(x.props, OpsOn(ws, e, "add"))

\* Package comment: the join is lossless.  Whatever order snapshots arrived in,
\* however often and however partially, and although a restarted replica issues
\* its old stamps again, a replica's state is the one its observed writes define.
StateFromWrites ==
    \A r \in Replicas, e \in Elements : Reflects(elems[r][e], seen[r], e)

\* Package comment: "replicas that have observed the same set of mutations
\* converge on the same graph no matter what order the states arrived in".
StrongConvergence ==
    \A a, b \in Replicas : seen[a] = seen[b] => elems[a] = elems[b]

LiveBy(ws, e) ==
    \E w \in OpsOn(ws, e, "add") : \A u \in OpsOn(ws, e, "rem") : u.stamp < w.stamp

\* Compact's comment: below a causal watermark no "deleted equipment" comes
\* back.  What a replica shows, which elements are live and with which
\* payload, is what its observed writes define, compacted or not.
ViewFromWrites ==
    \A r \in Replicas, e \in Elements :
        LET x == elems[r][e] IN
        /\ Live(x) <=> LiveBy(seen[r], e)
        /\ Live(x) => Holds(x.props, OpsOn(seen[r], e, "add"))

Converged == \A a, b \in Replicas : elems[a] = elems[b]

\* Package comment: edge sites that stay connected long enough agree.  Once the
\* writes stop, the pull loops bring every replica to the same state for good.
EventuallyConverged == <>[]Converged

=============================================================================
