--------------------------- MODULE GraphCRDTProofs ---------------------------
(***************************************************************************)
(* Strong eventual consistency of the replicated topology, for any number  *)
(* of replicas, elements and writes.  Joins are analysed entry by entry:   *)
(* an entry reflects a set of writes, and the join of two entries reflects *)
(* the union.  The argument needs the clock to dominate every stamp held,  *)
(* so that a local write is the last one its replica knows.  A fleet that  *)
(* compacts keeps what it shows: only settled writes are dropped.          *)
(***************************************************************************)
EXTENDS GraphCRDT, TLAPS

-----------------------------------------------------------------------------
(* Types *)

\* joinVertexLocked and joinEdgeLocked produce an entry.
LEMMA JoinedType ==
    ASSUME NEW x \in Entries, NEW y \in Entries
    PROVE  Joined(x, y) \in Entries
<1>1. Merged(x.add, y.add) \in Timelines /\ Merged(x.rem, y.rem) \in Timelines
  BY DEF Merged, Larger, Entries, Timelines
<1>2. Joined(x, y).props \in Nat
  BY DEF Joined, Larger, Entries
<1> QED
  BY <1>1, <1>2 DEF Joined, Entries

\* An entry with empty timelines is an entry.
LEMMA BlankType == Blank \in Entries
  BY DEF Blank, Untouched, Entries, Timelines

\* Reading a replica yields a snapshot.
LEMMA SnapshotType ==
    ASSUME TypeOK, NEW r \in Replicas
    PROVE  Snapshot(r) \in Snapshots
  BY DEF TypeOK, Snapshot, Snapshots

\* The clock after a join is a number.
LEMMA ObservedType ==
    ASSUME TypeOK, NEW r \in Replicas, NEW s \in Snapshots,
           NEW part \in SUBSET Elements
    PROVE  Observed(r, s, part) \subseteq Nat
<1>1. \A e \in part, q \in Replicas : s.elems[e].add[q] \in Nat /\ s.elems[e].rem[q] \in Nat
  BY DEF Snapshots, Entries, Timelines
<1> QED
  BY <1>1 DEF Observed, TypeOK, Snapshots

\* A local add keeps the state well typed.
LEMMA AddType ==
    ASSUME TypeOK, NEW r \in Replicas, NEW e \in Elements, NEW p \in Nat, Add(r, e, p)
    PROVE  TypeOK'
<1>1. Ticked(r) \in Nat \ {0}
  BY DEF TypeOK, Ticked
<1>2. AddOf(e, r, Ticked(r), p) \in Writes
  BY <1>1 DEF AddOf, Writes, Timelines, Untouched
<1>3. Added(elems[r][e], r, Ticked(r), p) \in Entries
  BY <1>1 DEF Added, TypeOK, Entries, Timelines
<1>4. clock' \in [Replicas -> Nat] /\ writes' \in Nat /\ restarts' \in Nat
  BY <1>1 DEF TypeOK, Add, Write
<1>5. elems' \in [Replicas -> [Elements -> Entries]]
  BY <1>3 DEF TypeOK, Add
<1>6. seen' \in [Replicas -> SUBSET Writes]
  BY <1>2 DEF TypeOK, Add
<1> QED
  BY <1>4, <1>5, <1>6 DEF TypeOK, Add, Write

\* A local removal keeps the state well typed.
LEMMA RemoveType ==
    ASSUME TypeOK, NEW r \in Replicas, NEW gone \in SUBSET Elements, Remove(r, gone)
    PROVE  TypeOK'
<1>1. Ticked(r) \in Nat \ {0}
  BY DEF TypeOK, Ticked
<1>2. \A e \in Elements : RemOf(e, r, Ticked(r)) \in Writes
  BY <1>1 DEF RemOf, Writes, TypeOK, Entries
<1>3. \A e \in Elements : Removed(elems[r][e], r, Ticked(r)) \in Entries
  BY <1>1 DEF Removed, TypeOK, Entries, Timelines
<1>4. clock' \in [Replicas -> Nat] /\ writes' \in Nat /\ restarts' \in Nat
  BY <1>1 DEF TypeOK, Remove, Write
<1>5. elems' \in [Replicas -> [Elements -> Entries]]
  BY <1>3 DEF TypeOK, Remove
<1>6. seen' \in [Replicas -> SUBSET Writes]
  BY <1>2 DEF TypeOK, Remove
<1> QED
  BY <1>4, <1>5, <1>6 DEF TypeOK, Remove, Write

\* A join keeps clock, entries and history well typed.
LEMMA JoinTypeOf ==
    ASSUME TypeOK, NEW r \in Replicas, NEW s \in Snapshots,
           NEW part \in SUBSET Elements, Join(r, s, part)
    PROVE  /\ clock' \in [Replicas -> Nat]
           /\ elems' \in [Replicas -> [Elements -> Entries]]
           /\ seen' \in [Replicas -> SUBSET Writes]
<1>1. clock' \in [Replicas -> Nat]
  BY ObservedType DEF Join, TypeOK
<1>2. \A e \in Elements : Joined(elems[r][e], s.elems[e]) \in Entries
  BY JoinedType DEF TypeOK, Snapshots
<1>3. elems' \in [Replicas -> [Elements -> Entries]]
  BY <1>2 DEF Join, TypeOK
<1>4. seen' \in [Replicas -> SUBSET Writes]
  BY DEF Join, TypeOK, Snapshots
<1> QED
  BY <1>1, <1>3, <1>4

\* The steps that only move snapshots around, restart or compact.
LEMMA OtherType ==
    ASSUME TypeOK, NEW r \in Replicas
    PROVE  /\ \A p \in Replicas : Fetch(r, p) => TypeOK'
           /\ Pull(r) => TypeOK'
           /\ Offer(r) => TypeOK'
           /\ Accept(r) => TypeOK'
           /\ Reconcile(r) => TypeOK'
           /\ Restart(r) => TypeOK'
           /\ Forget => TypeOK'
           /\ \A w \in Watermarks : Compact(r, w) => TypeOK'
<1>1. ASSUME NEW p \in Replicas, Fetch(r, p) PROVE TypeOK'
  <2>1. inbox' \in [Replicas -> SUBSET Snapshots]
    BY <1>1, SnapshotType DEF Fetch, TypeOK
  <2> QED BY <2>1, <1>1 DEF Fetch, TypeOK
<1>2. ASSUME Pull(r) PROVE TypeOK'
  <2>1. PICK s \in inbox[r] : Join(r, s, Elements) /\ inbox' = [inbox EXCEPT ![r] = {}]
                              /\ UNCHANGED <<offers, writes, restarts>>
    BY <1>2 DEF Pull
  <2>2. s \in Snapshots
    BY DEF TypeOK
  <2>3. inbox' \in [Replicas -> SUBSET Snapshots]
    BY <2>1 DEF TypeOK
  <2> QED BY <2>1, <2>2, <2>3, JoinTypeOf DEF TypeOK
<1>3. ASSUME Offer(r) PROVE TypeOK'
  BY <1>3, SnapshotType DEF Offer, TypeOK
<1>4. ASSUME Accept(r) PROVE TypeOK'
  <2>1. PICK s \in offers : Join(r, s, Elements) /\ UNCHANGED <<inbox, offers, writes, restarts>>
    BY <1>4 DEF Accept
  <2>2. s \in Snapshots
    BY DEF TypeOK
  <2> QED BY <2>1, <2>2, JoinTypeOf DEF TypeOK
<1>5. ASSUME Reconcile(r) PROVE TypeOK'
  <2>1. PICK s \in offers, part \in SUBSET Elements :
            Join(r, s, part) /\ UNCHANGED <<inbox, offers, writes, restarts>>
    BY <1>5 DEF Reconcile
  <2>2. s \in Snapshots
    BY DEF TypeOK
  <2> QED BY <2>1, <2>2, JoinTypeOf DEF TypeOK
<1>6. ASSUME Restart(r) PROVE TypeOK'
  <2>1. elems' \in [Replicas -> [Elements -> Entries]]
    BY <1>6, BlankType DEF Restart, TypeOK
  <2>2. /\ clock' \in [Replicas -> Nat] /\ seen' \in [Replicas -> SUBSET Writes]
        /\ inbox' \in [Replicas -> SUBSET Snapshots] /\ restarts' \in Nat
    BY <1>6 DEF Restart, TypeOK
  <2> QED BY <1>6, <2>1, <2>2 DEF Restart, TypeOK
<1>7. ASSUME Forget PROVE TypeOK'
  BY <1>7 DEF Forget, TypeOK
<1>8. ASSUME NEW w \in Watermarks, Compact(r, w) PROVE TypeOK'
  <2>1. elems' \in [Replicas -> [Elements -> Entries]]
    BY <1>8, BlankType DEF Compact, TypeOK
  <2> QED BY <1>8, <2>1 DEF Compact, TypeOK
<1> QED
  BY <1>1, <1>2, <1>3, <1>4, <1>5, <1>6, <1>7, <1>8

\* Every step keeps the state well typed.
LEMMA TypeStep == TypeOK /\ [Next]_vars => TypeOK'
<1> SUFFICES ASSUME TypeOK, [Next]_vars PROVE TypeOK'
  OBVIOUS
<1>1. CASE UNCHANGED vars
  BY <1>1 DEF vars, TypeOK
<1>2. ASSUME NEW r \in Replicas, NEW v \in Vertices, NEW p \in Payloads, AddVertex(r, v, p)
      PROVE  TypeOK'
  BY <1>2, AddType, GraphAssumption DEF AddVertex, Elements
<1>3. ASSUME NEW r \in Replicas, NEW v \in Vertices, RemoveVertex(r, v)
      PROVE  TypeOK'
  <2>1. {v} \cup Incident(r, v) \in SUBSET Elements
    BY DEF Incident, Elements
  <2> QED BY <1>3, <2>1, RemoveType DEF RemoveVertex
<1>4. ASSUME NEW r \in Replicas, NEW e \in Edges, AddEdge(r, e) \/ RemoveEdge(r, e)
      PROVE  TypeOK'
  <2>1. e \in Elements /\ {e} \in SUBSET Elements
    BY DEF Elements
  <2> QED BY <1>4, <2>1, AddType, RemoveType DEF AddEdge, RemoveEdge
<1>5. CASE Forget
  <2>1. offers' \in SUBSET Snapshots
    BY <1>5 DEF Forget, TypeOK
  <2> QED BY <1>5, <2>1 DEF Forget, TypeOK
<1> QED
  BY <1>1, <1>2, <1>3, <1>4, <1>5, OtherType DEF Next

\* TypeOK for every value of the constants: clocks, timelines, snapshots and
\* histories keep their form under every operation.
THEOREM TypeCorrect == Spec => []TypeOK
<1>1. Init => TypeOK
  <2> SUFFICES ASSUME Init PROVE TypeOK
    OBVIOUS
  <2>1. elems \in [Replicas -> [Elements -> Entries]]
    BY BlankType DEF Init
  <2> QED BY <2>1 DEF Init, TypeOK
<1> QED
  BY <1>1, TypeStep, PTL DEF Spec

-----------------------------------------------------------------------------
(* The clock *)

\* The join of two entries is dominated by whatever dominates both.
LEMMA JoinedBelow ==
    ASSUME NEW x \in Entries, NEW y \in Entries, NEW n \in Nat,
           \A q \in Replicas : x.add[q] <= n /\ x.rem[q] <= n,
           \A q \in Replicas : y.add[q] <= n /\ y.rem[q] <= n
    PROVE  \A q \in Replicas : Joined(x, y).add[q] <= n /\ Joined(x, y).rem[q] <= n
  BY DEF Joined, Merged, Larger, Entries, Timelines

\* After a join, also of a part, the raised clock dominates the entries.
LEMMA JoinClock ==
    ASSUME TypeOK, NEW r \in Replicas, NEW s \in Snapshots,
           NEW part \in SUBSET Elements, Join(r, s, part),
           Dominates(clock[r], elems[r]), Dominates(s.clock, s.elems)
    PROVE  /\ Dominates(clock'[r], elems'[r])
           /\ \A a \in Replicas \ {r} : clock'[a] = clock[a] /\ elems'[a] = elems[a]
<1>1. PICK n \in Observed(r, s, part) :
        (\A m \in Observed(r, s, part) : m <= n) /\ clock' = [clock EXCEPT ![r] = n]
  BY DEF Join
<1>2. n \in Nat /\ clock[r] \in Nat /\ s.clock \in Nat
  BY ObservedType DEF TypeOK, Snapshots
<1>3. clock[r] <= n /\ s.clock <= n /\ clock'[r] = n
  BY <1>1 DEF Observed, TypeOK
<1>4. ASSUME NEW e \in Elements
      PROVE  \A q \in Replicas : elems'[r][e].add[q] <= n /\ elems'[r][e].rem[q] <= n
  <2>1. elems[r][e] \in Entries /\ s.elems[e] \in Entries
    BY DEF TypeOK, Snapshots
  <2>2. \A q \in Replicas : elems[r][e].add[q] <= n /\ elems[r][e].rem[q] <= n
    BY <1>2, <1>3, <2>1 DEF Dominates, Entries, Timelines
  <2>3. \A q \in Replicas : s.elems[e].add[q] <= n /\ s.elems[e].rem[q] <= n
    BY <1>2, <1>3, <2>1 DEF Dominates, Entries, Timelines
  <2>4. elems'[r][e] = IF e \in part THEN Joined(elems[r][e], s.elems[e]) ELSE elems[r][e]
    BY DEF Join, TypeOK
  <2> QED BY <1>2, <2>1, <2>2, <2>3, <2>4, JoinedBelow
<1> QED
  BY <1>1, <1>3, <1>4 DEF Dominates, Join, TypeOK

\* A local write takes the next stamp, which dominates its replica.
LEMMA WriteClock ==
    ASSUME TypeOK, NEW r \in Replicas, Dominates(clock[r], elems[r]),
           \/ \E e \in Elements, p \in Nat : Add(r, e, p)
           \/ \E gone \in SUBSET Elements : Remove(r, gone)
    PROVE  /\ Dominates(clock'[r], elems'[r])
           /\ \A a \in Replicas \ {r} : clock'[a] = clock[a] /\ elems'[a] = elems[a]
           /\ UNCHANGED <<inbox, offers>>
<1>1. clock[r] \in Nat /\ Ticked(r) = clock[r] + 1
  BY DEF TypeOK, Ticked
<1>2. \A e \in Elements : elems[r][e] \in Entries
  BY DEF TypeOK
<1>3. \A e \in Elements, q \in Replicas :
          /\ elems[r][e].add[q] \in Nat /\ elems[r][e].add[q] <= Ticked(r)
          /\ elems[r][e].rem[q] \in Nat /\ elems[r][e].rem[q] <= Ticked(r)
  BY <1>1, <1>2 DEF Dominates, Entries, Timelines
<1>4. CASE \E e \in Elements, p \in Nat : Add(r, e, p)
  <2>1. PICK e \in Elements, p \in Nat : Add(r, e, p)
    BY <1>4
  <2>2. clock'[r] = Ticked(r) /\ UNCHANGED <<inbox, offers>>
    BY <2>1 DEF Add, Write, TypeOK
  <2>3. \A a \in Replicas \ {r} : clock'[a] = clock[a] /\ elems'[a] = elems[a]
    BY <2>1 DEF Add, Write, TypeOK
  <2>4. \A f \in Elements : elems'[r][f] = IF f = e THEN Added(elems[r][e], r, Ticked(r), p)
                                           ELSE elems[r][f]
    BY <2>1 DEF Add, TypeOK
  <2>5. \A q \in Replicas : /\ Added(elems[r][e], r, Ticked(r), p).add[q] <= Ticked(r)
                            /\ Added(elems[r][e], r, Ticked(r), p).rem[q] <= Ticked(r)
    BY <1>1, <1>2, <1>3 DEF Added, Entries, Timelines
  <2>6. \A f \in Elements, q \in Replicas :
            elems'[r][f].add[q] <= Ticked(r) /\ elems'[r][f].rem[q] <= Ticked(r)
    BY <1>3, <2>4, <2>5
  <2> QED BY <2>2, <2>3, <2>6 DEF Dominates
<1>5. CASE \E gone \in SUBSET Elements : Remove(r, gone)
  <2>1. PICK gone \in SUBSET Elements : Remove(r, gone)
    BY <1>5
  <2>2. clock'[r] = Ticked(r) /\ UNCHANGED <<inbox, offers>>
    BY <2>1 DEF Remove, Write, TypeOK
  <2>3. \A a \in Replicas \ {r} : clock'[a] = clock[a] /\ elems'[a] = elems[a]
    BY <2>1 DEF Remove, Write, TypeOK
  <2>4. \A f \in Elements : elems'[r][f] = IF f \in gone THEN Removed(elems[r][f], r, Ticked(r))
                                           ELSE elems[r][f]
    BY <2>1 DEF Remove, TypeOK
  <2>5. \A f \in Elements, q \in Replicas :
            /\ Removed(elems[r][f], r, Ticked(r)).add[q] <= Ticked(r)
            /\ Removed(elems[r][f], r, Ticked(r)).rem[q] <= Ticked(r)
    BY <1>1, <1>2, <1>3 DEF Removed, Entries, Timelines
  <2>6. \A f \in Elements, q \in Replicas :
            elems'[r][f].add[q] <= Ticked(r) /\ elems'[r][f].rem[q] <= Ticked(r)
    BY <1>3, <2>4, <2>5
  <2> QED BY <2>2, <2>3, <2>6 DEF Dominates
<1> QED
  BY <1>4, <1>5

\* A join of a snapshot in flight keeps ClockDominates.
LEMMA JoinKeepsClock ==
    ASSUME TypeOK, ClockDominates, NEW r \in Replicas, NEW s \in InFlight,
           NEW part \in SUBSET Elements, Join(r, s, part), InFlight' \subseteq InFlight
    PROVE  ClockDominates'
<1>1. s \in Snapshots
  BY DEF TypeOK, InFlight
<1>2. Dominates(clock[r], elems[r]) /\ Dominates(s.clock, s.elems)
  BY DEF ClockDominates
<1>3. \A a \in Replicas : Dominates(clock'[a], elems'[a])
  BY <1>1, <1>2, JoinClock DEF ClockDominates
<1>4. \A t \in InFlight' : Dominates(t.clock, t.elems)
  BY DEF ClockDominates
<1> QED
  BY <1>3, <1>4 DEF ClockDominates, Dominates

\* A local write keeps ClockDominates.
LEMMA WriteKeepsClock ==
    ASSUME TypeOK, ClockDominates, NEW r \in Replicas,
           \/ \E e \in Elements, p \in Nat : Add(r, e, p)
           \/ \E gone \in SUBSET Elements : Remove(r, gone)
    PROVE  ClockDominates'
<1>1. Dominates(clock[r], elems[r])
  BY DEF ClockDominates
<1>2. /\ Dominates(clock'[r], elems'[r])
      /\ \A a \in Replicas \ {r} : clock'[a] = clock[a] /\ elems'[a] = elems[a]
      /\ UNCHANGED <<inbox, offers>>
  BY <1>1, WriteClock
<1>3. \A a \in Replicas : Dominates(clock'[a], elems'[a])
  BY <1>2 DEF ClockDominates
<1>4. InFlight' = InFlight
  BY <1>2 DEF InFlight
<1> QED
  BY <1>3, <1>4 DEF ClockDominates, Dominates

\* What a pull, an offer or an aborted reconciliation joins was in flight, and
\* nothing new is in flight afterwards.
LEMMA JoinsOfInFlight ==
    ASSUME TypeOK, NEW r \in Replicas, Pull(r) \/ Accept(r) \/ Reconcile(r)
    PROVE  \E s \in InFlight, part \in SUBSET Elements :
               Join(r, s, part) /\ InFlight' \subseteq InFlight
<1>1. CASE Pull(r)
  <2>1. PICK s \in inbox[r] : Join(r, s, Elements) /\ inbox' = [inbox EXCEPT ![r] = {}]
                              /\ UNCHANGED offers
    BY <1>1 DEF Pull
  <2>2. \A a \in Replicas : inbox'[a] \subseteq inbox[a]
    BY <2>1 DEF TypeOK
  <2> QED BY <2>1, <2>2 DEF InFlight
<1>2. CASE Accept(r)
  <2>1. PICK s \in offers : Join(r, s, Elements) /\ UNCHANGED <<inbox, offers>>
    BY <1>2 DEF Accept
  <2> QED BY <2>1 DEF InFlight
<1>3. CASE Reconcile(r)
  <2>1. PICK s \in offers, part \in SUBSET Elements :
            Join(r, s, part) /\ UNCHANGED <<inbox, offers>>
    BY <1>3 DEF Reconcile
  <2> QED BY <2>1 DEF InFlight
<1> QED
  BY <1>1, <1>2, <1>3

\* Fetching and offering put a current snapshot in flight, forgetting drops one.
LEMMA SnapshotMoves ==
    ASSUME TypeOK, NEW r \in Replicas,
           (\E p \in Replicas : Fetch(r, p)) \/ Offer(r) \/ Forget
    PROVE  /\ UNCHANGED <<clock, elems, seen>>
           /\ \A s \in InFlight' : s \in InFlight \/ \E p \in Replicas : s = Snapshot(p)
<1>1. CASE \E p \in Replicas : Fetch(r, p)
  <2>1. PICK p \in Replicas : Fetch(r, p)
    BY <1>1
  <2>2. \A a \in Replicas : inbox'[a] = IF a = r THEN {Snapshot(p)} ELSE inbox[a]
    BY <2>1 DEF Fetch, TypeOK
  <2> QED BY <2>1, <2>2 DEF Fetch, InFlight
<1>2. CASE Offer(r)
  BY <1>2 DEF Offer, InFlight
<1>3. CASE Forget
  BY <1>3 DEF Forget, InFlight
<1> QED
  BY <1>1, <1>2, <1>3

\* A restart empties one replica and its inbox.
LEMMA RestartEmpties ==
    ASSUME TypeOK, NEW r \in Replicas, Restart(r)
    PROVE  /\ clock'[r] = 0 /\ elems'[r] = [e \in Elements |-> Blank] /\ seen'[r] = {}
           /\ \A a \in Replicas \ {r} :
                clock'[a] = clock[a] /\ elems'[a] = elems[a] /\ seen'[a] = seen[a]
           /\ InFlight' \subseteq InFlight
<1>1. \A a \in Replicas : inbox'[a] \subseteq inbox[a]
  BY DEF Restart, TypeOK
<1>2. InFlight' \subseteq InFlight
  BY <1>1 DEF Restart, InFlight
<1> QED
  BY <1>2 DEF Restart, TypeOK

\* Every step keeps the clocks above all stamps.
LEMMA ClockStep == TypeOK /\ ClockDominates /\ [Next]_vars => ClockDominates'
<1> SUFFICES ASSUME TypeOK, ClockDominates, [Next]_vars PROVE ClockDominates'
  OBVIOUS
<1>1. CASE UNCHANGED vars
  BY <1>1 DEF vars, ClockDominates, Dominates, InFlight
<1>2. ASSUME NEW r \in Replicas, NEW v \in Vertices, NEW p \in Payloads, AddVertex(r, v, p)
      PROVE  ClockDominates'
  <2>1. v \in Elements /\ p \in Nat
    BY GraphAssumption DEF Elements
  <2> QED BY <1>2, <2>1, WriteKeepsClock DEF AddVertex
<1>3. ASSUME NEW r \in Replicas, NEW v \in Vertices, RemoveVertex(r, v)
      PROVE  ClockDominates'
  <2>1. {v} \cup Incident(r, v) \in SUBSET Elements
    BY DEF Incident, Elements
  <2> QED BY <1>3, <2>1, WriteKeepsClock DEF RemoveVertex
<1>4. ASSUME NEW r \in Replicas, NEW e \in Edges, AddEdge(r, e) \/ RemoveEdge(r, e)
      PROVE  ClockDominates'
  <2>1. e \in Elements /\ {e} \in SUBSET Elements
    BY DEF Elements
  <2> QED BY <1>4, <2>1, WriteKeepsClock DEF AddEdge, RemoveEdge
<1>5. ASSUME NEW r \in Replicas, (\E p \in Replicas : Fetch(r, p)) \/ Offer(r)
      PROVE  ClockDominates'
  <2>1. /\ UNCHANGED <<clock, elems, seen>>
        /\ \A s \in InFlight' : s \in InFlight \/ \E p \in Replicas : s = Snapshot(p)
    BY <1>5, SnapshotMoves
  <2>2. \A s \in InFlight' : Dominates(s.clock, s.elems)
    BY <2>1 DEF ClockDominates, Snapshot
  <2>3. \A a \in Replicas : Dominates(clock'[a], elems'[a])
    BY <2>1 DEF ClockDominates
  <2> QED BY <2>2, <2>3 DEF ClockDominates, Dominates
<1>6. ASSUME NEW r \in Replicas, Pull(r) \/ Accept(r) \/ Reconcile(r)
      PROVE  ClockDominates'
  BY <1>6, JoinsOfInFlight, JoinKeepsClock
<1>7. ASSUME NEW r \in Replicas, Restart(r)
      PROVE  ClockDominates'
  <2>1. Dominates(clock'[r], elems'[r])
    BY <1>7, RestartEmpties DEF Dominates, Blank, Untouched
  <2>2. \A a \in Replicas : Dominates(clock'[a], elems'[a])
    BY <1>7, <2>1, RestartEmpties DEF ClockDominates
  <2>3. \A s \in InFlight' : Dominates(s.clock, s.elems)
    BY <1>7, RestartEmpties DEF ClockDominates
  <2> QED BY <2>2, <2>3 DEF ClockDominates, Dominates
<1>8. CASE Forget
  <2>1. UNCHANGED <<clock, elems>> /\ InFlight' \subseteq InFlight
    BY <1>8 DEF Forget, InFlight
  <2> QED BY <2>1 DEF ClockDominates, Dominates
<1>9. ASSUME NEW r \in Replicas, NEW w \in Watermarks, Compact(r, w)
      PROVE  ClockDominates'
  <2>1. \A a \in Replicas, e \in Elements : elems'[a][e] \in {elems[a][e], Blank}
    BY <1>9 DEF Compact, TypeOK
  <2>2. \A q \in Replicas : Blank.add[q] = 0 /\ Blank.rem[q] = 0
    BY DEF Blank, Untouched
  <2>3. UNCHANGED clock /\ InFlight' = InFlight /\ clock \in [Replicas -> Nat]
    BY <1>9 DEF Compact, InFlight, TypeOK
  <2>4. \A a \in Replicas : Dominates(clock[a], elems[a])
    BY DEF ClockDominates
  <2>5. \A a \in Replicas : Dominates(clock[a], elems'[a])
    BY <2>1, <2>2, <2>3, <2>4 DEF Dominates
  <2>6. \A s \in InFlight : Dominates(s.clock, s.elems)
    BY DEF ClockDominates
  <2> QED BY <2>3, <2>5, <2>6 DEF ClockDominates, Dominates
<1> QED
  BY <1>1, <1>2, <1>3, <1>4, <1>5, <1>6, <1>7, <1>8, <1>9 DEF Next

\* ClockDominates for every value of the constants: through late, repeated,
\* partial and compacted states, restarts included, the next stamp a replica
\* issues exceeds everything it has seen (raiseClockLocked).
THEOREM ClockIsAhead == Spec => []ClockDominates
<1>1. Init => ClockDominates
  <2> SUFFICES ASSUME Init PROVE ClockDominates
    OBVIOUS
  <2>1. InFlight = {}
    BY DEF Init, InFlight
  <2>2. \A r \in Replicas : Dominates(clock[r], elems[r])
    BY DEF Init, Dominates, Blank, Untouched
  <2> QED BY <2>1, <2>2 DEF ClockDominates
<1> QED
  BY <1>1, ClockStep, TypeCorrect, PTL DEF Spec

-----------------------------------------------------------------------------
(* Timelines and payloads of a set of writes *)

\* The pointwise maximum records the union.
LEMMA MergedRecords ==
    ASSUME NEW s \in Timelines, NEW t \in Timelines,
           NEW A \in SUBSET Writes, NEW B \in SUBSET Writes,
           Records(s, A), Records(t, B)
    PROVE  Records(Merged(s, t), A \cup B)
<1>1. \A q \in Replicas : /\ s[q] \in Nat /\ t[q] \in Nat
                          /\ Merged(s, t)[q] = IF s[q] < t[q] THEN t[q] ELSE s[q]
  BY DEF Timelines, Merged, Larger
<1>2. \A w \in A \cup B : w.by \in Replicas /\ w.stamp \in Nat
  BY DEF Writes
<1>3. \A w \in A \cup B : w.stamp <= Merged(s, t)[w.by]
  BY <1>1, <1>2 DEF Records
<1>4. ASSUME NEW q \in Replicas, Merged(s, t)[q] # 0
      PROVE  \E w \in A \cup B : w.by = q /\ w.stamp = Merged(s, t)[q]
  BY <1>1, <1>4 DEF Records
<1> QED
  BY <1>3, <1>4 DEF Records

\* The last of the writes ws.
Last(w, ws) == w \in ws /\ \A u \in ws : ~Beats(u, w)

\* Where the last write stands in the timeline that records its set.
LEMMA LastInTimeline ==
    ASSUME NEW t \in Timelines, NEW A \in SUBSET Writes, Records(t, A),
           NEW w \in A, Last(w, A)
    PROVE  /\ t[w.by] = w.stamp
           /\ \A q \in Replicas : t[q] < w.stamp \/ (t[q] = w.stamp /\ q <= w.by)
<1>1. /\ \A u \in A : u.by \in Replicas /\ u.by \in Nat /\ u.stamp \in Nat \ {0}
      /\ \A q \in Replicas : q \in Nat /\ t[q] \in Nat
  BY GraphAssumption DEF Writes, Timelines
<1>2. \A u \in A : u.stamp < w.stamp \/ (u.stamp = w.stamp /\ u.by <= w.by)
  BY <1>1 DEF Last, Beats
<1>3. ASSUME NEW q \in Replicas
      PROVE  t[q] < w.stamp \/ (t[q] = w.stamp /\ q <= w.by)
  <2>1. CASE t[q] = 0
    BY <1>1, <2>1
  <2>2. CASE t[q] # 0
    BY <1>1, <1>2, <2>2 DEF Records
  <2> QED BY <2>1, <2>2
<1>4. w.stamp <= t[w.by]
  BY DEF Records
<1> QED
  BY <1>1, <1>3, <1>4

\* dominantWrite compares the last writes of two entries.
LEMMA AfterIsLast ==
    ASSUME NEW x \in Entries, NEW y \in Entries,
           NEW A \in SUBSET Writes, NEW B \in SUBSET Writes,
           Records(x.add, A), Records(y.add, B),
           NEW u \in A, Last(u, A), NEW w \in B, Last(w, B)
    PROVE  After(y, x) <=> (w.stamp > u.stamp \/ (w.stamp = u.stamp /\ w.by > u.by))
<1>1. /\ u.by \in Replicas /\ w.by \in Replicas /\ u.stamp \in Nat /\ w.stamp \in Nat
      /\ \A q \in Replicas : q \in Nat /\ x.add[q] \in Nat /\ y.add[q] \in Nat
  BY GraphAssumption DEF Writes, Entries, Timelines
<1>2. /\ x.add[u.by] = u.stamp
      /\ \A q \in Replicas : x.add[q] < u.stamp \/ (x.add[q] = u.stamp /\ q <= u.by)
  BY LastInTimeline DEF Entries
<1>3. /\ y.add[w.by] = w.stamp
      /\ \A q \in Replicas : y.add[q] < w.stamp \/ (y.add[q] = w.stamp /\ q <= w.by)
  BY LastInTimeline DEF Entries
<1>4. ASSUME w.stamp > u.stamp \/ (w.stamp = u.stamp /\ w.by > u.by)
      PROVE  After(y, x)
  <2>1. \A p \in Replicas : y.add[w.by] > x.add[p] \/ (y.add[w.by] = x.add[p] /\ w.by > p)
    BY <1>1, <1>2, <1>3, <1>4
  <2> QED BY <1>1, <2>1 DEF After
<1>5. ASSUME After(y, x)
      PROVE  w.stamp > u.stamp \/ (w.stamp = u.stamp /\ w.by > u.by)
  <2>1. PICK q \in Replicas :
            y.add[q] > x.add[u.by] \/ (y.add[q] = x.add[u.by] /\ q > u.by)
    BY <1>1, <1>5 DEF After
  <2> QED BY <1>1, <1>2, <1>3, <2>1
<1> QED
  BY <1>4, <1>5

\* An entry no add write touched has an empty add timeline.
LEMMA NothingRecorded ==
    ASSUME NEW t \in Timelines, Records(t, {})
    PROVE  \A q \in Replicas : t[q] = 0
  BY DEF Records

\* The payload of a join is that of the last write of either side.
LEMMA JoinedHolds ==
    ASSUME NEW x \in Entries, NEW y \in Entries,
           NEW A \in SUBSET Writes, NEW B \in SUBSET Writes,
           Records(x.add, A), Records(y.add, B), Holds(x.props, A), Holds(y.props, B)
    PROVE  Holds(Joined(x, y).props, A \cup B)
<1>1. /\ \A q \in Replicas : q \in Nat /\ x.add[q] \in Nat /\ y.add[q] \in Nat
      /\ x.props \in Nat /\ y.props \in Nat
      /\ x.add \in Timelines /\ y.add \in Timelines
  BY GraphAssumption DEF Entries, Timelines
<1>2. \A w \in A \cup B : /\ w.by \in Replicas /\ w.by \in Nat
                          /\ w.stamp \in Nat \ {0} /\ w.props \in Nat
  BY GraphAssumption DEF Writes
<1>3. CASE A = {} /\ B = {}
  <2>1. x.props = 0 /\ y.props = 0
    BY <1>3 DEF Holds
  <2> QED BY <1>3, <2>1 DEF Holds, Joined, Larger
<1>4. CASE A = {} /\ B # {}
  <2>1. \A q \in Replicas : x.add[q] = 0
    BY <1>1, <1>4, NothingRecorded
  <2>2. PICK w \in B : y.props = w.props
    BY <1>4 DEF Holds
  <2>3. y.add[w.by] > 0
    BY <1>1, <1>2, <2>2 DEF Records
  <2>4. After(y, x)
    BY <1>1, <1>2, <2>1, <2>2, <2>3 DEF After
  <2> QED BY <1>4, <2>4 DEF Joined
<1>5. CASE A # {} /\ B = {}
  <2>1. \A q \in Replicas : y.add[q] = 0
    BY <1>1, <1>5, NothingRecorded
  <2>2. PICK w \in A : x.props = w.props
    BY <1>5 DEF Holds
  <2>3. x.add[w.by] > 0
    BY <1>1, <1>2, <2>2 DEF Records
  <2>4. After(x, y) /\ ~After(y, x)
    BY <1>1, <1>2, <2>1, <2>2, <2>3 DEF After
  <2> QED BY <1>5, <2>4 DEF Joined
<1>6. CASE A # {} /\ B # {}
  <2>1. PICK u \in A : x.props = u.props /\ Last(u, A)
    BY <1>6 DEF Holds, Last
  <2>2. PICK w \in B : y.props = w.props /\ Last(w, B)
    BY <1>6 DEF Holds, Last
  <2>3. After(y, x) <=> (w.stamp > u.stamp \/ (w.stamp = u.stamp /\ w.by > u.by))
    BY <2>1, <2>2, AfterIsLast
  <2>4. After(x, y) <=> (u.stamp > w.stamp \/ (u.stamp = w.stamp /\ u.by > w.by))
    BY <2>1, <2>2, AfterIsLast
  <2>5. (\A v \in A : ~Beats(v, u)) /\ (\A v \in B : ~Beats(v, w))
    BY <2>1, <2>2 DEF Last
  <2>6. CASE Beats(w, u)
    <3>1. Joined(x, y).props = w.props
      BY <1>2, <2>1, <2>2, <2>3, <2>4, <2>6 DEF Joined, Larger, Beats
    <3>2. \A v \in A \cup B : ~Beats(v, w)
      BY <1>2, <2>5, <2>6 DEF Beats
    <3> QED BY <3>1, <3>2 DEF Holds
  <2>7. CASE ~Beats(w, u)
    <3>1. Joined(x, y).props = u.props
      BY <1>2, <2>1, <2>2, <2>3, <2>4, <2>7 DEF Joined, Larger, Beats
    <3>2. \A v \in A \cup B : ~Beats(v, u)
      BY <1>2, <2>5, <2>7 DEF Beats
    <3> QED BY <3>1, <3>2 DEF Holds
  <2> QED BY <2>6, <2>7
<1> QED
  BY <1>3, <1>4, <1>5, <1>6

\* The join of two entries reflects the union of their writes.
LEMMA JoinedReflects ==
    ASSUME NEW x \in Entries, NEW y \in Entries, NEW e \in Elements,
           NEW V \in SUBSET Writes, NEW W \in SUBSET Writes,
           Reflects(x, V, e), Reflects(y, W, e)
    PROVE  Reflects(Joined(x, y), V \cup W, e)
<1>1. \A op : /\ OpsOn(V \cup W, e, op) = OpsOn(V, e, op) \cup OpsOn(W, e, op)
              /\ OpsOn(V, e, op) \in SUBSET Writes /\ OpsOn(W, e, op) \in SUBSET Writes
  BY DEF OpsOn
<1>2. /\ x.add \in Timelines /\ x.rem \in Timelines
      /\ y.add \in Timelines /\ y.rem \in Timelines
  BY DEF Entries
<1>3. Records(Joined(x, y).add, OpsOn(V \cup W, e, "add"))
  <2>1. Records(x.add, OpsOn(V, e, "add")) /\ Records(y.add, OpsOn(W, e, "add"))
    BY DEF Reflects
  <2>2. Records(Merged(x.add, y.add), OpsOn(V, e, "add") \cup OpsOn(W, e, "add"))
    BY <1>1, <1>2, <2>1, MergedRecords
  <2> QED BY <1>1, <2>2 DEF Joined
<1>4. Records(Joined(x, y).rem, OpsOn(V \cup W, e, "rem"))
  <2>1. Records(x.rem, OpsOn(V, e, "rem")) /\ Records(y.rem, OpsOn(W, e, "rem"))
    BY DEF Reflects
  <2>2. Records(Merged(x.rem, y.rem), OpsOn(V, e, "rem") \cup OpsOn(W, e, "rem"))
    BY <1>1, <1>2, <2>1, MergedRecords
  <2> QED BY <1>1, <2>2 DEF Joined
<1>5. Holds(Joined(x, y).props, OpsOn(V \cup W, e, "add"))
  <2>1. Holds(Joined(x, y).props, OpsOn(V, e, "add") \cup OpsOn(W, e, "add"))
    <3> DEFINE A == OpsOn(V, e, "add")
               B == OpsOn(W, e, "add")
    <3>1. /\ A \in SUBSET Writes /\ B \in SUBSET Writes
          /\ Records(x.add, A) /\ Records(y.add, B)
          /\ Holds(x.props, A) /\ Holds(y.props, B)
      BY <1>1 DEF Reflects
    <3> HIDE DEF A, B
    <3>2. Holds(Joined(x, y).props, A \cup B)
      BY <3>1, JoinedHolds
    <3> QED BY <3>2 DEF A, B
  <2> QED BY <1>1, <2>1
<1> QED
  BY <1>3, <1>4, <1>5 DEF Reflects

\* The entry after a local add: its stamp exceeds every stamp of the entry.
LEMMA AddedReflects ==
    ASSUME NEW x \in Entries, NEW e \in Elements, NEW V \in SUBSET Writes,
           NEW r \in Replicas, NEW s \in Nat \ {0}, NEW p \in Nat,
           \A q \in Replicas : x.add[q] < s,
           Reflects(x, V, e)
    PROVE  Reflects(Added(x, r, s, p), V \cup {AddOf(e, r, s, p)}, e)
<1> DEFINE w == AddOf(e, r, s, p)
           A == OpsOn(V, e, "add")
           y == Added(x, r, s, p)
<1>1. w \in Writes /\ w.by = r /\ w.stamp = s /\ w.props = p
  BY DEF AddOf, Writes, Timelines, Untouched
<1>2. /\ OpsOn(V \cup {w}, e, "add") = A \cup {w}
      /\ OpsOn(V \cup {w}, e, "rem") = OpsOn(V, e, "rem")
  BY DEF OpsOn, AddOf
<1>3. \A q \in Replicas : x.add[q] \in Nat
  BY DEF Entries, Timelines
<1>4. /\ \A q \in Replicas : y.add[q] = IF q = r THEN s ELSE x.add[q]
      /\ y.rem = x.rem /\ y.props = p
  BY DEF Added, Entries, Timelines
<1>5. \A u \in A : u.by \in Replicas /\ u.stamp \in Nat /\ u.stamp <= x.add[u.by]
  BY DEF OpsOn, Writes, Reflects, Records
<1> HIDE DEF w, y
<1>6. Records(y.add, A \cup {w})
  <2>1. \A u \in A \cup {w} : u.stamp <= y.add[u.by]
    BY <1>1, <1>3, <1>4, <1>5
  <2>2. ASSUME NEW q \in Replicas, y.add[q] # 0
        PROVE  \E u \in A \cup {w} : u.by = q /\ u.stamp = y.add[q]
    <3>1. CASE q = r
      BY <1>1, <1>4, <3>1
    <3>2. CASE q # r
      BY <1>4, <2>2, <3>2 DEF Reflects, Records
    <3> QED BY <3>1, <3>2
  <2> QED BY <2>1, <2>2 DEF Records
<1>7. Holds(y.props, A \cup {w})
  <2>1. \A u \in A : u.stamp < w.stamp
    BY <1>1, <1>3, <1>5
  <2>2. \A u \in A \cup {w} : ~Beats(u, w)
    <3>1. ~Beats(w, w)
      BY <1>1, GraphAssumption DEF Beats, Writes
    <3>2. \A u \in A : ~Beats(u, w)
      BY <1>1, <1>5, <2>1 DEF Beats
    <3> QED BY <3>1, <3>2
  <2> QED BY <1>1, <1>4, <2>2 DEF Holds
<1>8. Records(y.rem, OpsOn(V, e, "rem"))
  BY <1>4 DEF Reflects
<1> QED
  BY <1>2, <1>6, <1>7, <1>8 DEF Reflects, w, y

\* The entry after a local removal.
LEMMA RemovedReflects ==
    ASSUME NEW x \in Entries, NEW e \in Elements, NEW V \in SUBSET Writes,
           NEW r \in Replicas, NEW s \in Nat \ {0},
           \A q \in Replicas : x.rem[q] < s,
           Reflects(x, V, e)
    PROVE  Reflects(Removed(x, r, s), V \cup {RemOf(e, r, s)}, e)
<1> DEFINE w == RemOf(e, r, s)
           R == OpsOn(V, e, "rem")
           y == Removed(x, r, s)
<1>1. w \in Writes /\ w.by = r /\ w.stamp = s
  BY DEF RemOf, Writes, Entries
<1>2. /\ OpsOn(V \cup {w}, e, "rem") = R \cup {w}
      /\ OpsOn(V \cup {w}, e, "add") = OpsOn(V, e, "add")
  BY DEF OpsOn, RemOf
<1>3. \A q \in Replicas : x.rem[q] \in Nat
  BY DEF Entries, Timelines
<1>4. /\ \A q \in Replicas : y.rem[q] = IF q = r THEN s ELSE x.rem[q]
      /\ y.add = x.add /\ y.props = x.props
  BY DEF Removed, Entries, Timelines
<1>5. \A u \in R : u.by \in Replicas /\ u.stamp \in Nat /\ u.stamp <= x.rem[u.by]
  BY DEF OpsOn, Writes, Reflects, Records
<1> HIDE DEF w, y
<1>6. Records(y.rem, R \cup {w})
  <2>1. \A u \in R \cup {w} : u.stamp <= y.rem[u.by]
    BY <1>1, <1>3, <1>4, <1>5
  <2>2. ASSUME NEW q \in Replicas, y.rem[q] # 0
        PROVE  \E u \in R \cup {w} : u.by = q /\ u.stamp = y.rem[q]
    <3>1. CASE q = r
      BY <1>1, <1>4, <3>1
    <3>2. CASE q # r
      BY <1>4, <2>2, <3>2 DEF Reflects, Records
    <3> QED BY <3>1, <3>2
  <2> QED BY <2>1, <2>2 DEF Records
<1>7. Records(y.add, OpsOn(V, e, "add")) /\ Holds(y.props, OpsOn(V, e, "add"))
  BY <1>4 DEF Reflects
<1> QED
  BY <1>2, <1>6, <1>7 DEF Reflects, w, y

\* Writes on other elements do not matter to an entry.
LEMMA OthersIrrelevant ==
    ASSUME NEW x, NEW e, NEW V, NEW W, \A w \in W : w.elem # e
    PROVE  Reflects(x, V \cup W, e) <=> Reflects(x, V, e)
<1>1. \A op : OpsOn(V \cup W, e, op) = OpsOn(V, e, op)
  BY DEF OpsOn
<1> QED
  BY <1>1 DEF Reflects

\* Only one entry reflects a given set of writes.
LEMMA ReflectsUnique ==
    ASSUME NEW x \in Entries, NEW y \in Entries, NEW e \in Elements,
           NEW V \in SUBSET Writes, Reflects(x, V, e), Reflects(y, V, e)
    PROVE  x = y
<1>1. ASSUME NEW s \in Timelines, NEW t \in Timelines, NEW A \in SUBSET Writes,
             Records(s, A), Records(t, A)
      PROVE  s = t
  <2>1. ASSUME NEW q \in Replicas PROVE s[q] = t[q]
    <3>1. s[q] \in Nat /\ t[q] \in Nat
      BY DEF Timelines
    <3>2. s[q] <= t[q]
      BY <1>1, <3>1 DEF Records, Writes
    <3>3. t[q] <= s[q]
      BY <1>1, <3>1 DEF Records, Writes
    <3> QED BY <3>1, <3>2, <3>3
  <2> QED BY <2>1 DEF Timelines
<1>2. OpsOn(V, e, "add") \in SUBSET Writes /\ OpsOn(V, e, "rem") \in SUBSET Writes
  BY DEF OpsOn
<1>3. x.add = y.add /\ x.rem = y.rem
  BY <1>1, <1>2 DEF Reflects, Entries
<1>4. x.props = y.props
  <2> DEFINE A == OpsOn(V, e, "add")
  <2>1. CASE A = {}
    BY <2>1 DEF Reflects, Holds
  <2>2. CASE A # {}
    <3>1. PICK u \in A : x.props = u.props /\ \A v \in A : ~Beats(v, u)
      BY <2>2 DEF Reflects, Holds
    <3>2. PICK w \in A : y.props = w.props /\ \A v \in A : ~Beats(v, w)
      BY <2>2 DEF Reflects, Holds
    <3>3. ~Beats(u, w) /\ ~Beats(w, u)
      BY <3>1, <3>2
    <3>4. /\ u.stamp \in Nat /\ w.stamp \in Nat /\ u.by \in Nat /\ w.by \in Nat
          /\ u.props \in Nat /\ w.props \in Nat
      BY <1>2, GraphAssumption DEF Writes
    <3> QED BY <3>1, <3>2, <3>3, <3>4 DEF Beats
  <2> QED BY <2>1, <2>2
<1> QED
  BY <1>3, <1>4 DEF Entries

-----------------------------------------------------------------------------
(* Strong eventual consistency *)

\* A snapshot in flight is what its own history defines, like a replica.
SnapshotsFromWrites ==
    \A s \in InFlight, e \in Elements : Reflects(s.elems[e], s.seen, e)

\* The inductive invariant.
IInv == TypeOK /\ ClockDominates /\ StateFromWrites /\ SnapshotsFromWrites

\* A join extends the history of the replica by that of the joined part.
LEMMA JoinKeepsState ==
    ASSUME IInv, NEW r \in Replicas, NEW s \in InFlight, NEW part \in SUBSET Elements,
           Join(r, s, part), InFlight' \subseteq InFlight
    PROVE  StateFromWrites' /\ SnapshotsFromWrites'
<1> USE DEF IInv
<1>1. s \in Snapshots
  BY DEF TypeOK, InFlight
<1> DEFINE W == {w \in s.seen : w.elem \in part}
<1>2. seen[r] \in SUBSET Writes /\ s.seen \in SUBSET Writes /\ W \in SUBSET Writes
  BY <1>1 DEF TypeOK, Snapshots
<1>3. seen'[r] = seen[r] \cup W
  BY DEF Join, TypeOK
<1>4. \A a \in Replicas \ {r} : elems'[a] = elems[a] /\ seen'[a] = seen[a]
  BY DEF Join, TypeOK
<1>5. ASSUME NEW e \in Elements
      PROVE  Reflects(elems'[r][e], seen'[r], e)
  <2>1. elems[r][e] \in Entries /\ s.elems[e] \in Entries
    BY <1>1 DEF TypeOK, Snapshots
  <2>2. Reflects(elems[r][e], seen[r], e) /\ Reflects(s.elems[e], s.seen, e)
    BY DEF StateFromWrites, SnapshotsFromWrites
  <2>3. elems'[r][e] = IF e \in part THEN Joined(elems[r][e], s.elems[e]) ELSE elems[r][e]
    BY DEF Join, TypeOK
  <2>4. CASE e \in part
    <3>1. \A op : OpsOn(W, e, op) = OpsOn(s.seen, e, op)
      BY <2>4 DEF OpsOn
    <3>2. Reflects(s.elems[e], W, e)
      BY <2>2, <3>1 DEF Reflects
    <3>3. Reflects(Joined(elems[r][e], s.elems[e]), seen[r] \cup W, e)
      BY <1>2, <2>1, <2>2, <3>2, JoinedReflects
    <3> QED BY <1>3, <2>3, <2>4, <3>3
  <2>5. CASE e \notin part
    <3>1. \A w \in W : w.elem # e
      BY <2>5
    <3>2. Reflects(elems[r][e], seen[r] \cup W, e)
      BY <2>2, <3>1, OthersIrrelevant
    <3> QED BY <1>3, <2>3, <2>5, <3>2
  <2> QED BY <2>4, <2>5
<1>6. StateFromWrites'
  BY <1>4, <1>5 DEF StateFromWrites
<1>7. SnapshotsFromWrites'
  BY DEF SnapshotsFromWrites
<1> QED
  BY <1>6, <1>7

\* A local add extends the history by one write, the last on its element.
LEMMA AddKeepsState ==
    ASSUME IInv, NEW r \in Replicas, NEW f \in Elements, NEW p \in Nat, Add(r, f, p)
    PROVE  StateFromWrites' /\ SnapshotsFromWrites'
<1> USE DEF IInv
<1> DEFINE s == Ticked(r)
           w == AddOf(f, r, s, p)
<1>1. s \in Nat \ {0} /\ clock[r] \in Nat /\ s = clock[r] + 1
  BY DEF TypeOK, Ticked
<1>2. seen'[r] = seen[r] \cup {w} /\ seen[r] \in SUBSET Writes
  BY DEF Add, TypeOK
<1>3. \A a \in Replicas \ {r} : elems'[a] = elems[a] /\ seen'[a] = seen[a]
  BY DEF Add, TypeOK
<1>4. \A e \in Elements : elems'[r][e] = IF e = f THEN Added(elems[r][f], r, s, p)
                                         ELSE elems[r][e]
  BY DEF Add, TypeOK
<1>5. \A e \in Elements : elems[r][e] \in Entries /\ Reflects(elems[r][e], seen[r], e)
  BY DEF TypeOK, StateFromWrites
<1>6. \A q \in Replicas : elems[r][f].add[q] < s
  BY <1>1, <1>5 DEF ClockDominates, Dominates, Entries, Timelines
<1>7. Reflects(Added(elems[r][f], r, s, p), seen[r] \cup {w}, f)
  BY <1>1, <1>2, <1>5, <1>6, AddedReflects
<1>8. \A e \in Elements \ {f} : Reflects(elems[r][e], seen[r] \cup {w}, e)
  <2>1. w.elem = f
    BY DEF AddOf
  <2> QED BY <1>5, <2>1, OthersIrrelevant
<1>9. \A e \in Elements : Reflects(elems'[r][e], seen'[r], e)
  BY <1>2, <1>4, <1>7, <1>8
<1>10. StateFromWrites'
  BY <1>3, <1>9 DEF StateFromWrites
<1>11. SnapshotsFromWrites'
  BY DEF SnapshotsFromWrites, Add, Write, InFlight
<1> QED
  BY <1>10, <1>11

\* A local removal extends the history by one write for each element removed.
LEMMA RemoveKeepsState ==
    ASSUME IInv, NEW r \in Replicas, NEW gone \in SUBSET Elements, Remove(r, gone)
    PROVE  StateFromWrites' /\ SnapshotsFromWrites'
<1> USE DEF IInv
<1> DEFINE s == Ticked(r)
           W == {RemOf(e, r, s) : e \in gone}
<1>1. s \in Nat \ {0} /\ clock[r] \in Nat /\ s = clock[r] + 1
  BY DEF TypeOK, Ticked
<1>2. seen'[r] = seen[r] \cup W /\ seen[r] \in SUBSET Writes
  BY DEF Remove, TypeOK
<1>3. \A a \in Replicas \ {r} : elems'[a] = elems[a] /\ seen'[a] = seen[a]
  BY DEF Remove, TypeOK
<1>4. \A e \in Elements : elems'[r][e] = IF e \in gone THEN Removed(elems[r][e], r, s)
                                         ELSE elems[r][e]
  BY DEF Remove, TypeOK
<1>5. \A e \in Elements : elems[r][e] \in Entries /\ Reflects(elems[r][e], seen[r], e)
  BY DEF TypeOK, StateFromWrites
<1>6. \A w \in W : \E e \in gone : w = RemOf(e, r, s) /\ w.elem = e
  BY DEF RemOf
<1>7. ASSUME NEW e \in Elements
      PROVE  Reflects(elems'[r][e], seen'[r], e)
  <2>1. CASE e \in gone
    <3> DEFINE w == RemOf(e, r, s)
               V == W \ {w}
    <3>1. \A q \in Replicas : elems[r][e].rem[q] < s
      BY <1>1, <1>5 DEF ClockDominates, Dominates, Entries, Timelines
    <3>2. Reflects(Removed(elems[r][e], r, s), seen[r] \cup {w}, e)
      BY <1>1, <1>2, <1>5, <3>1, RemovedReflects
    <3>3. \A u \in V : u.elem # e
      BY <1>6
    <3>4. seen[r] \cup W = (seen[r] \cup {w}) \cup V
      BY <2>1
    <3> HIDE DEF w, V, W
    <3>5. Reflects(Removed(elems[r][e], r, s), (seen[r] \cup {w}) \cup V, e)
      BY <3>2, <3>3, OthersIrrelevant
    <3> QED BY <1>2, <1>4, <2>1, <3>4, <3>5
  <2>2. CASE e \notin gone
    <3>1. \A w \in W : w.elem # e
      BY <1>6, <2>2
    <3>2. Reflects(elems[r][e], seen[r] \cup W, e)
      BY <1>5, <3>1, OthersIrrelevant
    <3> QED BY <1>2, <1>4, <2>2, <3>2
  <2> QED BY <2>1, <2>2
<1>8. StateFromWrites'
  BY <1>3, <1>7 DEF StateFromWrites
<1>9. SnapshotsFromWrites'
  BY DEF SnapshotsFromWrites, Remove, Write, InFlight
<1> QED
  BY <1>8, <1>9

\* An untouched entry reflects the empty history.
LEMMA BlankReflects == \A e \in Elements : Reflects(Blank, {}, e)
<1>1. \A e, op : OpsOn({}, e, op) = {}
  BY DEF OpsOn
<1>2. Records(Blank.add, {}) /\ Records(Blank.rem, {}) /\ Holds(Blank.props, {})
  BY DEF Blank, Untouched, Records, Holds
<1> QED
  BY <1>1, <1>2 DEF Reflects

\* Every step but a compaction keeps the state a function of the history.
LEMMA StateStep ==
    ASSUME Watermarks = {}, IInv, [Next]_vars
    PROVE  StateFromWrites' /\ SnapshotsFromWrites'
<1>0. TypeOK /\ ClockDominates
  BY DEF IInv
<1>1. CASE UNCHANGED vars
  BY <1>1 DEF IInv, vars, StateFromWrites, SnapshotsFromWrites, InFlight
<1>2. ASSUME NEW r \in Replicas, NEW v \in Vertices, NEW p \in Payloads, AddVertex(r, v, p)
      PROVE  StateFromWrites' /\ SnapshotsFromWrites'
  <2>1. v \in Elements /\ p \in Nat
    BY GraphAssumption DEF Elements
  <2> QED BY <1>2, <2>1, AddKeepsState DEF AddVertex
<1>3. ASSUME NEW r \in Replicas, NEW v \in Vertices, RemoveVertex(r, v)
      PROVE  StateFromWrites' /\ SnapshotsFromWrites'
  <2>1. {v} \cup Incident(r, v) \in SUBSET Elements
    BY DEF Incident, Elements
  <2> QED BY <1>3, <2>1, RemoveKeepsState DEF RemoveVertex
<1>4. ASSUME NEW r \in Replicas, NEW e \in Edges, AddEdge(r, e) \/ RemoveEdge(r, e)
      PROVE  StateFromWrites' /\ SnapshotsFromWrites'
  <2>1. e \in Elements /\ {e} \in SUBSET Elements
    BY DEF Elements
  <2> QED BY <1>4, <2>1, AddKeepsState, RemoveKeepsState DEF AddEdge, RemoveEdge
<1>5. ASSUME NEW r \in Replicas, (\E p \in Replicas : Fetch(r, p)) \/ Offer(r)
      PROVE  StateFromWrites' /\ SnapshotsFromWrites'
  <2>1. /\ UNCHANGED <<clock, elems, seen>>
        /\ \A s \in InFlight' : s \in InFlight \/ \E p \in Replicas : s = Snapshot(p)
    BY <1>0, <1>5, SnapshotMoves
  <2>2. \A s \in InFlight', e \in Elements : Reflects(s.elems[e], s.seen, e)
    BY <2>1 DEF IInv, StateFromWrites, SnapshotsFromWrites, Snapshot
  <2> QED BY <2>1, <2>2 DEF IInv, StateFromWrites, SnapshotsFromWrites
<1>6. ASSUME NEW r \in Replicas, Pull(r) \/ Accept(r) \/ Reconcile(r)
      PROVE  StateFromWrites' /\ SnapshotsFromWrites'
  <2>1. PICK s \in InFlight, part \in SUBSET Elements :
            Join(r, s, part) /\ InFlight' \subseteq InFlight
    BY <1>0, <1>6, JoinsOfInFlight
  <2> QED BY <2>1, JoinKeepsState
<1>7. ASSUME NEW r \in Replicas, Restart(r)
      PROVE  StateFromWrites' /\ SnapshotsFromWrites'
  <2>1. /\ elems'[r] = [e \in Elements |-> Blank] /\ seen'[r] = {}
        /\ \A a \in Replicas \ {r} : elems'[a] = elems[a] /\ seen'[a] = seen[a]
        /\ InFlight' \subseteq InFlight
    BY <1>0, <1>7, RestartEmpties
  <2>2. \A e \in Elements : Reflects(elems'[r][e], seen'[r], e)
    BY <2>1, BlankReflects
  <2>3. StateFromWrites'
    BY <2>1, <2>2 DEF IInv, StateFromWrites
  <2> QED BY <2>1, <2>3 DEF IInv, SnapshotsFromWrites
<1>8. CASE Forget
  <2>1. UNCHANGED <<elems, seen>> /\ InFlight' \subseteq InFlight
    BY <1>8 DEF Forget, InFlight
  <2> QED BY <2>1 DEF IInv, StateFromWrites, SnapshotsFromWrites
<1> QED
  BY <1>1, <1>2, <1>3, <1>4, <1>5, <1>6, <1>7, <1>8 DEF Next

\* The engine never compacts.  Then the invariant is inductive: types, clocks,
\* and states that are functions of the writes behind them.
THEOREM Inductive ==
    ASSUME Watermarks = {}
    PROVE  Spec => []IInv
<1>1. Init => StateFromWrites /\ SnapshotsFromWrites
  <2> SUFFICES ASSUME Init PROVE StateFromWrites /\ SnapshotsFromWrites
    OBVIOUS
  <2>1. InFlight = {}
    BY DEF Init, InFlight
  <2> QED BY <2>1, BlankReflects DEF Init, StateFromWrites, SnapshotsFromWrites
<1>2. IInv /\ [Next]_vars => StateFromWrites' /\ SnapshotsFromWrites'
  BY StateStep
<1> QED
  BY <1>1, <1>2, TypeCorrect, ClockIsAhead, PTL DEF Spec, IInv

\* StateFromWrites for every value of the constants: however snapshots are
\* delayed, repeated, lost or cut short, and although a restarted replica issues
\* old stamps again, joins lose nothing (joinVertexLocked, joinEdgeLocked).
THEOREM LosslessJoin ==
    ASSUME Watermarks = {}
    PROVE  Spec => []StateFromWrites
  BY Inductive, PTL DEF IInv

\* StrongConvergence for every value of the constants: replicas with the same
\* history hold the same graph, payloads and tombstones included.
THEOREM SameHistorySameGraph ==
    ASSUME Watermarks = {}
    PROVE  Spec => []StrongConvergence
<1>1. IInv => StrongConvergence
  <2> SUFFICES ASSUME IInv, NEW a \in Replicas, NEW b \in Replicas, seen[a] = seen[b]
               PROVE  elems[a] = elems[b]
    BY DEF StrongConvergence
  <2>1. seen[a] \in SUBSET Writes
    BY DEF IInv, TypeOK
  <2>2. ASSUME NEW e \in Elements PROVE elems[a][e] = elems[b][e]
    <3>1. elems[a][e] \in Entries /\ elems[b][e] \in Entries
      BY DEF IInv, TypeOK
    <3>2. Reflects(elems[a][e], seen[a], e) /\ Reflects(elems[b][e], seen[a], e)
      BY DEF IInv, StateFromWrites
    <3> QED BY <2>1, <3>1, <3>2, ReflectsUnique
  <2> QED BY <2>2 DEF IInv, TypeOK
<1> QED
  BY <1>1, Inductive, PTL

-----------------------------------------------------------------------------
(* Compaction *)

\* An entry shows as live exactly the elements its writes leave alive.
LEMMA LiveReflects ==
    ASSUME NEW x \in Entries, NEW e \in Elements, NEW V \in SUBSET Writes,
           Reflects(x, V, e)
    PROVE  Live(x) <=> LiveBy(V, e)
<1> DEFINE A == OpsOn(V, e, "add")
           R == OpsOn(V, e, "rem")
<1>1. \A q \in Replicas : x.add[q] \in Nat /\ x.rem[q] \in Nat
  BY DEF Entries, Timelines
<1>2. \A w \in A \cup R : w.by \in Replicas /\ w.stamp \in Nat \ {0}
  BY DEF OpsOn, Writes
<1>3. Records(x.add, A) /\ Records(x.rem, R)
  BY DEF Reflects
<1> HIDE DEF A, R
<1>4. ASSUME Live(x) PROVE \E w \in A : \A u \in R : u.stamp < w.stamp
  <2>1. PICK q \in Replicas : \A p \in Replicas : x.rem[p] < x.add[q]
    BY <1>4 DEF Live
  <2>2. x.add[q] # 0
    BY <1>1, <2>1
  <2>3. PICK w \in A : w.by = q /\ w.stamp = x.add[q]
    BY <1>3, <2>2 DEF Records
  <2>4. \A u \in R : u.stamp <= x.rem[u.by] /\ x.rem[u.by] < x.add[q]
    BY <1>2, <1>3, <2>1 DEF Records
  <2>5. \A u \in R : u.stamp < w.stamp
    BY <1>1, <1>2, <2>3, <2>4
  <2> QED BY <2>5
<1>5. ASSUME NEW w \in A, \A u \in R : u.stamp < w.stamp PROVE Live(x)
  <2>1. w.by \in Replicas /\ w.stamp <= x.add[w.by]
    BY <1>2, <1>3 DEF Records
  <2>2. ASSUME NEW p \in Replicas PROVE x.rem[p] < x.add[w.by]
    <3>1. CASE x.rem[p] = 0
      BY <1>1, <1>2, <2>1, <3>1
    <3>2. CASE x.rem[p] # 0
      <4>1. PICK u \in R : u.stamp = x.rem[p]
        BY <1>3, <3>2 DEF Records
      <4> QED BY <1>1, <1>2, <1>5, <2>1, <4>1
    <3> QED BY <3>1, <3>2
  <2> QED BY <2>1, <2>2 DEF Live
<1> QED
  BY <1>4, <1>5 DEF LiveBy, A, R

\* All writes the fleet stands for.
Fleet == UNION {seen[r] : r \in Replicas}

\* The writes on an element below a stamp, of a set and of the fleet.
Below(ws, e, k) == {w \in ws : w.elem = e /\ w.stamp < k}

Old(e, k) == Below(Fleet, e, k)

\* The writes of ws but those.
Above(ws, e, k) == {w \in ws : w.elem = e => w.stamp >= k}

\* Everybody knows e's writes below k, in flight too, nobody writes below k any
\* more, and those writes leave e removed.
Settled(e, k) ==
    /\ \A r \in Replicas : Old(e, k) \subseteq seen[r] /\ clock[r] + 1 >= k
    /\ \A s \in InFlight : Old(e, k) \subseteq s.seen
    /\ ~LiveBy(Old(e, k), e)

\* The entry reflects all of ws but what is settled.
Kept(x, ws, e) == \E k \in Nat : Settled(e, k) /\ Reflects(x, Above(ws, e, k), e)

\* Nothing is in flight that no replica stands for.
SnapshotsKnown == \A s \in InFlight : s.seen \subseteq Fleet

ReplicasKept == \A r \in Replicas, e \in Elements : Kept(elems[r][e], seen[r], e)

SnapshotsKept == \A s \in InFlight, e \in Elements : Kept(s.elems[e], s.seen, e)

\* The inductive invariant of a fleet that compacts.
CompactInv ==
    TypeOK /\ ClockDominates /\ SnapshotsKnown /\ ReplicasKept /\ SnapshotsKept

\* What a set of writes makes of an element is decided above a stamp below which
\* the element is removed.
LEMMA BelowIrrelevant ==
    ASSUME NEW V \in SUBSET Writes, NEW e \in Elements, NEW k \in Nat,
           ~LiveBy(Below(V, e, k), e)
    PROVE  /\ LiveBy(Above(V, e, k), e) <=> LiveBy(V, e)
           /\ \A p : /\ LiveBy(V, e)
                     /\ Holds(p, OpsOn(Above(V, e, k), e, "add"))
                     => Holds(p, OpsOn(V, e, "add"))
<1> DEFINE A == OpsOn(V, e, "add")
           R == OpsOn(V, e, "rem")
           AK == OpsOn(Above(V, e, k), e, "add")
           RK == OpsOn(Above(V, e, k), e, "rem")
<1>1. \A w \in A \cup R : w.stamp \in Nat
  BY DEF OpsOn, Writes
<1>2. AK = {w \in A : w.stamp >= k} /\ RK = {w \in R : w.stamp >= k}
  BY DEF OpsOn, Above
<1>3. \A w \in A : w.stamp < k => \E u \in R : ~(u.stamp < w.stamp)
  BY DEF OpsOn, Below, LiveBy
<1>4. /\ LiveBy(V, e) <=> \E w \in A : \A u \in R : u.stamp < w.stamp
      /\ LiveBy(Above(V, e, k), e) <=> \E w \in AK : \A u \in RK : u.stamp < w.stamp
  BY DEF LiveBy
<1> HIDE DEF A, R, AK, RK
<1>5. LiveBy(Above(V, e, k), e) <=> LiveBy(V, e)
  <2>1. ASSUME NEW w \in AK, \A u \in RK : u.stamp < w.stamp
        PROVE  w \in A /\ \A u \in R : u.stamp < w.stamp
    BY <1>1, <1>2, <2>1
  <2>2. ASSUME NEW w \in A, \A u \in R : u.stamp < w.stamp
        PROVE  w \in AK /\ \A u \in RK : u.stamp < w.stamp
    BY <1>1, <1>2, <1>3, <2>2
  <2> QED BY <1>4, <2>1, <2>2
<1>6. ASSUME NEW p, LiveBy(V, e), Holds(p, AK)
      PROVE  Holds(p, A)
  <2>1. AK # {}
    BY <1>4, <1>5, <1>6
  <2>2. PICK w \in AK : p = w.props /\ \A u \in AK : ~Beats(u, w)
    BY <1>6, <2>1 DEF Holds
  <2>3. w \in A /\ \A u \in A : ~Beats(u, w)
    BY <1>1, <1>2, <2>2 DEF Beats
  <2> QED BY <2>2, <2>3 DEF Holds
<1> QED
  BY <1>5, <1>6 DEF A, AK

\* Of a replica or a snapshot that holds the old writes, they are all there is
\* below the stamp.
LEMMA BelowIsOld ==
    ASSUME NEW e, NEW k, NEW V, V \subseteq Fleet, Old(e, k) \subseteq V
    PROVE  Below(V, e, k) = Old(e, k)
  BY DEF Old, Below

\* The invariant gives what a replica shows.
LEMMA KeptShows == CompactInv => ViewFromWrites
<1> SUFFICES ASSUME CompactInv, NEW r \in Replicas, NEW e \in Elements
             PROVE  /\ Live(elems[r][e]) <=> LiveBy(seen[r], e)
                    /\ Live(elems[r][e]) =>
                           Holds(elems[r][e].props, OpsOn(seen[r], e, "add"))
  BY DEF ViewFromWrites
<1> DEFINE x == elems[r][e]
<1>1. x \in Entries /\ seen[r] \in SUBSET Writes
  BY DEF CompactInv, TypeOK
<1>2. PICK k \in Nat : Settled(e, k) /\ Reflects(x, Above(seen[r], e, k), e)
  BY DEF CompactInv, ReplicasKept, Kept
<1>3. Below(seen[r], e, k) = Old(e, k)
  BY <1>2, BelowIsOld DEF Settled, Fleet
<1>4. ~LiveBy(Below(seen[r], e, k), e)
  BY <1>2, <1>3 DEF Settled
<1>5. Above(seen[r], e, k) \in SUBSET Writes
  BY <1>1 DEF Above
<1>6. Live(x) <=> LiveBy(Above(seen[r], e, k), e)
  BY <1>1, <1>2, <1>5, LiveReflects
<1>7. Holds(x.props, OpsOn(Above(seen[r], e, k), e, "add"))
  BY <1>2 DEF Reflects
<1> QED
  BY <1>1, <1>4, <1>6, <1>7, BelowIrrelevant

\* A step of a fleet in which nobody restarts: clocks and histories only grow, a
\* new write takes a stamp above its author's clock, and a new snapshot is a
\* replica's state.
Grows ==
    /\ \A r \in Replicas : seen[r] \subseteq seen'[r] /\ clock[r] <= clock'[r]
    /\ \A r \in Replicas : \A w \in seen'[r] :
           w \in Fleet \/ \E a \in Replicas : w.stamp = clock[a] + 1
    /\ \A s \in InFlight' : s \in InFlight \/ \E a \in Replicas : s = Snapshot(a)

\* What is settled stays settled.
LEMMA SettledStays ==
    ASSUME TypeOK, TypeOK', Grows, NEW e \in Elements, NEW k \in Nat, Settled(e, k)
    PROVE  Settled(e, k)' /\ Old(e, k)' = Old(e, k)
<1>1. \A r \in Replicas : clock[r] \in Nat /\ clock'[r] \in Nat
  BY DEF TypeOK
<1>2. \A r \in Replicas : \A w \in seen'[r] :
          w.elem = e /\ w.stamp < k => w \in Fleet
  BY <1>1 DEF Grows, Settled
<1>3. Fleet \subseteq Fleet'
  BY DEF Grows, Fleet
<1>4. Old(e, k)' = Old(e, k)
  BY <1>2, <1>3 DEF Old, Below, Fleet
<1>5. \A r \in Replicas : Old(e, k) \subseteq seen'[r] /\ clock'[r] + 1 >= k
  BY <1>1 DEF Settled, Grows
<1>6. \A s \in InFlight' : Old(e, k) \subseteq s.seen
  BY DEF Settled, Grows, Snapshot
<1>7. ~LiveBy(Old(e, k), e)
  BY DEF Settled
<1>8. Settled(e, k)' <=>
          /\ \A r \in Replicas : Old(e, k)' \subseteq seen'[r] /\ clock'[r] + 1 >= k
          /\ \A s \in InFlight' : Old(e, k)' \subseteq s.seen
          /\ ~LiveBy(Old(e, k)', e)
  BY DEF Settled, LiveBy, OpsOn
<1> QED
  BY <1>4, <1>5, <1>6, <1>7, <1>8

\* A growing step keeps the part of the invariant about snapshots.
LEMMA GrowsKeepsSnapshots ==
    ASSUME CompactInv, TypeOK', Grows
    PROVE  SnapshotsKnown' /\ SnapshotsKept'
<1>1. TypeOK
  BY DEF CompactInv
<1>2. SnapshotsKnown'
  <2>1. Fleet \subseteq Fleet' /\ \A a \in Replicas : seen[a] \subseteq Fleet
    BY DEF Grows, Fleet
  <2>2. \A s \in InFlight' : s.seen \subseteq Fleet'
    BY <2>1 DEF Grows, CompactInv, SnapshotsKnown, Snapshot
  <2> QED BY <2>2 DEF SnapshotsKnown
<1>3. ASSUME NEW s \in InFlight', NEW e \in Elements
      PROVE  \E k \in Nat : Settled(e, k)' /\ Reflects(s.elems[e], Above(s.seen, e, k), e)
  <2>1. Kept(s.elems[e], s.seen, e)
    BY <1>3 DEF Grows, CompactInv, SnapshotsKept, ReplicasKept, Snapshot
  <2>2. PICK k \in Nat : Settled(e, k) /\ Reflects(s.elems[e], Above(s.seen, e, k), e)
    BY <2>1 DEF Kept
  <2> QED BY <1>1, <2>2, SettledStays
<1>4. SnapshotsKept'
  BY <1>3 DEF SnapshotsKept, Kept, Reflects, Above, OpsOn, Records, Holds, Beats
<1> QED
  BY <1>2, <1>4

\* Entries that are kept with respect to the settled writes before a growing
\* step are kept after it.
LEMMA SettledKeeps ==
    ASSUME TypeOK, TypeOK', Grows,
           \A r \in Replicas, e \in Elements : \E k \in Nat :
               Settled(e, k) /\ Reflects(elems'[r][e], Above(seen'[r], e, k), e)
    PROVE  ReplicasKept'
<1>1. \A r \in Replicas, e \in Elements : \E k \in Nat :
          Settled(e, k)' /\ Reflects(elems'[r][e], Above(seen'[r], e, k), e)
  BY SettledStays
<1> QED
  BY <1>1 DEF ReplicasKept, Kept, Reflects, Above, OpsOn, Records, Holds, Beats

\* Two sets with the same writes on an element are the same to its entry.
LEMMA SameOps ==
    ASSUME NEW x, NEW e, NEW V, NEW W,
           {w \in V : w.elem = e} = {w \in W : w.elem = e}
    PROVE  Reflects(x, V, e) <=> Reflects(x, W, e)
<1>1. \A op : OpsOn(V, e, op) = OpsOn(W, e, op)
  BY DEF OpsOn
<1> QED
  BY <1>1 DEF Reflects

\* The join of two entries kept from different stamps on is kept from the
\* earlier stamp on: either side holds the old writes the other has dropped.
LEMMA JoinedKept ==
    ASSUME NEW x \in Entries, NEW y \in Entries, NEW e \in Elements,
           NEW V \in SUBSET Writes, NEW W \in SUBSET Writes,
           NEW k \in Nat, NEW m \in Nat,
           Below(W, e, m) \subseteq V, Below(V, e, k) \subseteq W,
           Reflects(x, Above(V, e, k), e), Reflects(y, Above(W, e, m), e)
    PROVE  \E n \in {k, m} : Reflects(Joined(x, y), Above(V \cup W, e, n), e)
<1>1. Above(V, e, k) \in SUBSET Writes /\ Above(W, e, m) \in SUBSET Writes
  BY DEF Above
<1>2. Reflects(Joined(x, y), Above(V, e, k) \cup Above(W, e, m), e)
  BY <1>1, JoinedReflects
<1>3. \A w \in V \cup W : w.stamp \in Nat
  BY DEF Writes
<1>4. CASE k <= m
  <2>1. {w \in Above(V, e, k) \cup Above(W, e, m) : w.elem = e}
        = {w \in Above(V \cup W, e, k) : w.elem = e}
    BY <1>3, <1>4 DEF Above, Below
  <2> QED BY <1>2, <2>1, SameOps
<1>5. CASE m < k
  <2>1. {w \in Above(V, e, k) \cup Above(W, e, m) : w.elem = e}
        = {w \in Above(V \cup W, e, m) : w.elem = e}
    BY <1>3, <1>5 DEF Above, Below
  <2> QED BY <1>2, <2>1, SameOps
<1> QED
  BY <1>4, <1>5

\* A join keeps what is kept.
LEMMA JoinKeepsKept ==
    ASSUME CompactInv, TypeOK', NEW r \in Replicas, NEW s \in InFlight,
           NEW part \in SUBSET Elements,
           Join(r, s, part), InFlight' \subseteq InFlight
    PROVE  Grows /\ ReplicasKept'
<1> DEFINE W == {w \in s.seen : w.elem \in part}
<1>1. TypeOK /\ s \in Snapshots
  BY DEF CompactInv, TypeOK, InFlight
<1>2. seen[r] \in SUBSET Writes /\ s.seen \in SUBSET Writes /\ W \in SUBSET Writes
  BY <1>1 DEF TypeOK, Snapshots
<1>3. /\ seen'[r] = seen[r] \cup W
      /\ \A a \in Replicas \ {r} : elems'[a] = elems[a] /\ seen'[a] = seen[a]
  BY <1>1 DEF Join, TypeOK
<1>4. W \subseteq Fleet /\ \A a \in Replicas : seen[a] \subseteq Fleet
  BY DEF CompactInv, SnapshotsKnown, Fleet
<1>5. \A a \in Replicas : clock[a] <= clock'[a]
  <2>1. PICK n \in Observed(r, s, part) :
          (\A i \in Observed(r, s, part) : i <= n) /\ clock' = [clock EXCEPT ![r] = n]
    BY DEF Join
  <2>2. clock[r] <= n
    BY <2>1 DEF Observed
  <2> QED BY <1>1, <2>1, <2>2 DEF TypeOK
<1>6. Grows
  BY <1>3, <1>4, <1>5 DEF Grows
<1>7. ASSUME NEW e \in Elements
      PROVE  \E k \in Nat : Settled(e, k) /\ Reflects(elems'[r][e], Above(seen'[r], e, k), e)
  <2>1. elems[r][e] \in Entries /\ s.elems[e] \in Entries
    BY <1>1 DEF TypeOK, Snapshots
  <2>2. PICK k \in Nat : Settled(e, k) /\ Reflects(elems[r][e], Above(seen[r], e, k), e)
    BY DEF CompactInv, ReplicasKept, Kept
  <2>3. elems'[r][e] = IF e \in part THEN Joined(elems[r][e], s.elems[e]) ELSE elems[r][e]
    BY <1>1 DEF Join, TypeOK
  <2>4. CASE e \in part
    <3>1. PICK m \in Nat : Settled(e, m) /\ Reflects(s.elems[e], Above(s.seen, e, m), e)
      BY DEF CompactInv, SnapshotsKept, Kept
    <3>2. {w \in Above(s.seen, e, m) : w.elem = e} = {w \in Above(W, e, m) : w.elem = e}
      BY <2>4 DEF Above
    <3>3. Reflects(s.elems[e], Above(W, e, m), e)
      BY <3>1, <3>2, SameOps
    <3>4. Below(W, e, m) \subseteq seen[r]
      BY <1>4, <3>1 DEF Settled, Old, Below
    <3>5. Below(seen[r], e, k) \subseteq W
      BY <1>4, <2>2, <2>4 DEF Settled, Old, Below
    <3> HIDE DEF W
    <3>6. \E n \in {k, m} : Reflects(Joined(elems[r][e], s.elems[e]),
                                     Above(seen[r] \cup W, e, n), e)
      BY <1>2, <2>1, <2>2, <3>3, <3>4, <3>5, JoinedKept
    <3> QED BY <1>3, <2>2, <2>3, <2>4, <3>1, <3>6
  <2>5. CASE e \notin part
    <3>1. {w \in Above(seen[r], e, k) : w.elem = e}
          = {w \in Above(seen[r] \cup W, e, k) : w.elem = e}
      BY <2>5 DEF Above
    <3>2. Reflects(elems[r][e], Above(seen[r] \cup W, e, k), e)
      BY <2>2, <3>1, SameOps
    <3> QED BY <1>3, <2>2, <2>3, <2>5, <3>2
  <2> QED BY <2>4, <2>5
<1>8. ASSUME NEW a \in Replicas, NEW e \in Elements
      PROVE  \E k \in Nat : Settled(e, k) /\ Reflects(elems'[a][e], Above(seen'[a], e, k), e)
  <2>1. CASE a = r
    BY <1>7, <2>1
  <2>2. CASE a # r
    BY <1>3, <2>2 DEF CompactInv, ReplicasKept, Kept
  <2> QED BY <2>1, <2>2
<1> QED
  BY <1>1, <1>6, <1>8, SettledKeeps

\* A local add keeps what is kept.
LEMMA AddKeepsKept ==
    ASSUME CompactInv, TypeOK', NEW r \in Replicas, NEW f \in Elements, NEW p \in Nat,
           Add(r, f, p)
    PROVE  Grows /\ ReplicasKept'
<1> DEFINE s == Ticked(r)
           w == AddOf(f, r, s, p)
<1>1. TypeOK /\ s \in Nat \ {0} /\ clock[r] \in Nat /\ s = clock[r] + 1
  BY DEF CompactInv, TypeOK, Ticked
<1>2. seen'[r] = seen[r] \cup {w} /\ seen[r] \in SUBSET Writes
  BY <1>1 DEF Add, TypeOK
<1>3. \A a \in Replicas \ {r} : elems'[a] = elems[a] /\ seen'[a] = seen[a]
  BY <1>1 DEF Add, TypeOK
<1>4. \A e \in Elements : elems'[r][e] = IF e = f THEN Added(elems[r][f], r, s, p)
                                         ELSE elems[r][e]
  BY <1>1 DEF Add, TypeOK
<1>5. w.elem = f /\ w.stamp = s
  BY DEF AddOf
<1>6. Grows
  <2>1. \A a \in Replicas : clock[a] <= clock'[a]
    BY <1>1 DEF Add, Write, TypeOK
  <2>2. InFlight' = InFlight
    BY DEF Add, Write, InFlight
  <2>3. \A a \in Replicas : \A u \in seen'[a] : u \in Fleet \/ u.stamp = clock[r] + 1
    BY <1>1, <1>2, <1>3, <1>5 DEF Fleet
  <2> QED BY <1>2, <1>3, <2>1, <2>2, <2>3 DEF Grows
<1>7. \A q \in Replicas : elems[r][f].add[q] < s
  BY <1>1 DEF CompactInv, ClockDominates, Dominates, TypeOK, Entries, Timelines
<1> HIDE DEF w
<1>8. ASSUME NEW e \in Elements
      PROVE  \E k \in Nat : Settled(e, k) /\ Reflects(elems'[r][e], Above(seen'[r], e, k), e)
  <2>1. PICK k \in Nat : Settled(e, k) /\ Reflects(elems[r][e], Above(seen[r], e, k), e)
    BY DEF CompactInv, ReplicasKept, Kept
  <2>2. w.elem = e => w.stamp >= k
    BY <1>1, <1>5, <2>1 DEF Settled
  <2>3. Above(seen[r] \cup {w}, e, k) = Above(seen[r], e, k) \cup {w}
    BY <2>2 DEF Above
  <2>4. CASE e = f
    <3>1. Above(seen[r], e, k) \in SUBSET Writes /\ elems[r][f] \in Entries
      BY <1>1, <1>2 DEF Above, TypeOK
    <3>2. Reflects(Added(elems[r][f], r, s, p), Above(seen[r], e, k) \cup {w}, e)
      BY <1>1, <1>7, <2>1, <2>4, <3>1, AddedReflects DEF w
    <3> QED BY <1>2, <1>4, <2>1, <2>3, <2>4, <3>2
  <2>5. CASE e # f
    <3>1. Reflects(elems[r][e], Above(seen[r], e, k) \cup {w}, e)
      BY <1>5, <2>1, <2>5, OthersIrrelevant
    <3> QED BY <1>2, <1>4, <2>1, <2>3, <2>5, <3>1
  <2> QED BY <2>4, <2>5
<1>9. ASSUME NEW a \in Replicas, NEW e \in Elements
      PROVE  \E k \in Nat : Settled(e, k) /\ Reflects(elems'[a][e], Above(seen'[a], e, k), e)
  <2>1. CASE a = r
    BY <1>8, <2>1
  <2>2. CASE a # r
    BY <1>3, <2>2 DEF CompactInv, ReplicasKept, Kept
  <2> QED BY <2>1, <2>2
<1> QED
  BY <1>1, <1>6, <1>9, SettledKeeps

\* A local removal keeps what is kept.
LEMMA RemoveKeepsKept ==
    ASSUME CompactInv, TypeOK', NEW r \in Replicas, NEW gone \in SUBSET Elements,
           Remove(r, gone)
    PROVE  Grows /\ ReplicasKept'
<1> DEFINE s == Ticked(r)
           W == {RemOf(e, r, s) : e \in gone}
<1>1. TypeOK /\ s \in Nat \ {0} /\ clock[r] \in Nat /\ s = clock[r] + 1
  BY DEF CompactInv, TypeOK, Ticked
<1>2. seen'[r] = seen[r] \cup W /\ seen[r] \in SUBSET Writes
  BY <1>1 DEF Remove, TypeOK
<1>3. \A a \in Replicas \ {r} : elems'[a] = elems[a] /\ seen'[a] = seen[a]
  BY <1>1 DEF Remove, TypeOK
<1>4. \A e \in Elements : elems'[r][e] = IF e \in gone THEN Removed(elems[r][e], r, s)
                                         ELSE elems[r][e]
  BY <1>1 DEF Remove, TypeOK
<1>5. \A w \in W : w.stamp = s /\ \E e \in gone : w = RemOf(e, r, s) /\ w.elem = e
  BY DEF RemOf
<1>6. Grows
  <2>1. \A a \in Replicas : clock[a] <= clock'[a]
    BY <1>1 DEF Remove, Write, TypeOK
  <2>2. InFlight' = InFlight
    BY DEF Remove, Write, InFlight
  <2>3. \A a \in Replicas : \A u \in seen'[a] : u \in Fleet \/ u.stamp = clock[r] + 1
    BY <1>1, <1>2, <1>3, <1>5 DEF Fleet
  <2> QED BY <1>2, <1>3, <2>1, <2>2, <2>3 DEF Grows
<1>7. ASSUME NEW e \in Elements
      PROVE  \E k \in Nat : Settled(e, k) /\ Reflects(elems'[r][e], Above(seen'[r], e, k), e)
  <2>1. PICK k \in Nat : Settled(e, k) /\ Reflects(elems[r][e], Above(seen[r], e, k), e)
    BY DEF CompactInv, ReplicasKept, Kept
  <2>2. \A w \in W : w.elem = e => w.stamp >= k
    BY <1>1, <1>5, <2>1 DEF Settled
  <2> HIDE DEF W
  <2>3. Above(seen[r] \cup W, e, k) = Above(seen[r], e, k) \cup W
    BY <2>2 DEF Above
  <2>4. Reflects(elems'[r][e], Above(seen[r], e, k) \cup W, e)
    <3>1. CASE e \in gone
      <4> DEFINE w == RemOf(e, r, s)
                 U == W \ {w}
      <4>1. Above(seen[r], e, k) \in SUBSET Writes /\ elems[r][e] \in Entries
        BY <1>1, <1>2 DEF Above, TypeOK
      <4>2. \A q \in Replicas : elems[r][e].rem[q] < s
        BY <1>1 DEF CompactInv, ClockDominates, Dominates, TypeOK, Entries, Timelines
      <4>3. Reflects(Removed(elems[r][e], r, s), Above(seen[r], e, k) \cup {w}, e)
        BY <1>1, <2>1, <4>1, <4>2, RemovedReflects
      <4>4. \A u \in U : u.elem # e
        BY <1>5
      <4>5. w \in W
        BY <3>1 DEF W
      <4> HIDE DEF w
      <4>6. Above(seen[r], e, k) \cup W = (Above(seen[r], e, k) \cup {w}) \cup U
        BY <4>5
      <4> HIDE DEF U
      <4>7. Reflects(Removed(elems[r][e], r, s), (Above(seen[r], e, k) \cup {w}) \cup U, e)
        BY <4>3, <4>4, OthersIrrelevant
      <4> QED BY <1>4, <3>1, <4>6, <4>7
    <3>2. CASE e \notin gone
      <4>1. \A w \in W : w.elem # e
        BY <1>5, <3>2
      <4> QED BY <1>4, <2>1, <3>2, <4>1, OthersIrrelevant
    <3> QED BY <3>1, <3>2
  <2> QED BY <1>2, <2>1, <2>3, <2>4 DEF W
<1>8. ASSUME NEW a \in Replicas, NEW e \in Elements
      PROVE  \E k \in Nat : Settled(e, k) /\ Reflects(elems'[a][e], Above(seen'[a], e, k), e)
  <2>1. CASE a = r
    BY <1>7, <2>1
  <2>2. CASE a # r
    BY <1>3, <2>2 DEF CompactInv, ReplicasKept, Kept
  <2> QED BY <2>1, <2>2
<1> QED
  BY <1>1, <1>6, <1>8, SettledKeeps

\* What Compact drops is settled: the entry's element is removed, and all its
\* writes are below the stamp it was kept from or below the watermark.
LEMMA CompactableSettled ==
    ASSUME NEW x \in Entries, NEW e \in Elements, NEW V \in SUBSET Writes,
           NEW k \in Nat, NEW n \in Nat,
           ~LiveBy(Below(V, e, k), e), Reflects(x, Above(V, e, k), e), Compactable(x, n)
    PROVE  /\ Reflects(Blank, Above(V, e, Larger(k, n)), e)
           /\ ~LiveBy(Below(V, e, Larger(k, n)), e)
<1> DEFINE m == Larger(k, n)
<1>1. m \in Nat /\ k <= m /\ n <= m
  BY DEF Larger
<1>2. \A w \in V : w.stamp \in Nat /\ w.by \in Replicas /\ w.op \in {"add", "rem"}
  BY DEF Writes
<1>3. \A q \in Replicas : x.add[q] \in Nat /\ x.rem[q] \in Nat
  BY DEF Entries, Timelines
<1>4. \A q \in Replicas : x.rem[q] < n
  BY DEF Compactable
<1>5. \A q \in Replicas : x.add[q] < n
  <2> SUFFICES ASSUME NEW q \in Replicas PROVE x.add[q] < n
    OBVIOUS
  <2>1. PICK p \in Replicas : ~(x.rem[p] < x.add[q])
    BY DEF Compactable, Live
  <2> QED BY <1>3, <1>4, <2>1
<1>6. \A w \in V : w.elem = e /\ w.stamp >= k => w.stamp < n
  <2> SUFFICES ASSUME NEW w \in V, w.elem = e, w.stamp >= k PROVE w.stamp < n
    OBVIOUS
  <2>1. w \in OpsOn(Above(V, e, k), e, w.op)
    BY DEF OpsOn, Above
  <2>2. w.stamp <= x.add[w.by] \/ w.stamp <= x.rem[w.by]
    BY <1>2, <2>1 DEF Reflects, Records
  <2> QED BY <1>2, <1>3, <1>4, <1>5, <2>2
<1>7. \A w \in V : w.elem = e => w.stamp < m
  BY <1>1, <1>2, <1>6
<1> HIDE DEF m
<1>8. Reflects(Blank, Above(V, e, m), e)
  <2>1. {w \in Above(V, e, m) : w.elem = e} = {w \in {} : w.elem = e}
    BY <1>1, <1>2, <1>7 DEF Above
  <2> QED BY <2>1, BlankReflects, SameOps
<1>9. ~LiveBy(Below(V, e, m), e)
  <2>1. Above(V, e, k) \in SUBSET Writes
    BY DEF Above
  <2>2. ~LiveBy(Above(V, e, k), e)
    BY <2>1, LiveReflects DEF Compactable
  <2>3. ~LiveBy(V, e)
    BY <2>2, BelowIrrelevant
  <2>4. \A op : OpsOn(Below(V, e, m), e, op) = OpsOn(V, e, op)
    BY <1>7 DEF OpsOn, Below
  <2> QED BY <2>3, <2>4 DEF LiveBy
<1> QED
  BY <1>8, <1>9 DEF m

\* A compaction below a stable watermark keeps what is kept.
LEMMA CompactKeepsKept ==
    ASSUME CompactInv, TypeOK', InFlightCounts, NEW r \in Replicas, NEW n \in Watermarks,
           Compact(r, n)
    PROVE  Grows /\ ReplicasKept'
<1>1. TypeOK /\ n \in Nat /\ \A a \in Replicas : clock[a] \in Nat
  BY GraphAssumption DEF CompactInv, TypeOK
<1>2. Grows
  BY <1>1 DEF Compact, Grows, Fleet, InFlight
<1>3. \A a \in Replicas \ {r} : elems'[a] = elems[a]
  BY <1>1 DEF Compact, TypeOK
<1>4. \A e \in Elements : elems'[r][e] = IF Compactable(elems[r][e], n) THEN Blank
                                         ELSE elems[r][e]
  BY <1>1 DEF Compact, TypeOK
<1>5. UNCHANGED seen
  BY DEF Compact
<1>6. ASSUME NEW e \in Elements
      PROVE  /\ \A a \in Replicas : Old(e, n) \subseteq seen[a] /\ clock[a] + 1 >= n
             /\ \A s \in InFlight : Old(e, n) \subseteq s.seen
  BY DEF Compact, Stable, Old, Below, Fleet
<1>7. ASSUME NEW e \in Elements
      PROVE  \E k \in Nat : Settled(e, k) /\ Reflects(elems'[r][e], Above(seen[r], e, k), e)
  <2>1. PICK k \in Nat : Settled(e, k) /\ Reflects(elems[r][e], Above(seen[r], e, k), e)
    BY DEF CompactInv, ReplicasKept, Kept
  <2>2. CASE ~Compactable(elems[r][e], n)
    BY <1>4, <2>1, <2>2
  <2>3. CASE Compactable(elems[r][e], n)
    <3> DEFINE m == Larger(k, n)
    <3>1. m \in {k, n} /\ m \in Nat
      BY <1>1 DEF Larger
    <3>2. elems[r][e] \in Entries /\ seen[r] \in SUBSET Writes /\ seen[r] \subseteq Fleet
      BY <1>1 DEF TypeOK, Fleet
    <3>3. Below(seen[r], e, k) = Old(e, k)
      BY <2>1, <3>2, BelowIsOld DEF Settled
    <3>4. ~LiveBy(Below(seen[r], e, k), e)
      BY <2>1, <3>3 DEF Settled
    <3>5. Reflects(Blank, Above(seen[r], e, m), e) /\ ~LiveBy(Below(seen[r], e, m), e)
      BY <1>1, <2>1, <2>3, <3>2, <3>4, CompactableSettled
    <3> HIDE DEF m
    <3>6. /\ \A a \in Replicas : Old(e, m) \subseteq seen[a] /\ clock[a] + 1 >= m
          /\ \A s \in InFlight : Old(e, m) \subseteq s.seen
      BY <1>6, <2>1, <3>1 DEF Settled
    <3>7. Below(seen[r], e, m) = Old(e, m)
      BY <3>2, <3>6, BelowIsOld
    <3>8. Settled(e, m)
      BY <3>5, <3>6, <3>7 DEF Settled
    <3> QED BY <1>4, <2>3, <3>1, <3>5, <3>8
  <2> QED BY <2>2, <2>3
<1>8. ASSUME NEW a \in Replicas, NEW e \in Elements
      PROVE  \E k \in Nat : Settled(e, k) /\ Reflects(elems'[a][e], Above(seen'[a], e, k), e)
  <2>1. CASE a = r
    BY <1>5, <1>7, <2>1
  <2>2. CASE a # r
    BY <1>3, <1>5, <2>2 DEF CompactInv, ReplicasKept, Kept
  <2> QED BY <2>1, <2>2
<1> QED
  BY <1>1, <1>2, <1>8, SettledKeeps

\* So does a step that leaves the replicas as they are.
LEMMA RestKeepsKept ==
    ASSUME CompactInv, TypeOK', UNCHANGED <<clock, elems, seen>>,
           \A s \in InFlight' : s \in InFlight \/ \E a \in Replicas : s = Snapshot(a)
    PROVE  Grows /\ ReplicasKept'
<1>1. TypeOK /\ \A a \in Replicas : clock[a] \in Nat
  BY DEF CompactInv, TypeOK
<1>2. Grows
  BY <1>1 DEF Grows, Fleet
<1>3. \A a \in Replicas, e \in Elements : \E k \in Nat :
          Settled(e, k) /\ Reflects(elems'[a][e], Above(seen'[a], e, k), e)
  BY DEF CompactInv, ReplicasKept, Kept
<1> QED
  BY <1>1, <1>2, <1>3, SettledKeeps

\* Every step of a fleet that compacts below stable watermarks and in which
\* nobody restarts.
LEMMA CompactStep ==
    ASSUME MaxRestarts = 0, InFlightCounts, CompactInv, [Next]_vars
    PROVE  CompactInv'
<1>0. TypeOK /\ TypeOK' /\ ClockDominates'
  BY TypeStep, ClockStep DEF CompactInv
<1> SUFFICES Grows /\ ReplicasKept'
  BY <1>0, GrowsKeepsSnapshots DEF CompactInv
<1>1. CASE UNCHANGED vars
  BY <1>0, <1>1, RestKeepsKept DEF vars, InFlight
<1>2. ASSUME NEW r \in Replicas, NEW v \in Vertices, NEW p \in Payloads, AddVertex(r, v, p)
      PROVE  Grows /\ ReplicasKept'
  <2>1. v \in Elements /\ p \in Nat
    BY GraphAssumption DEF Elements
  <2> QED BY <1>0, <1>2, <2>1, AddKeepsKept DEF AddVertex
<1>3. ASSUME NEW r \in Replicas, NEW v \in Vertices, RemoveVertex(r, v)
      PROVE  Grows /\ ReplicasKept'
  <2>1. {v} \cup Incident(r, v) \in SUBSET Elements
    BY DEF Incident, Elements
  <2> QED BY <1>0, <1>3, <2>1, RemoveKeepsKept DEF RemoveVertex
<1>4. ASSUME NEW r \in Replicas, NEW e \in Edges, AddEdge(r, e) \/ RemoveEdge(r, e)
      PROVE  Grows /\ ReplicasKept'
  <2>1. e \in Elements /\ {e} \in SUBSET Elements
    BY DEF Elements
  <2> QED BY <1>0, <1>4, <2>1, AddKeepsKept, RemoveKeepsKept DEF AddEdge, RemoveEdge
<1>5. ASSUME NEW r \in Replicas, (\E p \in Replicas : Fetch(r, p)) \/ Offer(r)
      PROVE  Grows /\ ReplicasKept'
  BY <1>0, <1>5, SnapshotMoves, RestKeepsKept
<1>6. ASSUME NEW r \in Replicas, Pull(r) \/ Accept(r) \/ Reconcile(r)
      PROVE  Grows /\ ReplicasKept'
  <2>1. PICK s \in InFlight, part \in SUBSET Elements :
            Join(r, s, part) /\ InFlight' \subseteq InFlight
    BY <1>0, <1>6, JoinsOfInFlight
  <2> QED BY <1>0, <2>1, JoinKeepsKept
<1>7. ASSUME NEW r \in Replicas, Restart(r)
      PROVE  FALSE
  BY <1>0, <1>7 DEF Restart, TypeOK
<1>8. CASE Forget
  BY <1>0, <1>8, RestKeepsKept DEF Forget, InFlight
<1>9. ASSUME NEW r \in Replicas, NEW n \in Watermarks, Compact(r, n)
      PROVE  Grows /\ ReplicasKept'
  BY <1>0, <1>9, CompactKeepsKept
<1> QED
  BY <1>1, <1>2, <1>3, <1>4, <1>5, <1>6, <1>7, <1>8, <1>9 DEF Next

\* ViewFromWrites for every value of the constants with which nobody restarts
\* and a watermark waits for the snapshots in flight: what a replica shows is
\* what its writes define, whichever replicas compacted, at whatever stable
\* watermarks and however snapshots were delayed or cut short (Compact).  Both
\* conditions are needed: a restarted replica issues old stamps again, and a
\* snapshot older than the watermark brings back what was removed.
THEOREM ViewKept ==
    ASSUME MaxRestarts = 0, InFlightCounts
    PROVE  Spec => []ViewFromWrites
<1>1. Init => CompactInv
  <2> SUFFICES ASSUME Init PROVE CompactInv
    OBVIOUS
  <2>1. InFlight = {} /\ Fleet = {}
    BY DEF Init, InFlight, Fleet
  <2>2. TypeOK
    <3>1. elems \in [Replicas -> [Elements -> Entries]]
      BY BlankType DEF Init
    <3> QED BY <3>1 DEF Init, TypeOK
  <2>3. ClockDominates
    BY <2>1 DEF Init, ClockDominates, Dominates, Blank, Untouched
  <2>4. ASSUME NEW r \in Replicas, NEW e \in Elements
        PROVE  Kept(elems[r][e], seen[r], e)
    <3>1. Above(seen[r], e, 0) = {} /\ elems[r][e] = Blank
      BY DEF Above, Init
    <3>2. Old(e, 0) = {} /\ clock = [q \in Replicas |-> 0]
      BY <2>1 DEF Old, Below, Init
    <3>3. Settled(e, 0)
      BY <2>1, <3>2 DEF Settled, LiveBy, OpsOn
    <3>4. Reflects(elems[r][e], Above(seen[r], e, 0), e)
      BY <3>1, BlankReflects
    <3> QED BY <3>3, <3>4 DEF Kept
  <2> QED BY <2>1, <2>2, <2>3, <2>4 DEF CompactInv, SnapshotsKnown, ReplicasKept, SnapshotsKept
<1>2. CompactInv /\ [Next]_vars => CompactInv'
  BY CompactStep
<1>3. Spec => []CompactInv
  BY <1>1, <1>2, PTL DEF Spec
<1> QED
  BY <1>3, KeptShows, PTL
=============================================================================
