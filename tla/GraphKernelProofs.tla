------------------------- MODULE GraphKernelProofs -------------------------
(***************************************************************************)
(* What the topology kernel decides, for every payload: any graph, any     *)
(* replicas and stamps, any readings and statuses.                         *)
(***************************************************************************)
EXTENDS GraphKernel, FiniteSetTheorems, NaturalsInduction, WellFoundedInduction, TLAPS

\* Numbers below a bound have a largest one.
LEMMA GreatestIs ==
    ASSUME NEW b \in Nat, NEW S \in SUBSET (0..b), S # {}
    PROVE  Greatest(S) \in S /\ \A k \in S : k <= Greatest(S)
<1> DEFINE T == {b - n : n \in S}
<1>1. T \subseteq Nat /\ T # {}
  <2>1. \A n \in S : b - n \in Nat
    OBVIOUS
  <2>2. PICK n \in S : TRUE
    OBVIOUS
  <2>3. b - n \in T
    BY <2>2
  <2> QED
    BY <2>1, <2>3
<1>2. PICK x \in T : \A y \in T : ~(y < x)
  <2> DEFINE R == OpToRel(<, Nat)
  <2>1. \E x \in T : \A y \in T : ~(<<y, x>> \in R)
    <3>1. IsWellFoundedOn(R, Nat)
      BY NatLessThanWellFounded DEF R
    <3> HIDE DEF T, R
    <3> QED
      BY <1>1, <3>1, WFMin
  <2> HIDE DEF T
  <2> QED
    BY <1>1, <2>1 DEF OpToRel
<1>3. PICK n \in S : x = b - n
  BY <1>2
<1>4. \A k \in S : k <= n
  BY <1>2, <1>3
<1> QED
  BY <1>4 DEF Greatest

-----------------------------------------------------------------------------
(* Replicas *)

\* The highest stamps bound every stamp, and some replica holds the highest remove.
LEMMA HighestIs ==
    ASSUME NEW p, Shaped(p), DOMAIN p.obs # {}
    PROVE  /\ HighestAdd(p.obs) \in 0..MaxStamp /\ HighestRem(p.obs) \in 0..MaxStamp
           /\ \A r \in DOMAIN p.obs : p.obs[r].add <= HighestAdd(p.obs)
           /\ \E r \in DOMAIN p.obs : p.obs[r].rem = HighestRem(p.obs)
<1> DEFINE A == {p.obs[r].add : r \in DOMAIN p.obs}
           B == {p.obs[r].rem : r \in DOMAIN p.obs}
<1>1. \A r \in DOMAIN p.obs : p.obs[r].add \in 0..MaxStamp /\ p.obs[r].rem \in 0..MaxStamp
  BY DEF Shaped, Stamps
<1>2. A \in SUBSET (0..MaxStamp) /\ B \in SUBSET (0..MaxStamp) /\ A # {} /\ B # {}
  BY <1>1
<1>3. MaxStamp \in Nat
  BY KernelAssumption
<1> HIDE DEF A, B
<1>4. Greatest(A) \in A /\ \A k \in A : k <= Greatest(A)
  BY <1>2, <1>3, GreatestIs
<1>5. Greatest(B) \in B
  BY <1>2, <1>3, GreatestIs
<1> QED
  BY <1>2, <1>4, <1>5 DEF A, B, HighestAdd, HighestRem

\* The divergence lemma.  When a tie is broken for the add, the replica that
\* holds the remove has not caught up: its own timeline reads TOMBSTONED.
LEMMA TieDiverges ==
    ASSUME NEW p, Shaped(p), Contested(p.obs), HasLiveDownstream(p)
    PROVE  /\ Diverging(p) # {} /\ IsFiniteSet(Diverging(p))
           /\ Cardinality(Diverging(p)) \in Nat \ {0}
<1>1. DOMAIN p.obs # {}
  BY DEF Contested
<1>2. PICK r \in DOMAIN p.obs : p.obs[r].rem = HighestRem(p.obs)
  BY <1>1, HighestIs
<1>3. /\ p.obs[r].add <= p.obs[r].rem /\ p.obs[r].rem > 0
      /\ p.obs[r].add \in Nat /\ p.obs[r].rem \in Nat
  BY <1>1, <1>2, HighestIs DEF Contested, Shaped, Stamps
<1>4. LocalPresence(p.obs[r]) = "TOMBSTONED"
  BY <1>3 DEF LocalPresence
<1>5. Presence(p) = "LIVE"
  BY <1>1 DEF Presence
<1>6. r \in Diverging(p)
  BY <1>4, <1>5 DEF Diverging
<1>7. IsFiniteSet(Diverging(p))
  BY FS_Subset DEF Diverging, Shaped
<1> QED
  BY <1>6, <1>7, FS_EmptySet, FS_CardinalityType

-----------------------------------------------------------------------------
(* The three promises of the kernel *)

\* A hard limit broken by a physical reading decides the trip: the priority is
\* then CRITICAL, so that the blast radius has no say.
LEMMA TripNeeds ==
    ASSUME NEW p
    PROVE  Trips(p) <=> /\ Classification(p) # "INDETERMINATE" /\ IrreversiblePermitted(p)
                        /\ Breach(p.local, TRUE, Hard)
<1>1. Breach(p.local, TRUE, Hard) => Priority(p) = "CRITICAL"
  BY DEF Priority
<1> QED
  BY <1>1 DEF Trips, RecommendedAction, Irreversible

\* The collision rate is a number.
LEMMA RateIs == ASSUME NEW p, Shaped(p) PROVE CollisionRate(p) \in Nat
  BY DEF CollisionRate, Shaped

\* With a tie broken for the add, the penalties of the tie, of the override and
\* of one diverging replica leave at most 55 percent.
LEMMA TieCostsTrust ==
    ASSUME NEW p, Shaped(p), Contested(p.obs), HasLiveDownstream(p)
    PROVE  GraphTrust(p) <= 55
<1>1. DOMAIN p.obs # {}
  BY DEF Contested
<1>2. TieBreaker(p) = "ADD_WINS"
  BY DEF TieBreaker
<1> DEFINE d == AtMost(30, 10 * Cardinality(Diverging(p)))
           c == AtMost(40, 2 * CollisionRate(p))
           g == IF Ghost(p) THEN 25 ELSE 0
<1>3. d \in Nat /\ d >= 10
  BY TieDiverges DEF AtMost
<1>4. c \in Nat
  BY RateIs DEF AtMost
<1>5. g \in Nat
  OBVIOUS
<1>6. GraphTrust(p) = AtLeastZero(100 - 25 - 10 - d - c - g)
  BY <1>1, <1>2 DEF GraphTrust
<1> HIDE DEF d, c, g
<1> QED
  BY <1>3, <1>4, <1>5, <1>6 DEF AtLeastZero

\* resolve_crdt_presence and analyse_topology: whenever the threshold is above 55
\* percent (the default is 65), a vertex whose highest add and remove stamps tie is
\* never tripped, whichever way the tie is broken.
THEOREM TieNeverTripsAnywhere ==
    ASSUME MinTrust > 55, NEW p, Shaped(p)
    PROVE  TieNeverTrips(p)
<1> SUFFICES ASSUME Contested(p.obs), Trips(p)
             PROVE  FALSE
  BY DEF TieNeverTrips
<1>1. Breach(p.local, TRUE, Hard) /\ IrreversiblePermitted(p)
  BY TripNeeds
<1>2. TelemetryIsLive(p)
  BY <1>1 DEF Breach, TelemetryIsLive
<1>3. CASE HasLiveDownstream(p)
  <2>1. GraphTrust(p) <= 55
    BY <1>3, TieCostsTrust
  <2>2. GraphTrust(p) \in Int
    BY RateIs, <1>3, TieDiverges DEF GraphTrust, AtLeastZero, AtMost
  <2> QED
    BY <1>1, <2>1, <2>2, KernelAssumption DEF IrreversiblePermitted, GraphUntrusted
<1>4. CASE ~HasLiveDownstream(p)
  <2>1. Presence(p) = "TOMBSTONED"
    BY <1>4 DEF Presence, Contested
  <2> QED
    BY <1>1, <1>2, <2>1 DEF IrreversiblePermitted, Ghost
<1> QED
  BY <1>3, <1>4

\* Whether the asset is tripped depends on its own channels and its replicas.  The
\* neighbours count for the attribution, which a hard local breach settles, and for
\* the tie-breaker, but a tie never trips.
LEMMA TripsAlone ==
    ASSUME MinTrust > 55, NEW p, Shaped(p), NEW q, Shaped(q),
           q.local = p.local, q.obs = p.obs
    PROVE  Trips(q) = Trips(p)
<1>1. Trips(q) \in BOOLEAN /\ Trips(p) \in BOOLEAN
  BY DEF Trips, Irreversible
<1>2. Contested(q.obs) <=> Contested(p.obs)
  OBVIOUS
<1>3. CASE Contested(p.obs)
  <2>1. ~Trips(p) /\ ~Trips(q)
    BY <1>2, <1>3, TieNeverTripsAnywhere DEF TieNeverTrips
  <2> QED
    BY <1>1, <2>1
<1>4. CASE ~Contested(p.obs)
  <2>1. Presence(q) = Presence(p) /\ TieBreaker(q) = TieBreaker(p)
    BY <1>4 DEF Presence, TieBreaker
  <2>2. Diverging(q) = Diverging(p) /\ CollisionRate(q) = CollisionRate(p)
    BY <2>1 DEF Diverging, CollisionRate
  <2>3. Ghost(q) = Ghost(p)
    BY <2>1 DEF Ghost, TelemetryIsLive
  <2>4. GraphTrust(q) = GraphTrust(p)
    BY <2>1, <2>2, <2>3 DEF GraphTrust
  <2>5. IrreversiblePermitted(q) = IrreversiblePermitted(p)
    BY <2>1, <2>3, <2>4 DEF IrreversiblePermitted, GraphUntrusted
  <2>6. ASSUME Breach(p.local, TRUE, Hard)
        PROVE  Classification(p) # "INDETERMINATE" /\ Classification(q) # "INDETERMINATE"
    <3>1. LocalFault(p) /\ LocalFault(q)
      BY <2>6 DEF LocalFault, Breach, Hard, Warn, Band, ChannelLimits, Critical, Nominal
    <3> QED
      BY <3>1 DEF Classification
  <2>7. Trips(q) <=> Trips(p)
    BY <2>5, <2>6, TripNeeds
  <2> QED
    BY <1>1, <2>7
<1> QED
  BY <1>3, <1>4

\* analyse_topology: "Blast radius raises priority, never irreversibility".  Whether
\* the kernel recommends the irreversible action is the same for any downstream
\* nodes.
THEOREM BlastNeverTripsAnywhere ==
    ASSUME MinTrust > 55, NEW p, Shaped(p), NEW nodes
    PROVE  BlastNeverTrips(p, nodes)
<1> SUFFICES ASSUME NEW D \in SUBSET nodes
             PROVE  Trips([p EXCEPT !.down = D]) = Trips(p)
  BY DEF BlastNeverTrips
<1> DEFINE q == [p EXCEPT !.down = D]
<1>1. /\ q.asset = p.asset /\ q.parent = p.parent /\ q.status = p.status /\ q.up = p.up
      /\ q.health = p.health /\ q.attributed = p.attributed
      /\ q.local = p.local /\ q.obs = p.obs
  BY DEF Shaped
<1>2. q = [asset |-> q.asset, parent |-> q.parent, status |-> q.status, up |-> q.up,
           down |-> q.down, health |-> q.health, attributed |-> q.attributed,
           local |-> q.local, obs |-> q.obs]
  BY DEF Shaped
<1> HIDE DEF q
<1>3. Shaped(q)
  BY <1>1, <1>2 DEF Shaped
<1>4. Trips(q) = Trips(p)
  BY <1>1, <1>3, TripsAlone
<1> QED
  BY <1>4 DEF q

\* ChannelLimit: "Integrity breaches must never, on their own, justify an
\* irreversible action".  Whatever the integrity channels read, an asset that is
\* tripped would be tripped without them: they only lower the trust.
THEOREM IntegrityNeverTripsAnywhere ==
    ASSUME NEW p, Shaped(p)
    PROVE  IntegrityNeverTrips(p)
<1> SUFFICES ASSUME Trips(p)
             PROVE  Trips(Trusting(p))
  BY DEF IntegrityNeverTrips
<1> DEFINE q == Trusting(p)
<1>1. /\ q.asset = p.asset /\ q.status = p.status /\ q.up = p.up /\ q.down = p.down
      /\ q.health = p.health /\ q.attributed = p.attributed /\ q.obs = p.obs
      /\ q.local = [c \in {d \in DOMAIN p.local : Physical(d)} |-> p.local[c]]
  BY DEF Shaped, Trusting
<1> HIDE DEF q
<1>2. \A n \in Int : Breach(q.local, TRUE, n) <=> Breach(p.local, TRUE, n)
  BY <1>1 DEF Breach
<1>3. Breach(p.local, TRUE, Hard) /\ IrreversiblePermitted(p)
      /\ Classification(p) # "INDETERMINATE"
  BY TripNeeds
<1>4. Breach(q.local, TRUE, Hard)
  <2>1. Hard \in Int
    BY DEF Hard
  <2> QED
    BY <1>2, <1>3, <2>1
<1>5. TelemetryIsLive(q) /\ TelemetryIsLive(p)
  BY <1>3, <1>4 DEF Breach, TelemetryIsLive
<1>6. Presence(q) = Presence(p) /\ TieBreaker(q) = TieBreaker(p)
  BY <1>1 DEF Presence, TieBreaker, HasLiveDownstream, Health
<1>7. Ghost(q) = Ghost(p)
  BY <1>5, <1>6 DEF Ghost
<1>8. Diverging(q) = Diverging(p) /\ Cardinality(Diverging(p)) \in Nat
  <2>1. IsFiniteSet(Diverging(p))
    BY FS_Subset DEF Diverging, Shaped
  <2> QED
    BY <1>1, <1>6, <2>1, FS_CardinalityType DEF Diverging
<1>9. CollisionRate(q) = 0 /\ CollisionRate(p) \in Nat
  BY <1>1, RateIs DEF CollisionRate, Physical, ChannelLimits
<1>10. GraphTrust(q) >= GraphTrust(p) /\ GraphTrust(q) \in Int /\ GraphTrust(p) \in Int
  <2> DEFINE c(n) == AtMost(40, 2 * n)
             d == AtMost(30, 10 * Cardinality(Diverging(p)))
             t == IF Contested(p.obs) THEN 25 ELSE 0
             a == IF TieBreaker(p) = "ADD_WINS" THEN 10 ELSE 0
             g == IF Ghost(p) THEN 25 ELSE 0
  <2>1. c(0) = 0 /\ c(CollisionRate(p)) \in Nat
    BY <1>9 DEF AtMost
  <2>2. d \in Nat /\ t \in Nat /\ a \in Nat /\ g \in Nat
    BY <1>8 DEF AtMost
  <2>3. CASE DOMAIN p.obs = {}
    BY <1>1, <1>9, <2>1, <2>3 DEF GraphTrust, AtLeastZero
  <2>4. CASE DOMAIN p.obs # {}
    <3>1. GraphTrust(p) = AtLeastZero(100 - t - a - d - c(CollisionRate(p)) - g)
      BY <2>4 DEF GraphTrust
    <3>2. GraphTrust(q) = AtLeastZero(100 - t - a - d - c(0) - g)
      BY <1>1, <1>6, <1>7, <1>8, <1>9, <2>4 DEF GraphTrust
    <3> HIDE DEF c, d, t, a, g
    <3> QED
      BY <2>1, <2>2, <3>1, <3>2 DEF AtLeastZero
  <2> QED
    BY <2>3, <2>4
<1>11. IrreversiblePermitted(q)
  BY <1>3, <1>6, <1>7, <1>10, KernelAssumption DEF IrreversiblePermitted, GraphUntrusted
<1>12. Classification(q) # "INDETERMINATE"
  <2>1. LocalFault(q)
    BY <1>4 DEF LocalFault, Breach, Hard, Warn, Band, ChannelLimits, Critical, Nominal
  <2> QED
    BY <2>1 DEF Classification
<1> QED
  BY <1>4, <1>11, <1>12, TripNeeds DEF q

=============================================================================
