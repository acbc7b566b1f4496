---------------------------- MODULE GraphKernel ----------------------------
(***************************************************************************)
(* The deterministic topology kernel of the GraphRAG interceptor           *)
(* (graphrag_interceptor.py): channel bands, the resolution of the         *)
(* replicas' Lamport timelines, the walk up the dependency chain, and the  *)
(* priority and action derived from them.                                  *)
(*                                                                         *)
(* Bands are ranks.  Trust is in percent, a collision rate too; vibration  *)
(* is in tenths.  One physical and one integrity channel stand for the     *)
(* thirteen with limits, any other name for those without.                 *)
(***************************************************************************)
EXTENDS Integers, Sequences, FiniteSets

CONSTANTS MinTrust,   \* min_graph_trust_for_irreversible
          MaxStamp    \* bound: the largest Lamport stamp

ASSUME KernelAssumption == MinTrust \in 0..100 /\ MaxStamp \in Nat

Statuses == {"OPERATIONAL", "DEGRADED", "ALARM", "OFFLINE", "MAINTENANCE", "UNKNOWN"}
Faulted == {"DEGRADED", "ALARM", "OFFLINE"}
Actions == {"ISOLATE_VALVE", "EMERGENCY_SHUTDOWN", "DEGRADE_THROTTLE"}
Priorities == {"CRITICAL", "HIGH", "ROUTINE"}
Irreversible(action) == action = "EMERGENCY_SHUTDOWN"
Stamps == [add: 0..MaxStamp, rem: 0..MaxStamp]

-----------------------------------------------------------------------------
(* Engineering limits *)

ChannelLimits ==
    [vibration_index     |-> [warn |-> 45, critical |-> 70, hard |-> 95, physical |-> TRUE],
     crdt_collision_rate |-> [warn |-> 5, critical |-> 15, hard |-> 35, physical |-> FALSE]]

Nominal == 0
Warn == 1
Critical == 2
Hard == 3

\* A channel without limits is UNKNOWN, which ranks as NOMINAL.
Band(c, v) ==
    IF c \notin DOMAIN ChannelLimits THEN Nominal
    ELSE LET limit == ChannelLimits[c] IN
         CASE v >= limit.hard -> Hard
           [] v < limit.hard /\ v >= limit.critical -> Critical
           [] v < limit.critical /\ v >= limit.warn -> Warn
           [] OTHER -> Nominal

\* Without limits, a channel counts as physical.
Physical(c) == c \in DOMAIN ChannelLimits => ChannelLimits[c].physical

\* worst_band of the physical, or of the integrity, channels has at least this rank.
Breach(channels, physical, rank) ==
    \E c \in DOMAIN channels : Physical(c) = physical /\ Band(c, channels[c]) >= rank

-----------------------------------------------------------------------------
(* The payload *)

Health(p, n) == IF n \in DOMAIN p.health THEN p.health[n] ELSE "UNKNOWN"

KnownNodes(p) == {p.asset, p.parent} \cup {p.up[i] : i \in DOMAIN p.up} \cup p.down

\* Bound: stamps up to MaxStamp.  Duplicate edges are dropped on parsing.
Shaped(p) ==
    /\ p = [asset |-> p.asset, parent |-> p.parent, status |-> p.status, up |-> p.up,
            down |-> p.down, health |-> p.health, attributed |-> p.attributed,
            local |-> p.local, obs |-> p.obs]
    /\ p.status \in Statuses
    /\ DOMAIN p.local \subseteq STRING /\ \A c \in DOMAIN p.local : p.local[c] \in Nat
    /\ IsFiniteSet(DOMAIN p.obs) /\ p.obs \in [DOMAIN p.obs -> Stamps]
    /\ p.health \in [DOMAIN p.health -> Statuses]
    /\ p.attributed = [n \in DOMAIN p.attributed |-> p.attributed[n]]

\* EnrichedGraphPayload: at least one channel, and _cross_check_topology.
Valid(p) ==
    /\ DOMAIN p.local # {} \/ DOMAIN p.attributed # {}
    /\ p.asset \notin {p.up[i] : i \in DOMAIN p.up} \cup p.down
    /\ {p.up[i] : i \in DOMAIN p.up} \cap p.down = {}
    /\ DOMAIN p.health \subseteq KnownNodes(p)
    /\ DOMAIN p.attributed \subseteq KnownNodes(p)

-----------------------------------------------------------------------------
(* resolve_crdt_presence *)

LocalPresence(o) ==
    IF o.add = 0 /\ o.rem = 0 THEN "UNOBSERVED"
    ELSE IF o.add > o.rem THEN "LIVE" ELSE "TOMBSTONED"

Greatest(S) == CHOOSE n \in S : \A k \in S : k <= n
HighestAdd(obs) == Greatest({obs[r].add : r \in DOMAIN obs})
HighestRem(obs) == Greatest({obs[r].rem : r \in DOMAIN obs})

Contested(obs) ==
    /\ DOMAIN obs # {}
    /\ HighestAdd(obs) = HighestRem(obs) /\ HighestAdd(obs) > 0

HasLiveDownstream(p) == \E n \in p.down : Health(p, n) # "OFFLINE"

TieBreaker(p) ==
    IF ~Contested(p.obs) THEN "NOT_REQUIRED"
    ELSE IF HasLiveDownstream(p) THEN "ADD_WINS" ELSE "REMOVED_WINS"

Presence(p) ==
    IF DOMAIN p.obs = {} THEN "UNOBSERVED"
    ELSE IF Contested(p.obs)
         THEN IF HasLiveDownstream(p) THEN "LIVE" ELSE "TOMBSTONED"
         ELSE IF HighestAdd(p.obs) > HighestRem(p.obs) THEN "LIVE"
         ELSE IF HighestRem(p.obs) > HighestAdd(p.obs) THEN "TOMBSTONED"
         ELSE "UNOBSERVED"

Diverging(p) ==
    {r \in DOMAIN p.obs : LocalPresence(p.obs[r]) \notin {"UNOBSERVED", Presence(p)}}

AtMost(cap, n) == IF n < cap THEN n ELSE cap
AtLeastZero(n) == IF n < 0 THEN 0 ELSE n

CollisionRate(p) ==
    IF "crdt_collision_rate" \in DOMAIN p.local THEN p.local["crdt_collision_rate"] ELSE 0

TelemetryIsLive(p) == DOMAIN p.local # {}

\* The graph says retired, the asset still reports.
Ghost(p) == Presence(p) = "TOMBSTONED" /\ TelemetryIsLive(p)

GraphTrust(p) ==
    IF DOMAIN p.obs = {} THEN AtLeastZero(70 - AtMost(40, 2 * CollisionRate(p)))
    ELSE AtLeastZero(
           100 - (IF Contested(p.obs) THEN 25 ELSE 0)
               - (IF TieBreaker(p) = "ADD_WINS" THEN 10 ELSE 0)
               - AtMost(30, 10 * Cardinality(Diverging(p)))
               - AtMost(40, 2 * CollisionRate(p))
               - (IF Ghost(p) THEN 25 ELSE 0))

-----------------------------------------------------------------------------
(* analyse_topology *)

NodeIsFaulted(p, n) ==
    \/ Health(p, n) \in Faulted
    \/ n \in DOMAIN p.attributed /\ Breach(p.attributed[n], TRUE, Critical)

FaultedUpstream(p) == {i \in DOMAIN p.up : NodeIsFaulted(p, p.up[i])}

GraphUntrusted(p) == GraphTrust(p) < MinTrust

LocalFault(p) == Breach(p.local, TRUE, Warn)

Classification(p) ==
    IF FaultedUpstream(p) # {} THEN "INHERITED_CASCADE"
    ELSE IF LocalFault(p) THEN "LOCALIZED_COMPONENT"
    ELSE IF Breach(p.local, FALSE, Warn) \/ GraphUntrusted(p) THEN "INDETERMINATE"
    ELSE "NO_FAULT_DETECTED"

\* The chain is nearest first: the furthest faulted node is the origin.
Origin(p) == Greatest(FaultedUpstream(p))

RootCause(p) == IF FaultedUpstream(p) = {} THEN p.asset ELSE p.up[Origin(p)]

\* Origin first, the asset last.
CascadePath(p) ==
    IF FaultedUpstream(p) = {} THEN <<>>
    ELSE Append([k \in 1..Origin(p) |-> p.up[Origin(p) + 1 - k]], p.asset)

WideBlast(p) == Cardinality(p.down) >= 3

Priority(p) ==
    IF \/ Breach(p.local, TRUE, Hard)
       \/ /\ Breach(p.local, TRUE, Critical)
          /\ WideBlast(p) \/ p.status \in {"ALARM", "OFFLINE"}
    THEN "CRITICAL"
    ELSE IF \/ Breach(p.local, TRUE, Critical)
            \/ Classification(p) = "INHERITED_CASCADE" /\ LocalFault(p)
            \/ /\ LocalFault(p) \/ Classification(p) = "INDETERMINATE"
               /\ WideBlast(p)
    THEN "HIGH"
    ELSE "ROUTINE"

IrreversiblePermitted(p) ==
    ~GraphUntrusted(p) /\ Presence(p) # "UNOBSERVED" /\ ~Ghost(p)

\* Mutation: a wide blast radius trips the asset.
MutRecommendedAction(p) ==
    IF Classification(p) = "INDETERMINATE" \/ ~IrreversiblePermitted(p)
    THEN "DEGRADE_THROTTLE"
    ELSE IF Breach(p.local, TRUE, Hard) \/ WideBlast(p) THEN "EMERGENCY_SHUTDOWN"
    ELSE "ISOLATE_VALVE"

\* Mutation: an integrity channel at its critical limit trips the asset.
MutRecommendedOnIntegrity(p) ==
    IF Classification(p) = "INDETERMINATE" \/ ~IrreversiblePermitted(p)
    THEN "DEGRADE_THROTTLE"
    ELSE IF Breach(p.local, TRUE, Hard) \/ Breach(p.local, FALSE, Critical)
    THEN "EMERGENCY_SHUTDOWN"
    ELSE "ISOLATE_VALVE"

RecommendedAction(p) ==
    IF Classification(p) = "INDETERMINATE" \/ ~IrreversiblePermitted(p)
    THEN "DEGRADE_THROTTLE"
    ELSE IF Breach(p.local, TRUE, Hard) /\ Priority(p) = "CRITICAL"
    THEN "EMERGENCY_SHUTDOWN"
    ELSE IF /\ Classification(p) \in {"LOCALIZED_COMPONENT", "INHERITED_CASCADE"}
            /\ Priority(p) \in {"CRITICAL", "HIGH"}
    THEN "ISOLATE_VALVE"
    ELSE "DEGRADE_THROTTLE"

Trips(p) == Irreversible(RecommendedAction(p))

\* What the kernel hands to the agents and to the guardrails.
Analysis(p) ==
    [class |-> Classification(p), root |-> RootCause(p), cascade |-> CascadePath(p),
     trust |-> GraphTrust(p), permitted |-> IrreversiblePermitted(p),
     contested |-> Contested(p.obs), diverging |-> Diverging(p) # {},
     action |-> RecommendedAction(p), priority |-> Priority(p)]

-----------------------------------------------------------------------------
(* Properties *)

\* The payload without its integrity channels.
Trusting(p) ==
    [p EXCEPT !.local = [c \in {d \in DOMAIN p.local : Physical(d)} |-> p.local[c]]]

\* A tie of the highest stamps never trips the asset, although ADD_WINS alone
\* leaves the trust at the default threshold: the replica that holds the remove
\* always diverges, and a tombstoned leaf that still reports is a ghost.
TieNeverTrips(p) == Contested(p.obs) => ~Trips(p)

\* Comment at line 1212: "Blast radius raises priority, never irreversibility".
\* Whether the kernel recommends the trip does not depend on the downstream nodes,
\* whatever they do to the tie-breaker.  What a planner makes of the recommendation
\* is Planning's.
BlastNeverTrips(p, nodes) == \A D \in SUBSET nodes : Trips([p EXCEPT !.down = D]) = Trips(p)

\* ChannelLimit: "Integrity breaches must never, on their own, justify an
\* irreversible action": without them the asset would be tripped as well.
IntegrityNeverTrips(p) == Trips(p) => Trips(Trusting(p))

=============================================================================
