----------------------------- MODULE MCPlanning -----------------------------
(* Events for TLC.  Around asset "a": up to three nodes either side, two     *)
(* replicas, one reading for the trigger and one in the snapshot.            *)
EXTENDS Planning, TLC

Empty == <<>>
None == [channel |-> "", value |-> 0]
Vibration(v) == [channel |-> "vibration_index", value |-> v]
Replica(add, rem) == [add |-> add, rem |-> rem]
TwoReplicas(o, p) == [r1 |-> o, r2 |-> p]

Calm ==
    [asset |-> "a", parent |-> "sys", transition |-> "RAISED", severity |-> "HIGH",
     thermal |-> FALSE, degraded |-> FALSE, safety |-> FALSE, enterprise |-> TRUE,
     stub |-> FALSE, routed |-> TRUE, cloud |-> FALSE, native |-> FALSE,
     upstream |-> <<"u1", "u2">>, downstream |-> <<"d1">>,
     readings |-> Empty, trigger |-> Vibration(50),
     obs |-> TwoReplicas(Replica(1, 0), Replica(1, 0)), health |-> Empty, attributed |-> Empty]

\* The stub and the AI interceptor.
Offline ==
    {[Calm EXCEPT !.transition = k, !.severity = s, !.thermal = t, !.degraded = d,
                  !.safety = c, !.enterprise = e, !.stub = b, !.routed = FALSE] :
        k \in {"RAISED", "CLEARED"}, s \in {"INFO", "HIGH", "CRITICAL"},
        t \in BOOLEAN, d \in BOOLEAN, c \in BOOLEAN, e \in BOOLEAN, b \in BOOLEAN}

Timelines ==
    {TwoReplicas(Replica(i, j), Replica(k, l)) :
        i, j, k, l \in 0..MaxStamp} \cup {Empty}

\* The replicas are alike: one order of each pair will do.
Ordered(o) == o = Empty \/ 3 * o.r1.add + o.r1.rem >= 3 * o.r2.add + o.r2.rem

\* Every pair of timelines on an asset past its hard limit.
Ties ==
    {[Calm EXCEPT !.obs = o, !.trigger = Vibration(95), !.downstream = d] :
        o \in {t \in Timelines : Ordered(t)}, d \in {Empty, <<"d1">>}}

\* Bands, blast radius, integrity and status, on a converged graph.
Bands ==
    {[Calm EXCEPT !.trigger = t, !.downstream = d, !.severity = s, !.degraded = g,
                  !.readings = ("crdt_collision_rate" :> c)] :
        t \in {Vibration(v) : v \in {0, 45, 70, 95}},
        d \in {Empty, <<"d1", "d2", "d3">>}, s \in {"INFO", "HIGH"}, g \in {FALSE},
        c \in {0, 15, 35}}

\* Loops, duplicates and nodes that cannot be mapped; no channel; the trigger
\* against its copy in the snapshot.
Rough ==
    {[Calm EXCEPT !.upstream = <<"u1", "a", "d1", "u1">>, !.downstream = <<"d1", "?">>],
     [Calm EXCEPT !.native = TRUE, !.trigger = None],
     [Calm EXCEPT !.degraded = TRUE, !.obs = ("" :> Replica(1, 0)) @@ ("r1" :> Replica(1, 0))],
     [Calm EXCEPT !.readings = ("vibration_index" :> 95) @@ ("site_note" :> 7)]}

\* What only a native caller tells: a faulted neighbour, or a payload out of shape;
\* on a converged graph, and on a tie that a dead neighbour decides.
Neighbours ==
    {[Calm EXCEPT !.native = TRUE, !.trigger = Vibration(95), !.obs = o, !.health = h,
                  !.attributed = t] :
        o \in {TwoReplicas(Replica(1, 0), Replica(1, 0)),
               TwoReplicas(Replica(1, 1), Replica(1, 0))},
        h \in {Empty, "u2" :> "ALARM", "d1" :> "OFFLINE", "elsewhere" :> "ALARM"},
        t \in {Empty, "u1" :> ("vibration_index" :> 70), "u1" :> ("crdt_collision_rate" :> 35)}}

\* A live model behind the agents, on a trusted and on a contested graph.
Live ==
    {[Calm EXCEPT !.cloud = TRUE, !.trigger = Vibration(95), !.obs = o,
                  !.upstream = Empty, !.downstream = Empty] :
        o \in {TwoReplicas(Replica(1, 0), Replica(1, 0)),
               TwoReplicas(Replica(1, 1), Replica(1, 0))}}

MCEvents == Offline \cup Ties \cup Bands \cup Rough \cup Neighbours \cup Live

MCRetrievals == {{"BLR", "CRDT", "LOTO", "CLS"}, {"LOTO"}}

=============================================================================
