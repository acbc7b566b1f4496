---------------------------- MODULE MCGraphCRDT ----------------------------
(* Instances of GraphCRDT: a pair of assets with one dependency between    *)
(* them, and a single asset.                                               *)
EXTENDS GraphCRDT

CONSTANTS v1, v2, e1

NoEdges == {}
Pair == {v1, v2}
Single == {v1}
OneEdge == {e1}
AllPeers == [r \in Replicas |-> Replicas \ {r}]

EdgeEnds == [e \in Edges |-> Vertices]

=============================================================================
