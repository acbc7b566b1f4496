CONSTANTS
    v1 = v1
    v2 = v2
    e1 = e1
    Replicas = {1, 2}
    Vertices <- Single
    Edges <- NoEdges
    Ends <- EdgeEnds
    Peers <- AllPeers
    Payloads = {1}
    MaxWrites = 3
    MaxOffers = 1
    MaxRestarts = 0
    Watermarks = {2, 3}
    InFlightCounts = TRUE
SPECIFICATION Spec
INVARIANT
    ViewFromWrites
CHECK_DEADLOCK FALSE
