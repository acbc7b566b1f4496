\* Two replicas that pull from each other.
CONSTANTS
    v1 = v1
    v2 = v2
    e1 = e1
    Replicas = {1, 2}
    Vertices <- Pair
    Edges <- OneEdge
    Ends <- EdgeEnds
    Peers <- AllPeers
    Payloads = {1, 2}
    MaxWrites = 2
    MaxOffers = 0
    MaxRestarts = 1
    Watermarks = {}
    InFlightCounts = TRUE
SPECIFICATION Spec
INVARIANTS
    TypeOK
    ClockDominates
    StateFromWrites
    StrongConvergence
PROPERTY
    EventuallyConverged
CHECK_DEADLOCK FALSE
