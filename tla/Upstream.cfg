SPECIFICATION Spec
CONSTANTS
    r1 = r1
    g1 = g1
    shared = shared
    own = own
    Replicas = {r1, g1}
    Enterprise = {g1}
    Stores = {shared, own}
    StoreOf <- StoresOf
    Members = {1, 2, 3, 4}
    Window = 2
    Limit = 2
    FailOpen = FALSE
    Consumers = {k1}
    Clients = {h1}
    Deployments <- MCDeployments
    MaxConcurrency = 2
    PreflightAttempts = 2
    Margin = 100
    Cap = 2
    MaxTime = 4
    MaxFaults = 1
CHECK_DEADLOCK FALSE
INVARIANTS
    TypeOK
    QuotaHeld
    Paced
    FewStrays
    AgreementHolds
    StrictHolds
PROPERTIES
    Metered
    Settles
