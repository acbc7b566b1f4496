\* One delivery and one native caller, each asking twice.
SPECIFICATION Spec
CONSTANTS
    MinTrust = 65
    MaxStamp = 2
    Workers = {w1}
    Natives = {n1}
    Events <- MCEvents
    Retrievals <- MCRetrievals
    MaxSteps = 5
    MaxCommands = 3
    MaxAttempts = 2
    MaxAsked = 2
    MaxForgets = 1
INVARIANTS
    TypeOK
    NoTripOnTie
    BlastHeld
    IntegrityHeld
    TrustedOnly
    HandedOver
    AuthorisationSurvives
    CriticalReaches
    OneAnswer
PROPERTY Settled
\* The event has been handled, or the bounds are reached.
CHECK_DEADLOCK FALSE
