SPECIFICATION Spec
CONSTANTS
    w1 = w1
    w2 = w2
    h1 = h1
    NoPlan = NoPlan
    Unsupported = Unsupported
    Workers = {w1, w2}
    Callers = {h1}
    Last = 2
    Logs <- MixedLogs
    Actions <- SomeActions
    Plans <- SoundPlans
    MaxCommands = 2
    MaxAttempts = 2
    Faulty = {"poll", "call", "get", "infer", "put", "reply", "publish", "dlq", "commit"}
    MaxUpsets = 3
CHECK_DEADLOCK FALSE
INVARIANTS
    TypeOK
    NoSilentLoss
    OnePlanUnlessRaced
PROPERTY
    LoopCloses
