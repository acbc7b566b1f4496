SPECIFICATION Spec
CONSTANTS
    w1 = w1
    w2 = w2
    h1 = h1
    NoPlan = NoPlan
    Unsupported = Unsupported
    Workers = {w1}
    Callers = {}
    Last = 1
    Logs <- OneRecord
    Actions <- SomeActions
    Plans <- PoisonPlans
    MaxCommands = 2
    MaxAttempts = 2
    Faulty = {}
    MaxUpsets = 0
CHECK_DEADLOCK FALSE
PROPERTY
    LoopCloses
