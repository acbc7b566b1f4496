SPECIFICATION Spec
CONSTANTS
    w1 = w1
    w2 = w2
    h1 = h1
    NoPlan = NoPlan
    Unsupported = Unsupported
    Workers = {w1}
    Callers = {}
    Last = 1
    Logs <- OneRecord
    Actions <- SomeActions
    Plans <- SoundPlans
    MaxCommands = 2
    MaxAttempts = 2
    Faulty = {"put", "publish"}
    MaxUpsets = 2
CHECK_DEADLOCK FALSE
INVARIANT
    OnePlan
