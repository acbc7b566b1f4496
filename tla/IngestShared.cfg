SPECIFICATION Spec
CONSTANTS
    Absent = Absent
    c1 = c1
    c2 = c2
    p1 = p1
    w1 = w1
    w2 = w2
    q1 = q1
    ReAlert = 1
    Procs = {q1}
    Workers = {w1, w2}
    ProcOf <- OneProc
    Partitions = {p1}
    Channels = {c1, c2}
    Ungoverned = {c2}
    Logs <- MixedLogs
    MaxAttempts = 2
    FailOpen = TRUE
    Faulty = {"apply", "emit"}
    MaxFaults = 1
    MaxMoves = 1
    MaxCrashes = 0
    MaxShutdowns = 0
    SlowRejoin = TRUE
    MaxTime = 1
    Idle = 0
CHECK_DEADLOCK FALSE
INVARIANTS
    NoSilentLoss
    TwinComplete
