SPECIFICATION Spec
CONSTANTS
    Absent = Absent
    c1 = c1
    c2 = c2
    p1 = p1
    w1 = w1
    w2 = w2
    q1 = q1
    ReAlert = 1
    Procs = {q1}
    Workers = {w1}
    ProcOf <- OneProc
    Partitions = {p1}
    Channels = {c1}
    Ungoverned = {}
    Logs <- PairLogs
    MaxAttempts = 2
    FailOpen = FALSE
    Faulty = {"admit", "apply", "mark", "emit", "release", "dlq", "commit"}
    MaxFaults = 2
    MaxMoves = 0
    MaxCrashes = 1
    MaxShutdowns = 1
    SlowRejoin = FALSE
    MaxTime = 2
    Idle = 0
CHECK_DEADLOCK FALSE
INVARIANT
    TrackerMatchesAcked
PROPERTY
    Drains
