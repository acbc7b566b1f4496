SPECIFICATION Spec
CONSTANTS
    Absent = Absent
    c1 = c1
    c2 = c2
    p1 = p1
    w1 = w1
    w2 = w2
    q1 = q1
    ReAlert = 1
    Procs = {q1}
    Workers = {w1}
    ProcOf <- OneProc
    Partitions = {p1}
    Channels = {c1}
    Ungoverned = {}
    Logs <- OneChannelLogs
    MaxAttempts = 2
    FailOpen = TRUE
    Faulty = {"admit", "apply", "mark", "emit", "commit"}
    MaxFaults = 2
    MaxMoves = 0
    MaxCrashes = 1
    MaxShutdowns = 0
    SlowRejoin = TRUE
    MaxTime = 2
    Idle = 0
CHECK_DEADLOCK FALSE
INVARIANTS
    TypeOK
    TrackerMatchesAcked
    NoSilentLoss
    AlarmVisible
