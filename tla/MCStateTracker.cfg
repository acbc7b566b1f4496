SPECIFICATION Spec
CONSTANTS
    Absent = Absent
    Keys = {k1}
    Deliveries = {d1, d2, d3}
    ReAlert = 1
    Idle = 2
    OpTimeout = 1
    Skew = 1
    MaxTime = 6
CHECK_DEADLOCK FALSE
INVARIANTS
    TypeOK
    UndoExact
    HeldChannelPresent
PROPERTY
    RollbackKeepsOthers
