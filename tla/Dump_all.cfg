CONSTANTS
    Inst <- OneName
    Pid = {p1, p2}
    Keep = {1, 2}
    Shadow <- NoShadow
    None = None
    Out = Out
    MaxTime = 2
    MaxRuns = 3
    MaxFaults = 1
SPECIFICATION Spec
SYMMETRY PidSymmetry
INVARIANTS
    AsDelivered
    FlushedSurvives
    PartialsExplained
    NewestIsKept
CHECK_DEADLOCK FALSE
