CONSTANTS
    Inst <- OneName
    Pid = {p1, p2}
    Keep = {0, 1}
    Shadow <- NoShadow
    None = None
    Out = Out
    MaxTime = 1
    MaxRuns = 2
    MaxFaults = 0
SPECIFICATION Spec
PROPERTIES
    NoSilentOverwrite
CHECK_DEADLOCK FALSE
