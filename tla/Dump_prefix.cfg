CONSTANTS
    Inst <- TwoNames
    Pid = {p1}
    Keep = {0, 1}
    Shadow <- Longer
    None = None
    Out = Out
    MaxTime = 1
    MaxRuns = 2
    MaxFaults = 0
SPECIFICATION Spec
PROPERTIES
    PrunesOwnOlder
CHECK_DEADLOCK FALSE
