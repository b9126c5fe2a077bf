CONSTANTS
    Drive = {1, 2}
    CanRead = FALSE
    None = None
    MaxCmds = 2
    MaxChanges = 2
    MaxFaults = 1
SPECIFICATION Spec
INVARIANTS
    RedIsRecent
    OkIsRecent
    TimerHasGrant
PROPERTIES
    FailureIsReported
