CONSTANTS
    Name = {a, b}
    Port <- TwoPorts
    Proc = {p}
    None = None
    Empty = Empty
    Junk = Junk
    MaxCluster = 6
    Backups <- WithBackup
    Presets = {"small"}
    MaxCmds = 3
    MaxFaults = 1
SPECIFICATION Spec
INVARIANTS
    ResizeAgrees
CHECK_DEADLOCK FALSE
