CONSTANTS
    Name = {a, b}
    Port <- TwoPorts
    Proc = {p}
    None = None
    Empty = Empty
    Junk = Junk
    MaxCluster = 6
    Backups <- WithBackup
    Presets = {"small"}
    MaxCmds = 2
    MaxFaults = 0
SPECIFICATION Spec
INVARIANTS
    CanBackUp
CHECK_DEADLOCK FALSE
