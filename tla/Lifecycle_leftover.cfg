CONSTANTS
    Name = {a, b}
    Port <- TwoPorts
    Proc = {p}
    None = None
    Empty = Empty
    Junk = Junk
    MaxCluster = 6
    Backups <- WithBackup
    Presets = {"small"}
    MaxCmds = 4
    MaxFaults = 0
SPECIFICATION Spec
INVARIANTS
    CreateStartsEmpty
CHECK_DEADLOCK FALSE
