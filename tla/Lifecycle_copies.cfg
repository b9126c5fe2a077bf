CONSTANTS
    Name = {a, b}
    Port <- TwoPorts
    Proc = {p, q}
    None = None
    Empty = Empty
    Junk = Junk
    MaxCluster = 6
    Backups <- WithBackup
    Presets = {"small"}
    MaxCmds = 3
    MaxFaults = 0
SPECIFICATION Spec
INVARIANTS
    WalStaysHome
CHECK_DEADLOCK FALSE
