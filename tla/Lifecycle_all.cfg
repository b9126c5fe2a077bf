CONSTANTS
    Name = {a, b}
    Port <- TwoPorts
    Proc = {p, q}
    None = None
    Empty = Empty
    Junk = Junk
    MaxCluster = 6
    Backups <- Either
    Presets = {"small"}
    MaxCmds = 3
    MaxFaults = 2
SPECIFICATION ApartSpec
SYMMETRY Symmetry
INVARIANTS
    AgreesWithState
    FitsMemory
    Rotatable
    NoOrphan
    PortsUnique
    ConfsKept
    WalStaysHome
    StanzaFits
PROPERTIES
    InstancesKept
CHECK_DEADLOCK FALSE
