CONSTANTS
    Drive = {1, 2}
    CanRead = FALSE
    None = None
    MaxCmds = 2
    MaxChanges = 0
    MaxFaults = 0
SPECIFICATION Spec
PROPERTIES
    UninstallIsClean
