CONSTANTS
    Name <- OneName
    Task = {t1}
    None = None
    Offered = {"clone", "destroy"}
    MaxOps = 1
    MaxFaults = 1
    MaxQueue = 2
SPECIFICATION FairSpec
PROPERTIES
    QuitExits
