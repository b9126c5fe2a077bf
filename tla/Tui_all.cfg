CONSTANTS
    Name <- TwoNames
    Task = {t1, t2}
    None = None
    Offered = {"clone", "destroy"}
    MaxOps = 2
    MaxFaults = 1
    MaxQueue = 2
SPECIFICATION Spec
SYMMETRY TaskSymmetry
INVARIANTS
    TypeOK
    KeysMeanWhatIsShown
    SpinnerHasOp
