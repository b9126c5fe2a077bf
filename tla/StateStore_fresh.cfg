CONSTANTS
    NoProc = NoProc
    NoFile = NoFile
    Torn = Torn
    Proc = {p1, p2}
    Inst <- Inst1
    Field <- Hours
    Value <- Value1
    Label <- Label1
    Last = "last"
    NoSnapshot = 0
    Jobs <- EveryJob
SPECIFICATION Spec
INVARIANTS
    AckedAlwaysDurable
