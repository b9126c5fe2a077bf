CONSTANTS
    NoProc = NoProc
    NoFile = NoFile
    Torn = Torn
    Proc = {p1, p2}
    Inst <- Inst1
    Field <- HoursAndLast
    Value <- Value2
    Label <- Label2
    Last = "last"
    NoSnapshot = 0
    Jobs <- EditJobs
SPECIFICATION Spec
INVARIANTS
    ClaimedSnapshotIsRecorded
PROPERTIES
    Linearizable
