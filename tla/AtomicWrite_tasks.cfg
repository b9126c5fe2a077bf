CONSTANTS
    Torn = Torn
    None = None
    Writer <- Writers
    Pid <- Writers
    PidOf <- TwoTasks
    Data = {d1, d2}
    Inode = {i1, i2, i3, i4}
SPECIFICATION Spec
INVARIANTS
    NeverTruncated
