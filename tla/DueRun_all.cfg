CONSTANTS
    Inst = {a, b, c}
    HourLen = 1
    DayLen = 4
    Hours <- EarlyAndLate
    Off = Off
    Never = Never
    None = None
    Long = 1
    MaxTime = 5
    MaxEvents = 1
SPECIFICATION Spec
SYMMETRY Symmetry
INVARIANTS
    NoOvertaking
    WaitIsBounded
CHECK_DEADLOCK FALSE
