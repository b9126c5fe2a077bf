CONSTANTS
    Inst = {a, b}
    HourLen = 1
    DayLen = 4
    Hours <- EarlyAndLate
    Off = Off
    Never = Never
    None = None
    Long = 2
    MaxTime = 6
    MaxEvents = 0
SPECIFICATION Spec
PROPERTIES
    NoDayMissed
CHECK_DEADLOCK FALSE
