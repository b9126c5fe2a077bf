CONSTANTS
    Tick = {tick}
    Manual = {user}
    HourLen = 2
    DayLen = 6
    Week = 2
    FullDay = 1
    Hours = {0, 2}
    Off = Off
    Never = Never
    Free = Free
    Orphan = Orphan
    MaxTime = 8
    MaxEvents = 2
SPECIFICATION Spec
INVARIANTS
    DueAsDocumented
