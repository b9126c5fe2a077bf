CONSTANTS
    Name = {a}
    Refresher = {k1}
    None = None
    MaxChanges = 3
    MaxOps = 1
SPECIFICATION Spec
INVARIANTS
    TypeOK
PROPERTIES
    Converges
    AlarmSounds
