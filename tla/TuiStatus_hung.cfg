CONSTANTS
    Name = {a}
    Refresher = {k1}
    None = None
    MaxChanges = 3
    MaxOps = 0
SPECIFICATION Spec
PROPERTIES
    HungIsMarked
