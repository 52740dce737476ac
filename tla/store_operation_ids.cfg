SPECIFICATION Spec
CONSTANTS
    Refreshers = {r1}
    Readers = {}
    Contents = {c1}
    MaxOperation = 2
    MaxFaults = 1
    None = None
    Corrupt = Corrupt
PROPERTY
    ConflictMeansActiveMoved
