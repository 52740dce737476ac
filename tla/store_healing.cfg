SPECIFICATION FairSpec
CONSTANTS
    Refreshers = {r1, r2}
    Readers = {}
    Contents = {c1}
    MaxOperation = 2
    MaxFaults = 2
    None = None
    Corrupt = Corrupt
PROPERTIES
    LockIsReleased
    StoreHeals
