SPECIFICATION SessionsSpec
CONSTANTS
    Refreshers = {r1}
    Readers = {q1}
    Contents = {c1}
    MaxOperation = 4
    MaxFaults = 0
    None = None
    Corrupt = Corrupt
INVARIANT
    SessionsRetainGenerations
