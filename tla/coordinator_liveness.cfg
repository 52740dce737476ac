SPECIFICATION FairSpec
CONSTANTS
    Requests = {r1, r2}
    Cancellers = {k1}
    Sources = {s1}
    Imports = {i1, i2}
    Operations = {o1, o2}
    MaxConcurrent = 1
    None = None
CHECK_DEADLOCK FALSE
PROPERTY
    EveryCallReturns
