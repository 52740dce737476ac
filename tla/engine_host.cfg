SPECIFICATION FairSpec
CONSTANTS
    Calls = {c1, c2, c3}
    Closures = {x1, x2}
    Disposal = d
    Cancellers = {k1}
    Depth = 1
    MaxSessions = 2
    Stubborn = {c2}
    None = None
CHECK_DEADLOCK FALSE
INVARIANTS
    TypeOK
    DiscardedNeverBegin
    LaneStaysBounded
    OpenSessionsAreNative
    DisposalIsComplete
PROPERTIES
    EveryCallSettles
    DisposalEnds
