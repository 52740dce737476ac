SPECIFICATION Spec
CONSTANTS
    Queries = {blank, q1, q2}
    Blank = blank
    Dates = {d1, d2}
    None = None
    MaxRequests = 4
    MaxPages = 3
    MaxLinks = 3
SYMMETRY Symmetry
CHECK_DEADLOCK FALSE
INVARIANTS
    TypeOK
    ShownIsCurrent
    SessionsAreOwned
