SPECIFICATION Spec
CONSTANTS
    Requests = {r1, r2, r3}
    Cancellers = {k1}
    Sources = {s1, s2, s3}
    Imports = {i1, i2}
    Operations = {o1, o2, o3}
    MaxConcurrent = 2
    None = None
CHECK_DEADLOCK FALSE
SYMMETRY Symmetry
INVARIANTS
    TypeOK
    RegistryIsSound
    CancelledNeverCommits
    AnswersFitRequests
PROPERTY
    StatusIsStable
