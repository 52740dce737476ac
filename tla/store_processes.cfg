SPECIFICATION Spec
CONSTANTS
    Refreshers = {r1, r2}
    Readers = {q1}
    Contents = {c1}
    MaxOperation = 2
    MaxFaults = 2
    None = None
    Corrupt = Corrupt
INVARIANTS
    TypeOK
    PointersNameGenerations
    LeasesPinGenerations
PROPERTIES
    ReadyStaysReady
    ActivationIsCompareAndSwap
    FallbackStaysUsable
    RecoveryBoundsStorage
    ImplementsReadyGeneration
