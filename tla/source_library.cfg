SPECIFICATION Spec
CONSTANTS
    Sources = {s1, s2}
    Configs = {c1, c2}
    Threads = {t1, t2}
    Asked <- MCAsked
    MaxStartup = 8
    MaxReloads = 1
    MaxGeneration = 1
    MaxRuns = 1
    Installed = {s1}
    Home = c1
    Selected = s1
    Offered <- MCOffered
    None = None
SYMMETRY Symmetry
CHECK_DEADLOCK FALSE
INVARIANTS
    TypeOK
    ListedIsReadable
    WorkFollowsCatalog
PROPERTIES
    OutcomesMatchCatalog
    OnlyOverlappingSavesAreLost
