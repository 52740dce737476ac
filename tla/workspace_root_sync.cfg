SPECIFICATION Spec
CONSTANTS
    Files = {"a", "b", "c"}
    Notes = {"n1", "n2", "n3", "n4"}
    Ids = {"i1", "i2", "i3"}
    None = "none"
    MaxLines = 4
    MaxLevel = 2
    RebuildFiles = 2
    MaxSaves = 1
    MaxRequests = 1
    MaxFaults = 0
    Links <- MCLinks
    Corpus <- MCCorpus
CHECK_DEADLOCK FALSE
PROPERTY
    RootSyncIsNotRefused
