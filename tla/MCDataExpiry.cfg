CONSTANTS
    k1 = k1
    k2 = k2
    v1 = v1
    v2 = v2
    v3 = v3
    Keys = {k1, k2}
    Values = {v1, v2, v3}
    Big = {v2}
    Prefixed <- Prefixes2
    Items <- SomeItems
    Never = 99
    MemorySize = 1
    MaxTime = 2
    None = None
    Protected <- OneProtected
    MaxDoubt = 2
    LruKeys = {l1, l2, l3, l4}
    Costs = {1, 2, 4}
    Limits = {0, 3, 5}
    End = End
    Answers <- SomeAnswers
    Given <- SomeGiven
    Large <- LargeBlobs
    UnsignedSize = 256
    Evicted = {"Catalog", "VersionResponse", "LayerVersions", "Partition"}
    LevelCount = 5
    Requests <- SomeRequests
    MaxDepth = 1
    Existing <- SomeExisting
    MaxFaults = 1
SPECIFICATION MCSpec
INVARIANT DefaultNeverExpires
CHECK_DEADLOCK FALSE
