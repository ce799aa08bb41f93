CONSTANTS
    Requests = {1, 2}
    Workers = {w1, w2}
    MaxTiles = 2
    MaxCancels = 1
    None = None
    Calls = {1, 2, 3}
    Partitions = {p1, p2}
    MaxOffset = 2
    PartitionIds = {p1, p2}
    MaxVersion = 2
SPECIFICATION MCSpec
INVARIANTS Consistent PrefetchExact SubscriptionExact FetchOptionKept VersionKept
PROPERTIES Answered
CHECK_DEADLOCK FALSE
