CONSTANTS
    MaxOperations = 3
    Kinds <- SomeKinds
    Lookups = 2
    Statuses <- SomeStatuses
    Requests = {1, 2}
    f1 = f1
    f2 = f2
    MaxRequests = 1
    MaxFaults = 1
    None = None
    e1 = e1
    e2 = e2
    t1 = t1
    w1 = w1
    Nothing = Nothing
SPECIFICATION MCSpec
INVARIANTS Consistent PublishedOnce OneInitialiser OkMeansStored CancelAllReaches
PROPERTIES DisabledEnds ClientsAnswer
CHECK_DEADLOCK FALSE
