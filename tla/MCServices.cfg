CONSTANTS
    Callers = {c1, c2}
    Lifetimes = {2}
    Validities = {0, 1}
    MaxCalls = 2
    Calls = {a1, a2, a3}
    Programs <- SomePrograms
    Keys = {1, 2, 3}
    a1 = a1
    a2 = a2
    a3 = a3
    TokenCacheLimit = 2
    n1 = n1
    n2 = n2
    slot = slot
    MaxTime = 1
    None = None
    Requests = {r1, r2}
    Handles = {h1}
    MaxRetries = 1
    MaxCancels = 1
    Nobody = Nobody
    s1 = s1
    s2 = s2
    s3 = s3
    p1 = p1
    p2 = p2
SPECIFICATION MCSpec
INVARIANTS Consistent FreshOrNew CacheExact CancelStops AnsweredOnce CancelReported
PROPERTIES Answers
CHECK_DEADLOCK FALSE
