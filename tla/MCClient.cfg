CONSTANTS
    Tasks = {t1, t2}
    NoCallback = {}
    NoTask = NoTask
    Users = {u1, u2}
    Workers = {w1}
    Threads = {u1, u2, w1}
    PoolWorkers = {v1, v2}
    PoolClients = {c1, c2}
    Items = {f1, f2, f3, f4}
    MaxAttempts = 3
    RetryTimeout = 5
    Periods = {1, 4}
    Retryable = {"serverError", "refused"}
SPECIFICATION MCSpec
INVARIANTS Consistent QuietAfterDestructor BlockingCallExact AsyncCancelExact
PROPERTIES NoneSendsAfterCancel ImplementsTaskQueue Progress
CHECK_DEADLOCK FALSE
