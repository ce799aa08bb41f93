CONSTANTS
    Requests = {r1, r2}
    Handles = {h1}
    MaxRetries = 1
    MaxCancels = 1
    Nobody = Nobody
SPECIFICATION Spec
INVARIANT AnsweredForItself
CHECK_DEADLOCK FALSE
