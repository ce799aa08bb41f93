CONSTANTS
    Requests = {r1}
    Workers = {w1, w2}
    MaxTiles = 1
    MaxCancels = 1
SPECIFICATION Spec
INVARIANT UserCalledOnce
CHECK_DEADLOCK FALSE
