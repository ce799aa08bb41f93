CONSTANTS
    LevelCount = 5
    MaxDepth = 1
    MaxFaults = 0
    Requests <- LevelZero
    Existing = {}
SPECIFICATION Spec
PROPERTY WalkEnds
CHECK_DEADLOCK FALSE
