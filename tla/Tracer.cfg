SPECIFICATION LogFairSpec
CONSTANTS
    t1 = t1
    t2 = t2
    Threads <- MCThreads
    Sizes = {1, 2}
    FlushThreshold = 2
    StreamSize = 6
    FileMax = 2
INVARIANTS
    LinesSaved
PROPERTIES
    FlushGoesOn
CHECK_DEADLOCK FALSE
