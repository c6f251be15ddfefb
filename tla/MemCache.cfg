SPECIFICATION FairSpec
CONSTANTS
    a1 = a1
    a2 = a2
    b1 = b1
    Null = Null
    Wild = Wild
    Addrs <- MCAddrs
    Buckets <- MCBuckets
    Hash <- MCHash
    Size = 4
    Width = 8
    LateMax = 2
INVARIANTS
    NodesAccounted
PROPERTIES
    ImplementsBag
    WalkEnds
CHECK_DEADLOCK FALSE
