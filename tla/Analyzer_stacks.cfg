SPECIFICATION ChartSpec
CONSTANTS
    t1 = t1
    t2 = t2
    a1 = a1
    a2 = a2
    f1 = f1
    f2 = f2
    f3 = f3
    head = head
    Null = Null
    Cut = Cut
    Threads <- MCThreads
    Addrs <- MCAddrs
    Main = t1
    Modes = {{"heap"}}
    MaxOpen = 2
    SiteOf <- ShortSiteOf
    Frames <- MCFrames
    Long <- MCLong
    FirstOf <- MCFirstOf
    MaxBars = 2
    MaxTotal = 2
SYMMETRY Symmetry
INVARIANT ExactClusters
