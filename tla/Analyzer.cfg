SPECIFICATION ChartSpec
CONSTANTS
    t1 = t1
    t2 = t2
    a1 = a1
    a2 = a2
    f1 = f1
    f2 = f2
    f3 = f3
    head = head
    Null = Null
    Cut = Cut
    Threads <- MCThreads
    Addrs <- MCAddrs
    Main = t1
    Modes = {{"heap"}, {"map"}}
    MaxOpen = 2
    SiteOf <- MCSiteOf
    Frames <- MCFrames
    Long <- MCLong
    FirstOf <- MCFirstOf
    MaxBars = 3
    MaxTotal = 1
SYMMETRY Symmetry
INVARIANTS
    FreesMatched
    LogAlternates
    LiveHeld
    BarsShowMemory
    LineEndsAtBars
    CutAllocsWhole
