\* Two tasks of one proxy may be there at once, as after a second init; two slots,
\* calls two deep, with room for one frame.
CONSTANTS
    h1 = h1
    h2 = h2
    h3 = h3
    o1 = o1
    o2 = o2
    f1 = f1
    f2 = f2
    k1 = k1
    k2 = k2
    k3 = k3
    App = App
    Threads = {t1}
    Hooks = {h1, h3}
    Origs = {o1, o2}
    Funcs = {f1, f2}
    Tasks = {k1, k2, k3}
    OrigOf <- AgainOrigOf
    FuncOf <- TwoProxies
    Match <- Filters
    FrameMax = 1
    Rehook = TRUE
    MaxDepth = 2
SPECIFICATION FairSpec
INVARIANTS
    OneEnabledPerFunc
PROPERTY WalkEnds
\* Tasks are finite: once all are unhooked nothing is left to do.
CHECK_DEADLOCK FALSE
