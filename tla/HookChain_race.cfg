\* Three tasks on three slots, one of them for all tasks; one thread, calls two deep.
CONSTANTS
    h1 = h1
    h2 = h2
    h3 = h3
    o1 = o1
    o2 = o2
    f1 = f1
    f2 = f2
    k1 = k1
    k2 = k2
    k3 = k3
    App = App
    Threads = {t1}
    Hooks = {h1, h2, h3}
    Origs = {o1, o2}
    Funcs = {f1, f2}
    Tasks = {k1, k2, k3}
    OrigOf <- RaceOrigOf
    FuncOf <- TwoProxies
    Match <- Filters
    FrameMax = 2
    Rehook = FALSE
    MaxDepth = 2
SPECIFICATION Spec
INVARIANTS
    TypeOK
    OldNodesOver
    NoProxyTwice
    NoHookSkipped
    FramesMatchCalls
    NoReentry
\* Tasks are finite: once all are unhooked nothing is left to do.
CHECK_DEADLOCK FALSE
