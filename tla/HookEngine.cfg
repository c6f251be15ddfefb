\* Hooks, unhooks, dlopens and dlcloses of two threads, from before the first
\* hook on; no library is mapped twice.
CONSTANTS
    k1 = k1
    k2 = k2
    l1 = l1
    l2 = l2
    None = None
    Threads = {t1, t2}
    Libs = {l1, l2}
    Initial = {l1}
    Tasks = {k1, k2}
    Single = {k2}
    Match <- Filters
    Brittle = {l1}
    MaxRefs <- Handles
    MaxLoads = 1
    Reuse = FALSE
SPECIFICATION Spec
INVARIANTS
    ChainPatched
    UnhookComplete
    HookedEverywhere
    NoDeadlock
CHECK_DEADLOCK FALSE
