\* A library is mapped where another one, or itself, was hooked before.
CONSTANTS
    k1 = k1
    k2 = k2
    l1 = l1
    l2 = l2
    None = None
    Threads = {t1}
    Libs = {l1, l2}
    Initial = {l1}
    Tasks = {k1, k2}
    Single = {k2}
    Match <- Filters
    Brittle = {}
    MaxRefs <- Handles
    MaxLoads = 2
    Reuse = TRUE
SPECIFICATION Spec
INVARIANT ToldIsHooked
CHECK_DEADLOCK FALSE
