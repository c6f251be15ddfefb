\* Three threads, two libraries, calls that nest.
SPECIFICATION Spec
CONSTANTS
    t1 = t1  t2 = t2  t3 = t3  a = a  b = b  k1 = k1
    None = None
    Threads = {t1, t2, t3}
    Libs = {a, b}
    Initial = {a}
    Tasks = {k1}
    Barred <- TameDestructors
    Nested = 3
    MaxCalls = 4
    MaxRefs <- Refs
    MaxLoads <- Loads
SYMMETRY Symm
INVARIANTS
    StuckByRisk
    CleanAlone
    ElfsMapped
    HookedEverywhere
CHECK_DEADLOCK FALSE
