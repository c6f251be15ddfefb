\* Two threads, two calls of initAndStart between them, on phones of all kinds.
SPECIFICATION FairSpec
CONSTANTS
    t1 = t1
    t2 = t2
    None = None
    NoElf = NoElf
    NoTable = NoTable
    Threads = {t1, t2}
    Phones <- MCPhones
    Modes = {1, 2, 4}
    InitMax = 2
INVARIANTS
    ReadyWhenUsed
    FaultsForwarded
    TasksOwned
    SymbolsRight
PROPERTIES
    InitEnds
\* After the last call has come back nothing is left to do.
CHECK_DEADLOCK FALSE
