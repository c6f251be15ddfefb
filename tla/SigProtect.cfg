\* More threads than slots, so that slots change hands while threads wait.
CONSTANTS
    SIGSEGV = SIGSEGV
    SIGBUS = SIGBUS
    NoThread = NoThread
    Threads = {t1, t2, t3}
    Signums <- EngineSignums
    SlotMax = 2
SPECIFICATION FairSpec
INVARIANTS
    FaultsCaught
    SlotsBalanced
PROPERTY NoStall
