\* Two tasks by name, and one that names its callee, in ELFs of all layouts.
CONSTANTS
    a = a
    b = b
    c = c
    k1 = k1
    k2 = k2
    k3 = k3
    x1 = x1
    x2 = x2
    x3 = x3
    x4 = x4
    None = None
    NoName = NoName
    Outside = Outside
    Names = {a, b, c}
    SysvHash <- Sysv
    GnuHash <- Gnu
    Buckets = 2
    BloomBits = 8
    BloomShift = 2
    Width = 16
    LP64 = TRUE
    Threads = {t1, t2}
    Tasks = {k1, k2, k3}
    SymName <- TaskSyms
    Callee = {k3}
    Visible = {k1}
    Images <- AllImages
    Exporter <- Provider
    Crowded <- FewImages
    SName <- AddrNames
    Manual = {TRUE, FALSE}
    CfiLock = TRUE
    Cap = 4
SPECIFICATION Spec
INVARIANTS
    AllSlotsFound
    ProtectionKept
    UnhookRestores
    OkInAllSlots
    ToldBeforeReplaced
\* Tasks are finite: once all are unhooked nothing is left to do.
CHECK_DEADLOCK FALSE
