------------------------------ MODULE MCDlLock ------------------------------
\* Instances of DlLock for TLC.
EXTENDS DlLock, TLC

CONSTANTS t1, t2, t3, a, b, k1

\* Destructors neither hook nor unhook.
TameDestructors == {"dtor"} \X {"hook", "unhook"}

\* Library a can be mapped twice, b can be opened twice.
Refs == [l \in Libs |-> IF l = b THEN 2 ELSE 1]
Loads == [l \in Libs |-> IF l = a THEN 2 ELSE 1]

Symm == Permutations(Threads)
=============================================================================
