----------------------------- MODULE MCAnalyzer -----------------------------
(***************************************************************************)
(* Instances of Analyzer for TLC.                                          *)
(***************************************************************************)
EXTENDS Analyzer

CONSTANTS t1, t2, a1, a2, f1, f2, f3, head

MCThreads == {t1, t2}
MCAddrs == {a1, a2}
Symmetry == Permutations(MCAddrs)

\* Two long frames with the same beginning, one short one.
MCFrames == {f1, f2, f3}
MCLong == {f1, f2}
MCFirstOf == f1 :> head @@ f2 :> head

\* Call sites that the fine chart keeps apart and the rough one does not.
MCSiteOf ==
    t1 :> [length |-> 1, prot |-> 1, flag |-> 2, stack |-> <<f3, f1>>] @@
    t2 :> [length |-> 2, prot |-> 1, flag |-> 2, stack |-> <<f2, f3>>]

\* Call sites that differ in their stacks only, by frames of ordinary length.
ShortSiteOf ==
    t1 :> [length |-> 1, prot |-> 1, flag |-> 2, stack |-> <<f3>>] @@
    t2 :> [length |-> 1, prot |-> 1, flag |-> 2, stack |-> <<f3, f3>>]
=============================================================================
