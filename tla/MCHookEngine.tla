---------------------------- MODULE MCHookEngine ----------------------------
(***************************************************************************)
(* Instances of HookEngine for TLC.  Task k1 is for all libraries, k2 a    *)
(* single one for library l2.                                              *)
(***************************************************************************)
EXTENDS HookEngine, TLC

CONSTANTS k1, k2, l1, l2

Handles == l1 :> 1 @@ l2 :> 2
Filters == k1 :> {l1, l2} @@ k2 :> {l2}
=============================================================================
