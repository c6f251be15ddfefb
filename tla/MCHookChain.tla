---------------------------- MODULE MCHookChain ----------------------------
(***************************************************************************)
(* Instances of HookChain for TLC.                                         *)
(***************************************************************************)
EXTENDS HookChain, TLC

CONSTANTS h1, h2, h3, o1, o2, f1, f2, k1, k2, k3

\* Two proxies share the slot h1, and one of them has two tasks.
TwoProxies == k1 :> f1 @@ k2 :> f2 @@ k3 :> f1

\* The tasks of f1 are for the library of h1, that of f2 is for all.
Filters == [k \in Tasks |-> IF k = k2 THEN Hooks ELSE {h1}]

\* Two libraries import the original o1.
RaceOrigOf == h1 :> o1 @@ h2 :> o1 @@ h3 :> o2
AgainOrigOf == h1 :> o1 @@ h3 :> o2
=============================================================================
