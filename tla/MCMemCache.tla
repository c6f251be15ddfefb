----------------------------- MODULE MCMemCache -----------------------------
(***************************************************************************)
(* Two addresses that collide, and four nodes: nodes are taken out of the  *)
(* middle of the list, the ring is gone round, and so is the counter.      *)
(***************************************************************************)
EXTENDS MemCache

CONSTANTS a1, a2, b1

MCAddrs == {a1, a2}
MCBuckets == {b1}
MCHash == [a \in MCAddrs |-> b1]
=============================================================================
