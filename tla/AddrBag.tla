------------------------------ MODULE AddrBag -------------------------------
(***************************************************************************)
(* What the tracer needs of an address cache: a bag of the addresses that  *)
(* this thread has allocated and not freed.  A free is recorded only if    *)
(* its address is in the bag.                                              *)
(*                                                                         *)
(* The cache has a fixed pool of nodes and a counter of fixed width, and   *)
(* notices neither end: from then on ('lost') nothing is promised.         *)
(***************************************************************************)
EXTENDS Naturals

CONSTANTS Addrs, Capacity, Width

VARIABLES
    bag,        \* how often each address is held
    held,       \* how many are held in all
    taken,      \* how many nodes have been taken from the pool so far
    unique,     \* no address is held twice
    answer,     \* what the last operation returned
    lost        \* the pool was asked for more than it has

vars == <<bag, held, taken, unique, answer, lost>>

Init ==
    /\ bag = [a \in Addrs |-> 0]
    /\ held = 0
    /\ taken = 0
    /\ unique \in BOOLEAN
    /\ answer = FALSE
    /\ lost = FALSE

Insert(a) ==
    /\ ~lost
    /\ ~(unique /\ bag[a] > 0)
    /\ held < Capacity /\ taken < Width - 1
    /\ bag' = [bag EXCEPT ![a] = @ + 1]
    /\ held' = held + 1
    /\ taken' = taken + 1
    /\ answer' = TRUE
    /\ UNCHANGED <<unique, lost>>

Refuse(a) ==
    /\ ~lost
    /\ unique /\ bag[a] > 0
    /\ answer' = FALSE
    /\ UNCHANGED <<bag, held, taken, unique, lost>>

Remove(a) ==
    /\ ~lost
    /\ answer' = (bag[a] > 0)
    /\ bag' = [bag EXCEPT ![a] = IF @ > 0 THEN @ - 1 ELSE 0]
    /\ held' = IF bag[a] > 0 THEN held - 1 ELSE held
    /\ UNCHANGED <<taken, unique, lost>>

\* A node too many, or the one that brings the counter back to zero.
Lose ==
    /\ ~lost
    /\ held = Capacity \/ taken = Width - 1
    /\ lost' = TRUE
    /\ bag' = [a \in Addrs |-> 0] /\ held' = 0 /\ taken' = 0
    /\ answer' \in BOOLEAN
    /\ UNCHANGED unique

Unspecified ==
    /\ lost
    /\ answer' \in BOOLEAN
    /\ UNCHANGED <<bag, held, taken, unique, lost>>

Next ==
    \/ \E a \in Addrs : Insert(a) \/ Refuse(a) \/ Remove(a)
    \/ Lose
    \/ Unspecified

Spec == Init /\ [][Next]_vars
=============================================================================
