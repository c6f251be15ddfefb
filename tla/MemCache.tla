------------------------------ MODULE MemCache ------------------------------
(***************************************************************************)
(* The address cache of a traced thread: MemoryCache, a hash table of      *)
(* singly linked nodes, and AllocPool, which hands the nodes out.  A node  *)
(* is taken at 'tail', first from the array and from then on from the ring *)
(* 'index', and given back to the ring at 'head'; both are uint counters.  *)
(*                                                                         *)
(* A cache belongs to one thread, so its operations do not overlap; a walk *)
(* along a list is modelled step by step because it may never end.         *)
(***************************************************************************)
EXTENDS Naturals, FiniteSets

CONSTANTS
    Addrs,      \* addresses of memory blocks
    Buckets,    \* indices of alloc_table
    Hash,       \* (address >> ADDR_HASH_OFFSET) & 0xFFFF
    Size,       \* ALLOC_CACHE_SIZE
    Width,      \* 2^32: the number of values of a uint
    LateMax,    \* bound on the operations after 'lost'
    Null,
    Wild        \* a pointer that happened to be in the memory of 'index'

ASSUME HashType == Hash \in [Addrs -> Buckets]
ASSUME SizeType == Size \in Nat \ {0} /\ Width \in Nat /\ Width > Size /\ Width % Size = 0

Nodes == 0..(Size - 1)

ASSUME PointerType == Null \notin Nodes /\ Wild \notin Nodes /\ Null # Wild
ASSUME AddrType == Null \notin Addrs
ASSUME BoundType == LateMax \in Nat

VARIABLES
    tail, head, index,      \* AllocPool
    addr, next,             \* the nodes, AllocPool::cache
    table, allowRepeat,     \* MemoryCache
    pc,                     \* idle; scan: insert walks; walk: remove_alloc walks; dead
    arg, cur,               \* the address and the node of a walk
    answer,                 \* what the last operation returned
    lost,                   \* history: a node was asked for when all were in use,
                            \* or the counter came back to zero
    late                    \* history: how many operations began after that

pool == <<tail, head, index>>
nodes == <<addr, next>>
walk == <<arg, cur>>
vars == <<pool, nodes, table, allowRepeat, pc, walk, answer, lost, late>>

TypeOK ==
    /\ tail \in 0..(Width - 1) /\ head \in 0..(Width - 1)
    /\ index \in [Nodes -> Nodes \cup {Null, Wild}]
    /\ addr \in [Nodes -> Addrs \cup {Null}]
    /\ next \in [Nodes -> Nodes \cup {Null}]
    /\ table \in [Buckets -> Nodes \cup {Null}]
    /\ allowRepeat \in BOOLEAN
    /\ pc \in {"idle", "scan", "walk", "dead"}
    /\ arg \in Addrs \cup {Null}
    /\ cur \in Nodes \cup {Null} /\ (pc = "walk" => cur # Null)
    /\ answer \in BOOLEAN
    /\ lost \in BOOLEAN
    /\ late \in 0..LateMax

\* Neither the nodes nor the ring are initialised; the content of a node is never
\* read before it is written.
Init ==
    /\ tail = 0 /\ head = 0
    /\ index \in {[i \in Nodes |-> Null], [i \in Nodes |-> Wild]}
    /\ addr = [n \in Nodes |-> Null] /\ next = [n \in Nodes |-> Null]
    /\ table = [b \in Buckets |-> Null]
    /\ allowRepeat \in BOOLEAN
    /\ pc = "idle"
    /\ arg = Null /\ cur = Null
    /\ answer = FALSE
    /\ lost = FALSE /\ late = 0

-----------------------------------------------------------------------------
\* AllocPool::apply takes the node at 'tail'.
Applied == IF tail < Size THEN tail ELSE index[tail % Size]

Return(b) ==
    /\ answer' = b
    /\ pc' = "idle" /\ arg' = Null /\ cur' = Null

\* The new node becomes the first of its list, if there is one; a wild pointer is
\* written through.
Push(a) ==
    /\ tail' = (tail + 1) % Width
    /\ lost' = (lost \/ tail = head + Size \/ tail = Width - 1)
    /\ \/ /\ Applied \notin {Null, Wild}
          /\ addr' = [addr EXCEPT ![Applied] = a]
          /\ next' = [next EXCEPT ![Applied] = table[Hash[a]]]
          /\ table' = [table EXCEPT ![Hash[a]] = Applied]
          /\ Return(TRUE)
       \/ /\ Applied = Null
          /\ Return(FALSE)
          /\ UNCHANGED <<nodes, table>>
       \/ /\ Applied = Wild
          /\ pc' = "dead"
          /\ UNCHANGED <<nodes, table, walk, answer>>
    /\ UNCHANGED <<head, index, allowRepeat>>

\* AllocPool::recycle.
Recycle(n) ==
    /\ head' = (head + 1) % Width
    /\ index' = [index EXCEPT ![head % Size] = n]

-----------------------------------------------------------------------------
\* MemoryCache::insert without a walk: repeats are allowed, or the list is empty.
InsertFirst(a) ==
    /\ pc = "idle"
    /\ allowRepeat \/ table[Hash[a]] = Null
    /\ Push(a)

InsertScan(a) ==
    /\ pc = "idle"
    /\ ~allowRepeat /\ table[Hash[a]] # Null
    /\ pc' = "scan" /\ arg' = a /\ cur' = table[Hash[a]]
    /\ UNCHANGED <<pool, nodes, table, allowRepeat, answer, lost>>

ScanOn ==
    /\ pc = "scan" /\ cur # Null
    /\ addr[cur] # arg
    /\ cur' = next[cur]
    /\ UNCHANGED <<pool, nodes, table, allowRepeat, pc, arg, answer, lost>>

ScanHit ==
    /\ pc = "scan" /\ cur # Null
    /\ addr[cur] = arg
    /\ Return(FALSE)
    /\ UNCHANGED <<pool, nodes, table, allowRepeat, lost>>

ScanEnd ==
    /\ pc = "scan" /\ cur = Null
    /\ Push(arg)

\* MemoryCache::remove of an address whose list is empty.
RemoveNone(a) ==
    /\ pc = "idle"
    /\ table[Hash[a]] = Null
    /\ Return(FALSE)
    /\ UNCHANGED <<pool, nodes, table, allowRepeat, lost>>

\* The address is that of the first node.
RemoveFirst(a) ==
    LET n == table[Hash[a]]
    IN /\ pc = "idle"
       /\ n # Null /\ addr[n] = a
       /\ table' = [table EXCEPT ![Hash[a]] = next[n]]
       /\ Recycle(n)
       /\ Return(TRUE)
       /\ UNCHANGED <<tail, nodes, allowRepeat, lost>>

\* remove_alloc looks at the node after p, which 'cur' stands for.
RemoveWalk(a) ==
    /\ pc = "idle"
    /\ table[Hash[a]] # Null /\ addr[table[Hash[a]]] # a
    /\ pc' = "walk" /\ arg' = a /\ cur' = table[Hash[a]]
    /\ UNCHANGED <<pool, nodes, table, allowRepeat, answer, lost>>

\* Mutant of WalkOn: the last node is not looked at.
WalkOnTwo ==
    /\ pc = "walk"
    /\ next[cur] # Null /\ addr[next[cur]] # arg
    /\ cur' = IF next[next[cur]] # Null THEN next[next[cur]] ELSE next[cur]
    /\ UNCHANGED <<pool, nodes, table, allowRepeat, pc, arg, answer, lost>>

WalkOn ==
    /\ pc = "walk"
    /\ next[cur] # Null /\ addr[next[cur]] # arg
    /\ cur' = next[cur]
    /\ UNCHANGED <<pool, nodes, table, allowRepeat, pc, arg, answer, lost>>

\* Mutant of Unlink: the node is recycled and stays in its list.
UnlinkNothing ==
    /\ pc = "walk"
    /\ next[cur] # Null /\ addr[next[cur]] = arg
    /\ Recycle(next[cur])
    /\ Return(TRUE)
    /\ UNCHANGED <<tail, nodes, table, allowRepeat, lost>>

\* Mutant of Unlink: the node behind the removed one is linked to itself.
UnlinkLoop ==
    /\ pc = "walk"
    /\ next[cur] # Null /\ addr[next[cur]] = arg
    /\ next' = [next EXCEPT ![cur] = IF next[next[cur]] = Null THEN cur ELSE next[next[cur]]]
    /\ Recycle(next[cur])
    /\ Return(TRUE)
    /\ UNCHANGED <<tail, addr, table, allowRepeat, lost>>

Unlink ==
    /\ pc = "walk"
    /\ next[cur] # Null /\ addr[next[cur]] = arg
    /\ next' = [next EXCEPT ![cur] = next[next[cur]]]
    /\ Recycle(next[cur])
    /\ Return(TRUE)
    /\ UNCHANGED <<tail, addr, table, allowRepeat, lost>>

WalkEnd ==
    /\ pc = "walk"
    /\ next[cur] = Null
    /\ Return(FALSE)
    /\ UNCHANGED <<pool, nodes, table, allowRepeat, lost>>

\* The thread goes on inside of an operation.
Advance == ScanOn \/ ScanHit \/ ScanEnd \/ WalkOn \/ Unlink \/ WalkEnd

Next ==
    \/ \E a \in Addrs :
       /\ IF lost THEN late < LateMax /\ late' = late + 1 ELSE UNCHANGED late
       /\ \/ InsertFirst(a)
          \/ InsertScan(a)
          \/ RemoveNone(a)
          \/ RemoveFirst(a)
          \/ RemoveWalk(a)
    \/ Advance /\ UNCHANGED late

Spec == Init /\ [][Next]_vars

\* A thread inside of an operation goes on.
FairSpec == Spec /\ WF_vars(Advance /\ UNCHANGED late)

-----------------------------------------------------------------------------
(***************************************************************************)
(* Properties.                                                             *)
(***************************************************************************)

\* The nodes that a walk along the links nx from n comes to: what every set contains
\* that contains n and, with a node, the one it is linked to.
From(nx, n) ==
    {m \in Nodes : \A S \in SUBSET Nodes :
        {n} \ {Null} \subseteq S /\ (\A k \in S : nx[k] \in S \cup {Null}) => m \in S}

\* The nodes of the list of b.
ListOf(b) == From(next, table[b])

\* The nodes that apply would return next, up to the last one recycled.
FreeNodes == {n \in Nodes : n >= tail} \cup {index[(i - Size) % Size] :
                 i \in {j \in Size..(2 * Size + Width) : j >= tail /\ j < head + Size}}

\* Until the pool is asked for too much, every node is either free or in the list of
\* its address, in one only, and as many are out as the counters say: no sequence of
\* inserts and removes loses a node or hands out one that is still in a list.
NodesAccounted ==
    ~lost =>
        /\ \A n \in Nodes :
              Cardinality({b \in Buckets : n \in ListOf(b)}) = IF n \in FreeNodes THEN 0 ELSE 1
        /\ \A b \in Buckets : \A n \in ListOf(b) : Hash[addr[n]] = b
        /\ tail = head + Cardinality(UNION {ListOf(b) : b \in Buckets})

\* The cache is the bag of addresses that the tracer takes it for: each remove says
\* whether the address was held, and takes out one of it.
Bag == INSTANCE AddrBag WITH
    Capacity <- Size,
    bag <- [a \in Addrs |->
               IF lost THEN 0 ELSE Cardinality({n \in ListOf(Hash[a]) : addr[n] = a})],
    held <- IF lost THEN 0 ELSE tail - head,
    taken <- IF lost THEN 0 ELSE tail,
    unique <- ~allowRepeat
ImplementsBag == Bag!Spec

\* A walk along a list ends, so the malloc or free that it is part of returns.
WalkEnds == (pc \in {"scan", "walk"}) ~> (pc = "idle" \/ lost)
=============================================================================
