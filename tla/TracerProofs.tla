----------------------------- MODULE TracerProofs -----------------------------
(***************************************************************************)
(* Proofs about what the tracer keeps: the log file (Tracer), for every set*)
(* of threads and of sizes of lines and every number of recordings, and the*)
(* address cache of a thread (MemCache), for every set of addresses, every *)
(* hash, and every size of the pool and width of its counters.             *)
(*                                                                         *)
(* That a file has all its lines when a recording has ended is not         *)
(* inductive: a proxy may have found the stream long before.  FileInv says *)
(* which streams a proxy can have found, and that none has bytes in its    *)
(* buffer but the one that is open.                                        *)
(*                                                                         *)
(* CacheInv says, for as long as the pool has not been asked for too much: *)
(* a list has no node twice, because no two nodes in use are linked to the *)
(* same one and none to a first one (ListInv); a node is in use, has never *)
(* been taken, or is in the part of the ring between the two counters      *)
(* (PoolInv); and a walk has what it looks for still before it (WalkInv).  *)
(***************************************************************************)
EXTENDS Tracer, MemCache, TLAPS, FiniteSetTheorems

(***************************************************************************)
(* The log file.                                                           *)
(***************************************************************************)

\* The streams so far, in the order of their creation; the last one is in use, or none.
StreamsInv ==
    /\ created \in Nat /\ closed \subseteq 1..created
    /\ dumpFile \in {None, created} /\ (dumpFile # None => dumpFile \in Files)
    /\ found \in [Threads -> Nat]
    /\ \A t \in Threads : found[t] \in {None, dumpFile} \cup closed

\* What each place in init and deInit knows of the stream in use.
MainInv ==
    /\ main \in MainPlaces
    /\ main = "off" => dumpFile = None
    /\ main = "flushed" => dumpFile # None
    /\ main = "fclosed" <=> dumpFile \in closed
    /\ created <= FileMax

FileInv ==
    /\ StreamsInv /\ MainInv
    /\ DOMAIN buffer = Files
    /\ \A f \in Files : buffer[f] # 0 => f = dumpFile /\ f \notin closed

-----------------------------------------------------------------------------
\* Files are numbered, so that the next one is another one.
LEMMA FilesAreNumbers == None \notin Files /\ Files \subseteq Nat /\ FileMax \in Nat
  BY NumbersType DEF Files, None

\* The invariant holds without a file.
LEMMA LogInitHolds == LogInit => FileInv
  BY FilesAreNumbers DEF LogInit, FileInv, StreamsInv, MainInv, MainPlaces, None

\* A proxy on its way: it writes to the stream that it found or that is in use, and
\* never to one that is closed.
LEMMA ProxyKeeps ==
    ASSUME FileInv, NEW t \in Threads, Enter(t) \/ WriteLine(t)
    PROVE  FileInv'
  <1> USE FilesAreNumbers
  <1>1. UNCHANGED <<dumpFile, closed, created, main>>
    BY DEF Enter, WriteLine, Check, Write, Count, Compare, Flush, Reset, file
  <1>2. MainInv'
    BY <1>1 DEF FileInv, MainInv
  <1>3. StreamsInv'
    <2>1. \/ found' = found
          \/ found' = [found EXCEPT ![t] = None]
          \/ found' = [found EXCEPT ![t] = dumpFile]
      BY DEF Enter, WriteLine, Check, Write, Count, Compare, Flush, Reset, Leave
    <2>2. None \in Nat /\ dumpFile \in Nat
      BY DEF FileInv, StreamsInv, None
    <2>3. found' \in [Threads -> Nat]
      BY <2>1, <2>2 DEF FileInv, StreamsInv
    <2>4. \A u \in Threads : found'[u] \in {None, dumpFile} \cup closed
      BY <2>1 DEF FileInv, StreamsInv
    <2>5. QED
      BY <1>1, <2>3, <2>4 DEF FileInv, StreamsInv
  <1>4. DOMAIN buffer' = Files /\ \A f \in Files : buffer'[f] # 0 => f = dumpFile /\ f \notin closed
    <2>1. CASE buffer' = buffer
      BY <2>1 DEF FileInv
    <2>2. ASSUME NEW n \in Sizes, Write(t, n)
          PROVE  DOMAIN buffer' = Files /\ \A f \in Files : buffer'[f] # 0 => f = dumpFile /\ f \notin closed
      <3>1. \/ buffer' = buffer
            \/ \E f \in {found[t], dumpFile} :
                  f # None /\ f \notin closed /\ buffer' = [buffer EXCEPT ![f] = Buffered(@ + n)]
        BY <2>2 DEF Write
      <3>2. ASSUME NEW f \in {found[t], dumpFile}, f # None, f \notin closed
            PROVE  f = dumpFile
        BY <3>2 DEF FileInv, StreamsInv
      <3>3. QED
        BY <3>1, <3>2 DEF FileInv
    <2>3. CASE Flush(t)
      BY <2>3 DEF Flush, FileInv
    <2>4. QED
      BY <2>1, <2>2, <2>3 DEF Enter, WriteLine, Check, Count, Compare, Reset, file
  <1>5. QED
    BY <1>1, <1>2, <1>3, <1>4 DEF FileInv

\* init, memFlush and deInit.
LEMMA ControlKeeps ==
    ASSUME FileInv, Control
    PROVE  FileInv'
  <1> USE FilesAreNumbers
  <1>1. StreamsInv /\ MainInv /\ DOMAIN buffer = Files
        /\ \A f \in Files : buffer[f] # 0 => f = dumpFile /\ f \notin closed
    BY DEF FileInv
  <1>2. CASE Create
    <2>1. created' = created + 1 /\ created' \in Files /\ created' \notin closed /\ closed' = closed
      BY <1>1, <1>2 DEF Create, StreamsInv, MainInv, Files
    <2>2. StreamsInv'
      <3>1. dumpFile = None /\ dumpFile' \in {None, created'} /\ found' = found
        BY <1>1, <1>2 DEF Create, MainInv, writers
      <3>2. closed' \subseteq 1..created' /\ created' \in Nat
        BY <1>1, <2>1 DEF StreamsInv
      <3>3. found' \in [Threads -> Nat] /\ \A t \in Threads : found'[t] \in {None, dumpFile'} \cup closed'
        BY <1>1, <2>1, <3>1 DEF StreamsInv
      <3>4. QED
        BY <2>1, <3>1, <3>2, <3>3 DEF StreamsInv
    <2>3. MainInv'
      BY <1>1, <1>2, <2>1 DEF Create, MainInv, MainPlaces, StreamsInv, None, Files
    <2>4. QED
      BY <1>1, <1>2, <2>1, <2>2, <2>3 DEF Create, FileInv, MainInv
  <1>3. CASE Hook \/ ClearHook
    BY <1>1, <1>3 DEF Hook, ClearHook, file, writers, FileInv, StreamsInv, MainInv, MainPlaces
  <1>4. CASE FlushToFile \/ Destroy
    BY <1>1, <1>4 DEF FlushToFile, Destroy, writers, FileInv, StreamsInv, MainInv, MainPlaces
  <1>5. CASE Close
    <2>1. dumpFile \in Files /\ dumpFile = created /\ closed' = closed \cup {dumpFile}
          /\ buffer' = [buffer EXCEPT ![dumpFile] = 0]
      BY <1>1, <1>5 DEF Close, StreamsInv, MainInv
    <2>2. closed' \subseteq 1..created
      BY <1>1, <2>1 DEF StreamsInv, Files
    <2>3. UNCHANGED <<dumpFile, created, found>>
      BY <1>5 DEF Close, writers
    <2>4. StreamsInv'
      BY <1>1, <2>1, <2>2, <2>3 DEF StreamsInv
    <2>5. MainInv'
      BY <1>1, <1>5, <2>1 DEF Close, MainInv, MainPlaces
    <2>6. QED
      BY <1>1, <1>5, <2>1, <2>4, <2>5 DEF Close, FileInv
  <1>6. CASE Clear
    BY <1>1, <1>6 DEF Clear, writers, FileInv, StreamsInv, MainInv, MainPlaces, None
  <1>7. QED
    BY <1>2, <1>3, <1>4, <1>5, <1>6 DEF Control

\* The inductive invariant of the log files, for every number of threads.
THEOREM FileInvariant == LogSpec => []FileInv
  <1>1. FileInv /\ [LogNext]_logVars => FileInv'
    <2>1. SUFFICES ASSUME FileInv, [LogNext]_logVars PROVE FileInv'
      OBVIOUS
    <2>2. CASE UNCHANGED logVars
      BY <2>1, <2>2 DEF logVars, file, writers, FileInv, StreamsInv, MainInv
    <2>3. CASE LogNext
      BY <2>1, <2>3, ProxyKeeps, ControlKeeps DEF LogNext
    <2>4. QED
      BY <2>1, <2>2, <2>3
  <1>2. QED
    BY <1>1, LogInitHolds, PTL DEF LogSpec

\* When a recording has ended, all that was written to its stream is in its file,
\* whatever proxies were still running when it was closed.
THEOREM Saved == LogSpec => []LinesSaved
  <1>1. FileInv => LinesSaved
    BY FilesAreNumbers DEF FileInv, MainInv, LinesSaved
  <1>2. QED
    BY <1>1, FileInvariant, PTL

-----------------------------------------------------------------------------
(***************************************************************************)
(* The address cache: its inductive invariant.                             *)
(***************************************************************************)

Used == UNION {ListOf(b) : b \in Buckets}

ListInv ==
    /\ \A b \in Buckets : \A n \in ListOf(b) : addr[n] \in Addrs /\ Hash[addr[n]] = b
    /\ \A j, k \in Used : next[j] = next[k] /\ next[j] # Null => j = k
    /\ \A b \in Buckets : \A k \in Used : next[k] = table[b] => table[b] = Null

\* How many nodes had been recycled when a node was that the pool still has.
Ring == {p \in Nat : p < head /\ tail <= p + Size}
Slot(p) == index[p % Size]

PoolInv ==
    /\ head <= tail /\ tail <= head + Size
    /\ \A n \in Used : n < tail
    /\ \A p \in Ring : Slot(p) \in Nodes /\ Slot(p) < tail /\ Slot(p) \notin Used
    /\ \A p, q \in Ring : Slot(p) = Slot(q) => p = q
    /\ \A n \in Nodes : n \in Used \/ n >= tail \/ \E p \in Ring : Slot(p) = n
    /\ IsFiniteSet(Used) /\ tail = head + Cardinality(Used)

WalkInv ==
    /\ pc # "dead"
    /\ pc = "scan" =>
          /\ ~allowRepeat
          /\ cur \in ListOf(Hash[arg]) \cup {Null}
          /\ \A n \in ListOf(Hash[arg]) : addr[n] = arg => n \in From(next, cur)
    /\ pc = "walk" =>
          /\ cur \in ListOf(Hash[arg])
          /\ \A n \in ListOf(Hash[arg]) : addr[n] = arg => n \in From(next, next[cur])

Types == TypeOK /\ (pc \in {"scan", "walk"} => arg \in Addrs)

CacheInv == Types /\ (~lost => ListInv /\ PoolInv /\ WalkInv)

-----------------------------------------------------------------------------
(***************************************************************************)
(* Remainders.                                                             *)
(***************************************************************************)

\* The quotient and the remainder.
LEMMA Division ==
    ASSUME NEW n \in Nat \ {0}, NEW p \in Nat
    PROVE  p = n * (p \div n) + (p % n) /\ p \div n \in Nat /\ p % n \in 0..(n - 1)
  OBVIOUS

\* They are the only ones.
LEMMA Remainder ==
    ASSUME NEW n \in Nat \ {0}, NEW p \in Nat, NEW q \in Nat, NEW r \in 0..(n - 1), p = n * q + r
    PROVE  p % n = r
  OBVIOUS

\* Once round the ring.
LEMMA RoundTheRing ==
    ASSUME NEW n \in Nat \ {0}, NEW p \in Nat
    PROVE  (p + n) % n = p % n
  <1> DEFINE a == p \div n
             r == p % n
  <1>1. p = n * a + r /\ a \in Nat /\ r \in 0..(n - 1)
    BY Division
  <1> HIDE DEF a, r
  <1>2. p + n = n * (a + 1) + r /\ p + n \in Nat /\ a + 1 \in Nat
    BY <1>1
  <1>3. (p + n) % n = r
    BY <1>1, <1>2, Remainder
  <1>4. QED
    BY <1>3 DEF r

\* Less than once round the ring.
LEMMA InOneRound ==
    ASSUME NEW n \in Nat \ {0}, NEW p \in Nat, NEW q \in Nat, p < q, q < p + n
    PROVE  p % n # q % n
  <1> DEFINE a == p \div n
             b == q \div n
  <1>1. p = n * a + (p % n) /\ a \in Nat /\ p % n \in 0..(n - 1)
    BY Division
  <1>2. q = n * b + (q % n) /\ b \in Nat /\ q % n \in 0..(n - 1)
    BY Division
  <1> HIDE DEF a, b
  <1>3. SUFFICES ASSUME p % n = q % n PROVE FALSE
    OBVIOUS
  <1>4. q - p = n * b - n * a
    BY <1>1, <1>2, <1>3
  <1>5. CASE b <= a
    <2>1. n * b <= n * a
      BY <1>1, <1>2, <1>5
    <2>2. QED
      BY <1>1, <1>2, <1>4, <2>1
  <1>6. CASE b >= a + 1
    <2>1. n * b >= n * (a + 1)
      BY <1>1, <1>2, <1>6
    <2>2. n * (a + 1) = n * a + n
      BY <1>1
    <2>3. QED
      BY <1>1, <1>2, <1>4, <2>1, <2>2
  <1>7. QED
    BY <1>1, <1>2, <1>5, <1>6

\* Constants.
LEMMA Numbers ==
    /\ Size \in Nat \ {0} /\ Width \in Nat /\ Width > Size
    /\ Nodes \subseteq Nat /\ \A n \in Nodes : n < Size
    /\ Null \notin Nodes /\ Wild \notin Nodes /\ Null # Wild
    /\ Null \notin Addrs /\ \A a \in Addrs : Hash[a] \in Buckets
  <1>1. Size \in Nat \ {0} /\ Width \in Nat /\ Width > Size
    BY SizeType
  <1>2. Nodes \subseteq Nat /\ \A n \in Nodes : n < Size
    BY <1>1 DEF Nodes
  <1>3. \A a \in Addrs : Hash[a] \in Buckets
    BY HashType
  <1>4. QED
    BY <1>1, <1>2, <1>3, PointerType, AddrType

-----------------------------------------------------------------------------
(***************************************************************************)
(* Lists.                                                                  *)
(***************************************************************************)

Links == [Nodes -> Nodes \cup {Null}]

\* From is the least of the sets that it is the intersection of.
LEMMA FromLeast ==
    ASSUME NEW nx \in Links, NEW n, NEW S \in SUBSET Nodes, n \in S \cup {Null},
           \A k \in S : nx[k] \in S \cup {Null}
    PROVE  From(nx, n) \subseteq S
  BY DEF From

\* It is one of them.
LEMMA FromCloses ==
    ASSUME NEW nx \in Links, NEW n \in Nodes \cup {Null}
    PROVE  /\ From(nx, n) \subseteq Nodes
           /\ n # Null => n \in From(nx, n)
           /\ \A k \in From(nx, n) : nx[k] \in From(nx, n) \cup {Null}
  <1>1. From(nx, n) \subseteq Nodes /\ (n # Null => n \in From(nx, n))
    BY DEF From
  <1>2. ASSUME NEW k \in From(nx, n), nx[k] # Null
        PROVE  nx[k] \in From(nx, n)
    <2>1. k \in Nodes /\ nx[k] \in Nodes
      BY <1>1, <1>2 DEF Links
    <2>2. ASSUME NEW S \in SUBSET Nodes, {n} \ {Null} \subseteq S, \A j \in S : nx[j] \in S \cup {Null}
          PROVE  nx[k] \in S
      <3>1. k \in S
        BY <2>2 DEF From
      <3>2. QED
        BY <1>2, <2>2, <3>1
    <2>3. QED
      BY <2>1, <2>2 DEF From
  <1>3. QED
    BY <1>1, <1>2

\* Nothing is behind the end.
LEMMA FromNull ==
    ASSUME NEW nx \in Links
    PROVE  From(nx, Null) = {}
  <1>1. {} \in SUBSET Nodes /\ Null \in {} \cup {Null} /\ \A k \in {} : nx[k] \in {} \cup {Null}
    OBVIOUS
  <1>2. From(nx, Null) \subseteq {}
    BY ZenonT(60), <1>1, FromLeast
  <1>3. QED
    BY <1>2

\* A list is its first node and the rest.
LEMMA FromStep ==
    ASSUME NEW nx \in Links, NEW n \in Nodes
    PROVE  From(nx, n) = {n} \cup From(nx, nx[n])
  <1> DEFINE R == From(nx, nx[n])
             S == {n} \cup R
  <1>1. nx[n] \in Nodes \cup {Null} /\ n # Null
    BY Numbers DEF Links
  <1>2. R \subseteq Nodes /\ (nx[n] # Null => nx[n] \in R) /\ \A k \in R : nx[k] \in R \cup {Null}
    BY <1>1, FromCloses
  <1>3. From(nx, n) \subseteq S
    <2> HIDE DEF R
    <2>1. S \in SUBSET Nodes /\ n \in S /\ \A k \in S : nx[k] \in S \cup {Null}
      BY <1>1, <1>2
    <2> HIDE DEF S
    <2>2. QED
      BY <2>1, FromLeast
  <1>4. From(nx, n) \subseteq Nodes /\ n \in From(nx, n) /\ \A k \in From(nx, n) : nx[k] \in From(nx, n) \cup {Null}
    BY <1>1, FromCloses
  <1>5. R \subseteq From(nx, n)
    BY <1>1, <1>4, FromLeast
  <1>6. QED
    BY <1>3, <1>4, <1>5

\* From a node of a list on there are nodes of the list.
LEMMA FromWithin ==
    ASSUME NEW nx \in Links, NEW n \in Nodes \cup {Null}, NEW k \in From(nx, n) \cup {Null}
    PROVE  From(nx, k) \subseteq From(nx, n)
  BY FromCloses, FromLeast

\* Links of other nodes do not matter.
LEMMA FromSame ==
    ASSUME NEW nx \in Links, NEW ny \in Links, NEW n \in Nodes \cup {Null},
           \A k \in From(nx, n) : ny[k] = nx[k]
    PROVE  From(ny, n) = From(nx, n)
  <1> DEFINE X == From(nx, n)
             Y == From(ny, n)
  <1>1. X \subseteq Nodes /\ (n # Null => n \in X) /\ \A k \in X : nx[k] \in X \cup {Null}
    BY FromCloses
  <1>2. Y \subseteq Nodes /\ (n # Null => n \in Y) /\ \A k \in Y : ny[k] \in Y \cup {Null}
    BY FromCloses
  <1>3. Y \subseteq X
    BY <1>1, FromLeast
  <1>4. X \subseteq X \cap Y
    <2> DEFINE Z == X \cap Y
    <2>1. Z \in SUBSET Nodes /\ n \in Z \cup {Null} /\ \A k \in Z : nx[k] \in Z \cup {Null}
      BY <1>1, <1>2
    <2> HIDE DEF Z
    <2>2. From(nx, n) \subseteq Z
      BY <2>1, FromLeast
    <2>3. QED
      BY <2>2 DEF Z
  <1>5. QED
    BY <1>3, <1>4

\* Every node but the first has another one before it.
LEMMA FromBefore ==
    ASSUME NEW nx \in Links, NEW n \in Nodes \cup {Null}, NEW m \in From(nx, n), m # n
    PROVE  \E k \in From(nx, n) : k # m /\ nx[k] = m
  <1> DEFINE X == From(nx, n)
  <1>1. X \subseteq Nodes /\ (n # Null => n \in X) /\ \A k \in X : nx[k] \in X \cup {Null}
    BY FromCloses
  <1>2. SUFFICES ASSUME \A k \in X : k # m => nx[k] # m
                 PROVE  FALSE
    OBVIOUS
  <1>3. X \ {m} \in SUBSET Nodes /\ n \in (X \ {m}) \cup {Null}
        /\ \A k \in X \ {m} : nx[k] \in (X \ {m}) \cup {Null}
    BY <1>1, <1>2
  <1>4. X \subseteq X \ {m}
    BY ZenonT(60), <1>3, FromLeast
  <1>5. QED
    BY <1>4

\* The lists as ListInv sees them.
LEMMA Lists ==
    ASSUME TypeOK, ListInv
    PROVE  /\ next \in Links /\ \A b \in Buckets : table[b] \in Nodes \cup {Null}
           /\ \A b \in Buckets : ListOf(b) \subseteq Used /\ ListOf(b) \subseteq Nodes
           /\ Used \subseteq Nodes
           /\ \A b \in Buckets : /\ table[b] # Null => table[b] \in ListOf(b)
                                 /\ \A k \in ListOf(b) : next[k] \in ListOf(b) \cup {Null}
           /\ \A b, c \in Buckets : \A n \in ListOf(b) : n \in ListOf(c) => b = c
  <1>1. next \in Links /\ \A b \in Buckets : table[b] \in Nodes \cup {Null}
    BY DEF TypeOK, Links
  <1>2. \A b \in Buckets : /\ ListOf(b) \subseteq Nodes
                           /\ table[b] # Null => table[b] \in ListOf(b)
                           /\ \A k \in ListOf(b) : next[k] \in ListOf(b) \cup {Null}
    BY <1>1, FromCloses DEF ListOf
  <1>3. \A b, c \in Buckets : \A n \in ListOf(b) : n \in ListOf(c) => b = c
    BY DEF ListInv
  <1>4. QED
    BY <1>1, <1>2, <1>3 DEF Used

\* Nodes in use are nodes.
LEMMA AllUsed ==
    ASSUME TypeOK
    PROVE  Used \subseteq Nodes
  BY DEF Used, ListOf, From

\* What a node more, put first, does to the lists.
LEMMA PushList ==
    ASSUME TypeOK, ListInv, NEW a \in Addrs, NEW n \in Nodes, n \notin Used,
           next' = [next EXCEPT ![n] = table[Hash[a]]],
           table' = [table EXCEPT ![Hash[a]] = n],
           addr' = [addr EXCEPT ![n] = a]
    PROVE  /\ ListOf(Hash[a])' = ListOf(Hash[a]) \cup {n}
           /\ \A c \in Buckets : c # Hash[a] => ListOf(c)' = ListOf(c)
           /\ Used' = Used \cup {n}
           /\ ListInv'
  <1> DEFINE b == Hash[a]
  <1>1. b \in Buckets /\ n # Null
    BY Numbers
  <1> HIDE DEF b
  <1>2. /\ next \in Links /\ addr \in [Nodes -> Addrs \cup {Null}]
        /\ table \in [Buckets -> Nodes \cup {Null}]
        /\ next' = [next EXCEPT ![n] = table[b]] /\ table' = [table EXCEPT ![b] = n]
    BY DEF TypeOK, Links, b
  <1>3. /\ next' \in Links /\ next'[n] = table[b]
        /\ \A k \in Nodes : k # n => next'[k] = next[k] /\ addr'[k] = addr[k]
        /\ addr'[n] = a
        /\ table'[b] = n /\ \A c \in Buckets : c # b => table'[c] = table[c]
    BY <1>1, <1>2 DEF Links
  <1>4. ASSUME NEW c \in Buckets PROVE From(next', table[c]) = ListOf(c)
    <2>1. \A k \in From(next, table[c]) : next'[k] = next[k]
      BY <1>3, Lists DEF ListOf
    <2>2. next \in Links /\ next' \in Links /\ table[c] \in Nodes \cup {Null}
      BY <1>2, <1>3
    <2>3. From(next', table[c]) = From(next, table[c])
      BY <2>1, <2>2, FromSame
    <2>4. QED
      BY <2>3 DEF ListOf
  <1>5. \A c \in Buckets : c # b => ListOf(c)' = ListOf(c)
    BY <1>3, <1>4 DEF ListOf
  <1>6. ListOf(b)' = ListOf(b) \cup {n}
    <2>1. ListOf(b)' = From(next', n)
      BY <1>3 DEF ListOf
    <2>2. From(next', n) = {n} \cup From(next', next'[n])
      <3>1. next' \in Links
        BY <1>3
      <3>2. QED
        BY <3>1, FromStep
    <2>3. QED
      BY ZenonT(60), <1>1, <1>3, <1>4, <2>1, <2>2
  <1>7. Used' = Used \cup {n}
    BY <1>1, <1>5, <1>6 DEF Used
  <1>8. ListInv'
    <2>1. ASSUME NEW c \in Buckets, NEW k \in ListOf(c)'
          PROVE  addr'[k] \in Addrs /\ Hash[addr'[k]] = c
      <3>1. CASE k = n
        <4>1. c = b
          BY <1>5, <2>1, <3>1, Lists
        <4>2. QED
          BY <1>3, <3>1, <4>1 DEF b
      <3>2. CASE k # n
        <4>1. k \in ListOf(c) /\ k \in Nodes
          BY <1>5, <1>6, <2>1, <3>2, Lists
        <4>2. QED
          BY <1>3, <3>2, <4>1 DEF ListInv
      <3>3. QED
        BY <3>1, <3>2
    <2>2. \A k \in Used : k # n /\ k \in Nodes /\ next'[k] = next[k] /\ next[k] # n
          /\ (next[k] = table[b] => table[b] = Null)
      <3>1. \A k \in Used : k # n /\ k \in Nodes /\ next[k] \in Used \cup {Null}
        BY Lists DEF Used
      <3>2. QED
        BY <1>1, <1>3, <3>1 DEF ListInv
    <2>3. ASSUME NEW j \in Used', NEW k \in Used', next'[j] = next'[k], next'[j] # Null
          PROVE  j = k
      BY <1>3, <1>7, <2>2, <2>3 DEF ListInv
    <2>4. table[b] # n
      BY <1>1, Lists
    <2>5. ASSUME NEW c \in Buckets, NEW k \in Used', next'[k] = table'[c]
          PROVE  table'[c] = Null
      <3>1. CASE c = b
        BY <1>3, <1>7, <2>2, <2>4, <2>5, <3>1
      <3>2. CASE c # b
        <4>1. CASE k = n
          <5>1. table[b] = table[c]
            BY <1>3, <2>5, <3>2, <4>1
          <5>2. table[c] = Null
            BY <1>1, <3>2, <5>1, Lists
          <5>3. QED
            BY <1>3, <3>2, <5>2
        <4>2. CASE k # n
          BY <1>3, <1>7, <2>2, <2>5, <3>2, <4>2 DEF ListInv
        <4>3. QED
          BY <4>1, <4>2
      <3>3. QED
        BY <3>1, <3>2
    <2>6. QED
      BY <2>1, <2>3, <2>5 DEF ListInv
  <1>9. QED
    BY <1>5, <1>6, <1>7, <1>8 DEF b

\* What is left when n is taken out of the list of b.
TakenOut(b, n) ==
    /\ n \in ListOf(b)
    /\ ListOf(b)' = ListOf(b) \ {n}
    /\ \A c \in Buckets : c # b => ListOf(c)' = ListOf(c)
    /\ Used' = Used \ {n}
    /\ ListInv'

\* It follows from what the lists are.
LEMMA UsedWithout ==
    ASSUME TypeOK, ListInv, NEW b \in Buckets, NEW n \in ListOf(b),
           ListOf(b)' = ListOf(b) \ {n}, \A c \in Buckets : c # b => ListOf(c)' = ListOf(c)
    PROVE  Used' = Used \ {n}
  <1>1. \A c \in Buckets : ListOf(c)' = ListOf(c) \ {n}
    BY Lists
  <1>2. QED
    BY <1>1 DEF Used

\* The first node of a list is taken out.
LEMMA FirstList ==
    ASSUME TypeOK, ListInv, NEW b \in Buckets, table[b] # Null,
           table' = [table EXCEPT ![b] = next[table[b]]], UNCHANGED nodes
    PROVE  TakenOut(b, table[b])
  <1> DEFINE n == table[b]
  <1>1. n \in Nodes /\ n \in ListOf(b) /\ n \in Used /\ next \in Links /\ next[n] \in Nodes \cup {Null}
    BY Lists DEF Links
  <1>2. ListOf(b) = {n} \cup From(next, next[n])
    BY <1>1, FromStep DEF ListOf
  <1>3. n \notin From(next, next[n])
    <2>1. SUFFICES ASSUME n \in From(next, next[n]) PROVE FALSE
      OBVIOUS
    <2>2. n # next[n]
      BY <1>1 DEF ListInv
    <2>3. \E k \in From(next, next[n]) : k # n /\ next[k] = n
      BY <1>1, <2>1, <2>2, FromBefore
    <2>4. \A k \in From(next, next[n]) : k \in Used
      BY <1>2, Lists
    <2>5. QED
      BY <2>3, <2>4 DEF ListInv
  <1>4. /\ next' = next /\ addr' = addr /\ table'[b] = next[n]
        /\ \A c \in Buckets : c # b => table'[c] = table[c]
    BY DEF nodes, TypeOK
  <1>5. ListOf(b)' = ListOf(b) \ {n}
    BY <1>2, <1>3, <1>4 DEF ListOf
  <1>6. \A c \in Buckets : c # b => ListOf(c)' = ListOf(c)
    BY <1>4 DEF ListOf
  <1>7. Used' = Used \ {n}
    BY <1>1, <1>5, <1>6, UsedWithout
  <1> HIDE DEF n
  <1>8. ListInv'
    <2>1. \A c \in Buckets : \A k \in ListOf(c)' : addr'[k] \in Addrs /\ Hash[addr'[k]] = c
      BY <1>4, <1>5, <1>6 DEF ListInv
    <2>2. \A j, k \in Used' : next'[j] = next'[k] /\ next'[j] # Null => j = k
      BY <1>4, <1>7 DEF ListInv
    <2>3. \A c \in Buckets : \A k \in Used' : next'[k] = table'[c] => table'[c] = Null
      BY <1>1, <1>4, <1>7 DEF ListInv
    <2>4. QED
      BY <2>1, <2>2, <2>3 DEF ListInv
  <1>9. QED
    BY <1>1, <1>5, <1>6, <1>7, <1>8 DEF TakenOut, n

\* A node in the middle of a list, or the last one, is taken out.
LEMMA UnlinkList ==
    ASSUME TypeOK, ListInv, NEW b \in Buckets, NEW p \in ListOf(b), next[p] # Null,
           next' = [next EXCEPT ![p] = next[next[p]]], UNCHANGED <<table, addr>>
    PROVE  TakenOut(b, next[p])
  <1> DEFINE n == next[p]
             X == ListOf(b)
             Y == From(next', table[b])
  <1>1. /\ n \in Nodes /\ p \in Nodes /\ n \in X /\ n \in Used /\ p \in Used /\ next \in Links
        /\ next[n] \in X \cup {Null} /\ table[b] \in X \cup {Null} /\ table[b] \in Nodes \cup {Null}
        /\ X \subseteq Nodes /\ X \subseteq Used
        /\ \A k \in X : next[k] \in X \cup {Null}
    BY Lists DEF Links
  <1> HIDE DEF n, X
  <1>2. /\ next' \in Links /\ next'[p] = next[n]
        /\ \A k \in Nodes : k # p => next'[k] = next[k]
    BY <1>1 DEF Links, n
  <1>3. /\ \A k \in X : next[k] = n => k = p
        /\ table[b] # n
    BY <1>1 DEF ListInv, n
  <1>4. next[n] # n
    <2>1. SUFFICES ASSUME next[n] = n PROVE FALSE
      OBVIOUS
    <2>2. \E k \in X : k # n /\ next[k] = n
      BY <1>1, <1>3, FromBefore DEF X, ListOf
    <2>3. QED
      BY <1>1, <1>3, <2>1, <2>2
  <1>5. Y \subseteq X \ {n}
    <2> DEFINE S == X \ {n}
    <2>1. S \in SUBSET Nodes /\ table[b] \in S \cup {Null} /\ \A k \in S : next'[k] \in S \cup {Null}
      BY <1>1, <1>2, <1>3, <1>4
    <2> HIDE DEF S
    <2>2. Y \subseteq S
      BY <1>2, <2>1, FromLeast
    <2>3. QED
      BY <2>2 DEF S
  <1>6. Y \subseteq Nodes /\ (table[b] # Null => table[b] \in Y) /\ \A k \in Y : next'[k] \in Y \cup {Null}
    BY <1>1, <1>2, FromCloses
  <1> HIDE DEF Y
  <1>7. p \in Y
    <2>1. SUFFICES ASSUME p \notin Y PROVE FALSE
      OBVIOUS
    <2>2. table[b] \in Y \cup {Null} /\ \A k \in Y : next[k] \in Y \cup {Null}
      BY <1>2, <1>6, <2>1
    <2>3. X \subseteq Y
      BY <1>1, <1>6, <2>2, FromLeast DEF X, ListOf
    <2>4. QED
      BY <2>1, <2>3 DEF X
  <1>8. X \subseteq Y \cup {n}
    <2> DEFINE S == Y \cup {n}
    <2>1. S \in SUBSET Nodes /\ table[b] \in S \cup {Null} /\ \A k \in S : next[k] \in S \cup {Null}
      <3>1. \A k \in Y : next[k] \in S \cup {Null}
        BY <1>2, <1>6 DEF n
      <3>2. next[n] \in S \cup {Null}
        BY <1>2, <1>6, <1>7
      <3>3. QED
        BY <1>1, <1>6, <3>1, <3>2
    <2> HIDE DEF S
    <2>2. X \subseteq S
      BY <1>1, <2>1, FromLeast DEF X, ListOf
    <2>3. QED
      BY <2>2 DEF S
  <1>9. ListOf(b)' = X \ {n}
    BY <1>5, <1>8 DEF ListOf, Y
  <1>10. ASSUME NEW c \in Buckets, c # b PROVE ListOf(c)' = ListOf(c)
    <2>1. \A k \in From(next, table[c]) : next'[k] = next[k]
      BY <1>2, <1>10, Lists DEF ListOf
    <2>2. table[c] \in Nodes \cup {Null}
      BY Lists
    <2>3. QED
      BY <1>1, <1>2, <2>1, <2>2, FromSame DEF ListOf
  <1>11. Used' = Used \ {n}
    BY <1>1, <1>9, <1>10, UsedWithout DEF X
  <1>12. ListInv'
    <2>1. \A c \in Buckets : \A k \in ListOf(c)' : addr'[k] \in Addrs /\ Hash[addr'[k]] = c
      BY <1>9, <1>10 DEF ListInv, X
    <2>2. \A k \in Used' : k \in Used /\ k # n /\ k \in Nodes
      BY <1>11, Lists
    <2>3. \A j, k \in Used' : next'[j] = next'[k] /\ next'[j] # Null => j = k
      BY <1>1, <1>2, <2>2 DEF ListInv
    <2>4. \A c \in Buckets : \A k \in Used' : next'[k] = table'[c] => table'[c] = Null
      BY <1>1, <1>2, <2>2 DEF ListInv
    <2>5. QED
      BY <2>1, <2>3, <2>4 DEF ListInv
  <1>13. QED
    BY <1>1, <1>9, <1>10, <1>11, <1>12 DEF TakenOut, n, X

-----------------------------------------------------------------------------
(***************************************************************************)
(* The pool.                                                               *)
(***************************************************************************)

\* The next node is one that was never taken, or the oldest in the ring.
LEMMA AppliedFree ==
    ASSUME TypeOK, PoolInv, tail # head + Size
    PROVE  /\ Applied \in Nodes /\ Applied \notin Used
           /\ \/ tail < Size /\ Applied = tail
              \/ tail >= Size /\ tail - Size \in Ring /\ Applied = Slot(tail - Size)
  <1>1. Size \in Nat \ {0} /\ tail \in Nat /\ head \in Nat /\ head <= tail /\ tail < head + Size
    BY Numbers DEF TypeOK, PoolInv
  <1>2. CASE tail < Size
    <2>1. Applied = tail /\ tail \in Nodes
      BY <1>1, <1>2 DEF Applied, Nodes
    <2>2. tail \notin Used
      BY <1>1 DEF PoolInv
    <2>3. QED
      BY <1>2, <2>1, <2>2
  <1>3. CASE tail >= Size
    <2> DEFINE p == tail - Size
    <2>1. p \in Nat /\ p + Size = tail /\ p < head /\ tail <= p + Size
      BY <1>1, <1>3
    <2> HIDE DEF p
    <2>2. p \in Ring
      BY <2>1 DEF Ring
    <2>3. tail % Size = p % Size
      BY <1>1, <2>1, RoundTheRing
    <2>4. Applied = Slot(p)
      BY <1>1, <1>3, <2>3 DEF Applied, Slot
    <2>5. Applied \in Nodes /\ Applied \notin Used
      BY <2>2, <2>4 DEF PoolInv
    <2>6. QED
      BY <1>3, <2>2, <2>4, <2>5 DEF p
  <1>4. QED
    BY <1>1, <1>2, <1>3

\* A node is taken from it.
LEMMA PushPool ==
    ASSUME TypeOK, PoolInv, tail # head + Size, tail' = tail + 1, UNCHANGED <<head, index>>,
           Used' = Used \cup {Applied}
    PROVE  PoolInv'
  <1> DEFINE n == Applied
  <1>1. /\ Size \in Nat \ {0} /\ tail \in Nat /\ head \in Nat /\ head <= tail /\ tail < head + Size
        /\ Nodes \subseteq Nat /\ \A m \in Nodes : m < Size
    BY Numbers DEF TypeOK, PoolInv
  <1>2. /\ n \in Nodes /\ n \notin Used
        /\ \/ tail < Size /\ n = tail
           \/ tail >= Size /\ tail - Size \in Ring /\ n = Slot(tail - Size)
    BY <1>1, AppliedFree
  <1> HIDE DEF n
  <1>3. /\ \A p \in Ring' : p \in Ring /\ p # tail - Size
        /\ \A p \in Ring : p \in Ring' \/ (p = tail - Size /\ tail >= Size)
        /\ \A p \in Nat : Slot(p)' = Slot(p)
    <2>1. \A p \in Nat : Slot(p)' = Slot(p)
      BY DEF Slot
    <2>2. \A p \in Ring' : p \in Ring /\ p # tail - Size
      BY <1>1 DEF Ring
    <2>3. \A p \in Ring : p \in Ring' \/ (p = tail - Size /\ tail >= Size)
      BY <1>1 DEF Ring
    <2>4. QED
      BY <2>1, <2>2, <2>3
  <1>4. \A m \in Used' : m < tail'
    <2>1. n < tail + 1
      BY <1>1, <1>2 DEF PoolInv
    <2>2. \A m \in Used : m < tail /\ m \in Nat
      BY <1>1, AllUsed DEF PoolInv
    <2>3. QED
      BY <1>1, <2>1, <2>2 DEF n
  <1>5. ASSUME NEW p \in Ring'
        PROVE  Slot(p)' \in Nodes /\ Slot(p)' < tail' /\ Slot(p)' \notin Used'
    <2>1. p \in Ring /\ p # tail - Size /\ Slot(p)' = Slot(p)
      BY <1>3 DEF Ring
    <2>2. Slot(p) \in Nodes /\ Slot(p) < tail /\ Slot(p) \notin Used
      BY <2>1 DEF PoolInv
    <2>3. Slot(p) # n
      BY <1>1, <1>2, <2>1, <2>2 DEF PoolInv
    <2>4. Slot(p) < tail + 1
      <3>1. Slot(p) \in Nat /\ Slot(p) < tail /\ tail \in Nat
        BY <1>1, <2>2
      <3>2. \A x \in Nat : x < tail => x < tail + 1
        BY <3>1
      <3>3. QED
        BY <3>1, <3>2
    <2>5. Slot(p) \notin Used \cup {n}
      BY <2>2, <2>3
    <2>6. QED
      BY <2>1, <2>2, <2>4, <2>5 DEF n
  <1>6. \A p, q \in Ring' : Slot(p)' = Slot(q)' => p = q
    <2>1. \A p \in Ring' : p \in Ring /\ Slot(p)' = Slot(p)
      BY <1>3 DEF Ring
    <2>2. QED
      BY <2>1 DEF PoolInv
  <1>7. ASSUME NEW m \in Nodes
        PROVE  m \in Used' \/ m >= tail' \/ \E p \in Ring' : Slot(p)' = m
    <2>1. CASE m \in Used \/ m = n
      BY <2>1 DEF n
    <2>2. CASE m >= tail /\ m # n
      <3>1. m # tail
        BY <1>1, <1>2, <2>2
      <3>2. QED
        BY <1>1, <2>2, <3>1
    <2>3. CASE m # n /\ \E p \in Ring : Slot(p) = m
      <3>1. PICK p \in Ring : Slot(p) = m
        BY <2>3
      <3>2. p \in Ring' /\ p \in Nat
        <4>1. p \in Nat /\ p # tail - Size
          BY <1>1, <1>2, <2>3, <3>1 DEF Ring
        <4>2. QED
          BY <1>3, <4>1
      <3>3. QED
        BY <1>3, <3>1, <3>2
    <2>4. QED
      BY <2>1, <2>2, <2>3 DEF PoolInv
  <1>8. IsFiniteSet(Used') /\ tail' = head' + Cardinality(Used')
    <2>1. IsFiniteSet(Used) /\ Cardinality(Used) \in Nat /\ tail = head + Cardinality(Used)
      BY FS_CardinalityType DEF PoolInv
    <2>2. IsFiniteSet(Used \cup {n}) /\ Cardinality(Used \cup {n}) = Cardinality(Used) + 1
      BY <1>2, <2>1, FS_AddElement
    <2>3. QED
      BY <1>1, <2>1, <2>2 DEF n
  <1>9. head' <= tail' /\ tail' <= head' + Size
    BY <1>1
  <1>10. QED
    BY <1>4, <1>5, <1>6, <1>7, <1>8, <1>9 DEF PoolInv

\* A node is given back to it.
LEMMA RecyclePool ==
    ASSUME TypeOK, PoolInv, NEW n \in Used, Recycle(n), UNCHANGED tail, Used' = Used \ {n}
    PROVE  head' = head + 1 /\ head < tail /\ PoolInv'
  <1>1. /\ Size \in Nat \ {0} /\ tail \in Nat /\ head \in Nat /\ tail < Width /\ Width \in Nat
        /\ head <= tail /\ tail <= head + Size
        /\ Nodes \subseteq Nat /\ \A m \in Nodes : m < Size
    BY Numbers DEF TypeOK, PoolInv
  <1>2. IsFiniteSet(Used) /\ Cardinality(Used) \in Nat /\ tail = head + Cardinality(Used)
    BY FS_CardinalityType DEF PoolInv
  <1>3. IsFiniteSet(Used') /\ Cardinality(Used') = Cardinality(Used) - 1 /\ Cardinality(Used') \in Nat
    <2>1. IsFiniteSet(Used \ {n}) /\ Cardinality(Used \ {n}) = Cardinality(Used) - 1
      BY <1>2, FS_RemoveElement
    <2>2. QED
      BY <2>1, FS_CardinalityType
  <1>4. head < tail
    BY <1>1, <1>2, <1>3
  <1>5. head' = head + 1
    <2>1. head + 1 \in 0..(Width - 1) /\ Width \in Nat \ {0}
      BY <1>1, <1>4
    <2>2. (head + 1) % Width = head + 1
      <3>1. head + 1 = Width * 0 + (head + 1) /\ head + 1 \in Nat /\ 0 \in Nat
        BY <1>1
      <3>2. QED
        BY <2>1, <3>1, Remainder
    <2>3. QED
      BY <2>2 DEF Recycle
  <1>6. /\ n \in Nodes /\ n < tail /\ Used \subseteq Nodes
        /\ index \in [Nodes -> Nodes \cup {Null, Wild}]
    BY AllUsed DEF TypeOK, PoolInv
  <1>7. \A p \in Ring : Slot(p)' = Slot(p)
    <2>1. SUFFICES ASSUME NEW p \in Ring PROVE Slot(p)' = Slot(p)
      OBVIOUS
    <2>2. p \in Nat /\ p < head /\ head < p + Size
      BY <1>1, <1>4 DEF Ring
    <2>3. p % Size # head % Size
      BY <1>1, <2>2, InOneRound
    <2>4. p % Size \in Nodes /\ head % Size \in Nodes
      BY <1>1, <2>2, Division DEF Nodes
    <2>5. QED
      BY <1>6, <2>3, <2>4 DEF Slot, Recycle
  <1>8. PICK h \in Nat : h = head /\ Slot(h)' = n
    <2>1. head % Size \in Nodes
      BY <1>1, Division DEF Nodes
    <2>2. index'[head % Size] = n
      BY <1>6, <2>1 DEF Recycle
    <2>3. \A h \in Nat : h = head => Slot(h)' = n
      BY <2>2 DEF Slot
    <2>4. QED
      BY <1>1, <2>3
  <1>9. Ring' = Ring \cup {h} /\ h \notin Ring
    BY <1>1, <1>5, <1>8 DEF Ring
  <1>10. ASSUME NEW p \in Ring'
         PROVE  Slot(p)' \in Nodes /\ Slot(p)' < tail' /\ Slot(p)' \notin Used'
    BY <1>6, <1>7, <1>8, <1>9 DEF PoolInv
  <1>11. ASSUME NEW p \in Ring', NEW q \in Ring', Slot(p)' = Slot(q)'
         PROVE  p = q
    <2>1. \A r \in Ring : Slot(r)' = Slot(r) /\ Slot(r)' # n
      BY <1>7 DEF PoolInv
    <2>2. QED
      BY <1>8, <1>9, <1>11, <2>1 DEF PoolInv
  <1>12. ASSUME NEW m \in Nodes
         PROVE  m \in Used' \/ m >= tail' \/ \E p \in Ring' : Slot(p)' = m
    <2>1. CASE m = n
      BY <1>8, <1>9, <2>1
    <2>2. CASE m # n
      <3>1. m \in Used \/ m >= tail \/ \E p \in Ring : Slot(p) = m
        BY DEF PoolInv
      <3>2. (\E p \in Ring : Slot(p) = m) => \E p \in Ring' : Slot(p)' = m
        BY <1>7, <1>9
      <3>3. QED
        BY <2>2, <3>1, <3>2
    <2>3. QED
      BY <2>1, <2>2
  <1>13. \A m \in Used' : m < tail'
    BY DEF PoolInv
  <1>14. head' <= tail' /\ tail' <= head' + Size /\ tail' = head' + Cardinality(Used')
    BY <1>1, <1>2, <1>3, <1>4, <1>5
  <1>15. QED
    BY <1>3, <1>4, <1>5, <1>10, <1>11, <1>12, <1>13, <1>14 DEF PoolInv

-----------------------------------------------------------------------------
(***************************************************************************)
(* The steps.                                                              *)
(***************************************************************************)

\* Before anything is inserted.
LEMMA CacheInitHolds == Init => CacheInv
  <1> SUFFICES ASSUME Init PROVE CacheInv
    OBVIOUS
  <1> USE Numbers
  <1>1. Types
    <2>1. 0 \in 0..(Width - 1) /\ 0 \in 0..LateMax
      BY BoundType
    <2>2. QED
      BY <2>1 DEF Init, Types, TypeOK
  <1>2. \A b \in Buckets : ListOf(b) = {}
    BY <1>1, FromNull DEF Init, ListOf, Types, TypeOK, Links
  <1>3. Used = {}
    BY <1>2 DEF Used
  <1>4. ListInv
    BY <1>2, <1>3 DEF ListInv
  <1>5. PoolInv
    <2>1. IsFiniteSet(Used) /\ Cardinality(Used) = 0
      BY <1>3, FS_EmptySet
    <2>2. Ring = {}
      BY DEF Ring, Init
    <2>3. QED
      BY <1>3, <2>1, <2>2 DEF PoolInv, Init
  <1>6. WalkInv
    BY DEF WalkInv, Init
  <1>7. QED
    BY <1>1, <1>4, <1>5, <1>6 DEF CacheInv

\* What the pool hands out while it is not asked for too much.
LEMMA PushDoes ==
    ASSUME CacheInv, NEW a \in Addrs, Push(a), ~lost'
    PROVE  /\ ~lost /\ tail < head + Size /\ tail < Width - 1
           /\ tail' = tail + 1 /\ head' = head
           /\ Applied \in Nodes /\ Applied \notin Used
           /\ addr' = [addr EXCEPT ![Applied] = a]
           /\ ListOf(Hash[a])' = ListOf(Hash[a]) \cup {Applied}
           /\ \A c \in Buckets : c # Hash[a] => ListOf(c)' = ListOf(c)
           /\ pc' = "idle" /\ answer' = TRUE
           /\ ListInv' /\ PoolInv'
  <1>1. /\ ~lost /\ tail # head + Size /\ tail # Width - 1 /\ UNCHANGED <<head, index>>
        /\ TypeOK /\ ListInv /\ PoolInv
    BY DEF Push, CacheInv, Types
  <1>2. /\ Size \in Nat \ {0} /\ tail \in Nat /\ head \in Nat /\ tail < Width - 1 /\ Width \in Nat
        /\ tail < head + Size
    BY <1>1, Numbers DEF TypeOK, PoolInv
  <1>3. tail' = tail + 1
    <2>1. tail + 1 = Width * 0 + (tail + 1) /\ tail + 1 \in 0..(Width - 1) /\ tail + 1 \in Nat
          /\ 0 \in Nat /\ Width \in Nat \ {0}
      BY <1>2
    <2>2. (tail + 1) % Width = tail + 1
      BY <2>1, Remainder
    <2>3. QED
      BY <2>2 DEF Push
  <1>4. Applied \in Nodes /\ Applied \notin Used
    BY <1>1, AppliedFree
  <1>5. /\ addr' = [addr EXCEPT ![Applied] = a]
        /\ next' = [next EXCEPT ![Applied] = table[Hash[a]]]
        /\ table' = [table EXCEPT ![Hash[a]] = Applied]
        /\ pc' = "idle" /\ answer' = TRUE
    BY <1>4, Numbers DEF Push, Return
  <1>6. /\ ListOf(Hash[a])' = ListOf(Hash[a]) \cup {Applied}
        /\ \A c \in Buckets : c # Hash[a] => ListOf(c)' = ListOf(c)
        /\ Used' = Used \cup {Applied}
        /\ ListInv'
    BY <1>1, <1>4, <1>5, PushList
  <1>7. PoolInv'
    BY <1>1, <1>3, <1>6, PushPool
  <1>8. QED
    BY <1>1, <1>2, <1>3, <1>4, <1>5, <1>6, <1>7

\* What a remove does that finds its address.
LEMMA RemoveDoes ==
    ASSUME CacheInv, ~lost, NEW b \in Buckets, NEW n, TakenOut(b, n), Recycle(n), UNCHANGED tail
    PROVE  head' = head + 1 /\ head < tail /\ ListInv' /\ PoolInv'
  <1>1. TypeOK /\ ListInv /\ PoolInv
    BY DEF CacheInv, Types
  <1>2. n \in Used /\ Used' = Used \ {n} /\ ListInv'
    BY DEF TakenOut, Used
  <1>3. QED
    BY <1>1, <1>2, RecyclePool

\* The types, step by step.
LEMMA PushTypes ==
    ASSUME Types, NEW a \in Addrs, Push(a), late' \in 0..LateMax
    PROVE  Types'
  <1>1. tail' \in 0..(Width - 1)
    BY Numbers, Division DEF Push, Types, TypeOK
  <1>2. \/ Applied \in Nodes
        \/ Applied \in {Null, Wild} /\ UNCHANGED nodes /\ UNCHANGED table
    <2>1. Applied \in Nodes \cup {Null, Wild}
      <3>1. CASE tail < Size
        BY <3>1, Numbers DEF Applied, Types, TypeOK, Nodes
      <3>2. CASE ~(tail < Size)
        <4>1. tail % Size \in Nodes
          <5>1. tail \in Nat /\ Size \in Nat \ {0}
            BY Numbers DEF Types, TypeOK
          <5>2. QED
            BY <5>1, Division DEF Nodes
        <4>2. QED
          BY <3>2, <4>1 DEF Applied, Types, TypeOK
      <3>3. QED
        BY <3>1, <3>2
    <2>2. QED
      BY <2>1, Numbers DEF Push
  <1>3. /\ addr' \in [Nodes -> Addrs \cup {Null}] /\ next' \in [Nodes -> Nodes \cup {Null}]
        /\ table' \in [Buckets -> Nodes \cup {Null}]
    <2>1. CASE UNCHANGED nodes /\ UNCHANGED table
      BY <2>1 DEF nodes, Types, TypeOK
    <2>2. CASE /\ addr' = [addr EXCEPT ![Applied] = a]
               /\ next' = [next EXCEPT ![Applied] = table[Hash[a]]]
               /\ table' = [table EXCEPT ![Hash[a]] = Applied] /\ Applied \in Nodes
      BY <2>2, Numbers DEF Types, TypeOK
    <2>3. QED
      BY <1>2, <2>1, <2>2 DEF Push
  <1>4. head' \in 0..(Width - 1) /\ index' \in [Nodes -> Nodes \cup {Null, Wild}]
        /\ allowRepeat' \in BOOLEAN
    BY DEF Push, Types, TypeOK
  <1>5. lost' \in BOOLEAN
    BY DEF Push, Types, TypeOK
  <1>6. /\ pc' \in {"idle", "dead"} /\ arg' \in Addrs \cup {Null} /\ cur' \in Nodes \cup {Null}
        /\ answer' \in BOOLEAN
    BY DEF Push, Return, walk, Types, TypeOK
  <1>7. QED
    BY <1>1, <1>3, <1>4, <1>5, <1>6 DEF Types, TypeOK

LEMMA RecycleTypes ==
    ASSUME TypeOK, NEW n \in Nodes, Recycle(n)
    PROVE  head' \in 0..(Width - 1) /\ index' \in [Nodes -> Nodes \cup {Null, Wild}]
  <1>1. head' \in 0..(Width - 1)
    BY Numbers, Division DEF Recycle, TypeOK
  <1>2. QED
    BY <1>1 DEF Recycle, TypeOK

\* What the lists and the pool say depends on nothing else.
LEMMA Quiet ==
    ASSUME UNCHANGED <<pool, nodes, table>>
    PROVE  /\ \A b \in Buckets : ListOf(b)' = ListOf(b)
           /\ Used' = Used /\ (ListInv => ListInv') /\ (PoolInv => PoolInv')
  <1>1. UNCHANGED <<tail, head, index, addr, next, table>>
    BY DEF pool, nodes
  <1>2. \A b : ListOf(b)' = ListOf(b)
    BY <1>1 DEF ListOf
  <1>3. Used' = Used
    BY <1>2 DEF Used
  <1>4. ListInv => ListInv'
    BY <1>1, <1>2, <1>3 DEF ListInv
  <1>5. Ring' = Ring /\ \A p \in Nat : Slot(p)' = Slot(p)
    BY <1>1 DEF Ring, Slot
  <1>6. Ring \subseteq Nat
    BY DEF Ring
  <1>7. PoolInv => PoolInv'
    BY <1>1, <1>3, <1>5, <1>6 DEF PoolInv
  <1>8. QED
    BY <1>2, <1>3, <1>4, <1>7

\* A node is inserted, after a walk or without one.
LEMMA PushKeeps ==
    ASSUME CacheInv, NEW a \in Addrs, Push(a), late' \in 0..LateMax
    PROVE  CacheInv'
  <1>1. Types'
    BY PushTypes DEF CacheInv
  <1>2. ASSUME ~lost' PROVE ListInv' /\ PoolInv' /\ WalkInv'
    BY <1>2, PushDoes DEF WalkInv
  <1>3. QED
    BY <1>1, <1>2 DEF CacheInv

\* An operation that does not change the lists begins, goes on or ends.
LEMMA LookKeeps ==
    ASSUME CacheInv, UNCHANGED <<pool, nodes, table, allowRepeat, lost>>, late' \in 0..LateMax,
           \/ pc' = "idle" /\ arg' = Null /\ cur' = Null
           \/ pc' \in {"scan", "walk"} /\ arg' \in Addrs /\ cur' \in Nodes \cup {Null}
              /\ (pc' = "walk" => cur' # Null),
           answer' \in BOOLEAN,
           ~lost => WalkInv'
    PROVE  CacheInv'
  <1>1. Types'
    BY DEF CacheInv, Types, TypeOK, pool, nodes
  <1>2. ~lost' => ListInv' /\ PoolInv' /\ WalkInv'
    BY Quiet DEF CacheInv
  <1>3. QED
    BY <1>1, <1>2 DEF CacheInv

\* A remove takes a node out, without a walk or after one.
LEMMA TakeKeeps ==
    ASSUME CacheInv, NEW b \in Buckets, NEW n \in Nodes, Recycle(n), UNCHANGED <<tail, allowRepeat, lost>>,
           ~lost => TakenOut(b, n),
           next' \in Links, table' \in [Buckets -> Nodes \cup {Null}], addr' = addr,
           Return(TRUE), late' \in 0..LateMax
    PROVE  CacheInv'
  <1>1. Types'
    <2>1. head' \in 0..(Width - 1) /\ index' \in [Nodes -> Nodes \cup {Null, Wild}]
      BY RecycleTypes DEF CacheInv, Types
    <2>2. QED
      BY <2>1 DEF CacheInv, Types, TypeOK, Return, Links
  <1>2. ~lost' => ListInv' /\ PoolInv'
    BY RemoveDoes
  <1>3. WalkInv'
    BY DEF WalkInv, Return
  <1>4. QED
    BY <1>1, <1>2, <1>3 DEF CacheInv

\* The first step of an operation.
LEMMA BeginKeeps ==
    ASSUME CacheInv, NEW a \in Addrs, late' \in 0..LateMax,
           InsertFirst(a) \/ InsertScan(a) \/ RemoveNone(a) \/ RemoveFirst(a) \/ RemoveWalk(a)
    PROVE  CacheInv'
  <1>1. Types /\ TypeOK /\ (~lost => ListInv /\ PoolInv /\ WalkInv)
    BY DEF CacheInv, Types
  <1> DEFINE b == Hash[a]
             n == table[b]
  <1>2. /\ b \in Buckets /\ n \in Nodes \cup {Null} /\ next \in Links
        /\ addr \in [Nodes -> Addrs \cup {Null}] /\ table \in [Buckets -> Nodes \cup {Null}]
    BY <1>1, Numbers DEF TypeOK, Links
  <1>3. CASE InsertFirst(a)
    BY <1>3, PushKeeps DEF InsertFirst
  <1>4. CASE InsertScan(a)
    <2>1. /\ n # Null /\ ~allowRepeat
          /\ pc' = "scan" /\ arg' = a /\ cur' = n
          /\ UNCHANGED <<pool, nodes, table, allowRepeat, answer, lost>>
      BY <1>4 DEF InsertScan
    <2>2. ~lost => WalkInv'
      <3>1. next' = next /\ addr' = addr /\ ListOf(b)' = ListOf(b) /\ ListOf(b) = From(next, n)
        BY <1>2, <2>1, Quiet DEF nodes, ListOf
      <3>2. ~lost => n \in ListOf(b)
        BY <1>1, <1>2, <2>1, Lists
      <3>3. QED
        BY <2>1, <3>1, <3>2 DEF WalkInv
    <2>3. answer' \in BOOLEAN
      BY <1>1, <2>1 DEF TypeOK
    <2>4. QED
      BY <1>2, <2>1, <2>2, <2>3, LookKeeps
  <1>5. CASE RemoveNone(a)
    <2>1. pc' = "idle" /\ arg' = Null /\ cur' = Null /\ answer' = FALSE
          /\ UNCHANGED <<pool, nodes, table, allowRepeat, lost>>
      BY <1>5 DEF RemoveNone, Return
    <2>2. WalkInv'
      BY <2>1 DEF WalkInv
    <2>3. QED
      BY <2>1, <2>2, LookKeeps
  <1>6. CASE RemoveFirst(a)
    <2>1. /\ n # Null /\ table' = [table EXCEPT ![b] = next[n]] /\ UNCHANGED nodes
          /\ Recycle(n) /\ Return(TRUE) /\ UNCHANGED <<tail, allowRepeat, lost>>
      BY <1>6 DEF RemoveFirst
    <2>2. ~lost => TakenOut(b, n)
      BY <1>1, <1>2, <2>1, FirstList
    <2>3. next' \in Links /\ addr' = addr /\ n \in Nodes
      BY <1>2, <2>1 DEF nodes
    <2>4. table' \in [Buckets -> Nodes \cup {Null}]
      BY <1>2, <2>1, <2>3 DEF Links
    <2>5. QED
      BY <1>2, <2>1, <2>2, <2>3, <2>4, TakeKeeps
  <1>7. CASE RemoveWalk(a)
    <2>1. /\ n # Null /\ addr[n] # a
          /\ pc' = "walk" /\ arg' = a /\ cur' = n
          /\ UNCHANGED <<pool, nodes, table, allowRepeat, answer, lost>>
      BY <1>7 DEF RemoveWalk
    <2>2. ~lost => WalkInv'
      <3>1. next' = next /\ addr' = addr /\ ListOf(b)' = ListOf(b) /\ ListOf(b) = {n} \cup From(next, next[n])
        <4>1. From(next, n) = {n} \cup From(next, next[n])
          BY <1>2, <2>1, FromStep
        <4>2. QED
          BY <1>2, <2>1, <4>1, Quiet DEF nodes, ListOf
      <3>2. QED
        BY <2>1, <3>1 DEF WalkInv
    <2>3. answer' \in BOOLEAN
      BY <1>1, <2>1 DEF TypeOK
    <2>4. QED
      BY <1>2, <2>1, <2>2, <2>3, LookKeeps
  <1>8. QED
    BY <1>3, <1>4, <1>5, <1>6, <1>7

\* The other steps of it.
LEMMA AdvanceKeeps ==
    ASSUME CacheInv, Advance, late' = late
    PROVE  CacheInv'
  <1>1. Types /\ TypeOK /\ (~lost => ListInv /\ PoolInv /\ WalkInv)
    BY DEF CacheInv, Types
  <1> DEFINE b == Hash[arg]
  <1>2. /\ pc \in {"scan", "walk"} /\ arg \in Addrs /\ b \in Buckets /\ next \in Links
        /\ table \in [Buckets -> Nodes \cup {Null}] /\ late' \in 0..LateMax
    <2>1. pc \in {"scan", "walk"}
      BY DEF Advance, ScanOn, ScanHit, ScanEnd, WalkOn, Unlink, WalkEnd
    <2>2. QED
      BY <1>1, <2>1, Numbers DEF Types, TypeOK, Links
  <1>3. CASE ScanOn
    <2>1. /\ pc = "scan" /\ pc' = "scan" /\ cur # Null /\ addr[cur] # arg /\ cur' = next[cur] /\ arg' = arg
          /\ UNCHANGED <<pool, nodes, table, allowRepeat, answer, lost>> /\ cur \in Nodes
      BY <1>1, <1>3 DEF ScanOn, TypeOK
    <2>2. ~lost => WalkInv'
      <3>1. next' = next /\ addr' = addr /\ ListOf(b)' = ListOf(b)
        BY <1>2, <2>1, Quiet DEF nodes
      <3>2. From(next, cur) = {cur} \cup From(next, next[cur])
        BY <1>2, <2>1, FromStep
      <3>3. ASSUME ~lost
            PROVE  /\ ~allowRepeat /\ next[cur] \in ListOf(b) \cup {Null}
                   /\ \A n \in ListOf(b) : addr[n] = arg => n \in From(next, next[cur])
        <4>1. ~allowRepeat /\ cur \in ListOf(b) /\ \A n \in ListOf(b) : addr[n] = arg => n \in From(next, cur)
          BY <1>1, <2>1, <3>3 DEF WalkInv
        <4>2. next[cur] \in ListOf(b) \cup {Null}
          BY <1>1, <1>2, <3>3, <4>1, Lists
        <4>3. QED
          BY <2>1, <3>2, <4>1, <4>2
      <3>4. QED
        BY <2>1, <3>1, <3>3 DEF WalkInv
    <2>3. next[cur] \in Nodes \cup {Null} /\ answer' \in BOOLEAN
      BY <1>1, <2>1 DEF TypeOK
    <2>4. QED
      BY <1>2, <2>1, <2>2, <2>3, LookKeeps
  <1>4. CASE ScanHit \/ WalkEnd
    <2>1. pc' = "idle" /\ arg' = Null /\ cur' = Null /\ answer' = FALSE
          /\ UNCHANGED <<pool, nodes, table, allowRepeat, lost>>
      BY <1>4 DEF ScanHit, WalkEnd, Return
    <2>2. WalkInv'
      BY <2>1 DEF WalkInv
    <2>3. QED
      BY <1>2, <2>1, <2>2, LookKeeps
  <1>5. CASE ScanEnd
    BY <1>2, <1>5, PushKeeps DEF ScanEnd
  <1>6. CASE WalkOn
    <2>1. /\ pc = "walk" /\ pc' = "walk" /\ next[cur] # Null /\ addr[next[cur]] # arg
          /\ cur' = next[cur] /\ arg' = arg /\ cur \in Nodes /\ next[cur] \in Nodes
          /\ UNCHANGED <<pool, nodes, table, allowRepeat, answer, lost>>
      BY <1>1, <1>6 DEF WalkOn, TypeOK
    <2>2. ~lost => WalkInv'
      <3>1. next' = next /\ addr' = addr /\ ListOf(b)' = ListOf(b)
        BY <1>2, <2>1, Quiet DEF nodes
      <3>2. From(next, next[cur]) = {next[cur]} \cup From(next, next[next[cur]])
        BY <1>2, <2>1, FromStep
      <3>3. ASSUME ~lost
            PROVE  /\ next[cur] \in ListOf(b)
                   /\ \A n \in ListOf(b) : addr[n] = arg => n \in From(next, next[next[cur]])
        <4>1. cur \in ListOf(b) /\ \A n \in ListOf(b) : addr[n] = arg => n \in From(next, next[cur])
          BY <1>1, <2>1, <3>3 DEF WalkInv
        <4>2. next[cur] \in ListOf(b)
          BY <1>1, <1>2, <2>1, <3>3, <4>1, Lists
        <4>3. QED
          BY <2>1, <3>2, <4>1, <4>2
      <3>4. QED
        BY <2>1, <3>1, <3>3 DEF WalkInv
    <2>3. answer' \in BOOLEAN
      BY <1>1, <2>1 DEF TypeOK
    <2>4. QED
      BY <1>2, <2>1, <2>2, <2>3, LookKeeps
  <1>7. CASE Unlink
    <2>1. /\ pc = "walk" /\ next[cur] # Null /\ addr[next[cur]] = arg /\ cur \in Nodes /\ next[cur] \in Nodes
          /\ next' = [next EXCEPT ![cur] = next[next[cur]]]
          /\ Recycle(next[cur]) /\ Return(TRUE)
          /\ UNCHANGED <<tail, addr, table, allowRepeat, lost>>
      BY <1>1, <1>7 DEF Unlink, TypeOK
    <2>2. ~lost => TakenOut(b, next[cur])
      BY <1>1, <1>2, <2>1, UnlinkList DEF WalkInv
    <2>3. next' \in Links
      BY <1>2, <2>1 DEF Links
    <2>4. QED
      BY <1>2, <2>1, <2>2, <2>3, TakeKeeps
  <1>8. QED
    BY <1>3, <1>4, <1>5, <1>6, <1>7 DEF Advance

\* Lists, pool and walks are in order until the pool is asked for too much, for every
\* sequence of inserts and removes.
THEOREM CacheInvariant == Spec => []CacheInv
  <1>1. CacheInv /\ [Next]_vars => CacheInv'
    <2>1. SUFFICES ASSUME CacheInv, [Next]_vars PROVE CacheInv'
      OBVIOUS
    <2>2. CASE UNCHANGED vars
      <3>1. UNCHANGED <<pool, nodes, table, allowRepeat, lost>> /\ UNCHANGED <<pc, arg, cur, answer, late>>
            /\ UNCHANGED <<next, addr>>
        BY <2>2 DEF vars, walk, nodes
      <3>2. Types'
        BY <2>1, <2>2 DEF CacheInv, Types, TypeOK, vars, pool, nodes, walk
      <3>3. \A b : ListOf(b)' = ListOf(b)
        BY <3>1 DEF ListOf
      <3>4. WalkInv => WalkInv'
        BY <3>1, <3>3 DEF WalkInv
      <3>5. QED
        BY <2>1, <3>1, <3>2, <3>4, Quiet DEF CacheInv
    <2>3. CASE Next
      <3>1. ASSUME NEW a \in Addrs,
                   IF lost THEN late < LateMax /\ late' = late + 1 ELSE UNCHANGED late,
                   InsertFirst(a) \/ InsertScan(a) \/ RemoveNone(a) \/ RemoveFirst(a) \/ RemoveWalk(a)
            PROVE  CacheInv'
        <4>1. late' \in 0..LateMax
          BY <2>1, <3>1, BoundType DEF CacheInv, Types, TypeOK
        <4>2. QED
          BY <2>1, <3>1, <4>1, BeginKeeps
      <3>2. QED
        BY <2>1, <2>3, <3>1, AdvanceKeeps DEF Next
    <2>4. QED
      BY <2>1, <2>2, <2>3
  <1>2. QED
    BY <1>1, CacheInitHolds, PTL DEF Spec

-----------------------------------------------------------------------------
(***************************************************************************)
(* The properties of MemCache.                                             *)
(***************************************************************************)

\* What the pool still has is what no list has.
LEMMA FreeUnused ==
    ASSUME TypeOK, PoolInv, NEW n \in Nodes
    PROVE  n \in FreeNodes <=> n \notin Used
  <1> DEFINE I == {j \in Size..(2 * Size + Width) : j >= tail /\ j < head + Size}
  <1>1. /\ Size \in Nat \ {0} /\ Width \in Nat /\ tail \in Nat /\ head \in Nat /\ head < Width
        /\ n \in Nat
    BY Numbers DEF TypeOK
  <1>2. \A i \in I : i - Size \in Ring
    BY <1>1 DEF Ring
  <1>3. \A p \in Ring : p + Size \in I /\ (p + Size) - Size = p
    BY <1>1 DEF Ring
  <1>4. n \in FreeNodes <=> n >= tail \/ \E i \in I : Slot(i - Size) = n
    BY DEF FreeNodes, Slot
  <1> HIDE DEF I
  <1>5. (\E i \in I : Slot(i - Size) = n) <=> \E p \in Ring : Slot(p) = n
    BY <1>2, <1>3
  <1>6. n >= tail => n \notin Used
    BY <1>1 DEF PoolInv
  <1>7. (\E p \in Ring : Slot(p) = n) => n \notin Used
    BY DEF PoolInv
  <1>8. n \in Used \/ n >= tail \/ \E p \in Ring : Slot(p) = n
    BY DEF PoolInv
  <1>9. QED
    BY <1>4, <1>5, <1>6, <1>7, <1>8

\* No sequence of inserts and removes loses a node or hands out one that is in a list.
THEOREM Accounted == Spec => []NodesAccounted
  <1>1. CacheInv => NodesAccounted
    <2>1. SUFFICES ASSUME CacheInv, ~lost
                   PROVE  /\ \A n \in Nodes : Cardinality({b \in Buckets : n \in ListOf(b)})
                                                 = IF n \in FreeNodes THEN 0 ELSE 1
                          /\ \A b \in Buckets : \A n \in ListOf(b) : Hash[addr[n]] = b
                          /\ tail = head + Cardinality(Used)
      BY DEF NodesAccounted, Used
    <2>2. TypeOK /\ ListInv /\ PoolInv
      BY <2>1 DEF CacheInv, Types
    <2>3. ASSUME NEW n \in Nodes
          PROVE  Cardinality({b \in Buckets : n \in ListOf(b)}) = IF n \in FreeNodes THEN 0 ELSE 1
      <3> DEFINE B == {b \in Buckets : n \in ListOf(b)}
      <3>1. CASE n \in FreeNodes
        <4>1. n \notin Used
          BY <2>2, <3>1, FreeUnused
        <4>2. B = {}
          BY <4>1 DEF Used
        <4>3. QED
          BY <3>1, <4>2, FS_EmptySet
      <3>2. CASE n \notin FreeNodes
        <4>1. n \in Used
          BY <2>2, <3>2, FreeUnused
        <4>2. PICK b \in Buckets : n \in ListOf(b)
          BY <4>1 DEF Used
        <4>3. B = {b}
          BY <2>2, <4>2, Lists
        <4>4. QED
          BY <3>2, <4>3, FS_Singleton
      <3>3. QED
        BY <3>1, <3>2
    <2>4. QED
      BY <2>2, <2>3 DEF ListInv, PoolInv
  <1>2. QED
    BY <1>1, CacheInvariant, PTL

-----------------------------------------------------------------------------
(***************************************************************************)
(* The cache is a bag.                                                     *)
(***************************************************************************)

\* The nodes that hold an address.
Matching(a) == {n \in ListOf(Hash[a]) : addr[n] = a}
Copies(a) == Cardinality(Matching(a))

\* What AddrBag is told of the cache.
ItsBag == [a \in Addrs |-> IF lost THEN 0 ELSE Copies(a)]
ItsHeld == IF lost THEN 0 ELSE tail - head
ItsTaken == IF lost THEN 0 ELSE tail

\* The nodes of an address can be counted.
LEMMA Counted ==
    ASSUME CacheInv, ~lost, NEW a \in Addrs
    PROVE  /\ IsFiniteSet(Matching(a)) /\ Copies(a) \in Nat
           /\ Copies(a) = 0 <=> Matching(a) = {}
           /\ tail \in Nat /\ head \in Nat
  <1>1. Matching(a) \subseteq Used /\ IsFiniteSet(Used)
    BY Numbers DEF Matching, Used, CacheInv, PoolInv
  <1>2. IsFiniteSet(Matching(a))
    BY <1>1, FS_Subset
  <1>3. Copies(a) \in Nat /\ (Copies(a) = 0 <=> Matching(a) = {})
    BY <1>2, FS_CardinalityType, FS_EmptySet DEF Copies
  <1>4. tail \in Nat /\ head \in Nat
    BY Numbers DEF CacheInv, Types, TypeOK
  <1>5. QED
    BY <1>2, <1>3, <1>4

\* An address more is held.
LEMMA InsertCount ==
    ASSUME CacheInv, NEW a \in Addrs, Push(a), ~lost'
    PROVE  Copies(a)' = Copies(a) + 1 /\ \A c \in Addrs : c # a => Copies(c)' = Copies(c)
  <1>1. /\ ~lost /\ Applied \in Nodes /\ Applied \notin Used
        /\ addr' = [addr EXCEPT ![Applied] = a]
        /\ ListOf(Hash[a])' = ListOf(Hash[a]) \cup {Applied}
        /\ \A c \in Buckets : c # Hash[a] => ListOf(c)' = ListOf(c)
    BY PushDoes
  <1>2. addr \in [Nodes -> Addrs \cup {Null}] /\ Used \subseteq Nodes
    BY AllUsed DEF CacheInv, Types, TypeOK
  <1>3. \A c \in Addrs : Hash[c] \in Buckets /\ ListOf(Hash[c]) \subseteq Used
    BY Numbers DEF Used
  <1>4. Matching(a)' = Matching(a) \cup {Applied} /\ Applied \notin Matching(a)
    BY <1>1, <1>2, <1>3 DEF Matching
  <1>5. ASSUME NEW c \in Addrs, c # a PROVE Matching(c)' = Matching(c)
    <2>1. \A n \in ListOf(Hash[c]) : addr'[n] = addr[n]
      BY <1>1, <1>2, <1>3
    <2>2. addr'[Applied] # c
      BY <1>1, <1>2, <1>5
    <2>3. ListOf(Hash[c])' = ListOf(Hash[c]) \/ ListOf(Hash[c])' = ListOf(Hash[c]) \cup {Applied}
      BY <1>1, <1>3
    <2>4. QED
      BY <2>1, <2>2, <2>3 DEF Matching
  <1>6. IsFiniteSet(Matching(a))
    BY <1>1, Counted
  <1>7. Copies(a)' = Copies(a) + 1
    BY <1>4, <1>6, FS_AddElement DEF Copies
  <1>8. QED
    BY <1>5, <1>7 DEF Copies

\* One less.
LEMMA RemoveCount ==
    ASSUME CacheInv, ~lost, NEW a \in Addrs, NEW n \in Nodes, TakenOut(Hash[a], n), addr[n] = a, addr' = addr
    PROVE  /\ Copies(a) > 0 /\ Copies(a)' = Copies(a) - 1
           /\ \A c \in Addrs : c # a => Copies(c)' = Copies(c)
  <1>1. /\ n \in ListOf(Hash[a]) /\ ListOf(Hash[a])' = ListOf(Hash[a]) \ {n}
        /\ \A c \in Buckets : c # Hash[a] => ListOf(c)' = ListOf(c)
    BY DEF TakenOut
  <1>2. \A c \in Addrs : Hash[c] \in Buckets
    BY Numbers
  <1>3. n \in Matching(a) /\ Matching(a)' = Matching(a) \ {n}
    BY <1>1 DEF Matching
  <1>4. \A c \in Addrs : c # a => Matching(c)' = Matching(c)
    BY <1>1, <1>2 DEF Matching
  <1>5. IsFiniteSet(Matching(a)) /\ Copies(a) \in Nat /\ Copies(a) # 0
    BY <1>3, Counted
  <1>6. Copies(a)' = Copies(a) - 1
    BY ZenonT(60), <1>3, <1>5, FS_RemoveElement DEF Copies
  <1>7. QED
    BY <1>4, <1>5, <1>6 DEF Copies

\* Nothing that is held changes.
LEMMA LookCount ==
    ASSUME UNCHANGED <<pool, nodes, table, lost>>
    PROVE  ItsBag' = ItsBag /\ ItsHeld' = ItsHeld /\ ItsTaken' = ItsTaken
  <1>1. \A b \in Buckets : ListOf(b)' = ListOf(b)
    BY Quiet
  <1>2. \A a \in Addrs : Copies(a)' = Copies(a)
    BY <1>1, Numbers DEF Copies, Matching, nodes
  <1>3. QED
    BY <1>2 DEF ItsBag, ItsHeld, ItsTaken, pool

\* A node is taken from the pool, which has one.
LEMMA PushInserts ==
    ASSUME CacheInv, NEW a \in Addrs, Push(a), ~lost', allowRepeat \/ Matching(a) = {}
    PROVE  Bag!Insert(a)
  <1>1. /\ ~lost /\ tail < head + Size /\ tail < Width - 1 /\ tail' = tail + 1 /\ head' = head
        /\ answer' = TRUE /\ allowRepeat' = allowRepeat
    BY PushDoes DEF Push
  <1>2. /\ \A c \in Addrs : Copies(c) \in Nat /\ (Copies(c) = 0 <=> Matching(c) = {})
        /\ tail \in Nat /\ head \in Nat /\ Size \in Nat /\ Width \in Nat
    BY <1>1, Counted, Numbers
  <1>3. ItsBag' = [ItsBag EXCEPT ![a] = @ + 1]
    BY <1>1, InsertCount DEF ItsBag
  <1>4. ItsHeld' = ItsHeld + 1 /\ ItsTaken' = ItsTaken + 1 /\ ItsHeld < Size /\ ItsTaken < Width - 1
    BY <1>1, <1>2 DEF ItsHeld, ItsTaken
  <1>5. ~(~allowRepeat /\ ItsBag[a] > 0)
    BY <1>1, <1>2 DEF ItsBag
  <1>6. lost' = lost
    BY <1>1 DEF Push, CacheInv, Types, TypeOK
  <1>7. QED
    BY <1>1, <1>3, <1>4, <1>5, <1>6 DEF Bag!Insert, ItsBag, ItsHeld, ItsTaken, Copies, Matching

\* Or has none, or its counter comes back to zero.
LEMMA PushLoses ==
    ASSUME CacheInv, NEW a \in Addrs, Push(a), ~lost, lost', answer' \in BOOLEAN
    PROVE  Bag!Lose
  <1>1. (tail = head + Size \/ tail = Width - 1) /\ allowRepeat' = allowRepeat
    BY DEF Push
  <1>2. tail \in Nat /\ head \in Nat /\ Size \in Nat
    BY Counted, Numbers
  <1>3. ItsHeld = Size \/ ItsTaken = Width - 1
    BY <1>1, <1>2 DEF ItsHeld, ItsTaken
  <1>4. ItsBag' = [c \in Addrs |-> 0] /\ ItsHeld' = 0 /\ ItsTaken' = 0
    BY DEF ItsBag, ItsHeld, ItsTaken
  <1>5. QED
    BY <1>1, <1>3, <1>4 DEF Bag!Lose, ItsBag, ItsHeld, ItsTaken, Copies, Matching

\* A remove finds its address.
LEMMA FoundRemoves ==
    ASSUME CacheInv, ~lost, NEW a \in Addrs, NEW n \in Nodes, addr[n] = a, TakenOut(Hash[a], n), Recycle(n),
           UNCHANGED <<tail, addr, allowRepeat, lost>>, answer' = TRUE
    PROVE  Bag!Remove(a)
  <1>1. head' = head + 1 /\ head < tail
    BY RemoveDoes, Numbers
  <1>2. tail \in Nat /\ head \in Nat /\ \A c \in Addrs : Copies(c) \in Nat
    BY Counted
  <1>3. /\ Copies(a) > 0 /\ Copies(a)' = Copies(a) - 1
        /\ \A c \in Addrs : c # a => Copies(c)' = Copies(c)
    BY RemoveCount
  <1>4. ItsBag[a] > 0 /\ ItsBag' = [ItsBag EXCEPT ![a] = IF @ > 0 THEN @ - 1 ELSE 0]
    BY <1>3 DEF ItsBag
  <1>5. ItsHeld' = ItsHeld - 1 /\ ItsTaken' = ItsTaken
    BY <1>1, <1>2 DEF ItsHeld, ItsTaken
  <1>6. ItsHeld' = IF ItsBag[a] > 0 THEN ItsHeld - 1 ELSE ItsHeld
    BY <1>4, <1>5
  <1>7. answer' = (ItsBag[a] > 0)
    BY <1>4
  <1>8. QED
    BY <1>4, <1>5, <1>6, <1>7 DEF Bag!Remove, ItsBag, ItsHeld, ItsTaken, Copies, Matching

\* It does not.
LEMMA NotFoundRemoves ==
    ASSUME CacheInv, ~lost, NEW a \in Addrs, Matching(a) = {},
           UNCHANGED <<pool, nodes, table, allowRepeat, lost>>, answer' = FALSE
    PROVE  Bag!Remove(a)
  <1>1. Copies(a) = 0
    BY Counted
  <1>2. ItsBag[a] = 0 /\ ItsBag \in [Addrs -> Nat]
    BY <1>1, Counted DEF ItsBag
  <1>3. ItsBag' = ItsBag /\ ItsHeld' = ItsHeld /\ ItsTaken' = ItsTaken
    BY LookCount
  <1>4. ItsBag' = [ItsBag EXCEPT ![a] = IF @ > 0 THEN @ - 1 ELSE 0]
    BY <1>2, <1>3
  <1>5. answer' = (ItsBag[a] > 0)
    <2>1. ~(ItsBag[a] > 0) /\ answer' = FALSE
      BY <1>2
    <2>2. (ItsBag[a] > 0) = FALSE
      BY <2>1
    <2>3. QED
      BY <2>1, <2>2
  <1>6. ItsHeld' = IF ItsBag[a] > 0 THEN ItsHeld - 1 ELSE ItsHeld
    BY <1>2, <1>3
  <1>7. QED
    BY <1>3, <1>4, <1>5, <1>6 DEF Bag!Remove, ItsBag, ItsHeld, ItsTaken, Copies, Matching

\* An insert finds its address.
LEMMA FoundRefuses ==
    ASSUME CacheInv, ~lost, NEW a \in Addrs, Matching(a) # {}, ~allowRepeat,
           UNCHANGED <<pool, nodes, table, allowRepeat, lost>>, answer' = FALSE
    PROVE  Bag!Refuse(a)
  <1>1. Copies(a) \in Nat /\ Copies(a) # 0
    BY Counted
  <1>2. ItsBag[a] > 0
    BY <1>1 DEF ItsBag
  <1>3. ItsBag' = ItsBag /\ ItsHeld' = ItsHeld /\ ItsTaken' = ItsTaken
    BY LookCount
  <1>4. QED
    BY <1>2, <1>3 DEF Bag!Refuse, ItsBag, ItsHeld, ItsTaken, Copies, Matching

\* A walk that has not ended shows nothing.
LEMMA LookStutters ==
    ASSUME UNCHANGED <<pool, nodes, table, allowRepeat, lost, answer>>
    PROVE  UNCHANGED Bag!vars
  <1>1. ItsBag' = ItsBag /\ ItsHeld' = ItsHeld /\ ItsTaken' = ItsTaken
    BY LookCount
  <1>2. QED
    BY <1>1 DEF Bag!vars, ItsBag, ItsHeld, ItsTaken, Copies, Matching

\* The steps of an operation, one by one.
LEMMA BeginImplements ==
    ASSUME CacheInv, CacheInv', ~lost, NEW a \in Addrs,
           InsertFirst(a) \/ InsertScan(a) \/ RemoveNone(a) \/ RemoveFirst(a) \/ RemoveWalk(a)
    PROVE  Bag!Next \/ UNCHANGED Bag!vars
  <1> DEFINE b == Hash[a]
             n == table[b]
  <1>1. TypeOK /\ ListInv /\ answer' \in BOOLEAN
    BY DEF CacheInv, Types, TypeOK
  <1>2. b \in Buckets /\ n \in Nodes \cup {Null} /\ next \in Links /\ lost' \in BOOLEAN
    BY <1>1, Numbers DEF TypeOK, Links, CacheInv, Types
  <1>3. n = Null => Matching(a) = {}
    BY <1>2, FromNull DEF Matching, ListOf
  <1>4. CASE InsertFirst(a)
    <2>1. Push(a) /\ (allowRepeat \/ Matching(a) = {})
      BY <1>3, <1>4 DEF InsertFirst
    <2>2. Bag!Insert(a) \/ Bag!Lose
      BY <1>1, <2>1, PushInserts, PushLoses
    <2>3. QED
      BY <2>2 DEF Bag!Next
  <1>5. CASE InsertScan(a) \/ RemoveWalk(a)
    <2>1. UNCHANGED <<pool, nodes, table, allowRepeat, lost, answer>>
      BY <1>5 DEF InsertScan, RemoveWalk
    <2>2. QED
      BY <2>1, LookStutters
  <1>6. CASE RemoveNone(a)
    <2>1. Matching(a) = {} /\ answer' = FALSE /\ UNCHANGED <<pool, nodes, table, allowRepeat, lost>>
      BY <1>3, <1>6 DEF RemoveNone, Return
    <2>2. Bag!Remove(a)
      BY <2>1, NotFoundRemoves
    <2>3. QED
      BY <2>2 DEF Bag!Next
  <1>7. CASE RemoveFirst(a)
    <2>1. /\ n # Null /\ addr[n] = a /\ table' = [table EXCEPT ![b] = next[n]] /\ UNCHANGED nodes
          /\ Recycle(n) /\ answer' = TRUE /\ UNCHANGED <<tail, allowRepeat, lost>>
      BY <1>7 DEF RemoveFirst, Return
    <2>2. TakenOut(b, n) /\ n \in Nodes
      BY <1>1, <1>2, <2>1, FirstList
    <2>3. Bag!Remove(a)
      BY <2>1, <2>2, FoundRemoves DEF nodes
    <2>4. QED
      BY <2>3 DEF Bag!Next
  <1>8. QED
    BY <1>4, <1>5, <1>6, <1>7

LEMMA AdvanceImplements ==
    ASSUME CacheInv, CacheInv', ~lost, Advance
    PROVE  Bag!Next \/ UNCHANGED Bag!vars
  <1> DEFINE b == Hash[arg]
  <1>1. TypeOK /\ ListInv /\ WalkInv /\ answer' \in BOOLEAN
    BY DEF CacheInv, Types, TypeOK
  <1>2. pc \in {"scan", "walk"} /\ arg \in Addrs /\ b \in Buckets /\ next \in Links
    <2>1. pc \in {"scan", "walk"}
      BY DEF Advance, ScanOn, ScanHit, ScanEnd, WalkOn, Unlink, WalkEnd
    <2>2. QED
      BY <1>1, <2>1, Numbers DEF CacheInv, Types, TypeOK, Links
  <1>3. From(next, Null) = {}
    BY <1>2, FromNull
  <1>4. CASE ScanOn \/ WalkOn
    <2>1. UNCHANGED <<pool, nodes, table, allowRepeat, lost, answer>>
      BY <1>4 DEF ScanOn, WalkOn
    <2>2. QED
      BY <2>1, LookStutters
  <1>5. CASE ScanHit
    <2>1. /\ pc = "scan" /\ cur # Null /\ addr[cur] = arg /\ answer' = FALSE
          /\ UNCHANGED <<pool, nodes, table, allowRepeat, lost>>
      BY <1>5 DEF ScanHit, Return
    <2>2. cur \in Matching(arg) /\ ~allowRepeat
      BY <1>1, <2>1 DEF WalkInv, Matching
    <2>3. Bag!Refuse(arg)
      BY <1>2, <2>1, <2>2, FoundRefuses
    <2>4. QED
      BY <1>2, <2>3 DEF Bag!Next
  <1>6. CASE ScanEnd
    <2>1. Push(arg) /\ pc = "scan" /\ cur = Null
      BY <1>6 DEF ScanEnd
    <2>2. Matching(arg) = {}
      BY <1>1, <1>3, <2>1 DEF WalkInv, Matching
    <2>3. Bag!Insert(arg) \/ Bag!Lose
      BY <1>1, <1>2, <2>1, <2>2, PushInserts, PushLoses
    <2>4. QED
      BY <1>2, <2>3 DEF Bag!Next
  <1>7. CASE Unlink
    <2>1. /\ pc = "walk" /\ next[cur] # Null /\ addr[next[cur]] = arg /\ cur \in Nodes /\ next[cur] \in Nodes
          /\ next' = [next EXCEPT ![cur] = next[next[cur]]]
          /\ Recycle(next[cur]) /\ answer' = TRUE
          /\ UNCHANGED <<tail, addr, table, allowRepeat, lost>>
      BY <1>1, <1>7 DEF Unlink, Return, TypeOK
    <2>2. TakenOut(b, next[cur])
      BY <1>1, <1>2, <2>1, UnlinkList DEF WalkInv
    <2>3. Bag!Remove(arg)
      BY <1>2, <2>1, <2>2, FoundRemoves
    <2>4. QED
      BY <1>2, <2>3 DEF Bag!Next
  <1>8. CASE WalkEnd
    <2>1. pc = "walk" /\ next[cur] = Null /\ answer' = FALSE
          /\ UNCHANGED <<pool, nodes, table, allowRepeat, lost>>
      BY <1>8 DEF WalkEnd, Return
    <2>2. Matching(arg) = {}
      BY <1>1, <1>3, <2>1 DEF WalkInv, Matching
    <2>3. Bag!Remove(arg)
      BY <1>2, <2>1, <2>2, NotFoundRemoves
    <2>4. QED
      BY <1>2, <2>3 DEF Bag!Next
  <1>9. QED
    BY <1>4, <1>5, <1>6, <1>7, <1>8 DEF Advance

\* After the pool was asked for too much nothing is promised.
LEMMA LostImplements ==
    ASSUME CacheInv', lost, Next
    PROVE  Bag!Next
  <1>1. lost' /\ allowRepeat' = allowRepeat
    BY DEF Next, Advance, InsertFirst, InsertScan, RemoveNone, RemoveFirst, RemoveWalk,
           ScanOn, ScanHit, ScanEnd, WalkOn, Unlink, WalkEnd, Push
  <1>2. answer' \in BOOLEAN
    BY DEF CacheInv, Types, TypeOK
  <1>3. ItsBag' = ItsBag /\ ItsHeld' = ItsHeld /\ ItsTaken' = ItsTaken
    BY <1>1 DEF ItsBag, ItsHeld, ItsTaken
  <1>4. lost' = lost
    BY <1>1 DEF CacheInv, Types, TypeOK
  <1>5. Bag!Unspecified
    BY <1>1, <1>2, <1>3, <1>4 DEF Bag!Unspecified, ItsBag, ItsHeld, ItsTaken, Copies, Matching
  <1>6. QED
    BY <1>5 DEF Bag!Next

\* Until the pool is asked for too much the cache is the bag of the addresses that the
\* thread has allocated and not freed: an insert adds one or says that it is there, and a
\* remove says whether the address was held and takes out one of it.
THEOREM Refines == Spec => ImplementsBag
  <1>1. Init => Bag!Init
    <2>1. SUFFICES ASSUME Init PROVE Bag!Init
      OBVIOUS
    <2>2. CacheInv /\ ~lost /\ \A b \in Buckets : ListOf(b) = {}
      <3>1. CacheInv /\ next \in Links /\ ~lost
        BY <2>1, CacheInitHolds DEF CacheInv, Types, TypeOK, Links, Init
      <3>2. QED
        BY <2>1, <3>1, FromNull DEF Init, ListOf
    <2>3. \A a \in Addrs : Copies(a) = 0
      <3>1. \A a \in Addrs : Matching(a) = {}
        BY <2>2, Numbers DEF Matching
      <3>2. QED
        BY <2>2, <3>1, Counted
    <2>4. ItsBag = [a \in Addrs |-> 0] /\ ItsHeld = 0 /\ ItsTaken = 0
      BY <2>1, <2>2, <2>3 DEF ItsBag, ItsHeld, ItsTaken, Init
    <2>5. (~allowRepeat) \in BOOLEAN /\ answer = FALSE /\ lost = FALSE
      BY <2>1 DEF Init
    <2>6. QED
      BY <2>4, <2>5 DEF Bag!Init, ItsBag, ItsHeld, ItsTaken, Copies, Matching
  <1>2. CacheInv /\ CacheInv' /\ [Next]_vars => [Bag!Next]_(Bag!vars)
    <2>1. SUFFICES ASSUME CacheInv, CacheInv', [Next]_vars
                   PROVE  Bag!Next \/ UNCHANGED Bag!vars
      OBVIOUS
    <2>2. CASE UNCHANGED vars
      <3>1. UNCHANGED <<pool, nodes, table, allowRepeat, lost, answer>>
        BY <2>2 DEF vars
      <3>2. QED
        BY <3>1, LookStutters
    <2>3. CASE Next /\ lost
      BY <2>1, <2>3, LostImplements
    <2>4. CASE Next /\ ~lost
      <3>1. \/ \E a \in Addrs : InsertFirst(a) \/ InsertScan(a) \/ RemoveNone(a) \/ RemoveFirst(a) \/ RemoveWalk(a)
            \/ Advance
        BY <2>4 DEF Next
      <3>2. QED
        BY <2>1, <2>4, <3>1, BeginImplements, AdvanceImplements
    <2>5. QED
      BY <2>1, <2>2, <2>3, <2>4
  <1>3. QED
    BY <1>1, <1>2, CacheInvariant, PTL DEF Spec, ImplementsBag, Bag!Spec
=============================================================================
