---------------------------- MODULE RecorderProofs ----------------------------
(***************************************************************************)
(* Proofs about Recorder and Analyzer, for every set of threads and of     *)
(* addresses, every call site and every bound.                             *)
(*                                                                         *)
(* A block that is neither free nor the application's is in the hands of   *)
(* one call (HeldInv).  FreesMatched rests on a count: for each address    *)
(* there are at most as many entries in the caches of all threads as there *)
(* are unanswered lines, but for the line that is about to be written      *)
(* (HeapInv); LogAlternates on the one line that a block in use may have   *)
(* open (LogInv); LiveHeld on who has a block's entry (RecordInv).         *)
(*                                                                         *)
(* The bars of the charts are those of the unanswered lines, one at most   *)
(* for an address (OnceInv), so that no release line takes away the bar of *)
(* a block that is in use (ShownInv); in a log of malloc and free the two  *)
(* makers keep the same list, and the total is its sum (HeapMode).         *)
(***************************************************************************)
EXTENDS Analyzer, SequenceTheorems, WellFoundedInduction, FiniteSetTheorems, TLAPS

Types ==
    /\ mem \in [Addrs -> Uses]
    /\ large \in [Addrs -> BOOLEAN]
    /\ stack \in [Threads -> Results]
    /\ pc \in [Threads -> PC]
    /\ op \in [Threads -> Call]
    /\ cache \in [Kinds -> [Threads -> [Addrs -> Nat]]]
    /\ open \in [Kinds -> [Addrs -> Nat]]
    /\ recorder \in [Addrs -> Threads \cup {Null}]
    /\ missed \in [Kinds -> SUBSET Addrs]

Busy == {"got", "line", "endline", "ending"}

\* A call has a in its hands: an allocation not yet returned, or a release.
Holds(t, a) == pc[t] \in Busy /\ ~op[t].exit /\ op[t].addr = a
Allocating(t, a) == pc[t] \in {"got", "line"} /\ op[t].addr = a
AtLine(t, k, a) == pc[t] = "line" /\ op[t].kind = k /\ op[t].addr = a
AtEnd(t, k, a) == pc[t] = "endline" /\ ~op[t].exit /\ op[t].kind = k /\ op[t].addr = a

\* What a call is made for at each place.
CallOK(t) ==
    /\ pc[t] \in {"got", "line"} => ~op[t].exit
    /\ pc[t] = "line" => op[t].large
    /\ pc[t] \in {"endline", "ending"} => op[t].addr \in Addrs
    /\ pc[t] \in {"endline", "ending"} /\ op[t].exit =>
          op[t].kind = "map" /\ op[t].addr = stack[t]

\* A block is in the hands of one call, or the stack of one thread.
HeldInv ==
    /\ \A t \in Threads : \A a \in Addrs : Holds(t, a) => mem[a] = "held"
    /\ \A t, u \in Threads : \A a \in Addrs : Holds(t, a) /\ Holds(u, a) => t = u
    /\ \A t \in Threads : CallOK(t)
    /\ \A t \in Threads : stack[t] # Null => mem[stack[t]] = "stack"
    /\ \A t, u \in Threads : stack[t] # Null /\ stack[t] = stack[u] => t = u

\* Who has the entry of a block that is in use or about to be.
RecordInv ==
    /\ \A a \in Addrs : mem[a] \in {"unused", "stack"} => recorder[a] = Null
    /\ \A t \in Threads : \A a \in Addrs : Allocating(t, a) => recorder[a] = Null
    /\ \A t \in Threads : \A k \in Kinds : \A a \in Addrs :
          AtLine(t, k, a) => cache[k][t][a] > 0
    /\ LiveHeld

\* An unanswered line is that of the block in use, or of one whose release line comes.
Releasing(k, a) == \E t \in Threads : AtEnd(t, k, a)
LogInv ==
    \A k \in Kinds : \A a \in Addrs : a \notin missed[k] =>
        /\ open[k][a] <= 1
        /\ open[k][a] = 1 => mem[a] = k \/ Releasing(k, a)

\* The entries for a in all caches of blocks from malloc, one by one.
Entries(a) == {e \in Threads \X Nat : 1 <= e[2] /\ e[2] <= cache["heap"][e[1]][a]}
Writing(a) == \E t \in Threads : AtLine(t, "heap", a)
HeapOK(a) ==
    /\ IsFiniteSet(Entries(a))
    /\ Cardinality(Entries(a)) + (IF Releasing("heap", a) THEN 1 ELSE 0)
         <= open["heap"][a] + (IF Writing(a) THEN 1 ELSE 0)
HeapInv == \A a \in Addrs : HeapOK(a)

BookInv == Types /\ HeldInv /\ RecordInv /\ LogInv /\ HeapInv
-----------------------------------------------------------------------------
\* A step that changes neither the caches nor the lines of blocks from malloc.
LEMMA HeapFrame ==
    ASSUME HeapInv, cache'["heap"] = cache["heap"], open'["heap"] = open["heap"],
           \A a \in Addrs : Writing(a)' <=> Writing(a),
           \A a \in Addrs : Releasing("heap", a)' <=> Releasing("heap", a)
    PROVE  HeapInv'
  <1>1. ASSUME NEW a \in Addrs
        PROVE  HeapOK(a)'
    <2>1. Entries(a)' = Entries(a)
      BY DEF Entries
    <2>2. HeapOK(a) /\ (Writing(a)' <=> Writing(a)) /\ (Releasing("heap", a)' <=> Releasing("heap", a))
      BY DEF HeapInv
    <2>3. QED
      BY <2>1, <2>2 DEF HeapOK
  <1>2. QED
    BY <1>1 DEF HeapInv

\* The count of one address is not changed.
LEMMA HeapSame ==
    ASSUME NEW x \in Addrs, HeapOK(x),
           \A u \in Threads : cache'["heap"][u][x] = cache["heap"][u][x],
           open'["heap"][x] = open["heap"][x],
           Writing(x)' <=> Writing(x), Releasing("heap", x)' <=> Releasing("heap", x)
    PROVE  HeapOK(x)'
  <1>1. Entries(x)' = Entries(x)
    BY DEF Entries
  <1>2. QED
    BY <1>1 DEF HeapOK

\* The cache of t is changed at one address.
LEMMA CacheLeaves ==
    ASSUME Types, NEW k \in Kinds, NEW t \in Threads, NEW a \in Addrs, NEW v \in Nat,
           cache' = [cache EXCEPT ![k] = [cache[k] EXCEPT ![t] = [cache[k][t] EXCEPT ![a] = v]]]
    PROVE  /\ cache' \in [Kinds -> [Threads -> [Addrs -> Nat]]]
           /\ \A j \in Kinds : \A u \in Threads : \A b \in Addrs :
                 cache'[j][u][b] = IF j = k /\ u = t /\ b = a THEN v ELSE cache[j][u][b]
           /\ \A j \in Kinds : j # k => cache'[j] = cache[j]
  <1>1. cache[k] \in [Threads -> [Addrs -> Nat]] /\ cache[k][t] \in [Addrs -> Nat]
    BY DEF Types
  <1>2. [cache[k][t] EXCEPT ![a] = v] \in [Addrs -> Nat]
    BY <1>1
  <1>3. [cache[k] EXCEPT ![t] = [cache[k][t] EXCEPT ![a] = v]] \in [Threads -> [Addrs -> Nat]]
    BY <1>1, <1>2
  <1>4. cache' \in [Kinds -> [Threads -> [Addrs -> Nat]]]
    BY <1>3 DEF Types
  <1>5. \A j \in Kinds : \A u \in Threads : \A b \in Addrs :
           cache'[j][u][b] = IF j = k /\ u = t /\ b = a THEN v ELSE cache[j][u][b]
    BY <1>1 DEF Types
  <1>6. \A j \in Kinds : j # k => cache'[j] = cache[j]
    BY DEF Types
  <1>7. QED
    BY <1>4, <1>5, <1>6

\* What MemoryCache::remove leaves.
LEMMA ForgetLeaves ==
    ASSUME Types, NEW k \in Kinds, NEW t \in Threads, NEW a \in Addrs, Forget(k, t, a)
    PROVE  /\ cache' \in [Kinds -> [Threads -> [Addrs -> Nat]]]
           /\ \A j \in Kinds : \A u \in Threads : \A b \in Addrs :
                 cache'[j][u][b] =
                    IF j = k /\ u = t /\ b = a
                    THEN IF cache[j][u][b] > 0 THEN cache[j][u][b] - 1 ELSE 0
                    ELSE cache[j][u][b]
           /\ \A j \in Kinds : j # k => cache'[j] = cache[j]
  <1> DEFINE left == IF cache[k][t][a] > 0 THEN cache[k][t][a] - 1 ELSE 0
  <1>1. cache[k] \in [Threads -> [Addrs -> Nat]] /\ cache[k][t] \in [Addrs -> Nat] /\ left \in Nat
    BY DEF Types
  <1>2. cache' = [cache EXCEPT ![k] = [cache[k] EXCEPT ![t] = [cache[k][t] EXCEPT ![a] = left]]]
    BY <1>1 DEF Forget, Types
  <1>3. QED
    BY ZenonT(60), <1>1, <1>2, CacheLeaves

\* Where the other threads are is not changed by a step of t.
LEMMA OthersStay ==
    ASSUME HeldInv, NEW t \in Threads,
           \A u \in Threads : u # t => pc'[u] = pc[u] /\ op'[u] = op[u] /\ stack'[u] = stack[u]
    PROVE  \A u \in Threads : u # t =>
              /\ CallOK(u)'
              /\ \A x \in Addrs : /\ Holds(u, x)' <=> Holds(u, x)
                                  /\ Allocating(u, x)' <=> Allocating(u, x)
              /\ \A j \in Kinds : \A x \in Addrs :
                    /\ AtLine(u, j, x)' <=> AtLine(u, j, x)
                    /\ AtEnd(u, j, x)' <=> AtEnd(u, j, x)
  <1>1. TAKE u \in Threads
  <1>2. HAVE u # t
  <1>3. pc'[u] = pc[u] /\ op'[u] = op[u] /\ stack'[u] = stack[u] /\ CallOK(u)
    BY <1>2 DEF HeldInv
  <1>4. CallOK(u)'
    BY <1>3 DEF CallOK
  <1>5. \A x \in Addrs : /\ Holds(u, x)' <=> Holds(u, x)
                         /\ Allocating(u, x)' <=> Allocating(u, x)
    BY <1>3 DEF Holds, Allocating
  <1>6. \A j \in Kinds : \A x \in Addrs : /\ AtLine(u, j, x)' <=> AtLine(u, j, x)
                                          /\ AtEnd(u, j, x)' <=> AtEnd(u, j, x)
    BY <1>3 DEF AtLine, AtEnd
  <1>7. QED
    BY <1>4, <1>5, <1>6

\* Who is at a line has the block in hand.
LEMMA LinesHeld ==
    ASSUME HeldInv
    PROVE  \A t \in Threads : \A x \in Addrs :
              /\ Allocating(t, x) => Holds(t, x)
              /\ \A j \in Kinds : (AtLine(t, j, x) => Allocating(t, x)) /\ (AtEnd(t, j, x) => Holds(t, x))
              /\ Holds(t, x) => mem[x] = "held"
  <1>1. \A t \in Threads : CallOK(t)
    BY DEF HeldInv
  <1>2. \A t \in Threads : \A x \in Addrs :
              /\ Allocating(t, x) => Holds(t, x)
              /\ \A j \in Kinds : (AtLine(t, j, x) => Allocating(t, x)) /\ (AtEnd(t, j, x) => Holds(t, x))
    BY <1>1 DEF CallOK, Holds, Allocating, AtLine, AtEnd, Busy
  <1>3. QED
    BY <1>2 DEF HeldInv

\* A block that the log does not learn the end of is noted.
LEMMA MissLeaves ==
    ASSUME Types, NEW k \in Kinds, NEW a \in Addrs, Miss(k, a)
    PROVE  /\ missed' \in [Kinds -> SUBSET Addrs]
           /\ \A j \in Kinds : missed[j] \subseteq missed'[j]
           /\ open[k][a] > 0 => a \in missed'[k]
  BY DEF Miss, Types

-----------------------------------------------------------------------------
\* An allocation that is hooked takes a block that nobody has in hand.
LEMMA AllocateKeeps ==
    ASSUME BookInv, NEW t \in Threads, NEW k \in Kinds, NEW a \in Addrs, NEW l \in BOOLEAN, NEW filtered \in BOOLEAN, Allocate(t, k, a, l, filtered)
    PROVE  BookInv'
  <1>1. Allocate(t, k, a, l, filtered) /\ Types /\ HeldInv /\ RecordInv /\ LogInv /\ HeapInv
    BY DEF BookInv
  <1>2. /\ Null \notin Addrs /\ "heap" \in Kinds /\ "map" \in Kinds
        /\ \A j \in Kinds : j \in Uses /\ j \notin {"unused", "held", "stack"}
        /\ \A u \in Threads : \A x \in Addrs :
              /\ Allocating(u, x) => Holds(u, x)
              /\ \A j \in Kinds : (AtLine(u, j, x) => Allocating(u, x)) /\ (AtEnd(u, j, x) => Holds(u, x))
              /\ Holds(u, x) => mem[x] = "held"
        /\ \A x \in Addrs : pc[t] \in {"idle", "gone"} =>
              /\ ~Holds(t, x) /\ ~Allocating(t, x)
              /\ \A j \in Kinds : ~AtLine(t, j, x) /\ ~AtEnd(t, j, x)
    BY <1>1, NullType, LinesHeld DEF Uses, Kinds, Holds, Allocating, AtLine, AtEnd, Busy
  <1>3. CASE Hooked(k, filtered)
    <2>1. /\ pc[t] = "idle" /\ mem[a] = "unused"
          /\ Enter(t, "got", k, a, l, FALSE)
          /\ mem' = [mem EXCEPT ![a] = "held"]
          /\ large' = [large EXCEPT ![a] = l]
          /\ UNCHANGED <<stack, cache, open, recorder, missed>>
      BY <1>1, <1>3 DEF Allocate, memory, log
    <2>2. /\ pc' \in [Threads -> PC] /\ op' \in [Threads -> Call]
          /\ pc'[t] = "got" /\ op'[t].kind = k /\ op'[t].addr = a
          /\ (op'[t].large <=> l) /\ ~op'[t].exit
          /\ \A u \in Threads : u # t => pc'[u] = pc[u] /\ op'[u] = op[u]
      BY <1>1, <1>2, <2>1 DEF Types, Enter, Back, PC, Call, Results, Kinds
    <2>3. /\ mem' \in [Addrs -> Uses]
          /\ \A x \in Addrs : mem'[x] = IF x = a THEN "held" ELSE mem[x]
      BY <1>1, <1>2, <2>1, <2>2 DEF Types, Uses, Kinds
    <2>4. /\ CallOK(t)'
          /\ \A x \in Addrs : (Holds(t, x)' <=> x = a) /\ (Allocating(t, x)' <=> x = a)
          /\ \A j \in Kinds : \A x \in Addrs :
                ~AtLine(t, j, x)' /\ ~AtEnd(t, j, x)'
      BY <1>2, <2>1, <2>2, <2>3 DEF CallOK, Holds, Allocating, AtLine, AtEnd, Busy
    <2>5. \A u \in Threads : u # t =>
             /\ CallOK(u)'
             /\ \A x \in Addrs : /\ Holds(u, x)' <=> Holds(u, x)
                                 /\ Allocating(u, x)' <=> Allocating(u, x)
             /\ \A j \in Kinds : \A x \in Addrs :
                   /\ AtLine(u, j, x)' <=> AtLine(u, j, x)
                   /\ AtEnd(u, j, x)' <=> AtEnd(u, j, x)
      BY <1>1, <2>1, <2>2, OthersStay
    <2>6. \A u \in Threads :
             /\ CallOK(u)'
             /\ \A x \in Addrs :
                   /\ Holds(u, x)' <=> (u = t /\ x = a) \/ (u # t /\ Holds(u, x))
                   /\ Allocating(u, x)' <=> (u = t /\ x = a) \/ (u # t /\ Allocating(u, x))
             /\ \A j \in Kinds : \A x \in Addrs :
                   /\ AtLine(u, j, x)' <=> u # t /\ AtLine(u, j, x)
                   /\ AtEnd(u, j, x)' <=> u # t /\ AtEnd(u, j, x)
      BY <2>4, <2>5
    <2>7. Types'
      BY <1>1, <1>2, <2>1, <2>2, <2>3, <2>4, <2>6 DEF Types
    <2>8. HeldInv'
      <3>1. \A u \in Threads : \A x \in Addrs : Holds(u, x)' => mem'[x] = "held"
        BY <1>1, <1>2, <2>1, <2>2, <2>3, <2>4, <2>6 DEF HeldInv
      <3>2. \A u, v \in Threads : \A x \in Addrs : Holds(u, x)' /\ Holds(v, x)' => u = v
        BY <1>1, <1>2, <2>1, <2>2, <2>3, <2>4, <2>6 DEF HeldInv
      <3>3. \A u \in Threads : CallOK(u)'
        BY <1>1, <1>2, <2>1, <2>2, <2>3, <2>4, <2>6 DEF HeldInv
      <3>4. \A u \in Threads : stack'[u] # Null => mem'[stack'[u]] = "stack"
        BY <1>1, <1>2, <2>1, <2>2, <2>3, <2>4, <2>6 DEF Types, HeldInv, Results
      <3>5. \A u, v \in Threads : stack'[u] # Null /\ stack'[u] = stack'[v] => u = v
        BY <1>1, <1>2, <2>1, <2>2, <2>3, <2>4, <2>6 DEF HeldInv
      <3>6. QED
        BY <3>1, <3>2, <3>3, <3>4, <3>5 DEF HeldInv
    <2>9. RecordInv'
      <3>1. \A x \in Addrs : mem'[x] \in {"unused", "stack"} => recorder'[x] = Null
        BY <1>1, <1>2, <2>1, <2>2, <2>3, <2>4, <2>6 DEF RecordInv, Types
      <3>2. \A u \in Threads : \A x \in Addrs : Allocating(u, x)' => recorder'[x] = Null
        BY <1>1, <1>2, <2>1, <2>2, <2>3, <2>4, <2>6 DEF RecordInv
      <3>3. \A u \in Threads : \A j \in Kinds : \A x \in Addrs :
             AtLine(u, j, x)' => cache'[j][u][x] > 0
        BY <1>1, <1>2, <2>1, <2>2, <2>3, <2>4, <2>6 DEF RecordInv, Types
      <3>4. \A x \in Addrs : mem'[x] \in Kinds /\ recorder'[x] # Null =>
             cache'[mem'[x]][recorder'[x]][x] > 0
        BY <1>1, <1>2, <2>1, <2>2, <2>3, <2>4, <2>6 DEF RecordInv, LiveHeld, Types, Kinds
      <3>5. QED
        BY <3>1, <3>2, <3>3, <3>4 DEF RecordInv, LiveHeld
    <2>10. LogInv'
      <3>1. \A j \in Kinds : \A x \in Addrs : x \notin missed'[j] => open'[j][x] <= 1
        BY <1>1, <1>2, <2>1, <2>2, <2>3, <2>4, <2>6 DEF LogInv, Types
      <3>2. \A j \in Kinds : \A x \in Addrs : x \notin missed'[j] /\ open'[j][x] = 1 =>
             mem'[x] = j \/ Releasing(j, x)'
        BY <1>1, <1>2, <2>1, <2>2, <2>3, <2>4, <2>6 DEF LogInv, Types, Releasing, Kinds
      <3>3. QED
        BY <3>1, <3>2 DEF LogInv
    <2>11. HeapInv'
      <3>1. \A x \in Addrs : /\ Writing(x)' <=> Writing(x)
                             /\ Releasing("heap", x)' <=> Releasing("heap", x)
        BY <1>1, <1>2, <2>1, <2>2, <2>3, <2>4, <2>6 DEF Writing, Releasing, Kinds
      <3>2. QED
        BY <1>1, <1>2, <2>1, <2>2, <2>3, <2>4, <2>6, <3>1, HeapFrame DEF Kinds
    <2>12. QED
      BY <2>7, <2>8, <2>9, <2>10, <2>11 DEF BookInv
  <1>4. CASE ~Hooked(k, filtered)
    <2>1. /\ mem[a] = "unused"
          /\ mem' = [mem EXCEPT ![a] = k]
          /\ large' = [large EXCEPT ![a] = l]
          /\ UNCHANGED <<stack, cache, open, recorder, missed, pc, op>>
      BY <1>1, <1>4 DEF Allocate, memory, log
    <2>2. /\ mem' \in [Addrs -> Uses]
          /\ \A x \in Addrs : mem'[x] = IF x = a THEN k ELSE mem[x]
      BY <1>1, <1>2, <2>1 DEF Types, Uses, Kinds
    <2>3. \A u \in Threads :
             /\ CallOK(u)' <=> CallOK(u)
             /\ \A x \in Addrs : /\ Holds(u, x)' <=> Holds(u, x)
                                 /\ Allocating(u, x)' <=> Allocating(u, x)
             /\ \A j \in Kinds : \A x \in Addrs :
                   /\ AtLine(u, j, x)' <=> AtLine(u, j, x)
                   /\ AtEnd(u, j, x)' <=> AtEnd(u, j, x)
      BY <2>1 DEF CallOK, Holds, Allocating, AtLine, AtEnd
    <2>4. Types'
      BY <1>1, <1>2, <2>1, <2>2, <2>3 DEF Types
    <2>5. HeldInv'
      <3>1. \A u \in Threads : \A x \in Addrs : Holds(u, x)' => mem'[x] = "held"
        BY <1>1, <1>2, <2>1, <2>2, <2>3 DEF HeldInv
      <3>2. \A u, v \in Threads : \A x \in Addrs : Holds(u, x)' /\ Holds(v, x)' => u = v
        BY <1>1, <1>2, <2>1, <2>2, <2>3 DEF HeldInv
      <3>3. \A u \in Threads : CallOK(u)'
        BY <1>1, <1>2, <2>1, <2>2, <2>3 DEF HeldInv
      <3>4. \A u \in Threads : stack'[u] # Null => mem'[stack'[u]] = "stack"
        BY <1>1, <1>2, <2>1, <2>2, <2>3 DEF Types, HeldInv, Results
      <3>5. \A u, v \in Threads : stack'[u] # Null /\ stack'[u] = stack'[v] => u = v
        BY <1>1, <1>2, <2>1, <2>2, <2>3 DEF HeldInv
      <3>6. QED
        BY <3>1, <3>2, <3>3, <3>4, <3>5 DEF HeldInv
    <2>6. RecordInv'
      <3>1. \A x \in Addrs : mem'[x] \in {"unused", "stack"} => recorder'[x] = Null
        BY <1>1, <1>2, <2>1, <2>2, <2>3 DEF RecordInv, Types
      <3>2. \A u \in Threads : \A x \in Addrs : Allocating(u, x)' => recorder'[x] = Null
        BY <1>1, <1>2, <2>1, <2>2, <2>3 DEF RecordInv
      <3>3. \A u \in Threads : \A j \in Kinds : \A x \in Addrs :
             AtLine(u, j, x)' => cache'[j][u][x] > 0
        BY <1>1, <1>2, <2>1, <2>2, <2>3 DEF RecordInv, Types
      <3>4. \A x \in Addrs : mem'[x] \in Kinds /\ recorder'[x] # Null =>
             cache'[mem'[x]][recorder'[x]][x] > 0
        BY <1>1, <1>2, <2>1, <2>2, <2>3 DEF RecordInv, LiveHeld, Types, Kinds
      <3>5. QED
        BY <3>1, <3>2, <3>3, <3>4 DEF RecordInv, LiveHeld
    <2>7. LogInv'
      <3>1. \A j \in Kinds : \A x \in Addrs : x \notin missed'[j] => open'[j][x] <= 1
        BY <1>1, <1>2, <2>1, <2>2, <2>3 DEF LogInv, Types
      <3>2. \A j \in Kinds : \A x \in Addrs : x \notin missed'[j] /\ open'[j][x] = 1 =>
             mem'[x] = j \/ Releasing(j, x)'
        BY <1>1, <1>2, <2>1, <2>2, <2>3 DEF LogInv, Types, Releasing, Kinds
      <3>3. QED
        BY <3>1, <3>2 DEF LogInv
    <2>8. HeapInv'
      <3>1. \A x \in Addrs : /\ Writing(x)' <=> Writing(x)
                             /\ Releasing("heap", x)' <=> Releasing("heap", x)
        BY <1>1, <1>2, <2>1, <2>2, <2>3 DEF Writing, Releasing, Kinds
      <3>2. QED
        BY <1>1, <1>2, <2>1, <2>2, <2>3, <3>1, HeapFrame DEF Kinds
    <2>9. QED
      BY <2>4, <2>5, <2>6, <2>7, <2>8 DEF BookInv
  <1>5. QED
    BY <1>1, <1>3, <1>4 DEF Allocate

\* An allocation fails: there is no block.
LEMMA AllocateFailsKeeps ==
    ASSUME BookInv, NEW t \in Threads, NEW k \in Kinds, NEW l \in BOOLEAN, AllocateFails(t, k, l)
    PROVE  BookInv'
  <1>1. AllocateFails(t, k, l) /\ Types /\ HeldInv /\ RecordInv /\ LogInv /\ HeapInv
    BY DEF BookInv
  <1>2. /\ Null \notin Addrs /\ "heap" \in Kinds /\ "map" \in Kinds
        /\ \A j \in Kinds : j \in Uses /\ j \notin {"unused", "held", "stack"}
        /\ \A u \in Threads : \A x \in Addrs :
              /\ Allocating(u, x) => Holds(u, x)
              /\ \A j \in Kinds : (AtLine(u, j, x) => Allocating(u, x)) /\ (AtEnd(u, j, x) => Holds(u, x))
              /\ Holds(u, x) => mem[x] = "held"
        /\ \A x \in Addrs : pc[t] \in {"idle", "gone"} =>
              /\ ~Holds(t, x) /\ ~Allocating(t, x)
              /\ \A j \in Kinds : ~AtLine(t, j, x) /\ ~AtEnd(t, j, x)
    BY <1>1, NullType, LinesHeld DEF Uses, Kinds, Holds, Allocating, AtLine, AtEnd, Busy
  <1>3. BookInv'
    <2>1. /\ pc[t] = "idle"
          /\ Enter(t, "got", k, Null, l, FALSE)
          /\ UNCHANGED <<mem, large, stack, cache, open, recorder, missed>>
      BY <1>1 DEF AllocateFails, memory, log
    <2>2. /\ pc' \in [Threads -> PC] /\ op' \in [Threads -> Call]
          /\ pc'[t] = "got" /\ op'[t].kind = k /\ op'[t].addr = Null
          /\ (op'[t].large <=> l) /\ ~op'[t].exit
          /\ \A u \in Threads : u # t => pc'[u] = pc[u] /\ op'[u] = op[u]
      BY <1>1, <1>2, <2>1 DEF Types, Enter, Back, PC, Call, Results, Kinds
    <2>3. /\ CallOK(t)'
          /\ \A x \in Addrs : ~Holds(t, x)' /\ ~Allocating(t, x)'
          /\ \A j \in Kinds : \A x \in Addrs :
                ~AtLine(t, j, x)' /\ ~AtEnd(t, j, x)'
      BY <1>2, <2>1, <2>2 DEF CallOK, Holds, Allocating, AtLine, AtEnd, Busy
    <2>4. \A u \in Threads : u # t =>
             /\ CallOK(u)'
             /\ \A x \in Addrs : /\ Holds(u, x)' <=> Holds(u, x)
                                 /\ Allocating(u, x)' <=> Allocating(u, x)
             /\ \A j \in Kinds : \A x \in Addrs :
                   /\ AtLine(u, j, x)' <=> AtLine(u, j, x)
                   /\ AtEnd(u, j, x)' <=> AtEnd(u, j, x)
      BY <1>1, <2>1, <2>2, OthersStay
    <2>5. \A u \in Threads :
             /\ CallOK(u)'
             /\ \A x \in Addrs :
                   /\ Holds(u, x)' <=> u # t /\ Holds(u, x)
                   /\ Allocating(u, x)' <=> u # t /\ Allocating(u, x)
             /\ \A j \in Kinds : \A x \in Addrs :
                   /\ AtLine(u, j, x)' <=> u # t /\ AtLine(u, j, x)
                   /\ AtEnd(u, j, x)' <=> u # t /\ AtEnd(u, j, x)
      BY <2>3, <2>4
    <2>6. Types'
      BY <1>1, <1>2, <2>1, <2>2, <2>3, <2>5 DEF Types
    <2>7. HeldInv'
      <3>1. \A u \in Threads : \A x \in Addrs : Holds(u, x)' => mem'[x] = "held"
        BY <1>1, <1>2, <2>1, <2>2, <2>3, <2>5 DEF HeldInv
      <3>2. \A u, v \in Threads : \A x \in Addrs : Holds(u, x)' /\ Holds(v, x)' => u = v
        BY <1>1, <1>2, <2>1, <2>2, <2>3, <2>5 DEF HeldInv
      <3>3. \A u \in Threads : CallOK(u)'
        BY <1>1, <1>2, <2>1, <2>2, <2>3, <2>5 DEF HeldInv
      <3>4. \A u \in Threads : stack'[u] # Null => mem'[stack'[u]] = "stack"
        BY <1>1, <1>2, <2>1, <2>2, <2>3, <2>5 DEF Types, HeldInv, Results
      <3>5. \A u, v \in Threads : stack'[u] # Null /\ stack'[u] = stack'[v] => u = v
        BY <1>1, <1>2, <2>1, <2>2, <2>3, <2>5 DEF HeldInv
      <3>6. QED
        BY <3>1, <3>2, <3>3, <3>4, <3>5 DEF HeldInv
    <2>8. RecordInv'
      <3>1. \A x \in Addrs : mem'[x] \in {"unused", "stack"} => recorder'[x] = Null
        BY <1>1, <1>2, <2>1, <2>2, <2>3, <2>5 DEF RecordInv, Types
      <3>2. \A u \in Threads : \A x \in Addrs : Allocating(u, x)' => recorder'[x] = Null
        BY <1>1, <1>2, <2>1, <2>2, <2>3, <2>5 DEF RecordInv
      <3>3. \A u \in Threads : \A j \in Kinds : \A x \in Addrs :
             AtLine(u, j, x)' => cache'[j][u][x] > 0
        BY <1>1, <1>2, <2>1, <2>2, <2>3, <2>5 DEF RecordInv, Types
      <3>4. \A x \in Addrs : mem'[x] \in Kinds /\ recorder'[x] # Null =>
             cache'[mem'[x]][recorder'[x]][x] > 0
        BY <1>1, <1>2, <2>1, <2>2, <2>3, <2>5 DEF RecordInv, LiveHeld, Types, Kinds
      <3>5. QED
        BY <3>1, <3>2, <3>3, <3>4 DEF RecordInv, LiveHeld
    <2>9. LogInv'
      <3>1. \A j \in Kinds : \A x \in Addrs : x \notin missed'[j] => open'[j][x] <= 1
        BY <1>1, <1>2, <2>1, <2>2, <2>3, <2>5 DEF LogInv, Types
      <3>2. \A j \in Kinds : \A x \in Addrs : x \notin missed'[j] /\ open'[j][x] = 1 =>
             mem'[x] = j \/ Releasing(j, x)'
        BY <1>1, <1>2, <2>1, <2>2, <2>3, <2>5 DEF LogInv, Types, Releasing, Kinds
      <3>3. QED
        BY <3>1, <3>2 DEF LogInv
    <2>10. HeapInv'
      <3>1. \A x \in Addrs : /\ Writing(x)' <=> Writing(x)
                             /\ Releasing("heap", x)' <=> Releasing("heap", x)
        BY <1>1, <1>2, <2>1, <2>2, <2>3, <2>5 DEF Writing, Releasing, Kinds
      <3>2. QED
        BY <1>1, <1>2, <2>1, <2>2, <2>3, <2>5, <3>1, HeapFrame DEF Kinds
    <2>11. QED
      BY <2>6, <2>7, <2>8, <2>9, <2>10 DEF BookInv
  <1>4. QED
    BY <1>1, <1>3 DEF AllocateFails

\* A block moves, or stays where it is: the old one ends without a line.
LEMMA ReallocateKeeps ==
    ASSUME BookInv, NEW t \in Threads, NEW a \in Addrs, NEW b \in Addrs, NEW l \in BOOLEAN, NEW filtered \in BOOLEAN, Reallocate(t, a, b, l, filtered)
    PROVE  BookInv'
  <1>1. Reallocate(t, a, b, l, filtered) /\ Types /\ HeldInv /\ RecordInv /\ LogInv /\ HeapInv
    BY DEF BookInv
  <1>2. /\ Null \notin Addrs /\ "heap" \in Kinds /\ "map" \in Kinds
        /\ \A j \in Kinds : j \in Uses /\ j \notin {"unused", "held", "stack"}
        /\ \A u \in Threads : \A x \in Addrs :
              /\ Allocating(u, x) => Holds(u, x)
              /\ \A j \in Kinds : (AtLine(u, j, x) => Allocating(u, x)) /\ (AtEnd(u, j, x) => Holds(u, x))
              /\ Holds(u, x) => mem[x] = "held"
        /\ \A x \in Addrs : pc[t] \in {"idle", "gone"} =>
              /\ ~Holds(t, x) /\ ~Allocating(t, x)
              /\ \A j \in Kinds : ~AtLine(t, j, x) /\ ~AtEnd(t, j, x)
    BY <1>1, NullType, LinesHeld DEF Uses, Kinds, Holds, Allocating, AtLine, AtEnd, Busy
  <1>3. CASE Hooked("heap", filtered)
    <2>1. /\ pc[t] = "idle" /\ mem[a] = "heap" /\ (b = a \/ mem[b] = "unused")
          /\ Enter(t, "got", "heap", b, l, FALSE)
          /\ mem' = [mem EXCEPT ![a] = "unused", ![b] = "held"]
          /\ large' = [large EXCEPT ![a] = FALSE, ![b] = l]
          /\ recorder' = [recorder EXCEPT ![a] = Null]
          /\ Miss("heap", a)
          /\ UNCHANGED <<stack, cache, open>>
      BY <1>1, <1>3 DEF Reallocate, memory, log
    <2>2. /\ pc' \in [Threads -> PC] /\ op' \in [Threads -> Call]
          /\ pc'[t] = "got" /\ op'[t].kind = "heap" /\ op'[t].addr = b
          /\ (op'[t].large <=> l) /\ ~op'[t].exit
          /\ \A u \in Threads : u # t => pc'[u] = pc[u] /\ op'[u] = op[u]
      BY <1>1, <1>2, <2>1 DEF Types, Enter, Back, PC, Call, Results, Kinds
    <2>3. /\ mem' \in [Addrs -> Uses]
          /\ \A x \in Addrs : mem'[x] = IF x = b THEN "held" ELSE IF x = a THEN "unused" ELSE mem[x]
      BY <1>1, <1>2, <2>1, <2>2 DEF Types, Uses, Kinds
    <2>4. /\ recorder' \in [Addrs -> Threads \cup {Null}]
          /\ \A x \in Addrs : recorder'[x] = IF x = a THEN Null ELSE recorder[x]
      BY <1>1, <1>2, <2>1, <2>2, <2>3 DEF Types
    <2>5. /\ missed' \in [Kinds -> SUBSET Addrs]
          /\ \A j \in Kinds : missed[j] \subseteq missed'[j]
          /\ open["heap"][a] > 0 => a \in missed'["heap"]
      BY <1>1, <1>2, <2>1, MissLeaves DEF Kinds
    <2>6. /\ CallOK(t)'
          /\ \A x \in Addrs : (Holds(t, x)' <=> x = b) /\ (Allocating(t, x)' <=> x = b)
          /\ \A j \in Kinds : \A x \in Addrs :
                ~AtLine(t, j, x)' /\ ~AtEnd(t, j, x)'
      BY <1>2, <2>1, <2>2, <2>3, <2>4, <2>5 DEF CallOK, Holds, Allocating, AtLine, AtEnd, Busy
    <2>7. \A u \in Threads : u # t =>
             /\ CallOK(u)'
             /\ \A x \in Addrs : /\ Holds(u, x)' <=> Holds(u, x)
                                 /\ Allocating(u, x)' <=> Allocating(u, x)
             /\ \A j \in Kinds : \A x \in Addrs :
                   /\ AtLine(u, j, x)' <=> AtLine(u, j, x)
                   /\ AtEnd(u, j, x)' <=> AtEnd(u, j, x)
      BY <1>1, <2>1, <2>2, OthersStay
    <2>8. \A u \in Threads :
             /\ CallOK(u)'
             /\ \A x \in Addrs :
                   /\ Holds(u, x)' <=> (u = t /\ x = b) \/ (u # t /\ Holds(u, x))
                   /\ Allocating(u, x)' <=> (u = t /\ x = b) \/ (u # t /\ Allocating(u, x))
             /\ \A j \in Kinds : \A x \in Addrs :
                   /\ AtLine(u, j, x)' <=> u # t /\ AtLine(u, j, x)
                   /\ AtEnd(u, j, x)' <=> u # t /\ AtEnd(u, j, x)
      BY <2>6, <2>7
    <2>9. Types'
      BY <1>1, <1>2, <2>1, <2>2, <2>3, <2>4, <2>5, <2>6, <2>8 DEF Types
    <2>10. HeldInv'
      <3>1. \A u \in Threads : \A x \in Addrs : Holds(u, x)' => mem'[x] = "held"
        BY <1>1, <1>2, <2>1, <2>2, <2>3, <2>4, <2>5, <2>6, <2>8 DEF HeldInv
      <3>2. \A u, v \in Threads : \A x \in Addrs : Holds(u, x)' /\ Holds(v, x)' => u = v
        BY <1>1, <1>2, <2>1, <2>2, <2>3, <2>4, <2>5, <2>6, <2>8 DEF HeldInv
      <3>3. \A u \in Threads : CallOK(u)'
        BY <1>1, <1>2, <2>1, <2>2, <2>3, <2>4, <2>5, <2>6, <2>8 DEF HeldInv
      <3>4. \A u \in Threads : stack'[u] # Null => mem'[stack'[u]] = "stack"
        BY <1>1, <1>2, <2>1, <2>2, <2>3, <2>4, <2>5, <2>6, <2>8 DEF Types, HeldInv, Results
      <3>5. \A u, v \in Threads : stack'[u] # Null /\ stack'[u] = stack'[v] => u = v
        BY <1>1, <1>2, <2>1, <2>2, <2>3, <2>4, <2>5, <2>6, <2>8 DEF HeldInv
      <3>6. QED
        BY <3>1, <3>2, <3>3, <3>4, <3>5 DEF HeldInv
    <2>11. RecordInv'
      <3>1. \A x \in Addrs : mem'[x] \in {"unused", "stack"} => recorder'[x] = Null
        BY <1>1, <1>2, <2>1, <2>2, <2>3, <2>4, <2>5, <2>6, <2>8 DEF RecordInv, Types
      <3>2. \A u \in Threads : \A x \in Addrs : Allocating(u, x)' => recorder'[x] = Null
        BY <1>1, <1>2, <2>1, <2>2, <2>3, <2>4, <2>5, <2>6, <2>8 DEF RecordInv
      <3>3. \A u \in Threads : \A j \in Kinds : \A x \in Addrs :
             AtLine(u, j, x)' => cache'[j][u][x] > 0
        BY <1>1, <1>2, <2>1, <2>2, <2>3, <2>4, <2>5, <2>6, <2>8 DEF RecordInv, Types
      <3>4. \A x \in Addrs : mem'[x] \in Kinds /\ recorder'[x] # Null =>
             cache'[mem'[x]][recorder'[x]][x] > 0
        BY <1>1, <1>2, <2>1, <2>2, <2>3, <2>4, <2>5, <2>6, <2>8 DEF RecordInv, LiveHeld, Types, Kinds
      <3>5. QED
        BY <3>1, <3>2, <3>3, <3>4 DEF RecordInv, LiveHeld
    <2>12. LogInv'
      <3>1. \A j \in Kinds : \A x \in Addrs : x \notin missed'[j] => open'[j][x] <= 1
        BY <1>1, <1>2, <2>1, <2>2, <2>3, <2>4, <2>5, <2>6, <2>8 DEF LogInv, Types
      <3>2. \A j \in Kinds : \A x \in Addrs : x \notin missed'[j] /\ open'[j][x] = 1 =>
             mem'[x] = j \/ Releasing(j, x)'
        BY <1>1, <1>2, <2>1, <2>2, <2>3, <2>4, <2>5, <2>6, <2>8 DEF LogInv, Types, Releasing, Kinds
      <3>3. QED
        BY <3>1, <3>2 DEF LogInv
    <2>13. HeapInv'
      <3>1. \A x \in Addrs : /\ Writing(x)' <=> Writing(x)
                             /\ Releasing("heap", x)' <=> Releasing("heap", x)
        BY <1>1, <1>2, <2>1, <2>2, <2>3, <2>4, <2>5, <2>6, <2>8 DEF Writing, Releasing, Kinds
      <3>2. QED
        BY <1>1, <1>2, <2>1, <2>2, <2>3, <2>4, <2>5, <2>6, <2>8, <3>1, HeapFrame DEF Kinds
    <2>14. QED
      BY <2>9, <2>10, <2>11, <2>12, <2>13 DEF BookInv
  <1>4. CASE ~Hooked("heap", filtered)
    <2>1. /\ mem[a] = "heap" /\ (b = a \/ mem[b] = "unused")
          /\ mem' = [mem EXCEPT ![a] = "unused", ![b] = "heap"]
          /\ large' = [large EXCEPT ![a] = FALSE, ![b] = l]
          /\ recorder' = [recorder EXCEPT ![a] = Null]
          /\ Miss("heap", a)
          /\ UNCHANGED <<stack, cache, open, pc, op>>
      BY <1>1, <1>4 DEF Reallocate, memory, log
    <2>2. /\ mem' \in [Addrs -> Uses]
          /\ \A x \in Addrs : mem'[x] = IF x = b THEN "heap" ELSE IF x = a THEN "unused" ELSE mem[x]
      BY <1>1, <1>2, <2>1 DEF Types, Uses, Kinds
    <2>3. /\ recorder' \in [Addrs -> Threads \cup {Null}]
          /\ \A x \in Addrs : recorder'[x] = IF x = a THEN Null ELSE recorder[x]
      BY <1>1, <1>2, <2>1, <2>2 DEF Types
    <2>4. /\ missed' \in [Kinds -> SUBSET Addrs]
          /\ \A j \in Kinds : missed[j] \subseteq missed'[j]
          /\ open["heap"][a] > 0 => a \in missed'["heap"]
      BY <1>1, <1>2, <2>1, MissLeaves DEF Kinds
    <2>5. \A u \in Threads :
             /\ CallOK(u)' <=> CallOK(u)
             /\ \A x \in Addrs : /\ Holds(u, x)' <=> Holds(u, x)
                                 /\ Allocating(u, x)' <=> Allocating(u, x)
             /\ \A j \in Kinds : \A x \in Addrs :
                   /\ AtLine(u, j, x)' <=> AtLine(u, j, x)
                   /\ AtEnd(u, j, x)' <=> AtEnd(u, j, x)
      BY <2>1 DEF CallOK, Holds, Allocating, AtLine, AtEnd
    <2>6. Types'
      BY <1>1, <1>2, <2>1, <2>2, <2>3, <2>4, <2>5 DEF Types
    <2>7. HeldInv'
      <3>1. \A u \in Threads : \A x \in Addrs : Holds(u, x)' => mem'[x] = "held"
        BY <1>1, <1>2, <2>1, <2>2, <2>3, <2>4, <2>5 DEF HeldInv
      <3>2. \A u, v \in Threads : \A x \in Addrs : Holds(u, x)' /\ Holds(v, x)' => u = v
        BY <1>1, <1>2, <2>1, <2>2, <2>3, <2>4, <2>5 DEF HeldInv
      <3>3. \A u \in Threads : CallOK(u)'
        BY <1>1, <1>2, <2>1, <2>2, <2>3, <2>4, <2>5 DEF HeldInv
      <3>4. \A u \in Threads : stack'[u] # Null => mem'[stack'[u]] = "stack"
        BY <1>1, <1>2, <2>1, <2>2, <2>3, <2>4, <2>5 DEF Types, HeldInv, Results
      <3>5. \A u, v \in Threads : stack'[u] # Null /\ stack'[u] = stack'[v] => u = v
        BY <1>1, <1>2, <2>1, <2>2, <2>3, <2>4, <2>5 DEF HeldInv
      <3>6. QED
        BY <3>1, <3>2, <3>3, <3>4, <3>5 DEF HeldInv
    <2>8. RecordInv'
      <3>1. \A x \in Addrs : mem'[x] \in {"unused", "stack"} => recorder'[x] = Null
        BY <1>1, <1>2, <2>1, <2>2, <2>3, <2>4, <2>5 DEF RecordInv, Types
      <3>2. \A u \in Threads : \A x \in Addrs : Allocating(u, x)' => recorder'[x] = Null
        BY <1>1, <1>2, <2>1, <2>2, <2>3, <2>4, <2>5 DEF RecordInv
      <3>3. \A u \in Threads : \A j \in Kinds : \A x \in Addrs :
             AtLine(u, j, x)' => cache'[j][u][x] > 0
        BY <1>1, <1>2, <2>1, <2>2, <2>3, <2>4, <2>5 DEF RecordInv, Types
      <3>4. \A x \in Addrs : mem'[x] \in Kinds /\ recorder'[x] # Null =>
             cache'[mem'[x]][recorder'[x]][x] > 0
        BY <1>1, <1>2, <2>1, <2>2, <2>3, <2>4, <2>5 DEF RecordInv, LiveHeld, Types, Kinds
      <3>5. QED
        BY <3>1, <3>2, <3>3, <3>4 DEF RecordInv, LiveHeld
    <2>9. LogInv'
      <3>1. \A j \in Kinds : \A x \in Addrs : x \notin missed'[j] => open'[j][x] <= 1
        BY <1>1, <1>2, <2>1, <2>2, <2>3, <2>4, <2>5 DEF LogInv, Types
      <3>2. \A j \in Kinds : \A x \in Addrs : x \notin missed'[j] /\ open'[j][x] = 1 =>
             mem'[x] = j \/ Releasing(j, x)'
        BY <1>1, <1>2, <2>1, <2>2, <2>3, <2>4, <2>5 DEF LogInv, Types, Releasing, Kinds
      <3>3. QED
        BY <3>1, <3>2 DEF LogInv
    <2>10. HeapInv'
      <3>1. \A x \in Addrs : /\ Writing(x)' <=> Writing(x)
                             /\ Releasing("heap", x)' <=> Releasing("heap", x)
        BY <1>1, <1>2, <2>1, <2>2, <2>3, <2>4, <2>5 DEF Writing, Releasing, Kinds
      <3>2. QED
        BY <1>1, <1>2, <2>1, <2>2, <2>3, <2>4, <2>5, <3>1, HeapFrame DEF Kinds
    <2>11. QED
      BY <2>6, <2>7, <2>8, <2>9, <2>10 DEF BookInv
  <1>5. QED
    BY <1>1, <1>3, <1>4 DEF Reallocate

\* A large block is entered in the cache of the thread, a small one is returned.
LEMMA RecordKeeps ==
    ASSUME BookInv, NEW t \in Threads, Record(t)
    PROVE  BookInv'
  <1>1. Record(t) /\ Types /\ HeldInv /\ RecordInv /\ LogInv /\ HeapInv
    BY DEF BookInv
  <1>2. /\ Null \notin Addrs /\ "heap" \in Kinds /\ "map" \in Kinds
        /\ \A j \in Kinds : j \in Uses /\ j \notin {"unused", "held", "stack"}
        /\ \A u \in Threads : \A x \in Addrs :
              /\ Allocating(u, x) => Holds(u, x)
              /\ \A j \in Kinds : (AtLine(u, j, x) => Allocating(u, x)) /\ (AtEnd(u, j, x) => Holds(u, x))
              /\ Holds(u, x) => mem[x] = "held"
        /\ \A x \in Addrs : pc[t] \in {"idle", "gone"} =>
              /\ ~Holds(t, x) /\ ~Allocating(t, x)
              /\ \A j \in Kinds : ~AtLine(t, j, x) /\ ~AtEnd(t, j, x)
    BY <1>1, NullType, LinesHeld DEF Uses, Kinds, Holds, Allocating, AtLine, AtEnd, Busy
  <1>3. CASE op[t].large /\ op[t].addr # Null
    <2>1. /\ pc[t] = "got" /\ op[t].large /\ op[t].addr # Null
          /\ cache' = [cache EXCEPT ![op[t].kind][t][op[t].addr] = @ + 1]
          /\ Go(t, "line")
          /\ UNCHANGED <<mem, large, stack, open, recorder, missed>>
      BY <1>1, <1>3 DEF Record, memory, log
    <2>2. /\ pc' \in [Threads -> PC] /\ op' = op /\ pc'[t] = "line"
          /\ \A u \in Threads : u # t => pc'[u] = pc[u] /\ op'[u] = op[u]
      BY <1>1, <2>1 DEF Types, Go, PC
    <2>3. /\ op[t].kind \in Kinds /\ op[t].addr \in Results /\ CallOK(t)
          /\ \A x \in Addrs : (Holds(t, x) <=> x = op[t].addr) /\ (Allocating(t, x) <=> x = op[t].addr)
          /\ \A j \in Kinds : \A x \in Addrs :
                ~AtLine(t, j, x) /\ ~AtEnd(t, j, x)
      BY <1>1, <1>2, <2>1 DEF Types, HeldInv, CallOK, Call, Holds, Allocating, AtLine, AtEnd, Busy
    <2>4. /\ cache' \in [Kinds -> [Threads -> [Addrs -> Nat]]]
          /\ \A j \in Kinds : \A u \in Threads : \A x \in Addrs :
                cache'[j][u][x] = IF j = op[t].kind /\ u = t /\ x = op[t].addr
                                  THEN cache[j][u][x] + 1 ELSE cache[j][u][x]
          /\ \A j \in Kinds : j # op[t].kind => cache'[j] = cache[j]
      <3>1. ASSUME NEW k \in Kinds, NEW a \in Addrs, k = op[t].kind, a = op[t].addr
            PROVE  /\ cache' \in [Kinds -> [Threads -> [Addrs -> Nat]]]
                   /\ \A j \in Kinds : \A u \in Threads : \A x \in Addrs :
                         cache'[j][u][x] = IF j = k /\ u = t /\ x = a
                                           THEN cache[k][t][a] + 1 ELSE cache[j][u][x]
                   /\ \A j \in Kinds : j # k => cache'[j] = cache[j]
        <4>1. cache[k][t][a] + 1 \in Nat
          BY <1>1 DEF Types
        <4>2. cache' = [cache EXCEPT ![k] = [cache[k] EXCEPT ![t] = [cache[k][t] EXCEPT ![a] = cache[k][t][a] + 1]]]
          BY <2>1, <1>1, <3>1 DEF Types
        <4> DEFINE v == cache[k][t][a] + 1
        <4> HIDE DEF v
        <4>3. v \in Nat /\ cache' = [cache EXCEPT ![k] = [cache[k] EXCEPT ![t] = [cache[k][t] EXCEPT ![a] = v]]]
          BY <4>1, <4>2 DEF v
        <4>4. /\ cache' \in [Kinds -> [Threads -> [Addrs -> Nat]]]
              /\ \A j \in Kinds : \A u \in Threads : \A x \in Addrs :
                    cache'[j][u][x] = IF j = k /\ u = t /\ x = a THEN v ELSE cache[j][u][x]
              /\ \A j \in Kinds : j # k => cache'[j] = cache[j]
          BY <1>1, <4>3, CacheLeaves
        <4>5. QED
          BY <4>4 DEF v
      <3>2. op[t].kind \in Kinds /\ op[t].addr \in Addrs
        BY <2>1, <2>2, <2>3 DEF Results
      <3>3. QED
        BY <3>1, <3>2
    <2>5. /\ CallOK(t)'
          /\ \A x \in Addrs : (Holds(t, x)' <=> x = op[t].addr) /\ (Allocating(t, x)' <=> x = op[t].addr)
          /\ \A j \in Kinds : \A x \in Addrs :
                (AtLine(t, j, x)' <=> j = op[t].kind /\ x = op[t].addr) /\ ~AtEnd(t, j, x)'
      BY <1>2, <2>1, <2>2, <2>3, <2>4 DEF CallOK, Holds, Allocating, AtLine, AtEnd, Busy
    <2>6. \A u \in Threads : u # t =>
             /\ CallOK(u)'
             /\ \A x \in Addrs : /\ Holds(u, x)' <=> Holds(u, x)
                                 /\ Allocating(u, x)' <=> Allocating(u, x)
             /\ \A j \in Kinds : \A x \in Addrs :
                   /\ AtLine(u, j, x)' <=> AtLine(u, j, x)
                   /\ AtEnd(u, j, x)' <=> AtEnd(u, j, x)
      BY <1>1, <2>1, <2>2, OthersStay
    <2>7. \A u \in Threads :
             /\ CallOK(u)'
             /\ \A x \in Addrs :
                   /\ Holds(u, x)' <=> (u = t /\ x = op[t].addr) \/ (u # t /\ Holds(u, x))
                   /\ Allocating(u, x)' <=> (u = t /\ x = op[t].addr) \/ (u # t /\ Allocating(u, x))
             /\ \A j \in Kinds : \A x \in Addrs :
                   /\ AtLine(u, j, x)' <=> (u = t /\ j = op[t].kind /\ x = op[t].addr) \/ (u # t /\ AtLine(u, j, x))
                   /\ AtEnd(u, j, x)' <=> u # t /\ AtEnd(u, j, x)
      BY SMTT(40), <2>5, <2>6
    <2>8. Types'
      BY SMTT(40), <1>1, <1>2, <2>1, <2>2, <2>3, <2>4, <2>5, <2>7 DEF Types
    <2>9. HeldInv'
      <3>1. \A u \in Threads : \A x \in Addrs : Holds(u, x)' => mem'[x] = "held"
        BY SMTT(40), <1>1, <1>2, <2>1, <2>2, <2>3, <2>4, <2>5, <2>7 DEF HeldInv
      <3>2. \A u, v \in Threads : \A x \in Addrs : Holds(u, x)' /\ Holds(v, x)' => u = v
        BY SMTT(40), <1>1, <1>2, <2>1, <2>2, <2>3, <2>4, <2>5, <2>7 DEF HeldInv
      <3>3. \A u \in Threads : CallOK(u)'
        BY SMTT(40), <1>1, <1>2, <2>1, <2>2, <2>3, <2>4, <2>5, <2>7 DEF HeldInv
      <3>4. \A u \in Threads : stack'[u] # Null => mem'[stack'[u]] = "stack"
        BY SMTT(40), <1>1, <1>2, <2>1, <2>2, <2>3, <2>4, <2>5, <2>7 DEF Types, HeldInv, Results
      <3>5. \A u, v \in Threads : stack'[u] # Null /\ stack'[u] = stack'[v] => u = v
        BY <1>1, <1>2, <2>1, <2>2, <2>3, <2>4, <2>5, <2>7 DEF HeldInv
      <3>6. QED
        BY SMTT(40), <3>1, <3>2, <3>3, <3>4, <3>5 DEF HeldInv
    <2>10. RecordInv'
      <3>1. \A x \in Addrs : mem'[x] \in {"unused", "stack"} => recorder'[x] = Null
        BY SMTT(40), <1>1, <1>2, <2>1, <2>2, <2>3, <2>4, <2>5, <2>7 DEF RecordInv, Types
      <3>2. \A u \in Threads : \A x \in Addrs : Allocating(u, x)' => recorder'[x] = Null
        BY SMTT(40), <1>1, <1>2, <2>1, <2>2, <2>3, <2>4, <2>5, <2>7 DEF RecordInv
      <3>3. \A u \in Threads : \A j \in Kinds : \A x \in Addrs :
             AtLine(u, j, x)' => cache'[j][u][x] > 0
        BY SMTT(40), <1>1, <1>2, <2>1, <2>2, <2>3, <2>4, <2>5, <2>7 DEF RecordInv, Types
      <3>4. \A x \in Addrs : mem'[x] \in Kinds /\ recorder'[x] # Null =>
             cache'[mem'[x]][recorder'[x]][x] > 0
        BY <1>1, <1>2, <2>1, <2>2, <2>3, <2>4, <2>5, <2>7 DEF RecordInv, LiveHeld, Types, Kinds
      <3>5. QED
        BY <3>1, <3>2, <3>3, <3>4 DEF RecordInv, LiveHeld
    <2>11. LogInv'
      <3>1. \A j \in Kinds : \A x \in Addrs : x \notin missed'[j] => open'[j][x] <= 1
        BY SMTT(40), <1>1, <1>2, <2>1, <2>2, <2>3, <2>4, <2>5, <2>7 DEF LogInv, Types
      <3>2. \A j \in Kinds : \A x \in Addrs : x \notin missed'[j] /\ open'[j][x] = 1 =>
             mem'[x] = j \/ Releasing(j, x)'
        BY <1>1, <1>2, <2>1, <2>2, <2>3, <2>4, <2>5, <2>7 DEF LogInv, Types, Releasing, Kinds
      <3>3. QED
        BY <3>1, <3>2 DEF LogInv
    <2>12. HeapInv'
      <3>1. ASSUME NEW x \in Addrs, x # op[t].addr
            PROVE  HeapOK(x)'
        <4>1. HeapOK(x) /\ (Writing(x)' <=> Writing(x)) /\ (Releasing("heap", x)' <=> Releasing("heap", x))
          BY SMTT(40), <1>1, <1>2, <2>1, <2>2, <2>3, <2>4, <2>5, <2>7, <3>1 DEF HeapInv, Writing, Releasing, Kinds
        <4>2. (\A u \in Threads : cache'["heap"][u][x] = cache["heap"][u][x]) /\ open'["heap"][x] = open["heap"][x]
          BY <1>1, <1>2, <2>1, <2>2, <2>3, <2>4, <2>5, <2>7, <3>1 DEF Kinds
        <4>3. QED
          BY SMTT(40), <4>1, <4>2, HeapSame
      <3>2. ASSUME NEW x \in Addrs, x = op[t].addr
            PROVE  HeapOK(x)'
        <4>1. CASE op[t].kind = "heap"
          <5> DEFINE n == cache["heap"][t][x]
          <5>1. n \in Nat /\ x \in Addrs
            BY <1>1, <1>2, <2>1, <2>2, <2>3, <2>4, <2>5, <2>7, <3>2 DEF Types, Kinds
          <5>1a. \A u \in Threads : cache'["heap"][u][x] = IF u = t THEN n + 1 ELSE cache["heap"][u][x]
            BY <1>1, <1>2, <2>1, <2>2, <2>3, <2>4, <2>5, <2>7, <3>2, <4>1 DEF Kinds
          <5>1b. \A u \in Threads : cache["heap"][u][x] \in Nat
            BY <1>1 DEF Types, Kinds
          <5>2. Entries(x)' = Entries(x) \cup {<<t, n + 1>>}
            BY <5>1, <5>1a, <5>1b DEF Entries
          <5>3. <<t, n + 1>> \notin Entries(x)
            BY <5>1 DEF Entries
          <5>4. ~Writing(x) /\ ~Releasing("heap", x)
            BY <1>1, <1>2, <2>1, <2>2, <2>3, <2>4, <2>5, <2>7, <3>2, <4>1, <5>1 DEF Writing, Releasing, HeldInv
          <5>5. Writing(x)' /\ ~Releasing("heap", x)'
            BY <1>1, <1>2, <2>1, <2>2, <2>3, <2>4, <2>5, <2>7, <3>2, <4>1, <5>1, <5>4 DEF Writing, Releasing
          <5>6. HeapOK(x)
            BY <1>1, <5>1 DEF HeapInv
          <5> HIDE DEF n
          <5>7. IsFiniteSet(Entries(x)') /\ Cardinality(Entries(x)') = Cardinality(Entries(x)) + 1
            BY <5>2, <5>3, <5>6, FS_AddElement DEF HeapOK
          <5>8. open'["heap"][x] = open["heap"][x]
            BY <1>1, <1>2, <2>1, <2>2, <2>3, <2>4, <2>5, <2>7, <3>2, <4>1
          <5>10. open["heap"][x] \in Nat /\ Cardinality(Entries(x)) \in Nat
            BY SMTT(40), <1>1, <5>1, <5>6, FS_CardinalityType DEF Types, Kinds, HeapOK
          <5>11. QED
            BY SMTT(40), <5>4, <5>5, <5>6, <5>7, <5>8, <5>10 DEF HeapOK
        <4>2. CASE op[t].kind # "heap"
          <5>1. x \in Addrs /\ cache'["heap"] = cache["heap"]
            BY SMTT(40), <1>1, <1>2, <2>1, <2>2, <2>3, <2>4, <2>5, <2>7, <3>2, <4>2
          <5>2. HeapOK(x) /\ (Writing(x)' <=> Writing(x)) /\ (Releasing("heap", x)' <=> Releasing("heap", x))
            BY <1>1, <1>2, <2>1, <2>2, <2>3, <2>4, <2>5, <2>7, <3>2, <4>2, <5>1 DEF HeapInv, Writing, Releasing
          <5>3. Entries(x)' = Entries(x)
            BY <5>1 DEF Entries
          <5>4. QED
            BY SMTT(40), <1>1, <1>2, <2>1, <2>2, <2>3, <2>4, <2>5, <2>7, <3>2, <5>1, <5>2, <5>3 DEF HeapOK
        <4>3. QED
          BY <4>1, <4>2
      <3>3. QED
        BY <3>1, <3>2 DEF HeapInv
    <2>13. QED
      BY <2>8, <2>9, <2>10, <2>11, <2>12 DEF BookInv
  <1>4. CASE op[t].large /\ op[t].addr = Null
    <2>1. /\ pc[t] = "got" /\ op[t].large /\ op[t].addr = Null
          /\ Go(t, "line")
          /\ UNCHANGED <<mem, large, stack, cache, open, recorder, missed>>
      BY <1>1, <1>4 DEF Record, memory, log
    <2>2. /\ pc' \in [Threads -> PC] /\ op' = op /\ pc'[t] = "line"
          /\ \A u \in Threads : u # t => pc'[u] = pc[u] /\ op'[u] = op[u]
      BY <1>1, <2>1 DEF Types, Go, PC
    <2>3. /\ op[t].kind \in Kinds /\ op[t].addr \in Results /\ CallOK(t)
          /\ \A x \in Addrs : (Holds(t, x) <=> x = op[t].addr) /\ (Allocating(t, x) <=> x = op[t].addr)
          /\ \A j \in Kinds : \A x \in Addrs :
                ~AtLine(t, j, x) /\ ~AtEnd(t, j, x)
      BY <1>1, <1>2, <2>1 DEF Types, HeldInv, CallOK, Call, Holds, Allocating, AtLine, AtEnd, Busy
    <2>4. /\ CallOK(t)'
          /\ \A x \in Addrs : ~Holds(t, x)' /\ ~Allocating(t, x)'
          /\ \A j \in Kinds : \A x \in Addrs :
                ~AtLine(t, j, x)' /\ ~AtEnd(t, j, x)'
      BY <1>2, <2>1, <2>2, <2>3 DEF CallOK, Holds, Allocating, AtLine, AtEnd, Busy
    <2>5. \A u \in Threads : u # t =>
             /\ CallOK(u)'
             /\ \A x \in Addrs : /\ Holds(u, x)' <=> Holds(u, x)
                                 /\ Allocating(u, x)' <=> Allocating(u, x)
             /\ \A j \in Kinds : \A x \in Addrs :
                   /\ AtLine(u, j, x)' <=> AtLine(u, j, x)
                   /\ AtEnd(u, j, x)' <=> AtEnd(u, j, x)
      BY <1>1, <2>1, <2>2, OthersStay
    <2>6. \A u \in Threads :
             /\ CallOK(u)'
             /\ \A x \in Addrs :
                   /\ Holds(u, x)' <=> u # t /\ Holds(u, x)
                   /\ Allocating(u, x)' <=> u # t /\ Allocating(u, x)
             /\ \A j \in Kinds : \A x \in Addrs :
                   /\ AtLine(u, j, x)' <=> u # t /\ AtLine(u, j, x)
                   /\ AtEnd(u, j, x)' <=> u # t /\ AtEnd(u, j, x)
      BY <2>4, <2>5
    <2>7. Types'
      BY <1>1, <1>2, <2>1, <2>2, <2>3, <2>4, <2>6 DEF Types
    <2>8. HeldInv'
      <3>1. \A u \in Threads : \A x \in Addrs : Holds(u, x)' => mem'[x] = "held"
        BY <1>1, <1>2, <2>1, <2>2, <2>3, <2>4, <2>6 DEF HeldInv
      <3>2. \A u, v \in Threads : \A x \in Addrs : Holds(u, x)' /\ Holds(v, x)' => u = v
        BY <1>1, <1>2, <2>1, <2>2, <2>3, <2>4, <2>6 DEF HeldInv
      <3>3. \A u \in Threads : CallOK(u)'
        BY <1>1, <1>2, <2>1, <2>2, <2>3, <2>4, <2>6 DEF HeldInv
      <3>4. \A u \in Threads : stack'[u] # Null => mem'[stack'[u]] = "stack"
        BY <1>1, <1>2, <2>1, <2>2, <2>3, <2>4, <2>6 DEF Types, HeldInv, Results
      <3>5. \A u, v \in Threads : stack'[u] # Null /\ stack'[u] = stack'[v] => u = v
        BY <1>1, <1>2, <2>1, <2>2, <2>3, <2>4, <2>6 DEF HeldInv
      <3>6. QED
        BY <3>1, <3>2, <3>3, <3>4, <3>5 DEF HeldInv
    <2>9. RecordInv'
      <3>1. \A x \in Addrs : mem'[x] \in {"unused", "stack"} => recorder'[x] = Null
        BY <1>1, <1>2, <2>1, <2>2, <2>3, <2>4, <2>6 DEF RecordInv, Types
      <3>2. \A u \in Threads : \A x \in Addrs : Allocating(u, x)' => recorder'[x] = Null
        BY <1>1, <1>2, <2>1, <2>2, <2>3, <2>4, <2>6 DEF RecordInv
      <3>3. \A u \in Threads : \A j \in Kinds : \A x \in Addrs :
             AtLine(u, j, x)' => cache'[j][u][x] > 0
        BY <1>1, <1>2, <2>1, <2>2, <2>3, <2>4, <2>6 DEF RecordInv, Types
      <3>4. \A x \in Addrs : mem'[x] \in Kinds /\ recorder'[x] # Null =>
             cache'[mem'[x]][recorder'[x]][x] > 0
        BY <1>1, <1>2, <2>1, <2>2, <2>3, <2>4, <2>6 DEF RecordInv, LiveHeld, Types, Kinds
      <3>5. QED
        BY <3>1, <3>2, <3>3, <3>4 DEF RecordInv, LiveHeld
    <2>10. LogInv'
      <3>1. \A j \in Kinds : \A x \in Addrs : x \notin missed'[j] => open'[j][x] <= 1
        BY <1>1, <1>2, <2>1, <2>2, <2>3, <2>4, <2>6 DEF LogInv, Types
      <3>2. \A j \in Kinds : \A x \in Addrs : x \notin missed'[j] /\ open'[j][x] = 1 =>
             mem'[x] = j \/ Releasing(j, x)'
        BY <1>1, <1>2, <2>1, <2>2, <2>3, <2>4, <2>6 DEF LogInv, Types, Releasing, Kinds
      <3>3. QED
        BY <3>1, <3>2 DEF LogInv
    <2>11. HeapInv'
      <3>1. \A x \in Addrs : /\ Writing(x)' <=> Writing(x)
                             /\ Releasing("heap", x)' <=> Releasing("heap", x)
        BY <1>1, <1>2, <2>1, <2>2, <2>3, <2>4, <2>6 DEF Writing, Releasing, Kinds
      <3>2. QED
        BY <1>1, <1>2, <2>1, <2>2, <2>3, <2>4, <2>6, <3>1, HeapFrame DEF Kinds
    <2>12. QED
      BY <2>7, <2>8, <2>9, <2>10, <2>11 DEF BookInv
  <1>5. CASE ~op[t].large /\ op[t].addr = Null
    <2>1. /\ pc[t] = "got" /\ op[t].addr = Null
          /\ Back(t)
          /\ UNCHANGED <<mem, large, stack, cache, open, recorder, missed>>
      BY <1>1, <1>5 DEF Record, memory, log
    <2>2. /\ pc' \in [Threads -> PC] /\ op' \in [Threads -> Call]
          /\ pc'[t] = "idle" /\ op'[t].kind = "heap" /\ op'[t].addr = Null
          /\ (op'[t].large <=> FALSE) /\ ~op'[t].exit
          /\ \A u \in Threads : u # t => pc'[u] = pc[u] /\ op'[u] = op[u]
      BY <1>1, <1>2, <2>1 DEF Types, Enter, Back, PC, Call, Results, Kinds
    <2>3. /\ op[t].kind \in Kinds /\ op[t].addr \in Results /\ CallOK(t)
          /\ \A x \in Addrs : (Holds(t, x) <=> x = op[t].addr) /\ (Allocating(t, x) <=> x = op[t].addr)
          /\ \A j \in Kinds : \A x \in Addrs :
                ~AtLine(t, j, x) /\ ~AtEnd(t, j, x)
      BY <1>1, <1>2, <2>1 DEF Types, HeldInv, CallOK, Call, Holds, Allocating, AtLine, AtEnd, Busy
    <2>4. /\ CallOK(t)'
          /\ \A x \in Addrs : ~Holds(t, x)' /\ ~Allocating(t, x)'
          /\ \A j \in Kinds : \A x \in Addrs :
                ~AtLine(t, j, x)' /\ ~AtEnd(t, j, x)'
      BY <1>2, <2>1, <2>2, <2>3 DEF CallOK, Holds, Allocating, AtLine, AtEnd, Busy
    <2>5. \A u \in Threads : u # t =>
             /\ CallOK(u)'
             /\ \A x \in Addrs : /\ Holds(u, x)' <=> Holds(u, x)
                                 /\ Allocating(u, x)' <=> Allocating(u, x)
             /\ \A j \in Kinds : \A x \in Addrs :
                   /\ AtLine(u, j, x)' <=> AtLine(u, j, x)
                   /\ AtEnd(u, j, x)' <=> AtEnd(u, j, x)
      BY <1>1, <2>1, <2>2, OthersStay
    <2>6. \A u \in Threads :
             /\ CallOK(u)'
             /\ \A x \in Addrs :
                   /\ Holds(u, x)' <=> u # t /\ Holds(u, x)
                   /\ Allocating(u, x)' <=> u # t /\ Allocating(u, x)
             /\ \A j \in Kinds : \A x \in Addrs :
                   /\ AtLine(u, j, x)' <=> u # t /\ AtLine(u, j, x)
                   /\ AtEnd(u, j, x)' <=> u # t /\ AtEnd(u, j, x)
      BY <2>4, <2>5
    <2>7. Types'
      BY <1>1, <1>2, <2>1, <2>2, <2>3, <2>4, <2>6 DEF Types
    <2>8. HeldInv'
      <3>1. \A u \in Threads : \A x \in Addrs : Holds(u, x)' => mem'[x] = "held"
        BY <1>1, <1>2, <2>1, <2>2, <2>3, <2>4, <2>6 DEF HeldInv
      <3>2. \A u, v \in Threads : \A x \in Addrs : Holds(u, x)' /\ Holds(v, x)' => u = v
        BY <1>1, <1>2, <2>1, <2>2, <2>3, <2>4, <2>6 DEF HeldInv
      <3>3. \A u \in Threads : CallOK(u)'
        BY <1>1, <1>2, <2>1, <2>2, <2>3, <2>4, <2>6 DEF HeldInv
      <3>4. \A u \in Threads : stack'[u] # Null => mem'[stack'[u]] = "stack"
        BY <1>1, <1>2, <2>1, <2>2, <2>3, <2>4, <2>6 DEF Types, HeldInv, Results
      <3>5. \A u, v \in Threads : stack'[u] # Null /\ stack'[u] = stack'[v] => u = v
        BY <1>1, <1>2, <2>1, <2>2, <2>3, <2>4, <2>6 DEF HeldInv
      <3>6. QED
        BY <3>1, <3>2, <3>3, <3>4, <3>5 DEF HeldInv
    <2>9. RecordInv'
      <3>1. \A x \in Addrs : mem'[x] \in {"unused", "stack"} => recorder'[x] = Null
        BY <1>1, <1>2, <2>1, <2>2, <2>3, <2>4, <2>6 DEF RecordInv, Types
      <3>2. \A u \in Threads : \A x \in Addrs : Allocating(u, x)' => recorder'[x] = Null
        BY <1>1, <1>2, <2>1, <2>2, <2>3, <2>4, <2>6 DEF RecordInv
      <3>3. \A u \in Threads : \A j \in Kinds : \A x \in Addrs :
             AtLine(u, j, x)' => cache'[j][u][x] > 0
        BY <1>1, <1>2, <2>1, <2>2, <2>3, <2>4, <2>6 DEF RecordInv, Types
      <3>4. \A x \in Addrs : mem'[x] \in Kinds /\ recorder'[x] # Null =>
             cache'[mem'[x]][recorder'[x]][x] > 0
        BY <1>1, <1>2, <2>1, <2>2, <2>3, <2>4, <2>6 DEF RecordInv, LiveHeld, Types, Kinds
      <3>5. QED
        BY <3>1, <3>2, <3>3, <3>4 DEF RecordInv, LiveHeld
    <2>10. LogInv'
      <3>1. \A j \in Kinds : \A x \in Addrs : x \notin missed'[j] => open'[j][x] <= 1
        BY <1>1, <1>2, <2>1, <2>2, <2>3, <2>4, <2>6 DEF LogInv, Types
      <3>2. \A j \in Kinds : \A x \in Addrs : x \notin missed'[j] /\ open'[j][x] = 1 =>
             mem'[x] = j \/ Releasing(j, x)'
        BY <1>1, <1>2, <2>1, <2>2, <2>3, <2>4, <2>6 DEF LogInv, Types, Releasing, Kinds
      <3>3. QED
        BY <3>1, <3>2 DEF LogInv
    <2>11. HeapInv'
      <3>1. \A x \in Addrs : /\ Writing(x)' <=> Writing(x)
                             /\ Releasing("heap", x)' <=> Releasing("heap", x)
        BY <1>1, <1>2, <2>1, <2>2, <2>3, <2>4, <2>6 DEF Writing, Releasing, Kinds
      <3>2. QED
        BY <1>1, <1>2, <2>1, <2>2, <2>3, <2>4, <2>6, <3>1, HeapFrame DEF Kinds
    <2>12. QED
      BY <2>7, <2>8, <2>9, <2>10, <2>11 DEF BookInv
  <1>6. CASE ~op[t].large /\ op[t].addr # Null
    <2>1. /\ pc[t] = "got" /\ op[t].addr # Null
          /\ Back(t)
          /\ mem' = [mem EXCEPT ![op[t].addr] = op[t].kind]
          /\ UNCHANGED <<large, stack, cache, open, recorder, missed>>
      BY <1>1, <1>6 DEF Record, memory, log
    <2>2. /\ pc' \in [Threads -> PC] /\ op' \in [Threads -> Call]
          /\ pc'[t] = "idle" /\ op'[t].kind = "heap" /\ op'[t].addr = Null
          /\ (op'[t].large <=> FALSE) /\ ~op'[t].exit
          /\ \A u \in Threads : u # t => pc'[u] = pc[u] /\ op'[u] = op[u]
      BY <1>1, <1>2, <2>1 DEF Types, Enter, Back, PC, Call, Results, Kinds
    <2>3. /\ op[t].kind \in Kinds /\ op[t].addr \in Results /\ CallOK(t)
          /\ \A x \in Addrs : (Holds(t, x) <=> x = op[t].addr) /\ (Allocating(t, x) <=> x = op[t].addr)
          /\ \A j \in Kinds : \A x \in Addrs :
                ~AtLine(t, j, x) /\ ~AtEnd(t, j, x)
      BY <1>1, <1>2, <2>1 DEF Types, HeldInv, CallOK, Call, Holds, Allocating, AtLine, AtEnd, Busy
    <2>4. /\ mem' \in [Addrs -> Uses]
          /\ \A x \in Addrs : mem'[x] = IF x = op[t].addr THEN op[t].kind ELSE mem[x]
      BY <1>1, <1>2, <2>1, <2>2, <2>3 DEF Types, Uses, Kinds
    <2>5. /\ CallOK(t)'
          /\ \A x \in Addrs : ~Holds(t, x)' /\ ~Allocating(t, x)'
          /\ \A j \in Kinds : \A x \in Addrs :
                ~AtLine(t, j, x)' /\ ~AtEnd(t, j, x)'
      BY <1>2, <2>1, <2>2, <2>3, <2>4 DEF CallOK, Holds, Allocating, AtLine, AtEnd, Busy
    <2>6. \A u \in Threads : u # t =>
             /\ CallOK(u)'
             /\ \A x \in Addrs : /\ Holds(u, x)' <=> Holds(u, x)
                                 /\ Allocating(u, x)' <=> Allocating(u, x)
             /\ \A j \in Kinds : \A x \in Addrs :
                   /\ AtLine(u, j, x)' <=> AtLine(u, j, x)
                   /\ AtEnd(u, j, x)' <=> AtEnd(u, j, x)
      BY <1>1, <2>1, <2>2, OthersStay
    <2>7. \A u \in Threads :
             /\ CallOK(u)'
             /\ \A x \in Addrs :
                   /\ Holds(u, x)' <=> u # t /\ Holds(u, x)
                   /\ Allocating(u, x)' <=> u # t /\ Allocating(u, x)
             /\ \A j \in Kinds : \A x \in Addrs :
                   /\ AtLine(u, j, x)' <=> u # t /\ AtLine(u, j, x)
                   /\ AtEnd(u, j, x)' <=> u # t /\ AtEnd(u, j, x)
      BY <2>5, <2>6
    <2>8. Types'
      BY <1>1, <1>2, <2>1, <2>2, <2>3, <2>4, <2>5, <2>7 DEF Types
    <2>9. HeldInv'
      <3>1. \A u \in Threads : \A x \in Addrs : Holds(u, x)' => mem'[x] = "held"
        BY <1>1, <1>2, <2>1, <2>2, <2>3, <2>4, <2>5, <2>7 DEF HeldInv
      <3>2. \A u, v \in Threads : \A x \in Addrs : Holds(u, x)' /\ Holds(v, x)' => u = v
        BY <1>1, <1>2, <2>1, <2>2, <2>3, <2>4, <2>5, <2>7 DEF HeldInv
      <3>3. \A u \in Threads : CallOK(u)'
        BY <1>1, <1>2, <2>1, <2>2, <2>3, <2>4, <2>5, <2>7 DEF HeldInv
      <3>4. \A u \in Threads : stack'[u] # Null => mem'[stack'[u]] = "stack"
        BY <1>1, <1>2, <2>1, <2>2, <2>3, <2>4, <2>5, <2>7 DEF Types, HeldInv, Results
      <3>5. \A u, v \in Threads : stack'[u] # Null /\ stack'[u] = stack'[v] => u = v
        BY <1>1, <1>2, <2>1, <2>2, <2>3, <2>4, <2>5, <2>7 DEF HeldInv
      <3>6. QED
        BY <3>1, <3>2, <3>3, <3>4, <3>5 DEF HeldInv
    <2>10. RecordInv'
      <3>1. \A x \in Addrs : mem'[x] \in {"unused", "stack"} => recorder'[x] = Null
        BY <1>1, <1>2, <2>1, <2>2, <2>3, <2>4, <2>5, <2>7 DEF RecordInv, Types
      <3>2. \A u \in Threads : \A x \in Addrs : Allocating(u, x)' => recorder'[x] = Null
        BY <1>1, <1>2, <2>1, <2>2, <2>3, <2>4, <2>5, <2>7 DEF RecordInv
      <3>3. \A u \in Threads : \A j \in Kinds : \A x \in Addrs :
             AtLine(u, j, x)' => cache'[j][u][x] > 0
        BY <1>1, <1>2, <2>1, <2>2, <2>3, <2>4, <2>5, <2>7 DEF RecordInv, Types
      <3>4. \A x \in Addrs : mem'[x] \in Kinds /\ recorder'[x] # Null =>
             cache'[mem'[x]][recorder'[x]][x] > 0
        BY <1>1, <1>2, <2>1, <2>2, <2>3, <2>4, <2>5, <2>7 DEF RecordInv, LiveHeld, Types, Kinds
      <3>5. QED
        BY <3>1, <3>2, <3>3, <3>4 DEF RecordInv, LiveHeld
    <2>11. LogInv'
      <3>1. \A j \in Kinds : \A x \in Addrs : x \notin missed'[j] => open'[j][x] <= 1
        BY <1>1, <1>2, <2>1, <2>2, <2>3, <2>4, <2>5, <2>7 DEF LogInv, Types
      <3>2. \A j \in Kinds : \A x \in Addrs : x \notin missed'[j] /\ open'[j][x] = 1 =>
             mem'[x] = j \/ Releasing(j, x)'
        BY <1>1, <1>2, <2>1, <2>2, <2>3, <2>4, <2>5, <2>7 DEF LogInv, Types, Releasing, Kinds
      <3>3. QED
        BY <3>1, <3>2 DEF LogInv
    <2>12. HeapInv'
      <3>1. \A x \in Addrs : /\ Writing(x)' <=> Writing(x)
                             /\ Releasing("heap", x)' <=> Releasing("heap", x)
        BY <1>1, <1>2, <2>1, <2>2, <2>3, <2>4, <2>5, <2>7 DEF Writing, Releasing, Kinds
      <3>2. QED
        BY <1>1, <1>2, <2>1, <2>2, <2>3, <2>4, <2>5, <2>7, <3>1, HeapFrame DEF Kinds
    <2>13. QED
      BY <2>8, <2>9, <2>10, <2>11, <2>12 DEF BookInv
  <1>7. QED
    BY <1>1, <1>3, <1>4, <1>5, <1>6 DEF Record

\* The line is written and the block returned.
LEMMA WriteLineKeeps ==
    ASSUME BookInv, NEW t \in Threads, WriteLine(t)
    PROVE  BookInv'
  <1>1. WriteLine(t) /\ Types /\ HeldInv /\ RecordInv /\ LogInv /\ HeapInv
    BY DEF BookInv
  <1>2. /\ Null \notin Addrs /\ "heap" \in Kinds /\ "map" \in Kinds
        /\ \A j \in Kinds : j \in Uses /\ j \notin {"unused", "held", "stack"}
        /\ \A u \in Threads : \A x \in Addrs :
              /\ Allocating(u, x) => Holds(u, x)
              /\ \A j \in Kinds : (AtLine(u, j, x) => Allocating(u, x)) /\ (AtEnd(u, j, x) => Holds(u, x))
              /\ Holds(u, x) => mem[x] = "held"
        /\ \A x \in Addrs : pc[t] \in {"idle", "gone"} =>
              /\ ~Holds(t, x) /\ ~Allocating(t, x)
              /\ \A j \in Kinds : ~AtLine(t, j, x) /\ ~AtEnd(t, j, x)
    BY <1>1, NullType, LinesHeld DEF Uses, Kinds, Holds, Allocating, AtLine, AtEnd, Busy
  <1>3. CASE op[t].addr = Null
    <2>1. /\ pc[t] = "line" /\ op[t].addr = Null
          /\ Back(t)
          /\ UNCHANGED <<mem, large, stack, cache, open, recorder, missed>>
      BY <1>1, <1>3 DEF WriteLine, memory, log
    <2>2. /\ pc' \in [Threads -> PC] /\ op' \in [Threads -> Call]
          /\ pc'[t] = "idle" /\ op'[t].kind = "heap" /\ op'[t].addr = Null
          /\ (op'[t].large <=> FALSE) /\ ~op'[t].exit
          /\ \A u \in Threads : u # t => pc'[u] = pc[u] /\ op'[u] = op[u]
      BY <1>1, <1>2, <2>1 DEF Types, Enter, Back, PC, Call, Results, Kinds
    <2>3. /\ op[t].kind \in Kinds /\ op[t].addr \in Results /\ CallOK(t)
          /\ \A x \in Addrs : (Holds(t, x) <=> x = op[t].addr) /\ (Allocating(t, x) <=> x = op[t].addr)
          /\ \A j \in Kinds : \A x \in Addrs :
                (AtLine(t, j, x) <=> j = op[t].kind /\ x = op[t].addr) /\ ~AtEnd(t, j, x)
      BY <1>1, <1>2, <2>1 DEF Types, HeldInv, CallOK, Call, Holds, Allocating, AtLine, AtEnd, Busy
    <2>4. /\ CallOK(t)'
          /\ \A x \in Addrs : ~Holds(t, x)' /\ ~Allocating(t, x)'
          /\ \A j \in Kinds : \A x \in Addrs :
                ~AtLine(t, j, x)' /\ ~AtEnd(t, j, x)'
      BY <1>2, <2>1, <2>2, <2>3 DEF CallOK, Holds, Allocating, AtLine, AtEnd, Busy
    <2>5. \A u \in Threads : u # t =>
             /\ CallOK(u)'
             /\ \A x \in Addrs : /\ Holds(u, x)' <=> Holds(u, x)
                                 /\ Allocating(u, x)' <=> Allocating(u, x)
             /\ \A j \in Kinds : \A x \in Addrs :
                   /\ AtLine(u, j, x)' <=> AtLine(u, j, x)
                   /\ AtEnd(u, j, x)' <=> AtEnd(u, j, x)
      BY <1>1, <2>1, <2>2, OthersStay
    <2>6. \A u \in Threads :
             /\ CallOK(u)'
             /\ \A x \in Addrs :
                   /\ Holds(u, x)' <=> u # t /\ Holds(u, x)
                   /\ Allocating(u, x)' <=> u # t /\ Allocating(u, x)
             /\ \A j \in Kinds : \A x \in Addrs :
                   /\ AtLine(u, j, x)' <=> u # t /\ AtLine(u, j, x)
                   /\ AtEnd(u, j, x)' <=> u # t /\ AtEnd(u, j, x)
      BY <2>4, <2>5
    <2>7. Types'
      BY <1>1, <1>2, <2>1, <2>2, <2>3, <2>4, <2>6 DEF Types
    <2>8. HeldInv'
      <3>1. \A u \in Threads : \A x \in Addrs : Holds(u, x)' => mem'[x] = "held"
        BY <1>1, <1>2, <2>1, <2>2, <2>3, <2>4, <2>6 DEF HeldInv
      <3>2. \A u, v \in Threads : \A x \in Addrs : Holds(u, x)' /\ Holds(v, x)' => u = v
        BY <1>1, <1>2, <2>1, <2>2, <2>3, <2>4, <2>6 DEF HeldInv
      <3>3. \A u \in Threads : CallOK(u)'
        BY <1>1, <1>2, <2>1, <2>2, <2>3, <2>4, <2>6 DEF HeldInv
      <3>4. \A u \in Threads : stack'[u] # Null => mem'[stack'[u]] = "stack"
        BY <1>1, <1>2, <2>1, <2>2, <2>3, <2>4, <2>6 DEF Types, HeldInv, Results
      <3>5. \A u, v \in Threads : stack'[u] # Null /\ stack'[u] = stack'[v] => u = v
        BY <1>1, <1>2, <2>1, <2>2, <2>3, <2>4, <2>6 DEF HeldInv
      <3>6. QED
        BY <3>1, <3>2, <3>3, <3>4, <3>5 DEF HeldInv
    <2>9. RecordInv'
      <3>1. \A x \in Addrs : mem'[x] \in {"unused", "stack"} => recorder'[x] = Null
        BY <1>1, <1>2, <2>1, <2>2, <2>3, <2>4, <2>6 DEF RecordInv, Types
      <3>2. \A u \in Threads : \A x \in Addrs : Allocating(u, x)' => recorder'[x] = Null
        BY <1>1, <1>2, <2>1, <2>2, <2>3, <2>4, <2>6 DEF RecordInv
      <3>3. \A u \in Threads : \A j \in Kinds : \A x \in Addrs :
             AtLine(u, j, x)' => cache'[j][u][x] > 0
        BY <1>1, <1>2, <2>1, <2>2, <2>3, <2>4, <2>6 DEF RecordInv, Types
      <3>4. \A x \in Addrs : mem'[x] \in Kinds /\ recorder'[x] # Null =>
             cache'[mem'[x]][recorder'[x]][x] > 0
        BY <1>1, <1>2, <2>1, <2>2, <2>3, <2>4, <2>6 DEF RecordInv, LiveHeld, Types, Kinds
      <3>5. QED
        BY <3>1, <3>2, <3>3, <3>4 DEF RecordInv, LiveHeld
    <2>10. LogInv'
      <3>1. \A j \in Kinds : \A x \in Addrs : x \notin missed'[j] => open'[j][x] <= 1
        BY <1>1, <1>2, <2>1, <2>2, <2>3, <2>4, <2>6 DEF LogInv, Types
      <3>2. \A j \in Kinds : \A x \in Addrs : x \notin missed'[j] /\ open'[j][x] = 1 =>
             mem'[x] = j \/ Releasing(j, x)'
        BY <1>1, <1>2, <2>1, <2>2, <2>3, <2>4, <2>6 DEF LogInv, Types, Releasing, Kinds
      <3>3. QED
        BY <3>1, <3>2 DEF LogInv
    <2>11. HeapInv'
      <3>1. \A x \in Addrs : /\ Writing(x)' <=> Writing(x)
                             /\ Releasing("heap", x)' <=> Releasing("heap", x)
        BY <1>1, <1>2, <2>1, <2>2, <2>3, <2>4, <2>6 DEF Writing, Releasing, Kinds
      <3>2. QED
        BY <1>1, <1>2, <2>1, <2>2, <2>3, <2>4, <2>6, <3>1, HeapFrame DEF Kinds
    <2>12. QED
      BY <2>7, <2>8, <2>9, <2>10, <2>11 DEF BookInv
  <1>4. CASE op[t].addr # Null
    <2>1. /\ pc[t] = "line" /\ op[t].addr # Null
          /\ Back(t)
          /\ open' = [open EXCEPT ![op[t].kind][op[t].addr] = @ + 1]
          /\ mem' = [mem EXCEPT ![op[t].addr] = op[t].kind]
          /\ recorder' = [recorder EXCEPT ![op[t].addr] = t]
          /\ UNCHANGED <<large, stack, cache, missed>>
      BY <1>1, <1>4 DEF WriteLine, memory, log
    <2>2. /\ pc' \in [Threads -> PC] /\ op' \in [Threads -> Call]
          /\ pc'[t] = "idle" /\ op'[t].kind = "heap" /\ op'[t].addr = Null
          /\ (op'[t].large <=> FALSE) /\ ~op'[t].exit
          /\ \A u \in Threads : u # t => pc'[u] = pc[u] /\ op'[u] = op[u]
      BY <1>1, <1>2, <2>1 DEF Types, Enter, Back, PC, Call, Results, Kinds
    <2>3. /\ op[t].kind \in Kinds /\ op[t].addr \in Results /\ CallOK(t)
          /\ \A x \in Addrs : (Holds(t, x) <=> x = op[t].addr) /\ (Allocating(t, x) <=> x = op[t].addr)
          /\ \A j \in Kinds : \A x \in Addrs :
                (AtLine(t, j, x) <=> j = op[t].kind /\ x = op[t].addr) /\ ~AtEnd(t, j, x)
      BY <1>1, <1>2, <2>1 DEF Types, HeldInv, CallOK, Call, Holds, Allocating, AtLine, AtEnd, Busy
    <2>4. /\ open' \in [Kinds -> [Addrs -> Nat]]
          /\ \A j \in Kinds : \A x \in Addrs :
                open'[j][x] = IF j = op[t].kind /\ x = op[t].addr THEN open[j][x] + 1 ELSE open[j][x]
      BY <1>1, <2>1, <2>2, <2>3 DEF Types, Results
    <2>5. /\ mem' \in [Addrs -> Uses]
          /\ \A x \in Addrs : mem'[x] = IF x = op[t].addr THEN op[t].kind ELSE mem[x]
      BY <1>1, <1>2, <2>1, <2>2, <2>3, <2>4 DEF Types, Uses, Kinds
    <2>6. /\ recorder' \in [Addrs -> Threads \cup {Null}]
          /\ \A x \in Addrs : recorder'[x] = IF x = op[t].addr THEN t ELSE recorder[x]
      BY <1>1, <1>2, <2>1, <2>2, <2>3, <2>4, <2>5 DEF Types
    <2>7. /\ CallOK(t)'
          /\ \A x \in Addrs : ~Holds(t, x)' /\ ~Allocating(t, x)'
          /\ \A j \in Kinds : \A x \in Addrs :
                ~AtLine(t, j, x)' /\ ~AtEnd(t, j, x)'
      BY <1>2, <2>1, <2>2, <2>3, <2>4, <2>5, <2>6 DEF CallOK, Holds, Allocating, AtLine, AtEnd, Busy
    <2>8. \A u \in Threads : u # t =>
             /\ CallOK(u)'
             /\ \A x \in Addrs : /\ Holds(u, x)' <=> Holds(u, x)
                                 /\ Allocating(u, x)' <=> Allocating(u, x)
             /\ \A j \in Kinds : \A x \in Addrs :
                   /\ AtLine(u, j, x)' <=> AtLine(u, j, x)
                   /\ AtEnd(u, j, x)' <=> AtEnd(u, j, x)
      BY <1>1, <2>1, <2>2, OthersStay
    <2>9. \A u \in Threads :
             /\ CallOK(u)'
             /\ \A x \in Addrs :
                   /\ Holds(u, x)' <=> u # t /\ Holds(u, x)
                   /\ Allocating(u, x)' <=> u # t /\ Allocating(u, x)
             /\ \A j \in Kinds : \A x \in Addrs :
                   /\ AtLine(u, j, x)' <=> u # t /\ AtLine(u, j, x)
                   /\ AtEnd(u, j, x)' <=> u # t /\ AtEnd(u, j, x)
      BY <2>7, <2>8
    <2>10. Types'
      BY <1>1, <1>2, <2>1, <2>2, <2>3, <2>4, <2>5, <2>6, <2>7, <2>9 DEF Types
    <2>11. HeldInv'
      <3>1. \A u \in Threads : \A x \in Addrs : Holds(u, x)' => mem'[x] = "held"
        BY <1>1, <1>2, <2>1, <2>2, <2>3, <2>4, <2>5, <2>6, <2>7, <2>9 DEF HeldInv
      <3>2. \A u, v \in Threads : \A x \in Addrs : Holds(u, x)' /\ Holds(v, x)' => u = v
        BY <1>1, <1>2, <2>1, <2>2, <2>3, <2>4, <2>5, <2>6, <2>7, <2>9 DEF HeldInv
      <3>3. \A u \in Threads : CallOK(u)'
        BY <1>1, <1>2, <2>1, <2>2, <2>3, <2>4, <2>5, <2>6, <2>7, <2>9 DEF HeldInv
      <3>4. \A u \in Threads : stack'[u] # Null => mem'[stack'[u]] = "stack"
        BY <1>1, <1>2, <2>1, <2>2, <2>3, <2>4, <2>5, <2>6, <2>7, <2>9 DEF Types, HeldInv, Results
      <3>5. \A u, v \in Threads : stack'[u] # Null /\ stack'[u] = stack'[v] => u = v
        BY <1>1, <1>2, <2>1, <2>2, <2>3, <2>4, <2>5, <2>6, <2>7, <2>9 DEF HeldInv
      <3>6. QED
        BY <3>1, <3>2, <3>3, <3>4, <3>5 DEF HeldInv
    <2>12. RecordInv'
      <3>1. \A x \in Addrs : mem'[x] \in {"unused", "stack"} => recorder'[x] = Null
        BY <1>1, <1>2, <2>1, <2>2, <2>3, <2>4, <2>5, <2>6, <2>7, <2>9 DEF RecordInv, Types
      <3>2. \A u \in Threads : \A x \in Addrs : Allocating(u, x)' => recorder'[x] = Null
        BY <1>1, <1>2, <2>1, <2>2, <2>3, <2>4, <2>5, <2>6, <2>7, <2>9 DEF RecordInv, HeldInv
      <3>3. \A u \in Threads : \A j \in Kinds : \A x \in Addrs :
             AtLine(u, j, x)' => cache'[j][u][x] > 0
        BY <1>1, <1>2, <2>1, <2>2, <2>3, <2>4, <2>5, <2>6, <2>7, <2>9 DEF RecordInv, Types
      <3>4. \A x \in Addrs : mem'[x] \in Kinds /\ recorder'[x] # Null =>
             cache'[mem'[x]][recorder'[x]][x] > 0
        BY <1>1, <1>2, <2>1, <2>2, <2>3, <2>4, <2>5, <2>6, <2>7, <2>9 DEF RecordInv, LiveHeld, Types, Kinds
      <3>5. QED
        BY <3>1, <3>2, <3>3, <3>4 DEF RecordInv, LiveHeld
    <2>13. LogInv'
      <3>1. \A j \in Kinds : \A x \in Addrs : x \notin missed'[j] => open'[j][x] <= 1
        <4>1. ASSUME NEW j \in Kinds, NEW x \in Addrs, x \notin missed[j], x = op[t].addr, j = op[t].kind
              PROVE  open[j][x] = 0
          <5>1. Holds(t, x) /\ mem[x] = "held" /\ ~AtEnd(t, j, x)
            BY <1>1, <1>2, <2>1, <2>2, <2>3, <2>4, <2>5, <2>6, <2>7, <2>9, <4>1
          <5>2. ~Releasing(j, x)
            BY <1>1, <1>2, <5>1 DEF Releasing, HeldInv
          <5>3. open[j][x] \in Nat /\ open[j][x] <= 1 /\ open[j][x] # 1
            BY <1>1, <1>2, <4>1, <5>1, <5>2 DEF LogInv, Types
          <5>4. QED
            BY <5>3
        <4>2. QED
          BY <1>1, <1>2, <2>1, <2>2, <2>3, <2>4, <2>5, <2>6, <2>7, <2>9, <4>1 DEF LogInv, Types
      <3>2. \A j \in Kinds : \A x \in Addrs : x \notin missed'[j] /\ open'[j][x] = 1 =>
             mem'[x] = j \/ Releasing(j, x)'
        BY <1>1, <1>2, <2>1, <2>2, <2>3, <2>4, <2>5, <2>6, <2>7, <2>9 DEF LogInv, Types, Releasing, Kinds
      <3>3. QED
        BY <3>1, <3>2 DEF LogInv
    <2>14. HeapInv'
      <3>1. ASSUME NEW x \in Addrs, x # op[t].addr
            PROVE  HeapOK(x)'
        <4>1. HeapOK(x) /\ (Writing(x)' <=> Writing(x)) /\ (Releasing("heap", x)' <=> Releasing("heap", x))
          BY <1>1, <1>2, <2>1, <2>2, <2>3, <2>4, <2>5, <2>6, <2>7, <2>9, <3>1 DEF HeapInv, Writing, Releasing, Kinds
        <4>2. (\A u \in Threads : cache'["heap"][u][x] = cache["heap"][u][x]) /\ open'["heap"][x] = open["heap"][x]
          BY <1>1, <1>2, <2>1, <2>2, <2>3, <2>4, <2>5, <2>6, <2>7, <2>9, <3>1 DEF Kinds
        <4>3. QED
          BY SMTT(40), <4>1, <4>2, HeapSame
      <3>2. ASSUME NEW x \in Addrs, x = op[t].addr
            PROVE  HeapOK(x)'
        <4>1. Entries(x)' = Entries(x) /\ HeapOK(x) /\ open["heap"][x] \in Nat
          BY <1>1, <1>2, <2>1, <2>2, <2>3, <2>4, <2>5, <2>6, <2>7, <2>9 DEF Entries, HeapInv, Types, Kinds
        <4>2. Cardinality(Entries(x)) \in Nat
          BY <4>1, FS_CardinalityType DEF HeapOK
        <4>3. CASE op[t].kind = "heap"
          <5>1. Writing(x) /\ ~Releasing("heap", x)
            BY <1>1, <1>2, <2>1, <2>2, <2>3, <2>4, <2>5, <2>6, <2>7, <2>9, <3>2, <4>3 DEF Writing, Releasing, HeldInv
          <5>2. ~Writing(x)' /\ ~Releasing("heap", x)'
            BY <1>1, <1>2, <2>1, <2>2, <2>3, <2>4, <2>5, <2>6, <2>7, <2>9, <3>2, <4>3, <5>1 DEF Writing, Releasing, HeldInv
          <5>3. open'["heap"][x] = open["heap"][x] + 1
            BY <1>1, <1>2, <2>1, <2>2, <2>3, <2>4, <2>5, <2>6, <2>7, <2>9, <3>2, <4>3
          <5>4. QED
            BY <4>1, <4>2, <5>1, <5>2, <5>3 DEF HeapOK
        <4>4. CASE ~(op[t].kind = "heap")
          <5>1. open'["heap"][x] = open["heap"][x]
            BY <1>1, <1>2, <2>1, <2>2, <2>3, <2>4, <2>5, <2>6, <2>7, <2>9, <3>2, <4>4 DEF CallOK, Kinds
          <5>2. (Writing(x)' <=> Writing(x)) /\ (Releasing("heap", x)' <=> Releasing("heap", x))
            BY <1>1, <1>2, <2>1, <2>2, <2>3, <2>4, <2>5, <2>6, <2>7, <2>9, <4>4 DEF Writing, Releasing
          <5>3. QED
            BY <4>1, <5>1, <5>2 DEF HeapOK
        <4>5. QED
          BY <4>3, <4>4
      <3>3. QED
        BY <3>1, <3>2 DEF HeapInv
    <2>15. QED
      BY <2>10, <2>11, <2>12, <2>13, <2>14 DEF BookInv
  <1>5. QED
    BY <1>1, <1>3, <1>4 DEF WriteLine

\* A block is freed: with its line, without it, or by a caller that is not hooked.
LEMMA FreeKeeps ==
    ASSUME BookInv, NEW t \in Threads, NEW a \in Addrs, NEW filtered \in BOOLEAN, Free(t, a, filtered)
    PROVE  BookInv'
  <1>1. Free(t, a, filtered) /\ Types /\ HeldInv /\ RecordInv /\ LogInv /\ HeapInv
    BY DEF BookInv
  <1>2. /\ Null \notin Addrs /\ "heap" \in Kinds /\ "map" \in Kinds
        /\ \A j \in Kinds : j \in Uses /\ j \notin {"unused", "held", "stack"}
        /\ \A u \in Threads : \A x \in Addrs :
              /\ Allocating(u, x) => Holds(u, x)
              /\ \A j \in Kinds : (AtLine(u, j, x) => Allocating(u, x)) /\ (AtEnd(u, j, x) => Holds(u, x))
              /\ Holds(u, x) => mem[x] = "held"
        /\ \A x \in Addrs : pc[t] \in {"idle", "gone"} =>
              /\ ~Holds(t, x) /\ ~Allocating(t, x)
              /\ \A j \in Kinds : ~AtLine(t, j, x) /\ ~AtEnd(t, j, x)
    BY <1>1, NullType, LinesHeld DEF Uses, Kinds, Holds, Allocating, AtLine, AtEnd, Busy
  <1>3. CASE Hooked("heap", filtered) /\ cache["heap"][t][a] # 0
    <2>1. /\ pc[t] = "idle" /\ mem[a] = "heap"
          /\ cache["heap"][t][a] > 0
          /\ Forget("heap", t, a)
          /\ Enter(t, "endline", "heap", a, large[a], FALSE)
          /\ mem' = [mem EXCEPT ![a] = "held"]
          /\ UNCHANGED <<large, stack, open, recorder, missed>>
      BY <1>1, <1>3 DEF Free, memory, log, Types, Kinds
    <2>2. /\ pc' \in [Threads -> PC] /\ op' \in [Threads -> Call]
          /\ pc'[t] = "endline" /\ op'[t].kind = "heap" /\ op'[t].addr = a
          /\ (op'[t].large <=> large[a]) /\ ~op'[t].exit
          /\ \A u \in Threads : u # t => pc'[u] = pc[u] /\ op'[u] = op[u]
      BY <1>1, <1>2, <2>1 DEF Types, Enter, Back, PC, Call, Results, Kinds
    <2>3. /\ cache' \in [Kinds -> [Threads -> [Addrs -> Nat]]]
          /\ \A j \in Kinds : \A u \in Threads : \A x \in Addrs :
                cache'[j][u][x] = IF j = "heap" /\ u = t /\ x = a
                                  THEN IF cache[j][u][x] > 0 THEN cache[j][u][x] - 1 ELSE 0
                                  ELSE cache[j][u][x]
          /\ \A j \in Kinds : j # "heap" => cache'[j] = cache[j]
      BY <1>1, <1>2, <2>1, ForgetLeaves DEF Kinds
    <2>4. /\ mem' \in [Addrs -> Uses]
          /\ \A x \in Addrs : mem'[x] = IF x = a THEN "held" ELSE mem[x]
      BY <1>1, <1>2, <2>1, <2>2, <2>3 DEF Types, Uses, Kinds
    <2>5. /\ CallOK(t)'
          /\ \A x \in Addrs : (Holds(t, x)' <=> x = a) /\ ~Allocating(t, x)'
          /\ \A j \in Kinds : \A x \in Addrs :
                ~AtLine(t, j, x)' /\ (AtEnd(t, j, x)' <=> j = "heap" /\ x = a)
      BY <1>2, <2>1, <2>2, <2>3, <2>4 DEF CallOK, Holds, Allocating, AtLine, AtEnd, Busy
    <2>6. \A u \in Threads : u # t =>
             /\ CallOK(u)'
             /\ \A x \in Addrs : /\ Holds(u, x)' <=> Holds(u, x)
                                 /\ Allocating(u, x)' <=> Allocating(u, x)
             /\ \A j \in Kinds : \A x \in Addrs :
                   /\ AtLine(u, j, x)' <=> AtLine(u, j, x)
                   /\ AtEnd(u, j, x)' <=> AtEnd(u, j, x)
      BY <1>1, <2>1, <2>2, OthersStay
    <2>7. \A u \in Threads :
             /\ CallOK(u)'
             /\ \A x \in Addrs :
                   /\ Holds(u, x)' <=> (u = t /\ x = a) \/ (u # t /\ Holds(u, x))
                   /\ Allocating(u, x)' <=> u # t /\ Allocating(u, x)
             /\ \A j \in Kinds : \A x \in Addrs :
                   /\ AtLine(u, j, x)' <=> u # t /\ AtLine(u, j, x)
                   /\ AtEnd(u, j, x)' <=> (u = t /\ j = "heap" /\ x = a) \/ (u # t /\ AtEnd(u, j, x))
      BY <2>5, <2>6
    <2>8. Types'
      BY <1>1, <1>2, <2>1, <2>2, <2>3, <2>4, <2>5, <2>7 DEF Types
    <2>9. HeldInv'
      <3>1. \A u \in Threads : \A x \in Addrs : Holds(u, x)' => mem'[x] = "held"
        BY <1>1, <1>2, <2>1, <2>2, <2>3, <2>4, <2>5, <2>7 DEF HeldInv
      <3>2. \A u, v \in Threads : \A x \in Addrs : Holds(u, x)' /\ Holds(v, x)' => u = v
        BY <1>1, <1>2, <2>1, <2>7 DEF HeldInv
      <3>3. \A u \in Threads : CallOK(u)'
        BY <1>1, <1>2, <2>1, <2>2, <2>3, <2>4, <2>5, <2>7 DEF HeldInv
      <3>4. \A u \in Threads : stack'[u] # Null => mem'[stack'[u]] = "stack"
        BY <1>1, <1>2, <2>1, <2>2, <2>3, <2>4, <2>5, <2>7 DEF Types, HeldInv, Results
      <3>5. \A u, v \in Threads : stack'[u] # Null /\ stack'[u] = stack'[v] => u = v
        BY <1>1, <1>2, <2>1, <2>2, <2>3, <2>4, <2>5, <2>7 DEF HeldInv
      <3>6. QED
        BY <3>1, <3>2, <3>3, <3>4, <3>5 DEF HeldInv
    <2>10. RecordInv'
      <3>1. \A x \in Addrs : mem'[x] \in {"unused", "stack"} => recorder'[x] = Null
        BY <1>1, <1>2, <2>1, <2>2, <2>3, <2>4, <2>5, <2>7 DEF RecordInv, Types
      <3>2. \A u \in Threads : \A x \in Addrs : Allocating(u, x)' => recorder'[x] = Null
        BY <1>1, <1>2, <2>1, <2>2, <2>3, <2>4, <2>5, <2>7 DEF RecordInv
      <3>3. \A u \in Threads : \A j \in Kinds : \A x \in Addrs :
             AtLine(u, j, x)' => cache'[j][u][x] > 0
        BY <1>1, <1>2, <2>1, <2>2, <2>3, <2>4, <2>5, <2>7 DEF RecordInv, Types
      <3>4. \A x \in Addrs : mem'[x] \in Kinds /\ recorder'[x] # Null =>
             cache'[mem'[x]][recorder'[x]][x] > 0
        BY <1>1, <1>2, <2>1, <2>2, <2>3, <2>4, <2>5, <2>7 DEF RecordInv, LiveHeld, Types, Kinds
      <3>5. QED
        BY <3>1, <3>2, <3>3, <3>4 DEF RecordInv, LiveHeld
    <2>11. LogInv'
      <3>1. \A j \in Kinds : \A x \in Addrs : x \notin missed'[j] => open'[j][x] <= 1
        BY <1>1, <1>2, <2>1, <2>2, <2>3, <2>4, <2>5, <2>7 DEF LogInv, Types
      <3>2. \A j \in Kinds : \A x \in Addrs : x \notin missed'[j] /\ open'[j][x] = 1 =>
             mem'[x] = j \/ Releasing(j, x)'
        BY <1>1, <1>2, <2>1, <2>2, <2>3, <2>4, <2>5, <2>7 DEF LogInv, Types, Releasing, Kinds
      <3>3. QED
        BY <3>1, <3>2 DEF LogInv
    <2>12. HeapInv'
      <3>1. ASSUME NEW x \in Addrs, x # a
            PROVE  HeapOK(x)'
        <4>1. HeapOK(x) /\ (Writing(x)' <=> Writing(x)) /\ (Releasing("heap", x)' <=> Releasing("heap", x))
          BY <1>1, <1>2, <2>1, <2>2, <2>3, <2>4, <2>5, <2>7, <3>1 DEF HeapInv, Writing, Releasing, Kinds
        <4>2. (\A u \in Threads : cache'["heap"][u][x] = cache["heap"][u][x]) /\ open'["heap"][x] = open["heap"][x]
          BY <1>1, <1>2, <2>1, <2>2, <2>3, <2>4, <2>5, <2>7, <3>1 DEF Kinds
        <4>3. QED
          BY SMTT(40), <4>1, <4>2, HeapSame
      <3>2. ASSUME NEW x \in Addrs, x = a
            PROVE  HeapOK(x)'
        <4> DEFINE n == cache["heap"][t][a]
        <4>1. n \in Nat /\ n > 0 /\ open["heap"][a] \in Nat
          BY <1>1, <2>1 DEF Types, Kinds
        <4>2. \A u \in Threads : /\ cache["heap"][u][a] \in Nat
                                 /\ cache'["heap"][u][a] = IF u = t THEN n - 1 ELSE cache["heap"][u][a]
          BY <1>1, <1>2, <2>1, <2>2, <2>3, <2>4, <2>5, <2>7, <4>1 DEF Types, Kinds
        <4>3. Entries(a)' = Entries(a) \ {<<t, n>>}
          BY <4>1, <4>2 DEF Entries
        <4>4. <<t, n>> \in Entries(a)
          BY <4>1 DEF Entries
        <4>5. ~Writing(a) /\ ~Releasing("heap", a)
          BY <1>1, <1>2, <2>1, <2>2, <2>3, <2>4, <2>5, <2>7 DEF Writing, Releasing
        <4>6. ~Writing(a)' /\ Releasing("heap", a)'
          BY <1>1, <1>2, <2>1, <2>2, <2>3, <2>4, <2>5, <2>7, <4>5 DEF Writing, Releasing
        <4>7. HeapOK(a)
          BY <1>1 DEF HeapInv
        <4> HIDE DEF n
        <4>8. IsFiniteSet(Entries(a)') /\ Cardinality(Entries(a)') = Cardinality(Entries(a)) - 1
          BY <4>3, <4>4, <4>7, FS_RemoveElement DEF HeapOK
        <4>9. Cardinality(Entries(a)) \in Nat /\ open' = open
          BY <2>1, <4>7, FS_CardinalityType DEF HeapOK
        <4>10. QED
          BY <3>2, <4>1, <4>5, <4>6, <4>7, <4>8, <4>9 DEF HeapOK
      <3>3. QED
        BY <3>1, <3>2 DEF HeapInv
    <2>13. QED
      BY <2>8, <2>9, <2>10, <2>11, <2>12 DEF BookInv
  <1>4. CASE Hooked("heap", filtered) /\ cache["heap"][t][a] = 0
    <2>1. /\ pc[t] = "idle" /\ mem[a] = "heap"
          /\ Enter(t, "ending", "heap", a, large[a], FALSE)
          /\ mem' = [mem EXCEPT ![a] = "held"]
          /\ Miss("heap", a)
          /\ UNCHANGED <<large, stack, cache, open, recorder>>
      <3>1. ~(cache["heap"][t][a] > 0)
        BY <1>4
      <3>2. QED
        BY <1>1, <1>4, <3>1 DEF Free
    <2>2. /\ pc' \in [Threads -> PC] /\ op' \in [Threads -> Call]
          /\ pc'[t] = "ending" /\ op'[t].kind = "heap" /\ op'[t].addr = a
          /\ (op'[t].large <=> large[a]) /\ ~op'[t].exit
          /\ \A u \in Threads : u # t => pc'[u] = pc[u] /\ op'[u] = op[u]
      BY <1>1, <1>2, <2>1 DEF Types, Enter, Back, PC, Call, Results, Kinds
    <2>3. /\ mem' \in [Addrs -> Uses]
          /\ \A x \in Addrs : mem'[x] = IF x = a THEN "held" ELSE mem[x]
      BY <1>1, <1>2, <2>1, <2>2 DEF Types, Uses, Kinds
    <2>4. /\ missed' \in [Kinds -> SUBSET Addrs]
          /\ \A j \in Kinds : missed[j] \subseteq missed'[j]
          /\ open["heap"][a] > 0 => a \in missed'["heap"]
      BY <1>1, <1>2, <2>1, MissLeaves DEF Kinds
    <2>5. /\ CallOK(t)'
          /\ \A x \in Addrs : (Holds(t, x)' <=> x = a) /\ ~Allocating(t, x)'
          /\ \A j \in Kinds : \A x \in Addrs :
                ~AtLine(t, j, x)' /\ ~AtEnd(t, j, x)'
      BY <1>2, <2>1, <2>2, <2>3, <2>4 DEF CallOK, Holds, Allocating, AtLine, AtEnd, Busy
    <2>6. \A u \in Threads : u # t =>
             /\ CallOK(u)'
             /\ \A x \in Addrs : /\ Holds(u, x)' <=> Holds(u, x)
                                 /\ Allocating(u, x)' <=> Allocating(u, x)
             /\ \A j \in Kinds : \A x \in Addrs :
                   /\ AtLine(u, j, x)' <=> AtLine(u, j, x)
                   /\ AtEnd(u, j, x)' <=> AtEnd(u, j, x)
      BY <1>1, <2>1, <2>2, OthersStay
    <2>7. \A u \in Threads :
             /\ CallOK(u)'
             /\ \A x \in Addrs :
                   /\ Holds(u, x)' <=> (u = t /\ x = a) \/ (u # t /\ Holds(u, x))
                   /\ Allocating(u, x)' <=> u # t /\ Allocating(u, x)
             /\ \A j \in Kinds : \A x \in Addrs :
                   /\ AtLine(u, j, x)' <=> u # t /\ AtLine(u, j, x)
                   /\ AtEnd(u, j, x)' <=> u # t /\ AtEnd(u, j, x)
      BY <2>5, <2>6
    <2>8. Types'
      BY <1>1, <1>2, <2>1, <2>2, <2>3, <2>4, <2>5, <2>7 DEF Types
    <2>9. HeldInv'
      <3>1. \A u \in Threads : \A x \in Addrs : Holds(u, x)' => mem'[x] = "held"
        BY <1>1, <1>2, <2>1, <2>2, <2>3, <2>4, <2>5, <2>7 DEF HeldInv
      <3>2. \A u, v \in Threads : \A x \in Addrs : Holds(u, x)' /\ Holds(v, x)' => u = v
        BY <1>1, <1>2, <2>1, <2>2, <2>3, <2>4, <2>5, <2>7 DEF HeldInv
      <3>3. \A u \in Threads : CallOK(u)'
        BY <1>1, <1>2, <2>1, <2>2, <2>3, <2>4, <2>5, <2>7 DEF HeldInv
      <3>4. \A u \in Threads : stack'[u] # Null => mem'[stack'[u]] = "stack"
        BY <1>1, <1>2, <2>1, <2>2, <2>3, <2>4, <2>5, <2>7 DEF Types, HeldInv, Results
      <3>5. \A u, v \in Threads : stack'[u] # Null /\ stack'[u] = stack'[v] => u = v
        BY <1>1, <1>2, <2>1, <2>2, <2>3, <2>4, <2>5, <2>7 DEF HeldInv
      <3>6. QED
        BY <3>1, <3>2, <3>3, <3>4, <3>5 DEF HeldInv
    <2>10. RecordInv'
      <3>1. \A x \in Addrs : mem'[x] \in {"unused", "stack"} => recorder'[x] = Null
        BY <1>1, <1>2, <2>1, <2>2, <2>3, <2>4, <2>5, <2>7 DEF RecordInv, Types
      <3>2. \A u \in Threads : \A x \in Addrs : Allocating(u, x)' => recorder'[x] = Null
        BY <1>1, <1>2, <2>1, <2>2, <2>3, <2>4, <2>5, <2>7 DEF RecordInv
      <3>3. \A u \in Threads : \A j \in Kinds : \A x \in Addrs :
             AtLine(u, j, x)' => cache'[j][u][x] > 0
        BY <1>1, <1>2, <2>1, <2>2, <2>3, <2>4, <2>5, <2>7 DEF RecordInv, Types
      <3>4. \A x \in Addrs : mem'[x] \in Kinds /\ recorder'[x] # Null =>
             cache'[mem'[x]][recorder'[x]][x] > 0
        BY <1>1, <1>2, <2>1, <2>2, <2>3, <2>4, <2>5, <2>7 DEF RecordInv, LiveHeld, Types, Kinds
      <3>5. QED
        BY <3>1, <3>2, <3>3, <3>4 DEF RecordInv, LiveHeld
    <2>11. LogInv'
      <3>1. \A j \in Kinds : \A x \in Addrs : x \notin missed'[j] => open'[j][x] <= 1
        BY <1>1, <1>2, <2>1, <2>2, <2>3, <2>4, <2>5, <2>7 DEF LogInv, Types
      <3>2. \A j \in Kinds : \A x \in Addrs : x \notin missed'[j] /\ open'[j][x] = 1 =>
             mem'[x] = j \/ Releasing(j, x)'
        BY <1>1, <1>2, <2>1, <2>2, <2>3, <2>4, <2>5, <2>7 DEF LogInv, Types, Releasing, Kinds
      <3>3. QED
        BY <3>1, <3>2 DEF LogInv
    <2>12. HeapInv'
      <3>1. \A x \in Addrs : /\ Writing(x)' <=> Writing(x)
                             /\ Releasing("heap", x)' <=> Releasing("heap", x)
        BY <1>1, <1>2, <2>1, <2>2, <2>3, <2>4, <2>5, <2>7 DEF Writing, Releasing, Kinds
      <3>2. QED
        BY <1>1, <1>2, <2>1, <2>2, <2>3, <2>4, <2>5, <2>7, <3>1, HeapFrame DEF Kinds
    <2>13. QED
      BY <2>8, <2>9, <2>10, <2>11, <2>12 DEF BookInv
  <1>5. CASE ~Hooked("heap", filtered)
    <2>1. /\ mem[a] = "heap"
          /\ mem' = [mem EXCEPT ![a] = "unused"]
          /\ recorder' = [recorder EXCEPT ![a] = Null]
          /\ Miss("heap", a)
          /\ UNCHANGED <<large, stack, cache, open, pc, op>>
      BY <1>1, <1>5 DEF Free, memory, log
    <2>2. /\ mem' \in [Addrs -> Uses]
          /\ \A x \in Addrs : mem'[x] = IF x = a THEN "unused" ELSE mem[x]
      BY <1>1, <1>2, <2>1 DEF Types, Uses, Kinds
    <2>3. /\ recorder' \in [Addrs -> Threads \cup {Null}]
          /\ \A x \in Addrs : recorder'[x] = IF x = a THEN Null ELSE recorder[x]
      BY <1>1, <1>2, <2>1, <2>2 DEF Types
    <2>4. /\ missed' \in [Kinds -> SUBSET Addrs]
          /\ \A j \in Kinds : missed[j] \subseteq missed'[j]
          /\ open["heap"][a] > 0 => a \in missed'["heap"]
      BY <1>1, <1>2, <2>1, MissLeaves DEF Kinds
    <2>5. \A u \in Threads :
             /\ CallOK(u)' <=> CallOK(u)
             /\ \A x \in Addrs : /\ Holds(u, x)' <=> Holds(u, x)
                                 /\ Allocating(u, x)' <=> Allocating(u, x)
             /\ \A j \in Kinds : \A x \in Addrs :
                   /\ AtLine(u, j, x)' <=> AtLine(u, j, x)
                   /\ AtEnd(u, j, x)' <=> AtEnd(u, j, x)
      BY <2>1 DEF CallOK, Holds, Allocating, AtLine, AtEnd
    <2>6. Types'
      BY <1>1, <1>2, <2>1, <2>2, <2>3, <2>4, <2>5 DEF Types
    <2>7. HeldInv'
      <3>1. \A u \in Threads : \A x \in Addrs : Holds(u, x)' => mem'[x] = "held"
        BY <1>1, <1>2, <2>1, <2>2, <2>3, <2>4, <2>5 DEF HeldInv
      <3>2. \A u, v \in Threads : \A x \in Addrs : Holds(u, x)' /\ Holds(v, x)' => u = v
        BY <1>1, <1>2, <2>1, <2>2, <2>3, <2>4, <2>5 DEF HeldInv
      <3>3. \A u \in Threads : CallOK(u)'
        BY <1>1, <1>2, <2>1, <2>2, <2>3, <2>4, <2>5 DEF HeldInv
      <3>4. \A u \in Threads : stack'[u] # Null => mem'[stack'[u]] = "stack"
        BY <1>1, <1>2, <2>1, <2>2, <2>3, <2>4, <2>5 DEF Types, HeldInv, Results
      <3>5. \A u, v \in Threads : stack'[u] # Null /\ stack'[u] = stack'[v] => u = v
        BY <1>1, <1>2, <2>1, <2>2, <2>3, <2>4, <2>5 DEF HeldInv
      <3>6. QED
        BY <3>1, <3>2, <3>3, <3>4, <3>5 DEF HeldInv
    <2>8. RecordInv'
      <3>1. \A x \in Addrs : mem'[x] \in {"unused", "stack"} => recorder'[x] = Null
        BY <1>1, <1>2, <2>1, <2>2, <2>3, <2>4, <2>5 DEF RecordInv, Types
      <3>2. \A u \in Threads : \A x \in Addrs : Allocating(u, x)' => recorder'[x] = Null
        BY <1>1, <1>2, <2>1, <2>2, <2>3, <2>4, <2>5 DEF RecordInv
      <3>3. \A u \in Threads : \A j \in Kinds : \A x \in Addrs :
             AtLine(u, j, x)' => cache'[j][u][x] > 0
        BY <1>1, <1>2, <2>1, <2>2, <2>3, <2>4, <2>5 DEF RecordInv, Types
      <3>4. \A x \in Addrs : mem'[x] \in Kinds /\ recorder'[x] # Null =>
             cache'[mem'[x]][recorder'[x]][x] > 0
        BY <1>1, <1>2, <2>1, <2>2, <2>3, <2>4, <2>5 DEF RecordInv, LiveHeld, Types, Kinds
      <3>5. QED
        BY <3>1, <3>2, <3>3, <3>4 DEF RecordInv, LiveHeld
    <2>9. LogInv'
      <3>1. \A j \in Kinds : \A x \in Addrs : x \notin missed'[j] => open'[j][x] <= 1
        BY <1>1, <1>2, <2>1, <2>2, <2>3, <2>4, <2>5 DEF LogInv, Types
      <3>2. \A j \in Kinds : \A x \in Addrs : x \notin missed'[j] /\ open'[j][x] = 1 =>
             mem'[x] = j \/ Releasing(j, x)'
        BY <1>1, <1>2, <2>1, <2>2, <2>3, <2>4, <2>5 DEF LogInv, Types, Releasing, Kinds
      <3>3. QED
        BY <3>1, <3>2 DEF LogInv
    <2>10. HeapInv'
      <3>1. \A x \in Addrs : /\ Writing(x)' <=> Writing(x)
                             /\ Releasing("heap", x)' <=> Releasing("heap", x)
        BY <1>1, <1>2, <2>1, <2>2, <2>3, <2>4, <2>5 DEF Writing, Releasing, Kinds
      <3>2. QED
        BY <1>1, <1>2, <2>1, <2>2, <2>3, <2>4, <2>5, <3>1, HeapFrame DEF Kinds
    <2>11. QED
      BY <2>6, <2>7, <2>8, <2>9, <2>10 DEF BookInv
  <1>6. QED
    BY <1>1, <1>3, <1>4, <1>5 DEF Free

\* A block is unmapped: with its line or without.
LEMMA UnmapKeeps ==
    ASSUME BookInv, NEW t \in Threads, NEW a \in Addrs, NEW filtered \in BOOLEAN, Unmap(t, a, filtered)
    PROVE  BookInv'
  <1>1. Unmap(t, a, filtered) /\ Types /\ HeldInv /\ RecordInv /\ LogInv /\ HeapInv
    BY DEF BookInv
  <1>2. /\ Null \notin Addrs /\ "heap" \in Kinds /\ "map" \in Kinds
        /\ \A j \in Kinds : j \in Uses /\ j \notin {"unused", "held", "stack"}
        /\ \A u \in Threads : \A x \in Addrs :
              /\ Allocating(u, x) => Holds(u, x)
              /\ \A j \in Kinds : (AtLine(u, j, x) => Allocating(u, x)) /\ (AtEnd(u, j, x) => Holds(u, x))
              /\ Holds(u, x) => mem[x] = "held"
        /\ \A x \in Addrs : pc[t] \in {"idle", "gone"} =>
              /\ ~Holds(t, x) /\ ~Allocating(t, x)
              /\ \A j \in Kinds : ~AtLine(t, j, x) /\ ~AtEnd(t, j, x)
    BY <1>1, NullType, LinesHeld DEF Uses, Kinds, Holds, Allocating, AtLine, AtEnd, Busy
  <1>3. CASE Hooked("map", filtered) /\ large[a]
    <2>1. /\ pc[t] = "idle" /\ mem[a] = "map"
          /\ Forget("map", t, a)
          /\ Enter(t, "endline", "map", a, TRUE, FALSE)
          /\ mem' = [mem EXCEPT ![a] = "held"]
          /\ UNCHANGED <<large, stack, open, recorder, missed>>
      BY <1>1, <1>3 DEF Unmap, memory, log
    <2>2. /\ pc' \in [Threads -> PC] /\ op' \in [Threads -> Call]
          /\ pc'[t] = "endline" /\ op'[t].kind = "map" /\ op'[t].addr = a
          /\ (op'[t].large <=> TRUE) /\ ~op'[t].exit
          /\ \A u \in Threads : u # t => pc'[u] = pc[u] /\ op'[u] = op[u]
      BY <1>1, <1>2, <2>1 DEF Types, Enter, Back, PC, Call, Results, Kinds
    <2>3. /\ cache' \in [Kinds -> [Threads -> [Addrs -> Nat]]]
          /\ \A j \in Kinds : \A u \in Threads : \A x \in Addrs :
                cache'[j][u][x] = IF j = "map" /\ u = t /\ x = a
                                  THEN IF cache[j][u][x] > 0 THEN cache[j][u][x] - 1 ELSE 0
                                  ELSE cache[j][u][x]
          /\ \A j \in Kinds : j # "map" => cache'[j] = cache[j]
      BY <1>1, <1>2, <2>1, ForgetLeaves DEF Kinds
    <2>4. /\ mem' \in [Addrs -> Uses]
          /\ \A x \in Addrs : mem'[x] = IF x = a THEN "held" ELSE mem[x]
      BY <1>1, <1>2, <2>1, <2>2, <2>3 DEF Types, Uses, Kinds
    <2>5. /\ CallOK(t)'
          /\ \A x \in Addrs : (Holds(t, x)' <=> x = a) /\ ~Allocating(t, x)'
          /\ \A j \in Kinds : \A x \in Addrs :
                ~AtLine(t, j, x)' /\ (AtEnd(t, j, x)' <=> j = "map" /\ x = a)
      BY <1>2, <2>1, <2>2, <2>3, <2>4 DEF CallOK, Holds, Allocating, AtLine, AtEnd, Busy
    <2>6. \A u \in Threads : u # t =>
             /\ CallOK(u)'
             /\ \A x \in Addrs : /\ Holds(u, x)' <=> Holds(u, x)
                                 /\ Allocating(u, x)' <=> Allocating(u, x)
             /\ \A j \in Kinds : \A x \in Addrs :
                   /\ AtLine(u, j, x)' <=> AtLine(u, j, x)
                   /\ AtEnd(u, j, x)' <=> AtEnd(u, j, x)
      BY <1>1, <2>1, <2>2, OthersStay
    <2>7. \A u \in Threads :
             /\ CallOK(u)'
             /\ \A x \in Addrs :
                   /\ Holds(u, x)' <=> (u = t /\ x = a) \/ (u # t /\ Holds(u, x))
                   /\ Allocating(u, x)' <=> u # t /\ Allocating(u, x)
             /\ \A j \in Kinds : \A x \in Addrs :
                   /\ AtLine(u, j, x)' <=> u # t /\ AtLine(u, j, x)
                   /\ AtEnd(u, j, x)' <=> (u = t /\ j = "map" /\ x = a) \/ (u # t /\ AtEnd(u, j, x))
      BY <2>5, <2>6
    <2>8. Types'
      BY <1>1, <1>2, <2>1, <2>2, <2>3, <2>4, <2>5, <2>7 DEF Types
    <2>9. HeldInv'
      <3>1. \A u \in Threads : \A x \in Addrs : Holds(u, x)' => mem'[x] = "held"
        BY <1>1, <1>2, <2>1, <2>2, <2>3, <2>4, <2>5, <2>7 DEF HeldInv
      <3>2. \A u, v \in Threads : \A x \in Addrs : Holds(u, x)' /\ Holds(v, x)' => u = v
        BY <1>1, <1>2, <2>1, <2>2, <2>3, <2>4, <2>5, <2>7 DEF HeldInv
      <3>3. \A u \in Threads : CallOK(u)'
        BY <1>1, <1>2, <2>1, <2>2, <2>3, <2>4, <2>5, <2>7 DEF HeldInv
      <3>4. \A u \in Threads : stack'[u] # Null => mem'[stack'[u]] = "stack"
        BY <1>1, <1>2, <2>1, <2>2, <2>3, <2>4, <2>5, <2>7 DEF Types, HeldInv, Results
      <3>5. \A u, v \in Threads : stack'[u] # Null /\ stack'[u] = stack'[v] => u = v
        BY <1>1, <1>2, <2>1, <2>2, <2>3, <2>4, <2>5, <2>7 DEF HeldInv
      <3>6. QED
        BY <3>1, <3>2, <3>3, <3>4, <3>5 DEF HeldInv
    <2>10. RecordInv'
      <3>1. \A x \in Addrs : mem'[x] \in {"unused", "stack"} => recorder'[x] = Null
        BY <1>1, <1>2, <2>1, <2>2, <2>3, <2>4, <2>5, <2>7 DEF RecordInv, Types
      <3>2. \A u \in Threads : \A x \in Addrs : Allocating(u, x)' => recorder'[x] = Null
        BY <1>1, <1>2, <2>1, <2>2, <2>3, <2>4, <2>5, <2>7 DEF RecordInv
      <3>3. \A u \in Threads : \A j \in Kinds : \A x \in Addrs :
             AtLine(u, j, x)' => cache'[j][u][x] > 0
        BY <1>1, <1>2, <2>1, <2>2, <2>3, <2>4, <2>5, <2>7 DEF RecordInv, Types
      <3>4. \A x \in Addrs : mem'[x] \in Kinds /\ recorder'[x] # Null =>
             cache'[mem'[x]][recorder'[x]][x] > 0
        BY <1>1, <1>2, <2>1, <2>2, <2>3, <2>4, <2>5, <2>7 DEF RecordInv, LiveHeld, Types, Kinds
      <3>5. QED
        BY <3>1, <3>2, <3>3, <3>4 DEF RecordInv, LiveHeld
    <2>11. LogInv'
      <3>1. \A j \in Kinds : \A x \in Addrs : x \notin missed'[j] => open'[j][x] <= 1
        BY <1>1, <1>2, <2>1, <2>2, <2>3, <2>4, <2>5, <2>7 DEF LogInv, Types
      <3>2. \A j \in Kinds : \A x \in Addrs : x \notin missed'[j] /\ open'[j][x] = 1 =>
             mem'[x] = j \/ Releasing(j, x)'
        BY <1>1, <1>2, <2>1, <2>2, <2>3, <2>4, <2>5, <2>7 DEF LogInv, Types, Releasing, Kinds
      <3>3. QED
        BY <3>1, <3>2 DEF LogInv
    <2>12. HeapInv'
      <3>1. \A x \in Addrs : /\ Writing(x)' <=> Writing(x)
                             /\ Releasing("heap", x)' <=> Releasing("heap", x)
        BY <1>1, <1>2, <2>1, <2>2, <2>3, <2>4, <2>5, <2>7 DEF Writing, Releasing, Kinds
      <3>2. QED
        BY <1>1, <1>2, <2>1, <2>2, <2>3, <2>4, <2>5, <2>7, <3>1, HeapFrame DEF Kinds
    <2>13. QED
      BY <2>8, <2>9, <2>10, <2>11, <2>12 DEF BookInv
  <1>4. CASE ~(Hooked("map", filtered) /\ large[a])
    <2>1. /\ mem[a] = "map"
          /\ mem' = [mem EXCEPT ![a] = "unused"]
          /\ recorder' = [recorder EXCEPT ![a] = Null]
          /\ Miss("map", a)
          /\ UNCHANGED <<large, stack, cache, open, pc, op>>
      BY <1>1, <1>4 DEF Unmap, memory, log
    <2>2. /\ mem' \in [Addrs -> Uses]
          /\ \A x \in Addrs : mem'[x] = IF x = a THEN "unused" ELSE mem[x]
      BY <1>1, <1>2, <2>1 DEF Types, Uses, Kinds
    <2>3. /\ recorder' \in [Addrs -> Threads \cup {Null}]
          /\ \A x \in Addrs : recorder'[x] = IF x = a THEN Null ELSE recorder[x]
      BY <1>1, <1>2, <2>1, <2>2 DEF Types
    <2>4. /\ missed' \in [Kinds -> SUBSET Addrs]
          /\ \A j \in Kinds : missed[j] \subseteq missed'[j]
          /\ open["map"][a] > 0 => a \in missed'["map"]
      BY <1>1, <1>2, <2>1, MissLeaves DEF Kinds
    <2>5. \A u \in Threads :
             /\ CallOK(u)' <=> CallOK(u)
             /\ \A x \in Addrs : /\ Holds(u, x)' <=> Holds(u, x)
                                 /\ Allocating(u, x)' <=> Allocating(u, x)
             /\ \A j \in Kinds : \A x \in Addrs :
                   /\ AtLine(u, j, x)' <=> AtLine(u, j, x)
                   /\ AtEnd(u, j, x)' <=> AtEnd(u, j, x)
      BY <2>1 DEF CallOK, Holds, Allocating, AtLine, AtEnd
    <2>6. Types'
      BY <1>1, <1>2, <2>1, <2>2, <2>3, <2>4, <2>5 DEF Types
    <2>7. HeldInv'
      <3>1. \A u \in Threads : \A x \in Addrs : Holds(u, x)' => mem'[x] = "held"
        BY <1>1, <1>2, <2>1, <2>2, <2>3, <2>4, <2>5 DEF HeldInv
      <3>2. \A u, v \in Threads : \A x \in Addrs : Holds(u, x)' /\ Holds(v, x)' => u = v
        BY <1>1, <1>2, <2>1, <2>2, <2>3, <2>4, <2>5 DEF HeldInv
      <3>3. \A u \in Threads : CallOK(u)'
        BY <1>1, <1>2, <2>1, <2>2, <2>3, <2>4, <2>5 DEF HeldInv
      <3>4. \A u \in Threads : stack'[u] # Null => mem'[stack'[u]] = "stack"
        BY <1>1, <1>2, <2>1, <2>2, <2>3, <2>4, <2>5 DEF Types, HeldInv, Results
      <3>5. \A u, v \in Threads : stack'[u] # Null /\ stack'[u] = stack'[v] => u = v
        BY <1>1, <1>2, <2>1, <2>2, <2>3, <2>4, <2>5 DEF HeldInv
      <3>6. QED
        BY <3>1, <3>2, <3>3, <3>4, <3>5 DEF HeldInv
    <2>8. RecordInv'
      <3>1. \A x \in Addrs : mem'[x] \in {"unused", "stack"} => recorder'[x] = Null
        BY <1>1, <1>2, <2>1, <2>2, <2>3, <2>4, <2>5 DEF RecordInv, Types
      <3>2. \A u \in Threads : \A x \in Addrs : Allocating(u, x)' => recorder'[x] = Null
        BY <1>1, <1>2, <2>1, <2>2, <2>3, <2>4, <2>5 DEF RecordInv
      <3>3. \A u \in Threads : \A j \in Kinds : \A x \in Addrs :
             AtLine(u, j, x)' => cache'[j][u][x] > 0
        BY <1>1, <1>2, <2>1, <2>2, <2>3, <2>4, <2>5 DEF RecordInv, Types
      <3>4. \A x \in Addrs : mem'[x] \in Kinds /\ recorder'[x] # Null =>
             cache'[mem'[x]][recorder'[x]][x] > 0
        BY <1>1, <1>2, <2>1, <2>2, <2>3, <2>4, <2>5 DEF RecordInv, LiveHeld, Types, Kinds
      <3>5. QED
        BY <3>1, <3>2, <3>3, <3>4 DEF RecordInv, LiveHeld
    <2>9. LogInv'
      <3>1. \A j \in Kinds : \A x \in Addrs : x \notin missed'[j] => open'[j][x] <= 1
        BY <1>1, <1>2, <2>1, <2>2, <2>3, <2>4, <2>5 DEF LogInv, Types
      <3>2. \A j \in Kinds : \A x \in Addrs : x \notin missed'[j] /\ open'[j][x] = 1 =>
             mem'[x] = j \/ Releasing(j, x)'
        BY <1>1, <1>2, <2>1, <2>2, <2>3, <2>4, <2>5 DEF LogInv, Types, Releasing, Kinds
      <3>3. QED
        BY <3>1, <3>2 DEF LogInv
    <2>10. HeapInv'
      <3>1. \A x \in Addrs : /\ Writing(x)' <=> Writing(x)
                             /\ Releasing("heap", x)' <=> Releasing("heap", x)
        BY <1>1, <1>2, <2>1, <2>2, <2>3, <2>4, <2>5 DEF Writing, Releasing, Kinds
      <3>2. QED
        BY <1>1, <1>2, <2>1, <2>2, <2>3, <2>4, <2>5, <3>1, HeapFrame DEF Kinds
    <2>11. QED
      BY <2>6, <2>7, <2>8, <2>9, <2>10 DEF BookInv
  <1>5. QED
    BY <1>1, <1>3, <1>4 DEF Unmap

\* The release line is written.
LEMMA WriteEndKeeps ==
    ASSUME BookInv, NEW t \in Threads, WriteEnd(t)
    PROVE  BookInv'
  <1>1. WriteEnd(t) /\ Types /\ HeldInv /\ RecordInv /\ LogInv /\ HeapInv
    BY DEF BookInv
  <1>2. /\ Null \notin Addrs /\ "heap" \in Kinds /\ "map" \in Kinds
        /\ \A j \in Kinds : j \in Uses /\ j \notin {"unused", "held", "stack"}
        /\ \A u \in Threads : \A x \in Addrs :
              /\ Allocating(u, x) => Holds(u, x)
              /\ \A j \in Kinds : (AtLine(u, j, x) => Allocating(u, x)) /\ (AtEnd(u, j, x) => Holds(u, x))
              /\ Holds(u, x) => mem[x] = "held"
        /\ \A x \in Addrs : pc[t] \in {"idle", "gone"} =>
              /\ ~Holds(t, x) /\ ~Allocating(t, x)
              /\ \A j \in Kinds : ~AtLine(t, j, x) /\ ~AtEnd(t, j, x)
    BY <1>1, NullType, LinesHeld DEF Uses, Kinds, Holds, Allocating, AtLine, AtEnd, Busy
  <1>3. BookInv'
    <2>1. /\ pc[t] = "endline"
          /\ open' = [open EXCEPT ![op[t].kind][op[t].addr] = IF @ > 0 THEN @ - 1 ELSE 0]
          /\ Go(t, "ending")
          /\ UNCHANGED <<mem, large, stack, cache, recorder, missed>>
      BY <1>1 DEF WriteEnd, memory, log
    <2>2. /\ pc' \in [Threads -> PC] /\ op' = op /\ pc'[t] = "ending"
          /\ \A u \in Threads : u # t => pc'[u] = pc[u] /\ op'[u] = op[u]
      BY <1>1, <2>1 DEF Types, Go, PC
    <2>3. /\ op[t].kind \in Kinds /\ op[t].addr \in Results /\ CallOK(t)
          /\ \A x \in Addrs : (Holds(t, x) <=> ~op[t].exit /\ x = op[t].addr) /\ ~Allocating(t, x)
          /\ \A j \in Kinds : \A x \in Addrs :
                ~AtLine(t, j, x) /\ (AtEnd(t, j, x) <=> ~op[t].exit /\ j = op[t].kind /\ x = op[t].addr)
      BY <1>1, <1>2, <2>1 DEF Types, HeldInv, CallOK, Call, Holds, Allocating, AtLine, AtEnd, Busy
    <2>4. /\ open' \in [Kinds -> [Addrs -> Nat]]
          /\ \A j \in Kinds : \A x \in Addrs :
                open'[j][x] = IF j = op[t].kind /\ x = op[t].addr
                              THEN IF open[j][x] > 0 THEN open[j][x] - 1 ELSE 0 ELSE open[j][x]
      BY <1>1, <2>1, <2>2, <2>3 DEF Types, CallOK
    <2>5. /\ CallOK(t)'
          /\ \A x \in Addrs : (Holds(t, x)' <=> ~op[t].exit /\ x = op[t].addr) /\ ~Allocating(t, x)'
          /\ \A j \in Kinds : \A x \in Addrs :
                ~AtLine(t, j, x)' /\ ~AtEnd(t, j, x)'
      BY <1>2, <2>1, <2>2, <2>3, <2>4 DEF CallOK, Holds, Allocating, AtLine, AtEnd, Busy
    <2>6. \A u \in Threads : u # t =>
             /\ CallOK(u)'
             /\ \A x \in Addrs : /\ Holds(u, x)' <=> Holds(u, x)
                                 /\ Allocating(u, x)' <=> Allocating(u, x)
             /\ \A j \in Kinds : \A x \in Addrs :
                   /\ AtLine(u, j, x)' <=> AtLine(u, j, x)
                   /\ AtEnd(u, j, x)' <=> AtEnd(u, j, x)
      BY <1>1, <2>1, <2>2, OthersStay
    <2>7. \A u \in Threads :
             /\ CallOK(u)'
             /\ \A x \in Addrs :
                   /\ Holds(u, x)' <=> (u = t /\ ~op[t].exit /\ x = op[t].addr) \/ (u # t /\ Holds(u, x))
                   /\ Allocating(u, x)' <=> u # t /\ Allocating(u, x)
             /\ \A j \in Kinds : \A x \in Addrs :
                   /\ AtLine(u, j, x)' <=> u # t /\ AtLine(u, j, x)
                   /\ AtEnd(u, j, x)' <=> u # t /\ AtEnd(u, j, x)
      BY <2>5, <2>6
    <2>8. Types'
      BY <1>1, <1>2, <2>1, <2>2, <2>3, <2>4, <2>5, <2>7 DEF Types
    <2>9. HeldInv'
      <3>1. \A u \in Threads : \A x \in Addrs : Holds(u, x)' => mem'[x] = "held"
        BY <1>1, <1>2, <2>1, <2>2, <2>3, <2>4, <2>5, <2>7 DEF HeldInv
      <3>2. \A u, v \in Threads : \A x \in Addrs : Holds(u, x)' /\ Holds(v, x)' => u = v
        BY <1>1, <1>2, <2>1, <2>2, <2>3, <2>4, <2>5, <2>7 DEF HeldInv
      <3>3. \A u \in Threads : CallOK(u)'
        BY <1>1, <1>2, <2>1, <2>2, <2>3, <2>4, <2>5, <2>7 DEF HeldInv
      <3>4. \A u \in Threads : stack'[u] # Null => mem'[stack'[u]] = "stack"
        BY <1>1, <1>2, <2>1, <2>2, <2>3, <2>4, <2>5, <2>7 DEF Types, HeldInv, Results
      <3>5. \A u, v \in Threads : stack'[u] # Null /\ stack'[u] = stack'[v] => u = v
        BY <1>1, <1>2, <2>1, <2>2, <2>3, <2>4, <2>5, <2>7 DEF HeldInv
      <3>6. QED
        BY <3>1, <3>2, <3>3, <3>4, <3>5 DEF HeldInv
    <2>10. RecordInv'
      <3>1. \A x \in Addrs : mem'[x] \in {"unused", "stack"} => recorder'[x] = Null
        BY <1>1, <1>2, <2>1, <2>2, <2>3, <2>4, <2>5, <2>7 DEF RecordInv, Types
      <3>2. \A u \in Threads : \A x \in Addrs : Allocating(u, x)' => recorder'[x] = Null
        BY <1>1, <1>2, <2>1, <2>2, <2>3, <2>4, <2>5, <2>7 DEF RecordInv
      <3>3. \A u \in Threads : \A j \in Kinds : \A x \in Addrs :
             AtLine(u, j, x)' => cache'[j][u][x] > 0
        BY <1>1, <1>2, <2>1, <2>2, <2>3, <2>4, <2>5, <2>7 DEF RecordInv, Types
      <3>4. \A x \in Addrs : mem'[x] \in Kinds /\ recorder'[x] # Null =>
             cache'[mem'[x]][recorder'[x]][x] > 0
        BY <1>1, <1>2, <2>1, <2>2, <2>3, <2>4, <2>5, <2>7 DEF RecordInv, LiveHeld, Types, Kinds
      <3>5. QED
        BY <3>1, <3>2, <3>3, <3>4 DEF RecordInv, LiveHeld
    <2>11. LogInv'
      <3>1. \A j \in Kinds : \A x \in Addrs : x \notin missed'[j] => open'[j][x] <= 1
        BY <1>1, <1>2, <2>1, <2>2, <2>3, <2>4, <2>5, <2>7 DEF LogInv, Types
      <3>2. \A j \in Kinds : \A x \in Addrs : x \notin missed'[j] /\ open'[j][x] = 1 =>
             mem'[x] = j \/ Releasing(j, x)'
        BY SMTT(40), <1>1, <1>2, <2>1, <2>2, <2>3, <2>4, <2>5, <2>7 DEF LogInv, Types, Releasing, Kinds
      <3>3. QED
        BY <3>1, <3>2 DEF LogInv
    <2>12. HeapInv'
      <3>1. ASSUME NEW x \in Addrs, x # op[t].addr
            PROVE  HeapOK(x)'
        <4>1. HeapOK(x) /\ (Writing(x)' <=> Writing(x)) /\ (Releasing("heap", x)' <=> Releasing("heap", x))
          BY SMTT(40), <1>1, <1>2, <2>1, <2>2, <2>3, <2>4, <2>5, <2>7, <3>1 DEF HeapInv, Writing, Releasing, Kinds
        <4>2. (\A u \in Threads : cache'["heap"][u][x] = cache["heap"][u][x]) /\ open'["heap"][x] = open["heap"][x]
          BY <1>1, <1>2, <2>1, <2>2, <2>3, <2>4, <2>5, <2>7, <3>1 DEF Kinds
        <4>3. QED
          BY SMTT(40), <4>1, <4>2, HeapSame
      <3>2. ASSUME NEW x \in Addrs, x = op[t].addr
            PROVE  HeapOK(x)'
        <4>1. Entries(x)' = Entries(x) /\ HeapOK(x) /\ open["heap"][x] \in Nat
          BY <1>1, <1>2, <2>1, <2>2, <2>3, <2>4, <2>5, <2>7 DEF Entries, HeapInv, Types, Kinds
        <4>2. Cardinality(Entries(x)) \in Nat
          BY <4>1, FS_CardinalityType DEF HeapOK
        <4>3. CASE op[t].kind = "heap" /\ ~op[t].exit
          <5>1. ~Writing(x) /\ Releasing("heap", x)
            BY <1>1, <1>2, <2>1, <2>2, <2>3, <2>4, <2>5, <2>7, <3>2, <4>3 DEF Writing, Releasing, HeldInv
          <5>2. ~Writing(x)' /\ ~Releasing("heap", x)'
            BY <1>1, <1>2, <2>1, <2>2, <2>3, <2>4, <2>5, <2>7, <3>2, <4>3, <5>1 DEF Writing, Releasing, HeldInv
          <5>3. open'["heap"][x] = IF open["heap"][x] > 0 THEN open["heap"][x] - 1 ELSE 0
            BY SMTT(40), <1>1, <1>2, <2>1, <2>2, <2>3, <2>4, <2>5, <2>7, <3>2, <4>3
          <5>4. QED
            BY <4>1, <4>2, <5>1, <5>2, <5>3 DEF HeapOK
        <4>4. CASE ~(op[t].kind = "heap" /\ ~op[t].exit)
          <5>1. open'["heap"][x] = open["heap"][x]
            BY <1>1, <1>2, <2>1, <2>2, <2>3, <2>4, <2>5, <2>7, <3>2, <4>4 DEF CallOK, Kinds
          <5>2. (Writing(x)' <=> Writing(x)) /\ (Releasing("heap", x)' <=> Releasing("heap", x))
            BY <1>1, <1>2, <2>1, <2>2, <2>3, <2>4, <2>5, <2>7, <4>4 DEF Writing, Releasing
          <5>3. QED
            BY <4>1, <5>1, <5>2 DEF HeapOK
        <4>5. QED
          BY <4>3, <4>4
      <3>3. QED
        BY <3>1, <3>2 DEF HeapInv
    <2>13. QED
      BY <2>8, <2>9, <2>10, <2>11, <2>12 DEF BookInv
  <1>4. QED
    BY <1>1, <1>3 DEF WriteEnd

\* The block is released.
LEMMA OrigEndKeeps ==
    ASSUME BookInv, NEW t \in Threads, OrigEnd(t)
    PROVE  BookInv'
  <1>1. OrigEnd(t) /\ Types /\ HeldInv /\ RecordInv /\ LogInv /\ HeapInv
    BY DEF BookInv
  <1>2. /\ Null \notin Addrs /\ "heap" \in Kinds /\ "map" \in Kinds
        /\ \A j \in Kinds : j \in Uses /\ j \notin {"unused", "held", "stack"}
        /\ \A u \in Threads : \A x \in Addrs :
              /\ Allocating(u, x) => Holds(u, x)
              /\ \A j \in Kinds : (AtLine(u, j, x) => Allocating(u, x)) /\ (AtEnd(u, j, x) => Holds(u, x))
              /\ Holds(u, x) => mem[x] = "held"
        /\ \A x \in Addrs : pc[t] \in {"idle", "gone"} =>
              /\ ~Holds(t, x) /\ ~Allocating(t, x)
              /\ \A j \in Kinds : ~AtLine(t, j, x) /\ ~AtEnd(t, j, x)
    BY <1>1, NullType, LinesHeld DEF Uses, Kinds, Holds, Allocating, AtLine, AtEnd, Busy
  <1>3. BookInv'
    <2>1. /\ pc[t] = "ending" /\ ~op[t].exit
          /\ mem' = [mem EXCEPT ![op[t].addr] = "unused"]
          /\ recorder' = [recorder EXCEPT ![op[t].addr] = Null]
          /\ Back(t)
          /\ UNCHANGED <<large, stack, cache, open, missed>>
      BY <1>1 DEF OrigEnd, memory, log
    <2>2. /\ pc' \in [Threads -> PC] /\ op' \in [Threads -> Call]
          /\ pc'[t] = "idle" /\ op'[t].kind = "heap" /\ op'[t].addr = Null
          /\ (op'[t].large <=> FALSE) /\ ~op'[t].exit
          /\ \A u \in Threads : u # t => pc'[u] = pc[u] /\ op'[u] = op[u]
      BY <1>1, <1>2, <2>1 DEF Types, Enter, Back, PC, Call, Results, Kinds
    <2>3. /\ op[t].kind \in Kinds /\ op[t].addr \in Results /\ CallOK(t)
          /\ \A x \in Addrs : (Holds(t, x) <=> ~op[t].exit /\ x = op[t].addr) /\ ~Allocating(t, x)
          /\ \A j \in Kinds : \A x \in Addrs :
                ~AtLine(t, j, x) /\ ~AtEnd(t, j, x)
      BY <1>1, <1>2, <2>1 DEF Types, HeldInv, CallOK, Call, Holds, Allocating, AtLine, AtEnd, Busy
    <2>4. /\ mem' \in [Addrs -> Uses]
          /\ \A x \in Addrs : mem'[x] = IF x = op[t].addr THEN "unused" ELSE mem[x]
      BY ZenonT(60), <1>1, <1>2, <2>1, <2>2, <2>3 DEF Types, Uses, Kinds
    <2>5. /\ recorder' \in [Addrs -> Threads \cup {Null}]
          /\ \A x \in Addrs : recorder'[x] = IF x = op[t].addr THEN Null ELSE recorder[x]
      BY <1>1, <1>2, <2>1, <2>2, <2>3, <2>4 DEF Types
    <2>6. /\ CallOK(t)'
          /\ \A x \in Addrs : ~Holds(t, x)' /\ ~Allocating(t, x)'
          /\ \A j \in Kinds : \A x \in Addrs :
                ~AtLine(t, j, x)' /\ ~AtEnd(t, j, x)'
      BY <1>2, <2>1, <2>2, <2>3, <2>4, <2>5 DEF CallOK, Holds, Allocating, AtLine, AtEnd, Busy
    <2>7. \A u \in Threads : u # t =>
             /\ CallOK(u)'
             /\ \A x \in Addrs : /\ Holds(u, x)' <=> Holds(u, x)
                                 /\ Allocating(u, x)' <=> Allocating(u, x)
             /\ \A j \in Kinds : \A x \in Addrs :
                   /\ AtLine(u, j, x)' <=> AtLine(u, j, x)
                   /\ AtEnd(u, j, x)' <=> AtEnd(u, j, x)
      BY <1>1, <2>1, <2>2, OthersStay
    <2>8. \A u \in Threads :
             /\ CallOK(u)'
             /\ \A x \in Addrs :
                   /\ Holds(u, x)' <=> u # t /\ Holds(u, x)
                   /\ Allocating(u, x)' <=> u # t /\ Allocating(u, x)
             /\ \A j \in Kinds : \A x \in Addrs :
                   /\ AtLine(u, j, x)' <=> u # t /\ AtLine(u, j, x)
                   /\ AtEnd(u, j, x)' <=> u # t /\ AtEnd(u, j, x)
      BY <2>6, <2>7
    <2>9. Types'
      BY <1>1, <1>2, <2>1, <2>2, <2>3, <2>4, <2>5, <2>6, <2>8 DEF Types
    <2>10. HeldInv'
      <3>1. \A u \in Threads : \A x \in Addrs : Holds(u, x)' => mem'[x] = "held"
        BY <1>1, <1>2, <2>1, <2>2, <2>3, <2>4, <2>5, <2>6, <2>8 DEF HeldInv
      <3>2. \A u, v \in Threads : \A x \in Addrs : Holds(u, x)' /\ Holds(v, x)' => u = v
        BY <1>1, <1>2, <2>1, <2>2, <2>3, <2>4, <2>5, <2>6, <2>8 DEF HeldInv
      <3>3. \A u \in Threads : CallOK(u)'
        BY <1>1, <1>2, <2>1, <2>2, <2>3, <2>4, <2>5, <2>6, <2>8 DEF HeldInv
      <3>4. \A u \in Threads : stack'[u] # Null => mem'[stack'[u]] = "stack"
        BY <1>1, <1>2, <2>1, <2>2, <2>3, <2>4, <2>5, <2>6, <2>8 DEF Types, HeldInv, Results
      <3>5. \A u, v \in Threads : stack'[u] # Null /\ stack'[u] = stack'[v] => u = v
        BY <1>1, <1>2, <2>1, <2>2, <2>3, <2>4, <2>5, <2>6, <2>8 DEF HeldInv
      <3>6. QED
        BY <3>1, <3>2, <3>3, <3>4, <3>5 DEF HeldInv
    <2>11. RecordInv'
      <3>1. \A x \in Addrs : mem'[x] \in {"unused", "stack"} => recorder'[x] = Null
        BY <1>1, <1>2, <2>1, <2>2, <2>3, <2>4, <2>5, <2>6, <2>8 DEF RecordInv, Types
      <3>2. \A u \in Threads : \A x \in Addrs : Allocating(u, x)' => recorder'[x] = Null
        BY <1>1, <1>2, <2>1, <2>2, <2>3, <2>4, <2>5, <2>6, <2>8 DEF RecordInv
      <3>3. \A u \in Threads : \A j \in Kinds : \A x \in Addrs :
             AtLine(u, j, x)' => cache'[j][u][x] > 0
        BY <1>1, <1>2, <2>1, <2>2, <2>3, <2>4, <2>5, <2>6, <2>8 DEF RecordInv, Types
      <3>4. \A x \in Addrs : mem'[x] \in Kinds /\ recorder'[x] # Null =>
             cache'[mem'[x]][recorder'[x]][x] > 0
        BY <1>1, <1>2, <2>1, <2>2, <2>3, <2>4, <2>5, <2>6, <2>8 DEF RecordInv, LiveHeld, Types, Kinds
      <3>5. QED
        BY <3>1, <3>2, <3>3, <3>4 DEF RecordInv, LiveHeld
    <2>12. LogInv'
      <3>1. \A j \in Kinds : \A x \in Addrs : x \notin missed'[j] => open'[j][x] <= 1
        BY <1>1, <1>2, <2>1, <2>2, <2>3, <2>4, <2>5, <2>6, <2>8 DEF LogInv, Types
      <3>2. \A j \in Kinds : \A x \in Addrs : x \notin missed'[j] /\ open'[j][x] = 1 =>
             mem'[x] = j \/ Releasing(j, x)'
        BY <1>1, <1>2, <2>1, <2>2, <2>3, <2>4, <2>5, <2>6, <2>8 DEF LogInv, Types, Releasing, Kinds
      <3>3. QED
        BY <3>1, <3>2 DEF LogInv
    <2>13. HeapInv'
      <3>1. \A x \in Addrs : /\ Writing(x)' <=> Writing(x)
                             /\ Releasing("heap", x)' <=> Releasing("heap", x)
        BY <1>1, <1>2, <2>1, <2>2, <2>3, <2>4, <2>5, <2>6, <2>8 DEF Writing, Releasing, Kinds
      <3>2. QED
        BY <1>1, <1>2, <2>1, <2>2, <2>3, <2>4, <2>5, <2>6, <2>8, <3>1, HeapFrame DEF Kinds
    <2>14. QED
      BY <2>9, <2>10, <2>11, <2>12, <2>13 DEF BookInv
  <1>4. QED
    BY <1>1, <1>3 DEF OrigEnd

\* A thread starts, on a stack that nobody has.
LEMMA StartKeeps ==
    ASSUME BookInv, NEW t \in Threads, NEW a \in Addrs, NEW l \in BOOLEAN, Start(t, a, l)
    PROVE  BookInv'
  <1>1. Start(t, a, l) /\ Types /\ HeldInv /\ RecordInv /\ LogInv /\ HeapInv
    BY DEF BookInv
  <1>2. /\ Null \notin Addrs /\ "heap" \in Kinds /\ "map" \in Kinds
        /\ \A j \in Kinds : j \in Uses /\ j \notin {"unused", "held", "stack"}
        /\ \A u \in Threads : \A x \in Addrs :
              /\ Allocating(u, x) => Holds(u, x)
              /\ \A j \in Kinds : (AtLine(u, j, x) => Allocating(u, x)) /\ (AtEnd(u, j, x) => Holds(u, x))
              /\ Holds(u, x) => mem[x] = "held"
        /\ \A x \in Addrs : pc[t] \in {"idle", "gone"} =>
              /\ ~Holds(t, x) /\ ~Allocating(t, x)
              /\ \A j \in Kinds : ~AtLine(t, j, x) /\ ~AtEnd(t, j, x)
    BY <1>1, NullType, LinesHeld DEF Uses, Kinds, Holds, Allocating, AtLine, AtEnd, Busy
  <1>3. BookInv'
    <2>1. /\ pc[t] = "gone" /\ mem[a] = "unused"
          /\ mem' = [mem EXCEPT ![a] = "stack"]
          /\ large' = [large EXCEPT ![a] = l]
          /\ stack' = [stack EXCEPT ![t] = a]
          /\ Back(t)
          /\ UNCHANGED <<cache, open, recorder, missed>>
      BY <1>1 DEF Start, memory, log
    <2>2. /\ pc' \in [Threads -> PC] /\ op' \in [Threads -> Call]
          /\ pc'[t] = "idle" /\ op'[t].kind = "heap" /\ op'[t].addr = Null
          /\ (op'[t].large <=> FALSE) /\ ~op'[t].exit
          /\ \A u \in Threads : u # t => pc'[u] = pc[u] /\ op'[u] = op[u]
      BY <1>1, <1>2, <2>1 DEF Types, Enter, Back, PC, Call, Results, Kinds
    <2>3. /\ stack' \in [Threads -> Results] /\ stack'[t] = a
          /\ \A u \in Threads : u # t => stack'[u] = stack[u]
      BY <1>1, <2>1 DEF Types, Results
    <2>4. /\ mem' \in [Addrs -> Uses]
          /\ \A x \in Addrs : mem'[x] = IF x = a THEN "stack" ELSE mem[x]
      BY <1>1, <1>2, <2>1, <2>2, <2>3 DEF Types, Uses, Kinds
    <2>5. /\ CallOK(t)'
          /\ \A x \in Addrs : ~Holds(t, x)' /\ ~Allocating(t, x)'
          /\ \A j \in Kinds : \A x \in Addrs :
                ~AtLine(t, j, x)' /\ ~AtEnd(t, j, x)'
      BY <1>2, <2>1, <2>2, <2>3, <2>4 DEF CallOK, Holds, Allocating, AtLine, AtEnd, Busy
    <2>6. \A u \in Threads : u # t =>
             /\ CallOK(u)'
             /\ \A x \in Addrs : /\ Holds(u, x)' <=> Holds(u, x)
                                 /\ Allocating(u, x)' <=> Allocating(u, x)
             /\ \A j \in Kinds : \A x \in Addrs :
                   /\ AtLine(u, j, x)' <=> AtLine(u, j, x)
                   /\ AtEnd(u, j, x)' <=> AtEnd(u, j, x)
      BY <1>1, <2>1, <2>2, OthersStay, <2>3
    <2>7. \A u \in Threads :
             /\ CallOK(u)'
             /\ \A x \in Addrs :
                   /\ Holds(u, x)' <=> u # t /\ Holds(u, x)
                   /\ Allocating(u, x)' <=> u # t /\ Allocating(u, x)
             /\ \A j \in Kinds : \A x \in Addrs :
                   /\ AtLine(u, j, x)' <=> u # t /\ AtLine(u, j, x)
                   /\ AtEnd(u, j, x)' <=> u # t /\ AtEnd(u, j, x)
      BY <2>5, <2>6
    <2>8. Types'
      BY <1>1, <1>2, <2>1, <2>2, <2>3, <2>4, <2>5, <2>7 DEF Types
    <2>9. HeldInv'
      <3>1. \A u \in Threads : \A x \in Addrs : Holds(u, x)' => mem'[x] = "held"
        BY <1>1, <1>2, <2>1, <2>2, <2>3, <2>4, <2>5, <2>7 DEF HeldInv
      <3>2. \A u, v \in Threads : \A x \in Addrs : Holds(u, x)' /\ Holds(v, x)' => u = v
        BY <1>1, <1>2, <2>1, <2>2, <2>3, <2>4, <2>5, <2>7 DEF HeldInv
      <3>3. \A u \in Threads : CallOK(u)'
        BY <1>1, <1>2, <2>1, <2>2, <2>3, <2>4, <2>5, <2>7 DEF HeldInv
      <3>4. \A u \in Threads : stack'[u] # Null => mem'[stack'[u]] = "stack"
        BY <1>1, <1>2, <2>1, <2>2, <2>3, <2>4, <2>5, <2>7 DEF Types, HeldInv, Results
      <3>5. \A u, v \in Threads : stack'[u] # Null /\ stack'[u] = stack'[v] => u = v
        BY <1>1, <1>2, <2>1, <2>2, <2>3, <2>4, <2>5, <2>7 DEF HeldInv
      <3>6. QED
        BY <3>1, <3>2, <3>3, <3>4, <3>5 DEF HeldInv
    <2>10. RecordInv'
      <3>1. \A x \in Addrs : mem'[x] \in {"unused", "stack"} => recorder'[x] = Null
        BY <1>1, <1>2, <2>1, <2>2, <2>3, <2>4, <2>5, <2>7 DEF RecordInv, Types
      <3>2. \A u \in Threads : \A x \in Addrs : Allocating(u, x)' => recorder'[x] = Null
        BY <1>1, <1>2, <2>1, <2>2, <2>3, <2>4, <2>5, <2>7 DEF RecordInv
      <3>3. \A u \in Threads : \A j \in Kinds : \A x \in Addrs :
             AtLine(u, j, x)' => cache'[j][u][x] > 0
        BY <1>1, <1>2, <2>1, <2>2, <2>3, <2>4, <2>5, <2>7 DEF RecordInv, Types
      <3>4. \A x \in Addrs : mem'[x] \in Kinds /\ recorder'[x] # Null =>
             cache'[mem'[x]][recorder'[x]][x] > 0
        BY <1>1, <1>2, <2>1, <2>2, <2>3, <2>4, <2>5, <2>7 DEF RecordInv, LiveHeld, Types, Kinds
      <3>5. QED
        BY <3>1, <3>2, <3>3, <3>4 DEF RecordInv, LiveHeld
    <2>11. LogInv'
      <3>1. \A j \in Kinds : \A x \in Addrs : x \notin missed'[j] => open'[j][x] <= 1
        BY <1>1, <1>2, <2>1, <2>2, <2>3, <2>4, <2>5, <2>7 DEF LogInv, Types
      <3>2. \A j \in Kinds : \A x \in Addrs : x \notin missed'[j] /\ open'[j][x] = 1 =>
             mem'[x] = j \/ Releasing(j, x)'
        BY <1>1, <1>2, <2>1, <2>2, <2>3, <2>4, <2>5, <2>7 DEF LogInv, Types, Releasing, Kinds
      <3>3. QED
        BY <3>1, <3>2 DEF LogInv
    <2>12. HeapInv'
      <3>1. \A x \in Addrs : /\ Writing(x)' <=> Writing(x)
                             /\ Releasing("heap", x)' <=> Releasing("heap", x)
        BY <1>1, <1>2, <2>1, <2>2, <2>3, <2>4, <2>5, <2>7 DEF Writing, Releasing, Kinds
      <3>2. QED
        BY <1>1, <1>2, <2>1, <2>2, <2>3, <2>4, <2>5, <2>7, <3>1, HeapFrame DEF Kinds
    <2>13. QED
      BY <2>8, <2>9, <2>10, <2>11, <2>12 DEF BookInv
  <1>4. QED
    BY <1>1, <1>3 DEF Start

\* A thread is about to end.
LEMMA ExitKeeps ==
    ASSUME BookInv, NEW t \in Threads, Exit(t)
    PROVE  BookInv'
  <1>1. Exit(t) /\ Types /\ HeldInv /\ RecordInv /\ LogInv /\ HeapInv
    BY DEF BookInv
  <1>2. /\ Null \notin Addrs /\ "heap" \in Kinds /\ "map" \in Kinds
        /\ \A j \in Kinds : j \in Uses /\ j \notin {"unused", "held", "stack"}
        /\ \A u \in Threads : \A x \in Addrs :
              /\ Allocating(u, x) => Holds(u, x)
              /\ \A j \in Kinds : (AtLine(u, j, x) => Allocating(u, x)) /\ (AtEnd(u, j, x) => Holds(u, x))
              /\ Holds(u, x) => mem[x] = "held"
        /\ \A x \in Addrs : pc[t] \in {"idle", "gone"} =>
              /\ ~Holds(t, x) /\ ~Allocating(t, x)
              /\ \A j \in Kinds : ~AtLine(t, j, x) /\ ~AtEnd(t, j, x)
    BY <1>1, NullType, LinesHeld DEF Uses, Kinds, Holds, Allocating, AtLine, AtEnd, Busy
  <1>3. CASE "map" \in mode /\ large[stack[t]]
    <2>1. /\ pc[t] = "idle" /\ stack[t] # Null
          /\ Forget("map", t, stack[t])
          /\ Enter(t, "endline", "map", stack[t], TRUE, TRUE)
          /\ UNCHANGED <<mem, large, stack, open, recorder, missed>>
      BY <1>1, <1>3 DEF Exit, memory, log
    <2>2. /\ pc' \in [Threads -> PC] /\ op' \in [Threads -> Call]
          /\ pc'[t] = "endline" /\ op'[t].kind = "map" /\ op'[t].addr = stack[t]
          /\ (op'[t].large <=> TRUE) /\ op'[t].exit
          /\ \A u \in Threads : u # t => pc'[u] = pc[u] /\ op'[u] = op[u]
      BY <1>1, <1>2, <2>1 DEF Types, Enter, Back, PC, Call, Results, Kinds
    <2>3. stack[t] \in Addrs /\ mem[stack[t]] = "stack"
      BY <1>1, <2>1 DEF Types, HeldInv, Results
    <2>4. /\ cache' \in [Kinds -> [Threads -> [Addrs -> Nat]]]
          /\ \A j \in Kinds : \A u \in Threads : \A x \in Addrs :
                cache'[j][u][x] = IF j = "map" /\ u = t /\ x = stack[t]
                                  THEN IF cache[j][u][x] > 0 THEN cache[j][u][x] - 1 ELSE 0
                                  ELSE cache[j][u][x]
          /\ \A j \in Kinds : j # "map" => cache'[j] = cache[j]
      BY <1>1, <1>2, <2>1, <2>3, ForgetLeaves DEF Kinds
    <2>5. /\ CallOK(t)'
          /\ \A x \in Addrs : ~Holds(t, x)' /\ ~Allocating(t, x)'
          /\ \A j \in Kinds : \A x \in Addrs :
                ~AtLine(t, j, x)' /\ ~AtEnd(t, j, x)'
      BY <1>2, <2>1, <2>2, <2>3, <2>4 DEF CallOK, Holds, Allocating, AtLine, AtEnd, Busy
    <2>6. \A u \in Threads : u # t =>
             /\ CallOK(u)'
             /\ \A x \in Addrs : /\ Holds(u, x)' <=> Holds(u, x)
                                 /\ Allocating(u, x)' <=> Allocating(u, x)
             /\ \A j \in Kinds : \A x \in Addrs :
                   /\ AtLine(u, j, x)' <=> AtLine(u, j, x)
                   /\ AtEnd(u, j, x)' <=> AtEnd(u, j, x)
      BY <1>1, <2>1, <2>2, OthersStay
    <2>7. \A u \in Threads :
             /\ CallOK(u)'
             /\ \A x \in Addrs :
                   /\ Holds(u, x)' <=> u # t /\ Holds(u, x)
                   /\ Allocating(u, x)' <=> u # t /\ Allocating(u, x)
             /\ \A j \in Kinds : \A x \in Addrs :
                   /\ AtLine(u, j, x)' <=> u # t /\ AtLine(u, j, x)
                   /\ AtEnd(u, j, x)' <=> u # t /\ AtEnd(u, j, x)
      BY <2>5, <2>6
    <2>8. Types'
      BY <1>1, <1>2, <2>1, <2>2, <2>3, <2>4, <2>5, <2>7 DEF Types
    <2>9. HeldInv'
      <3>1. \A u \in Threads : \A x \in Addrs : Holds(u, x)' => mem'[x] = "held"
        BY <1>1, <1>2, <2>1, <2>2, <2>3, <2>4, <2>5, <2>7 DEF HeldInv
      <3>2. \A u, v \in Threads : \A x \in Addrs : Holds(u, x)' /\ Holds(v, x)' => u = v
        BY <1>1, <1>2, <2>1, <2>2, <2>3, <2>4, <2>5, <2>7 DEF HeldInv
      <3>3. \A u \in Threads : CallOK(u)'
        BY <1>1, <1>2, <2>1, <2>2, <2>3, <2>4, <2>5, <2>7 DEF HeldInv
      <3>4. \A u \in Threads : stack'[u] # Null => mem'[stack'[u]] = "stack"
        BY <1>1, <1>2, <2>1, <2>2, <2>3, <2>4, <2>5, <2>7 DEF Types, HeldInv, Results
      <3>5. \A u, v \in Threads : stack'[u] # Null /\ stack'[u] = stack'[v] => u = v
        BY <1>1, <1>2, <2>1, <2>2, <2>3, <2>4, <2>5, <2>7 DEF HeldInv
      <3>6. QED
        BY <3>1, <3>2, <3>3, <3>4, <3>5 DEF HeldInv
    <2>10. RecordInv'
      <3>1. \A x \in Addrs : mem'[x] \in {"unused", "stack"} => recorder'[x] = Null
        BY <1>1, <1>2, <2>1, <2>2, <2>3, <2>4, <2>5, <2>7 DEF RecordInv, Types
      <3>2. \A u \in Threads : \A x \in Addrs : Allocating(u, x)' => recorder'[x] = Null
        BY <1>1, <1>2, <2>1, <2>2, <2>3, <2>4, <2>5, <2>7 DEF RecordInv
      <3>3. \A u \in Threads : \A j \in Kinds : \A x \in Addrs :
             AtLine(u, j, x)' => cache'[j][u][x] > 0
        BY <1>1, <1>2, <2>1, <2>2, <2>3, <2>4, <2>5, <2>7 DEF RecordInv, Types
      <3>4. \A x \in Addrs : mem'[x] \in Kinds /\ recorder'[x] # Null =>
             cache'[mem'[x]][recorder'[x]][x] > 0
        BY <1>1, <1>2, <2>1, <2>3, <2>4 DEF RecordInv, LiveHeld, Types
      <3>5. QED
        BY <3>1, <3>2, <3>3, <3>4 DEF RecordInv, LiveHeld
    <2>11. LogInv'
      <3>1. \A j \in Kinds : \A x \in Addrs : x \notin missed'[j] => open'[j][x] <= 1
        BY <1>1, <1>2, <2>1, <2>2, <2>3, <2>4, <2>5, <2>7 DEF LogInv, Types
      <3>2. \A j \in Kinds : \A x \in Addrs : x \notin missed'[j] /\ open'[j][x] = 1 =>
             mem'[x] = j \/ Releasing(j, x)'
        BY <1>1, <1>2, <2>1, <2>2, <2>3, <2>4, <2>5, <2>7 DEF LogInv, Types, Releasing, Kinds
      <3>3. QED
        BY <3>1, <3>2 DEF LogInv
    <2>12. HeapInv'
      <3>1. \A x \in Addrs : /\ Writing(x)' <=> Writing(x)
                             /\ Releasing("heap", x)' <=> Releasing("heap", x)
        BY <1>1, <1>2, <2>1, <2>2, <2>3, <2>4, <2>5, <2>7 DEF Writing, Releasing, Kinds
      <3>2. QED
        BY <1>1, <1>2, <2>1, <2>2, <2>3, <2>4, <2>5, <2>7, <3>1, HeapFrame DEF Kinds
    <2>13. QED
      BY <2>8, <2>9, <2>10, <2>11, <2>12 DEF BookInv
  <1>4. CASE ~("map" \in mode /\ large[stack[t]])
    <2>1. /\ pc[t] = "idle" /\ stack[t] # Null
          /\ Enter(t, "ending", "map", stack[t], large[stack[t]], TRUE)
          /\ UNCHANGED <<mem, large, stack, cache, open, recorder, missed>>
      BY <1>1, <1>4 DEF Exit, memory, log
    <2>2. /\ pc' \in [Threads -> PC] /\ op' \in [Threads -> Call]
          /\ pc'[t] = "ending" /\ op'[t].kind = "map" /\ op'[t].addr = stack[t]
          /\ (op'[t].large <=> large[stack[t]]) /\ op'[t].exit
          /\ \A u \in Threads : u # t => pc'[u] = pc[u] /\ op'[u] = op[u]
      BY <1>1, <1>2, <2>1 DEF Types, Enter, Back, PC, Call, Results, Kinds
    <2>3. stack[t] \in Addrs /\ mem[stack[t]] = "stack"
      BY <1>1, <2>1 DEF Types, HeldInv, Results
    <2>4. /\ CallOK(t)'
          /\ \A x \in Addrs : ~Holds(t, x)' /\ ~Allocating(t, x)'
          /\ \A j \in Kinds : \A x \in Addrs :
                ~AtLine(t, j, x)' /\ ~AtEnd(t, j, x)'
      BY <1>2, <2>1, <2>2, <2>3 DEF CallOK, Holds, Allocating, AtLine, AtEnd, Busy
    <2>5. \A u \in Threads : u # t =>
             /\ CallOK(u)'
             /\ \A x \in Addrs : /\ Holds(u, x)' <=> Holds(u, x)
                                 /\ Allocating(u, x)' <=> Allocating(u, x)
             /\ \A j \in Kinds : \A x \in Addrs :
                   /\ AtLine(u, j, x)' <=> AtLine(u, j, x)
                   /\ AtEnd(u, j, x)' <=> AtEnd(u, j, x)
      BY <1>1, <2>1, <2>2, OthersStay
    <2>6. \A u \in Threads :
             /\ CallOK(u)'
             /\ \A x \in Addrs :
                   /\ Holds(u, x)' <=> u # t /\ Holds(u, x)
                   /\ Allocating(u, x)' <=> u # t /\ Allocating(u, x)
             /\ \A j \in Kinds : \A x \in Addrs :
                   /\ AtLine(u, j, x)' <=> u # t /\ AtLine(u, j, x)
                   /\ AtEnd(u, j, x)' <=> u # t /\ AtEnd(u, j, x)
      BY <2>4, <2>5
    <2>7. Types'
      BY <1>1, <1>2, <2>1, <2>2, <2>3, <2>4, <2>6 DEF Types
    <2>8. HeldInv'
      <3>1. \A u \in Threads : \A x \in Addrs : Holds(u, x)' => mem'[x] = "held"
        BY <1>1, <1>2, <2>1, <2>2, <2>3, <2>4, <2>6 DEF HeldInv
      <3>2. \A u, v \in Threads : \A x \in Addrs : Holds(u, x)' /\ Holds(v, x)' => u = v
        BY <1>1, <1>2, <2>1, <2>2, <2>3, <2>4, <2>6 DEF HeldInv
      <3>3. \A u \in Threads : CallOK(u)'
        BY <1>1, <1>2, <2>1, <2>2, <2>3, <2>4, <2>6 DEF HeldInv
      <3>4. \A u \in Threads : stack'[u] # Null => mem'[stack'[u]] = "stack"
        BY <1>1, <1>2, <2>1, <2>2, <2>3, <2>4, <2>6 DEF Types, HeldInv, Results
      <3>5. \A u, v \in Threads : stack'[u] # Null /\ stack'[u] = stack'[v] => u = v
        BY <1>1, <1>2, <2>1, <2>2, <2>3, <2>4, <2>6 DEF HeldInv
      <3>6. QED
        BY <3>1, <3>2, <3>3, <3>4, <3>5 DEF HeldInv
    <2>9. RecordInv'
      <3>1. \A x \in Addrs : mem'[x] \in {"unused", "stack"} => recorder'[x] = Null
        BY <1>1, <1>2, <2>1, <2>2, <2>3, <2>4, <2>6 DEF RecordInv, Types
      <3>2. \A u \in Threads : \A x \in Addrs : Allocating(u, x)' => recorder'[x] = Null
        BY <1>1, <1>2, <2>1, <2>2, <2>3, <2>4, <2>6 DEF RecordInv
      <3>3. \A u \in Threads : \A j \in Kinds : \A x \in Addrs :
             AtLine(u, j, x)' => cache'[j][u][x] > 0
        BY <1>1, <1>2, <2>1, <2>2, <2>3, <2>4, <2>6 DEF RecordInv, Types
      <3>4. \A x \in Addrs : mem'[x] \in Kinds /\ recorder'[x] # Null =>
             cache'[mem'[x]][recorder'[x]][x] > 0
        BY <1>1, <1>2, <2>1, <2>2, <2>3, <2>4, <2>6 DEF RecordInv, LiveHeld, Types, Kinds
      <3>5. QED
        BY <3>1, <3>2, <3>3, <3>4 DEF RecordInv, LiveHeld
    <2>10. LogInv'
      <3>1. \A j \in Kinds : \A x \in Addrs : x \notin missed'[j] => open'[j][x] <= 1
        BY <1>1, <1>2, <2>1, <2>2, <2>3, <2>4, <2>6 DEF LogInv, Types
      <3>2. \A j \in Kinds : \A x \in Addrs : x \notin missed'[j] /\ open'[j][x] = 1 =>
             mem'[x] = j \/ Releasing(j, x)'
        BY <1>1, <1>2, <2>1, <2>2, <2>3, <2>4, <2>6 DEF LogInv, Types, Releasing, Kinds
      <3>3. QED
        BY <3>1, <3>2 DEF LogInv
    <2>11. HeapInv'
      <3>1. \A x \in Addrs : /\ Writing(x)' <=> Writing(x)
                             /\ Releasing("heap", x)' <=> Releasing("heap", x)
        BY <1>1, <1>2, <2>1, <2>2, <2>3, <2>4, <2>6 DEF Writing, Releasing, Kinds
      <3>2. QED
        BY <1>1, <1>2, <2>1, <2>2, <2>3, <2>4, <2>6, <3>1, HeapFrame DEF Kinds
    <2>12. QED
      BY <2>7, <2>8, <2>9, <2>10, <2>11 DEF BookInv
  <1>5. QED
    BY <1>1, <1>3, <1>4 DEF Exit

\* A thread ends, and with it its caches.
LEMMA EndedKeeps ==
    ASSUME BookInv, NEW t \in Threads, Ended(t)
    PROVE  BookInv'
  <1>1. Ended(t) /\ Types /\ HeldInv /\ RecordInv /\ LogInv /\ HeapInv
    BY DEF BookInv
  <1>2. /\ Null \notin Addrs /\ "heap" \in Kinds /\ "map" \in Kinds
        /\ \A j \in Kinds : j \in Uses /\ j \notin {"unused", "held", "stack"}
        /\ \A u \in Threads : \A x \in Addrs :
              /\ Allocating(u, x) => Holds(u, x)
              /\ \A j \in Kinds : (AtLine(u, j, x) => Allocating(u, x)) /\ (AtEnd(u, j, x) => Holds(u, x))
              /\ Holds(u, x) => mem[x] = "held"
        /\ \A x \in Addrs : pc[t] \in {"idle", "gone"} =>
              /\ ~Holds(t, x) /\ ~Allocating(t, x)
              /\ \A j \in Kinds : ~AtLine(t, j, x) /\ ~AtEnd(t, j, x)
    BY <1>1, NullType, LinesHeld DEF Uses, Kinds, Holds, Allocating, AtLine, AtEnd, Busy
  <1>3. BookInv'
    <2>1. /\ pc[t] = "ending" /\ op[t].exit
          /\ Enter(t, "gone", "heap", Null, FALSE, FALSE)
          /\ mem' = [mem EXCEPT ![stack[t]] = "unused"]
          /\ stack' = [stack EXCEPT ![t] = Null]
          /\ cache' = [j \in Kinds |-> [cache[j] EXCEPT ![t] = [x \in Addrs |-> 0]]]
          /\ recorder' = [x \in Addrs |-> IF recorder[x] = t THEN Null ELSE recorder[x]]
          /\ UNCHANGED <<large, open, missed>>
      BY <1>1 DEF Ended, memory, log
    <2>2. /\ pc' \in [Threads -> PC] /\ op' \in [Threads -> Call]
          /\ pc'[t] = "gone" /\ op'[t].kind = "heap" /\ op'[t].addr = Null
          /\ (op'[t].large <=> FALSE) /\ ~op'[t].exit
          /\ \A u \in Threads : u # t => pc'[u] = pc[u] /\ op'[u] = op[u]
      BY <1>1, <1>2, <2>1 DEF Types, Enter, Back, PC, Call, Results, Kinds
    <2>3. /\ stack' \in [Threads -> Results] /\ stack'[t] = Null
          /\ \A u \in Threads : u # t => stack'[u] = stack[u]
      BY <1>1, <2>1 DEF Types, Results
    <2>4. /\ op[t].kind \in Kinds /\ op[t].addr \in Results /\ CallOK(t)
          /\ \A x \in Addrs : (Holds(t, x) <=> ~op[t].exit /\ x = op[t].addr) /\ ~Allocating(t, x)
          /\ \A j \in Kinds : \A x \in Addrs :
                ~AtLine(t, j, x) /\ ~AtEnd(t, j, x)
      BY <1>1, <1>2, <2>1 DEF Types, HeldInv, CallOK, Call, Holds, Allocating, AtLine, AtEnd, Busy
    <2>5. stack[t] \in Addrs /\ mem[stack[t]] = "stack"
      BY <1>1, <1>2, <2>1, <2>2, <2>3, <2>4 DEF HeldInv, CallOK
    <2>6. /\ cache' \in [Kinds -> [Threads -> [Addrs -> Nat]]]
          /\ \A j \in Kinds : \A u \in Threads : \A x \in Addrs :
                cache'[j][u][x] = IF u = t THEN 0 ELSE cache[j][u][x]
      <3>1. \A j \in Kinds : [cache[j] EXCEPT ![t] = [x \in Addrs |-> 0]] \in [Threads -> [Addrs -> Nat]]
        BY <1>1 DEF Types
      <3>2. \A j \in Kinds : cache'[j] = [cache[j] EXCEPT ![t] = [x \in Addrs |-> 0]]
        BY <2>1
      <3>3. cache' \in [Kinds -> [Threads -> [Addrs -> Nat]]]
        BY <2>1, <3>1
      <3>4. QED
        BY <1>1, <3>2, <3>3 DEF Types
    <2>7. /\ mem' \in [Addrs -> Uses]
          /\ \A x \in Addrs : mem'[x] = IF x = stack[t] THEN "unused" ELSE mem[x]
      BY <1>1, <1>2, <2>1, <2>2, <2>3, <2>4, <2>5, <2>6 DEF Types, Uses, Kinds
    <2>8. /\ recorder' \in [Addrs -> Threads \cup {Null}]
          /\ \A x \in Addrs : recorder'[x] = IF recorder[x] = t THEN Null ELSE recorder[x]
      BY <1>1, <1>2, <2>1, <2>2, <2>3, <2>4, <2>5, <2>6, <2>7 DEF Types
    <2>9. /\ CallOK(t)'
          /\ \A x \in Addrs : ~Holds(t, x)' /\ ~Allocating(t, x)'
          /\ \A j \in Kinds : \A x \in Addrs :
                ~AtLine(t, j, x)' /\ ~AtEnd(t, j, x)'
      BY <1>2, <2>1, <2>2, <2>3, <2>4, <2>5, <2>6, <2>7, <2>8 DEF CallOK, Holds, Allocating, AtLine, AtEnd, Busy
    <2>10. \A u \in Threads : u # t =>
             /\ CallOK(u)'
             /\ \A x \in Addrs : /\ Holds(u, x)' <=> Holds(u, x)
                                 /\ Allocating(u, x)' <=> Allocating(u, x)
             /\ \A j \in Kinds : \A x \in Addrs :
                   /\ AtLine(u, j, x)' <=> AtLine(u, j, x)
                   /\ AtEnd(u, j, x)' <=> AtEnd(u, j, x)
      BY <1>1, <2>1, <2>2, OthersStay, <2>3
    <2>11. \A u \in Threads :
             /\ CallOK(u)'
             /\ \A x \in Addrs :
                   /\ Holds(u, x)' <=> u # t /\ Holds(u, x)
                   /\ Allocating(u, x)' <=> u # t /\ Allocating(u, x)
             /\ \A j \in Kinds : \A x \in Addrs :
                   /\ AtLine(u, j, x)' <=> u # t /\ AtLine(u, j, x)
                   /\ AtEnd(u, j, x)' <=> u # t /\ AtEnd(u, j, x)
      BY <2>9, <2>10
    <2>12. Types'
      BY <1>1, <1>2, <2>1, <2>2, <2>3, <2>4, <2>5, <2>6, <2>7, <2>8, <2>9, <2>11 DEF Types
    <2>13. HeldInv'
      <3>1. \A u \in Threads : \A x \in Addrs : Holds(u, x)' => mem'[x] = "held"
        BY <1>1, <1>2, <2>1, <2>2, <2>3, <2>4, <2>5, <2>6, <2>7, <2>8, <2>9, <2>11 DEF HeldInv
      <3>2. \A u, v \in Threads : \A x \in Addrs : Holds(u, x)' /\ Holds(v, x)' => u = v
        BY <1>1, <1>2, <2>1, <2>2, <2>3, <2>4, <2>5, <2>6, <2>7, <2>8, <2>9, <2>11 DEF HeldInv
      <3>3. \A u \in Threads : CallOK(u)'
        BY <1>1, <1>2, <2>1, <2>2, <2>3, <2>4, <2>5, <2>6, <2>7, <2>8, <2>9, <2>11 DEF HeldInv
      <3>4. \A u \in Threads : stack'[u] # Null => mem'[stack'[u]] = "stack"
        BY <1>1, <1>2, <2>1, <2>2, <2>3, <2>4, <2>5, <2>6, <2>7, <2>8, <2>9, <2>11 DEF Types, HeldInv, Results
      <3>5. \A u, v \in Threads : stack'[u] # Null /\ stack'[u] = stack'[v] => u = v
        BY <1>1, <1>2, <2>1, <2>2, <2>3, <2>4, <2>5, <2>6, <2>7, <2>8, <2>9, <2>11 DEF HeldInv
      <3>6. QED
        BY <3>1, <3>2, <3>3, <3>4, <3>5 DEF HeldInv
    <2>14. RecordInv'
      <3>1. \A x \in Addrs : mem'[x] \in {"unused", "stack"} => recorder'[x] = Null
        BY <1>1, <1>2, <2>1, <2>2, <2>3, <2>4, <2>5, <2>6, <2>7, <2>8, <2>9, <2>11 DEF RecordInv, Types
      <3>2. \A u \in Threads : \A x \in Addrs : Allocating(u, x)' => recorder'[x] = Null
        BY <1>1, <1>2, <2>1, <2>2, <2>3, <2>4, <2>5, <2>6, <2>7, <2>8, <2>9, <2>11 DEF RecordInv
      <3>3. \A u \in Threads : \A j \in Kinds : \A x \in Addrs :
             AtLine(u, j, x)' => cache'[j][u][x] > 0
        BY <1>1, <1>2, <2>1, <2>2, <2>3, <2>4, <2>5, <2>6, <2>7, <2>8, <2>9, <2>11 DEF RecordInv, Types
      <3>4. \A x \in Addrs : mem'[x] \in Kinds /\ recorder'[x] # Null =>
             cache'[mem'[x]][recorder'[x]][x] > 0
        BY <1>1, <1>2, <2>1, <2>2, <2>3, <2>4, <2>5, <2>6, <2>7, <2>8, <2>9, <2>11 DEF RecordInv, LiveHeld, Types, Kinds
      <3>5. QED
        BY <3>1, <3>2, <3>3, <3>4 DEF RecordInv, LiveHeld
    <2>15. LogInv'
      <3>1. \A j \in Kinds : \A x \in Addrs : x \notin missed'[j] => open'[j][x] <= 1
        BY <1>1, <1>2, <2>1, <2>2, <2>3, <2>4, <2>5, <2>6, <2>7, <2>8, <2>9, <2>11 DEF LogInv, Types
      <3>2. \A j \in Kinds : \A x \in Addrs : x \notin missed'[j] /\ open'[j][x] = 1 =>
             mem'[x] = j \/ Releasing(j, x)'
        BY <1>1, <1>2, <2>1, <2>2, <2>3, <2>4, <2>5, <2>6, <2>7, <2>8, <2>9, <2>11 DEF LogInv, Types, Releasing, Kinds
      <3>3. QED
        BY <3>1, <3>2 DEF LogInv
    <2>16. HeapInv'
      <3>1. ASSUME NEW x \in Addrs
            PROVE  HeapOK(x)'
        <4>1. HeapOK(x) /\ (Writing(x)' <=> Writing(x)) /\ (Releasing("heap", x)' <=> Releasing("heap", x))
          BY <1>1, <1>2, <2>1, <2>2, <2>3, <2>4, <2>5, <2>6, <2>7, <2>8, <2>9, <2>11 DEF HeapInv, Writing, Releasing, Kinds
        <4>2. Entries(x)' \subseteq Entries(x)
          BY <1>1, <1>2, <2>1, <2>2, <2>3, <2>4, <2>5, <2>6, <2>7, <2>8, <2>9, <2>11 DEF Entries, Types, Kinds
        <4>3. IsFiniteSet(Entries(x)') /\ Cardinality(Entries(x)') <= Cardinality(Entries(x))
          BY <4>1, <4>2, FS_Subset DEF HeapOK
        <4>4. Cardinality(Entries(x)) \in Nat /\ Cardinality(Entries(x)') \in Nat /\ open["heap"][x] \in Nat
          BY <1>1, <4>1, <4>3, FS_CardinalityType DEF Types, Kinds, HeapOK
        <4>5. open' = open
          BY <2>1
        <4>6. QED
          BY <4>1, <4>3, <4>4, <4>5 DEF HeapOK
      <3>2. QED
        BY <3>1 DEF HeapInv
    <2>17. QED
      BY <2>12, <2>13, <2>14, <2>15, <2>16 DEF BookInv
  <1>4. QED
    BY <1>1, <1>3 DEF Ended

-----------------------------------------------------------------------------
\* The invariant holds of empty books.
LEMMA InitHolds == Init => BookInv
  <1>1. SUFFICES ASSUME Init
                 PROVE  BookInv
    OBVIOUS
  <1>2. Types
    BY <1>1, ThreadsType DEF Init, Types, Uses, Results, PC, Call, NoCall, Kinds
  <1>3. \A t \in Threads : pc[t] \in {"idle", "gone"} /\ op[t] = NoCall /\ stack[t] = Null
    BY <1>1 DEF Init
  <1>4. \A t \in Threads : /\ CallOK(t)
                           /\ \A a \in Addrs : ~Holds(t, a) /\ ~Allocating(t, a)
                           /\ \A k \in Kinds : \A a \in Addrs : ~AtLine(t, k, a) /\ ~AtEnd(t, k, a)
    BY <1>3 DEF CallOK, Holds, Allocating, AtLine, AtEnd, Busy
  <1>5. HeldInv
    BY <1>3, <1>4 DEF HeldInv
  <1>6. RecordInv
    BY <1>1, <1>4 DEF Init, RecordInv, LiveHeld, Kinds
  <1>7. LogInv
    BY <1>1 DEF Init, LogInv
  <1>8. HeapInv
    <2>1. ASSUME NEW a \in Addrs
          PROVE  HeapOK(a)
      <3>1. Entries(a) = {}
        BY <1>1 DEF Init, Entries, Kinds
      <3>2. IsFiniteSet(Entries(a)) /\ Cardinality(Entries(a)) = 0
        BY <3>1, FS_EmptySet
      <3>3. ~Releasing("heap", a) /\ open["heap"][a] = 0
        BY <1>1, <1>4 DEF Init, Releasing, Kinds
      <3>4. QED
        BY <3>2, <3>3 DEF HeapOK
    <2>2. QED
      BY <2>1 DEF HeapInv
  <1>9. QED
    BY <1>2, <1>5, <1>6, <1>7, <1>8 DEF BookInv

\* Every step of a thread keeps the invariant.
LEMMA StepKeeps == BookInv /\ [Next]_vars => BookInv'
  <1>1. SUFFICES ASSUME BookInv, [Next]_vars
                 PROVE  BookInv'
    OBVIOUS
  <1>2. ASSUME NEW t \in Threads, Callback(t)
        PROVE  BookInv'
    BY <1>1, <1>2, RecordKeeps, WriteLineKeeps, WriteEndKeeps, OrigEndKeeps, ExitKeeps, EndedKeeps
       DEF Callback
  <1>3. ASSUME NEW t \in Threads, NEW a \in Addrs, Application(t, a)
        PROVE  BookInv'
    <2>1. PICK l \in BOOLEAN, filtered \in BOOLEAN :
             \/ \E k \in Kinds : Allocate(t, k, a, l, filtered)
             \/ \E b \in Addrs : Reallocate(t, a, b, l, filtered)
             \/ Free(t, a, filtered)
             \/ Unmap(t, a, filtered)
             \/ Start(t, a, l)
      BY <1>3 DEF Application
    <2>2. QED
      BY <1>1, <2>1, AllocateKeeps, ReallocateKeeps, FreeKeeps, UnmapKeeps, StartKeeps
  <1>4. ASSUME NEW t \in Threads, NEW k \in Kinds, NEW l \in BOOLEAN, AllocateFails(t, k, l)
        PROVE  BookInv'
    BY <1>1, <1>4, AllocateFailsKeeps
  <1>5. CASE UNCHANGED vars
    <2>1. UNCHANGED <<mem, large, stack, pc, op, cache, open, recorder, missed>>
      BY <1>5 DEF vars, memory, log
    <2>2. Types /\ HeldInv /\ RecordInv /\ LogInv /\ HeapInv
      BY <1>1 DEF BookInv
    <2>3. Types' /\ HeldInv' /\ RecordInv' /\ LogInv'
      BY <2>1, <2>2 DEF Types, HeldInv, RecordInv, LogInv, LiveHeld, CallOK, Holds, Allocating,
                        AtLine, AtEnd, Releasing
    <2>4. HeapInv'
      <3>1. \A a \in Addrs : /\ Writing(a)' <=> Writing(a)
                             /\ Releasing("heap", a)' <=> Releasing("heap", a)
        BY <2>1 DEF Writing, Releasing, AtLine, AtEnd
      <3>2. QED
        BY <2>1, <2>2, <3>1, HeapFrame
    <2>5. QED
      BY <2>3, <2>4 DEF BookInv
  <1>6. QED
    BY <1>1, <1>2, <1>3, <1>4, <1>5 DEF Next

\* The books are in order in every reachable state.
THEOREM BookInvariant == Spec => []BookInv
  <1>1. QED
    BY InitHolds, StepKeeps, PTL DEF Spec

\* FreesMatched: every free line answers an alloc line of its address.
LEMMA BooksMatch == BookInv => FreesMatched
  <1>1. SUFFICES ASSUME BookInv, NEW t \in Threads, pc[t] = "endline", op[t].kind = "heap"
                 PROVE  open["heap"][op[t].addr] > 0
    BY DEF FreesMatched
  <1>2. Types /\ HeldInv /\ HeapInv /\ CallOK(t)
    BY <1>1 DEF BookInv, HeldInv
  <1>3. ~op[t].exit /\ op[t].addr \in Addrs
    BY <1>1, <1>2 DEF CallOK
  <1>4. ASSUME NEW a \in Addrs, a = op[t].addr
        PROVE  open["heap"][a] > 0
    <2>1. AtEnd(t, "heap", a) /\ Holds(t, a)
      BY <1>1, <1>3, <1>4 DEF AtEnd, Holds, Busy
    <2>2. Releasing("heap", a)
      BY <2>1 DEF Releasing
    <2>3. \A u \in Threads : AtLine(u, "heap", a) => Holds(u, a) /\ pc[u] # "endline"
      BY <1>2, LinesHeld DEF AtLine, Kinds
    <2>4. ~Writing(a)
      BY <1>1, <1>2, <2>1, <2>3 DEF Writing, HeldInv
    <2>5. HeapOK(a) /\ open["heap"][a] \in Nat
      BY <1>2 DEF HeapInv, Types, Kinds
    <2>6. Cardinality(Entries(a)) \in Nat
      BY <2>5, FS_CardinalityType DEF HeapOK
    <2>7. QED
      BY <2>2, <2>4, <2>5, <2>6 DEF HeapOK
  <1>5. QED
    BY <1>3, <1>4

\* LogAlternates: the log knows of no two blocks at one address.
LEMMA BooksAlternate == BookInv => LogAlternates
  <1>1. SUFFICES ASSUME BookInv, NEW t \in Threads, pc[t] \in {"got", "line"},
                        op[t].addr \notin missed[op[t].kind] \cup {Null}
                 PROVE  open[op[t].kind][op[t].addr] = 0
    BY DEF LogAlternates
  <1>2. Types /\ HeldInv /\ LogInv
    BY <1>1 DEF BookInv
  <1>3. op[t].kind \in Kinds /\ op[t].addr \in Addrs /\ CallOK(t)
    BY <1>1, <1>2 DEF Types, HeldInv, Call, Results
  <1>4. ASSUME NEW k \in Kinds, NEW a \in Addrs, k = op[t].kind, a = op[t].addr
        PROVE  open[k][a] = 0
    <2>1. Holds(t, a)
      BY <1>1, <1>3, <1>4 DEF CallOK, Holds, Busy
    <2>2. mem[a] = "held" /\ \A u \in Threads : Holds(u, a) => u = t
      BY <1>2, <2>1 DEF HeldInv
    <2>3. \A u \in Threads : AtEnd(u, k, a) => Holds(u, a) /\ pc[u] = "endline"
      BY <1>2, LinesHeld DEF AtEnd
    <2>4. mem[a] # k /\ ~Releasing(k, a)
      BY <1>1, <2>2, <2>3 DEF Releasing, Kinds
    <2>5. open[k][a] \in Nat /\ open[k][a] <= 1 /\ open[k][a] # 1
      BY <1>1, <1>2, <1>4, <2>4 DEF LogInv, Types
    <2>6. QED
      BY <2>5
  <1>5. QED
    BY <1>3, <1>4

\* Every free line answers an alloc line of its address that was written before it.
THEOREM Matched == Spec => []FreesMatched
  <1>1. QED
    BY BookInvariant, BooksMatch, PTL

\* The log knows of no two blocks at one address.
THEOREM Alternates == Spec => []LogAlternates
  <1>1. QED
    BY BookInvariant, BooksAlternate, PTL

\* A thread that logged a block still has it in its cache.
THEOREM Held == Spec => []LiveHeld
  <1>1. BookInv => LiveHeld
    BY DEF BookInv, RecordInv
  <1>2. QED
    BY <1>1, BookInvariant, PTL

-----------------------------------------------------------------------------
(***************************************************************************)
(* Sums of lists.                                                          *)
(***************************************************************************)

\* A set of natural numbers has a least one.
LEMMA Least ==
    ASSUME NEW S, S \subseteq Nat, S # {}
    PROVE  \E x \in S : \A y \in S : x <= y
  <1>1. PICK x \in S : \A y \in S : ~ (<<y, x>> \in OpToRel(<, Nat))
    BY NatLessThanWellFounded, WFMin
  <1>2. \A y \in S : ~ (y < x)
    BY <1>1 DEF OpToRel
  <1>3. QED
    BY <1>2

\* Induction up to n, over a set.
LEMMA UpTo ==
    ASSUME NEW n \in Nat, NEW T, 0 \in T, \A i \in 0..(n - 1) : i \in T => i + 1 \in T
    PROVE  \A i \in 0..n : i \in T
  <1> DEFINE Bad == {i \in 0..n : i \notin T}
  <1>1. SUFFICES ASSUME Bad # {} PROVE FALSE
    OBVIOUS
  <1>2. Bad \subseteq Nat
    OBVIOUS
  <1>3. PICK x \in Bad : \A y \in Bad : x <= y
    <2> HIDE DEF Bad
    <2>1. QED
      BY <1>1, <1>2, Least
  <1>4. x \in 0..n /\ x \notin T /\ x # 0
    BY <1>3
  <1>5. PICK i \in 0..(n - 1) : x = i + 1
    <2>1. x - 1 \in 0..(n - 1) /\ x = (x - 1) + 1
      BY <1>4
    <2>2. QED
      BY <2>1
  <1>6. i \notin Bad
    BY <1>3, <1>5
  <1>7. i \in T
    BY <1>5, <1>6
  <1>8. QED
    BY <1>4, <1>5, <1>7

\* A set of numbers from 1 on has a least and a greatest one.
LEMMA Extremes ==
    ASSUME NEW n \in Nat, NEW S, S \subseteq 1..n, S # {}
    PROVE  /\ Max(S) \in S /\ \A i \in S : i <= Max(S)
           /\ Min(S) \in S /\ \A i \in S : Min(S) <= i
  <1>1. \E i \in S : \A j \in S : i <= j
    <2>1. S \subseteq Nat
      OBVIOUS
    <2>2. QED
      BY <2>1, Least
  <1>2. \E i \in S : \A j \in S : i >= j
    <2> DEFINE T == {n - i : i \in S}
    <2>1. T \subseteq Nat
      OBVIOUS
    <2>2. T # {}
      OBVIOUS
    <2>3. PICK x \in T : \A y \in T : x <= y
      <3> HIDE DEF T
      <3>1. QED
        BY <2>1, <2>2, Least
    <2>4. PICK i \in S : x = n - i
      BY <2>3
    <2>5. \A j \in S : n - i <= n - j
      BY <2>3, <2>4
    <2>6. \A j \in S : i >= j
      BY <2>5
    <2>7. QED
      BY <2>6
  <1>3. QED
    BY <1>1, <1>2 DEF Max, Min

\* The sums over sets of indices that SumOf goes through.
Sums(list) ==
    CHOOSE f : f = [s \in SUBSET DOMAIN list |->
                       IF s = {} THEN 0 ELSE f[s \ {Max(s)}] + list[Max(s)].length]
PartSums(f, list, n) ==
    f = [s \in SUBSET (1..n) |-> IF s = {} THEN 0 ELSE f[s \ {Max(s)}] + list[Max(s)].length]

\* There is such a function, for the sum over a longer set is one over a shorter set and
\* its last index.
LEMMA PartSumsThere ==
    ASSUME NEW E, NEW list \in Seq(E)
    PROVE  \A n \in 0..Len(list) : \E f : PartSums(f, list, n)
  <1> DEFINE T == {n \in 0..Len(list) : \E f : PartSums(f, list, n)}
  <1>1. 0 \in T
    <2>1. PartSums([s \in SUBSET (1..0) |-> 0], list, 0)
      <3>1. \A s \in SUBSET (1..0) : s = {}
        OBVIOUS
      <3>2. QED
        BY <3>1 DEF PartSums
    <2>2. QED
      BY <2>1
  <1>2. ASSUME NEW n \in 0..(Len(list) - 1), n \in T
        PROVE  n + 1 \in T
    <2>1. PICK f : PartSums(f, list, n)
      BY <1>2
    <2> DEFINE g == [s \in SUBSET (1..(n + 1)) |->
                        IF n + 1 \in s THEN f[s \ {n + 1}] + list[n + 1].length ELSE f[s]]
    <2>2. ASSUME NEW s \in SUBSET (1..(n + 1))
          PROVE  g[s] = IF s = {} THEN 0 ELSE g[s \ {Max(s)}] + list[Max(s)].length
      <3>1. CASE s = {}
        <4>1. g[s] = f[s] /\ s \in SUBSET (1..n)
          BY <3>1
        <4>2. QED
          BY <2>1, <3>1, <4>1 DEF PartSums
      <3>2. CASE n + 1 \in s
        <4>1. Max(s) = n + 1
          <5>1. s \subseteq 1..(n + 1) /\ s # {} /\ n + 1 \in Nat
            BY <3>2
          <5>2. Max(s) \in s /\ \A i \in s : i <= Max(s)
            BY <5>1, Extremes
          <5>3. Max(s) \in 1..(n + 1) /\ n + 1 <= Max(s)
            BY <3>2, <5>1, <5>2
          <5>4. QED
            BY <5>3
        <4>2. s \ {n + 1} \in SUBSET (1..(n + 1)) /\ n + 1 \notin s \ {n + 1}
          OBVIOUS
        <4>3. g[s \ {n + 1}] = f[s \ {n + 1}]
          BY <4>2
        <4>4. g[s] = f[s \ {n + 1}] + list[n + 1].length
          BY <3>2
        <4>5. QED
          BY <3>2, <4>1, <4>3, <4>4
      <3>3. CASE s # {} /\ n + 1 \notin s
        <4>1. s \in SUBSET (1..n) /\ Max(s) \in s
          <5>1. s \subseteq 1..n /\ n \in Nat
            BY <3>3
          <5>2. QED
            BY <3>3, <5>1, Extremes
        <4>2. g[s] = f[s] /\ g[s \ {Max(s)}] = f[s \ {Max(s)}]
          BY <3>3, <4>1
        <4>3. f[s] = f[s \ {Max(s)}] + list[Max(s)].length
          BY <2>1, <3>3, <4>1 DEF PartSums
        <4>4. QED
          BY <3>3, <4>2, <4>3
      <3>4. QED
        BY <3>1, <3>2, <3>3
    <2> HIDE DEF g
    <2>3. g = [s \in SUBSET (1..(n + 1)) |-> g[s]]
      BY DEF g
    <2>4. PartSums(g, list, n + 1)
      BY <2>2, <2>3 DEF PartSums
    <2>5. QED
      BY <2>4
  <1>3. QED
    <2>1. Len(list) \in Nat
      OBVIOUS
    <2> HIDE DEF T
    <2>2. \A n \in 0..Len(list) : n \in T
      BY <1>1, <1>2, <2>1, UpTo
    <2>3. QED
      BY <2>2 DEF T

\* SumOf adds up the lengths from the first to the last.
LEMMA SumSteps ==
    ASSUME NEW E, NEW list \in Seq(E), \A i \in 1..Len(list) : list[i].length \in Int
    PROVE  \E p \in [0..Len(list) -> Int] :
              /\ p[0] = 0
              /\ \A n \in 1..Len(list) : p[n] = p[n - 1] + list[n].length
              /\ SumOf(list) = p[Len(list)]
  <1> DEFINE f == Sums(list)
  <1>1. Len(list) \in Nat /\ DOMAIN list = 1..Len(list)
    OBVIOUS
  <1>2. PartSums(f, list, Len(list))
    <2>1. \E g : PartSums(g, list, Len(list))
      BY <1>1, PartSumsThere
    <2>2. QED
      BY <1>1, <2>1 DEF PartSums, Sums
  <1>3. SumOf(list) = f[1..Len(list)]
    <2>1. SumOf(list) = f[DOMAIN list]
      BY DEF SumOf, FoldLeft, MapThenFoldSet, Sums
    <2>2. QED
      BY <1>1, <2>1
  <1> HIDE DEF f
  <1>4. f[1..0] = 0
    <2>1. 1..0 = {} /\ 1..0 \in SUBSET (1..Len(list))
      OBVIOUS
    <2>2. QED
      BY <1>2, <2>1 DEF PartSums
  <1>5. ASSUME NEW n \in 1..Len(list)
        PROVE  f[1..n] = f[1..(n - 1)] + list[n].length
    <2>1. 1..n \in SUBSET (1..Len(list)) /\ 1..n # {} /\ n \in 1..n /\ n \in Nat
      OBVIOUS
    <2>2. Max(1..n) \in 1..n /\ n <= Max(1..n)
      BY <2>1, Extremes
    <2>3. Max(1..n) = n
      BY <2>2
    <2>4. (1..n) \ {n} = 1..(n - 1)
      OBVIOUS
    <2>5. f[1..n] = f[(1..n) \ {Max(1..n)}] + list[Max(1..n)].length
      BY <1>2, <2>1 DEF PartSums
    <2>6. QED
      BY <2>3, <2>4, <2>5
  <1> DEFINE T == {n \in 0..Len(list) : f[1..n] \in Int}
  <1>6. 0 \in T
    BY <1>4
  <1>7. ASSUME NEW n \in 0..(Len(list) - 1), n \in T
        PROVE  n + 1 \in T
    <2>1. n + 1 \in 1..Len(list) /\ (n + 1) - 1 = n
      OBVIOUS
    <2>2. f[1..(n + 1)] = f[1..n] + list[n + 1].length
      BY <1>5, <2>1
    <2>3. f[1..n] \in Int /\ list[n + 1].length \in Int
      BY <1>7, <2>1
    <2>4. f[1..(n + 1)] \in Int
      BY <2>2, <2>3
    <2>5. QED
      BY <2>1, <2>4
  <1>8. \A n \in 0..Len(list) : n \in T
    <2> HIDE DEF T
    <2>1. QED
      BY <1>1, <1>6, <1>7, UpTo
  <1> DEFINE p == [n \in 0..Len(list) |-> f[1..n]]
  <1>9. p \in [0..Len(list) -> Int]
    BY <1>8
  <1>10. p[0] = 0 /\ SumOf(list) = p[Len(list)]
    BY <1>1, <1>3, <1>4
  <1>11. \A n \in 1..Len(list) : p[n] = p[n - 1] + list[n].length
    <2>1. TAKE n \in 1..Len(list)
    <2>2. n \in 0..Len(list) /\ n - 1 \in 0..Len(list)
      OBVIOUS
    <2>3. QED
      BY <1>5, <2>2
  <1>12. QED
    BY <1>9, <1>10, <1>11

\* What is added at the end is added to the sum.
LEMMA SumAppend ==
    ASSUME NEW E, NEW list \in Seq(E), NEW e \in E, \A d \in E : d.length \in Int
    PROVE  SumOf(Append(list, e)) = SumOf(list) + e.length /\ SumOf(list) \in Int
  <1> DEFINE n == Len(list)
             long == Append(list, e)
  <1>1. n \in Nat /\ long \in Seq(E) /\ Len(long) = n + 1 /\ long[n + 1] = e
        /\ \A i \in 1..n : long[i] = list[i] /\ list[i] \in E
    BY AppendProperties
  <1>2. \A i \in 1..(n + 1) : long[i].length \in Int
    BY <1>1
  <1>3. \A i \in 1..n : list[i].length \in Int
    BY <1>1
  <1> HIDE DEF n, long
  <1>4. PICK p \in [0..n -> Int] : /\ p[0] = 0
                                   /\ \A i \in 1..n : p[i] = p[i - 1] + list[i].length
                                   /\ SumOf(list) = p[n]
    BY <1>3, SumSteps DEF n
  <1>5. PICK q \in [0..(n + 1) -> Int] : /\ q[0] = 0
                                         /\ \A i \in 1..(n + 1) : q[i] = q[i - 1] + long[i].length
                                         /\ SumOf(long) = q[n + 1]
    BY <1>1, <1>2, SumSteps
  <1> DEFINE T == {i \in 0..n : p[i] = q[i]}
  <1>6. 0 \in T
    BY <1>1, <1>4, <1>5
  <1>7. ASSUME NEW i \in 0..(n - 1), i \in T
        PROVE  i + 1 \in T
    <2>1. i + 1 \in 1..n /\ i + 1 \in 1..(n + 1) /\ (i + 1) - 1 = i
      BY <1>1
    <2>2. p[i + 1] = p[i] + list[i + 1].length /\ q[i + 1] = q[i] + long[i + 1].length
      BY <1>4, <1>5, <2>1
    <2>3. long[i + 1] = list[i + 1] /\ p[i] = q[i]
      BY <1>1, <1>7, <2>1
    <2>4. QED
      BY <1>1, <2>1, <2>2, <2>3
  <1>8. p[n] = q[n] /\ p[n] \in Int
    <2>1. \A i \in 0..n : i \in T
      <3> HIDE DEF T
      <3>1. QED
        BY <1>1, <1>6, <1>7, UpTo
    <2>2. n \in 0..n
      BY <1>1
    <2>3. QED
      BY <1>4, <2>1, <2>2
  <1>9. q[n + 1] = q[n] + e.length
    <2>1. n + 1 \in 1..(n + 1) /\ (n + 1) - 1 = n
      BY <1>1
    <2>2. QED
      BY <1>1, <1>5, <2>1
  <1>10. SumOf(list) = q[n] /\ SumOf(list) \in Int /\ SumOf(long) = q[n + 1]
    <2>1. SumOf(list) = p[n]
      BY <1>4
    <2>2. SumOf(long) = q[n + 1]
      BY <1>5
    <2>3. QED
      BY Zenon, <1>8, <2>1, <2>2
  <1>11. SumOf(long) = SumOf(list) + e.length
    BY Zenon, <1>9, <1>10
  <1>12. QED
    BY <1>10, <1>11 DEF long

\* RemoveAt closes the gap.
LEMMA Removed ==
    ASSUME NEW E, NEW list \in Seq(E), NEW m \in 1..Len(list)
    PROVE  /\ RemoveAt(list, m) \in Seq(E)
           /\ Len(RemoveAt(list, m)) = Len(list) - 1
           /\ \A i \in 1..(Len(list) - 1) :
                 RemoveAt(list, m)[i] = IF i < m THEN list[i] ELSE list[i + 1]
  <1> DEFINE n == Len(list)
             before == SubSeq(list, 1, m - 1)
             after == SubSeq(list, m + 1, n)
  <1>1. n \in Nat /\ m \in 1..n /\ \A i \in 1..n : list[i] \in E
    OBVIOUS
  <1>2. /\ before \in Seq(E) /\ Len(before) = m - 1
        /\ \A i \in 1..(m - 1) : before[i] = list[i]
    BY <1>1, SubSeqProperties
  <1>3. /\ after \in Seq(E) /\ Len(after) = n - m
        /\ \A i \in 1..(n - m) : after[i] = list[m + i]
    BY <1>1, SubSeqProperties
  <1>4. RemoveAt(list, m) = before \o after
    BY DEF RemoveAt
  <1> HIDE DEF n, before, after
  <1>5. /\ before \o after \in Seq(E)
        /\ Len(before \o after) = n - 1
        /\ \A i \in 1..(n - 1) :
              (before \o after)[i] = IF i <= m - 1 THEN before[i] ELSE after[i - (m - 1)]
    <2>1. /\ before \o after \in Seq(E)
          /\ Len(before \o after) = Len(before) + Len(after)
          /\ \A i \in 1..(Len(before) + Len(after)) :
                (before \o after)[i] = IF i <= Len(before) THEN before[i] ELSE after[i - Len(before)]
      BY <1>2, <1>3, ConcatProperties
    <2>2. Len(before) = m - 1 /\ Len(before) + Len(after) = n - 1
      BY <1>1, <1>2, <1>3
    <2>3. QED
      BY <2>1, <2>2
  <1>6. ASSUME NEW i \in 1..(n - 1)
        PROVE  (before \o after)[i] = IF i < m THEN list[i] ELSE list[i + 1]
    <2>1. CASE i < m
      <3>1. i <= m - 1 /\ i \in 1..(m - 1)
        BY <1>1, <2>1
      <3>2. QED
        BY <1>2, <1>5, <2>1, <3>1
    <2>2. CASE ~(i < m)
      <3>1. ~(i <= m - 1) /\ i - (m - 1) \in 1..(n - m) /\ m + (i - (m - 1)) = i + 1
        BY <1>1, <2>2
      <3>2. QED
        BY <1>3, <1>5, <2>2, <3>1
    <2>3. QED
      BY <2>1, <2>2
  <1>7. QED
    BY <1>4, <1>5, <1>6 DEF n

\* What is removed is taken from the sum.
LEMMA SumRemove ==
    ASSUME NEW E, NEW list \in Seq(E), NEW m \in 1..Len(list), \A d \in E : d.length \in Int
    PROVE  SumOf(RemoveAt(list, m)) = SumOf(list) - list[m].length
  <1> DEFINE n == Len(list)
             short == RemoveAt(list, m)
             gone == list[m].length
  <1>1. /\ n \in Nat /\ m \in 1..n /\ n - 1 \in Nat /\ \A i \in 1..n : list[i].length \in Int
        /\ gone \in Int
    OBVIOUS
  <1>2. /\ short \in Seq(E) /\ Len(short) = n - 1
        /\ \A i \in 1..(n - 1) : short[i] = IF i < m THEN list[i] ELSE list[i + 1]
    BY Removed
  <1> HIDE DEF n, short
  <1>3. \A i \in 1..(n - 1) : short[i].length \in Int
    BY <1>1, <1>2
  <1>4. PICK p \in [0..n -> Int] : /\ p[0] = 0
                                   /\ \A i \in 1..n : p[i] = p[i - 1] + list[i].length
                                   /\ SumOf(list) = p[n]
    BY <1>1, SumSteps DEF n
  <1>5. PICK q \in [0..(n - 1) -> Int] : /\ q[0] = 0
                                         /\ \A i \in 1..(n - 1) : q[i] = q[i - 1] + short[i].length
                                         /\ SumOf(short) = q[n - 1]
    BY <1>2, <1>3, SumSteps
  <1>6. p[m] = p[m - 1] + gone
    BY <1>1, <1>4
  <1> HIDE DEF gone
  <1> DEFINE T == {i \in 0..(n - 1) : q[i] = IF i < m THEN p[i] ELSE p[i + 1] - gone}
  <1>7. 0 \in T
    BY <1>1, <1>4, <1>5
  <1>8. ASSUME NEW i \in 0..((n - 1) - 1), i \in T
        PROVE  i + 1 \in T
    <2>1. /\ i + 1 \in 1..(n - 1) /\ i + 1 \in 1..n /\ (i + 1) - 1 = i
          /\ i + 2 \in 1..n /\ (i + 2) - 1 = i + 1 /\ (i + 1) + 1 = i + 2
          /\ i \in 0..n /\ i + 1 \in 0..n /\ i + 2 \in 0..n
      BY <1>1
    <2>2. q[i + 1] = q[i] + short[i + 1].length
      BY <1>5, <2>1
    <2>3. p[i + 1] = p[i] + list[i + 1].length /\ p[i + 2] = p[i + 1] + list[i + 2].length
      BY <1>4, <2>1
    <2>4. q[i] = IF i < m THEN p[i] ELSE p[i + 1] - gone
      BY <1>8
    <2>5. p[i] \in Int /\ p[i + 1] \in Int /\ p[i + 2] \in Int
      BY <2>1
    <2>6. list[i + 1].length \in Int /\ list[i + 2].length \in Int
      BY <1>1, <2>1
    <2>9. short[i + 1] = IF i + 1 < m THEN list[i + 1] ELSE list[i + 2]
      <3>1. short[i + 1] = IF i + 1 < m THEN list[i + 1] ELSE list[(i + 1) + 1]
        BY <1>2, <2>1
      <3>2. QED
        BY <2>1, <3>1
    <2>7. q[i + 1] = IF i + 1 < m THEN p[i + 1] ELSE p[i + 2] - gone
      <3>1. CASE i + 1 < m
        <4>1. short[i + 1] = list[i + 1] /\ i < m
          BY <1>1, <2>9, <3>1
        <4>2. QED
          BY <2>2, <2>3, <2>4, <2>5, <2>6, <3>1, <4>1
      <3>2. CASE i + 1 = m
        <4>1. short[i + 1] = list[i + 2] /\ i < m
          <5>1. ~(i + 1 < m) /\ i < m
            BY <1>1, <3>2
          <5>2. QED
            BY <2>9, <5>1
        <4>2. p[i + 1] = p[i] + gone
          <5>1. m - 1 = i
            BY <1>1, <3>2
          <5>2. QED
            BY <1>6, <3>2, <5>1
        <4>3. q[i + 1] = p[i] + list[i + 2].length
          BY <2>2, <2>4, <4>1
        <4>4. QED
          <5>1. gone \in Int /\ list[i + 2].length \in Int
            BY <1>1, <2>6
          <5>2. p[i + 2] - gone = p[i] + list[i + 2].length
            BY SMTT(40), <2>3, <2>5, <4>2, <5>1
          <5>3. ~(i + 1 < m)
            BY <1>1, <3>2
          <5>4. q[i + 1] = p[i + 2] - gone
            BY <4>3, <5>2
          <5>5. QED
            BY <5>3, <5>4
      <3>3. CASE m < i + 1
        <4>1. short[i + 1] = list[i + 2] /\ ~(i < m) /\ ~(i + 1 < m)
          <5>1. ~(i < m) /\ ~(i + 1 < m)
            BY <1>1, <3>3
          <5>2. QED
            BY <2>9, <5>1
        <4>2. q[i + 1] = (p[i + 1] - gone) + list[i + 2].length
          BY <2>2, <2>4, <4>1
        <4>3. gone \in Int /\ list[i + 2].length \in Int
          BY <1>1, <2>6
        <4>4. p[i + 2] - gone = (p[i + 1] - gone) + list[i + 2].length
          BY SMTT(40), <2>3, <2>5, <4>3
        <4>5. QED
          BY Zenon, <4>1, <4>2, <4>4
      <3>4. QED
        BY <1>1, <3>1, <3>2, <3>3
    <2>8. QED
      BY <2>1, <2>7
  <1>9. n - 1 \in T
    <2>1. \A i \in 0..(n - 1) : i \in T
      <3> HIDE DEF T
      <3>1. QED
        BY <1>1, <1>7, <1>8, UpTo
    <2>2. n - 1 \in 0..(n - 1)
      BY <1>1
    <2>3. QED
      BY <2>1, <2>2
  <1>10. q[n - 1] = p[n] - gone
    <2>0. p[n - 1] \in Int /\ p[n] \in Int
      BY <1>1, <1>4
    <2>1. n - 1 < m => p[n - 1] = p[n] - gone
      <3>1. SUFFICES ASSUME n - 1 < m PROVE p[n - 1] = p[n] - gone
        OBVIOUS
      <3>2. m = n
        BY <1>1, <3>1
      <3>3. QED
        BY <1>1, <1>6, <2>0, <3>2
    <2>2. q[n - 1] = IF n - 1 < m THEN p[n - 1] ELSE p[(n - 1) + 1] - gone
      BY <1>9
    <2>3. (n - 1) + 1 = n
      BY <1>1
    <2>4. QED
      BY <2>1, <2>2, <2>3
  <1>11. QED
    <2>1. SumOf(short) = SumOf(list) - gone
      <3>1. SumOf(short) = q[n - 1] /\ SumOf(list) = p[n]
        BY <1>4, <1>5
      <3>2. QED
        BY Zenon, <1>10, <3>1
    <2>2. QED
      BY <2>1 DEF short, gone

-----------------------------------------------------------------------------
(***************************************************************************)
(* The charts.                                                             *)
(***************************************************************************)

Stacks == {StackAutoWrap(SiteOf[t].stack) : t \in Threads}
Events == [type : {"mmap", "alloc"}, address : Results, length : Nat, prot : Nat, flag : Nat,
           stack : Stacks, site : Threads]

TypeFor(k) == IF k = "heap" THEN "alloc" ELSE "mmap"

\* The bar of the block that t has logged at a.
Shown(list, a, t, k) ==
    \E i \in At(list, a) : /\ list[i].type = TypeFor(k)
                           /\ list[i].length = SiteOf[t].length
                           /\ list[i].stack = StackAutoWrap(SiteOf[t].stack)

ShownInv ==
    \A a \in Addrs : mem[a] \in Kinds /\ recorder[a] # Null => Shown(bars, a, recorder[a], mem[a])

\* At an address of which the log has missed no end, one bar while a line is unanswered.
OnceInv ==
    \A a \in Addrs : (\A k \in Kinds : a \notin missed[k]) =>
        /\ \A i, j \in At(bars, a) : i = j
        /\ (At(bars, a) # {}) <=> \E k \in Kinds : open[k][a] > 0

\* Where mmap is not hooked, the log has lines of malloc and free only.
HeapMode ==
    mode = {"heap"} =>
        /\ \A t \in Threads : pc[t] \in {"got", "line", "endline"} => op[t].kind = "heap"
        /\ allocs = bars
        /\ total = SumOf(bars)

ChartInv == bars \in Seq(Events) /\ ShownInv /\ OnceInv /\ HeapMode

\* A step that writes no line.
SameKind(t) == \/ pc[t] \in {"got", "line", "endline"} /\ op'[t].kind = op[t].kind
               \/ op'[t].kind \in mode
Quiet ==
    /\ open' = open
    /\ \A k \in Kinds : missed[k] \subseteq missed'[k]
    /\ \A a \in Addrs : mem'[a] \in Kinds /\ recorder'[a] # Null =>
                            mem'[a] = mem[a] /\ recorder'[a] = recorder[a]
    /\ \A t \in Threads : pc[t] \in {"line", "endline"} => pc'[t] = pc[t]
    /\ \A t \in Threads : pc'[t] \in {"got", "line", "endline"} => SameKind(t)

\* A new block has no record.
LEMMA AllocateQuiet ==
    ASSUME BookInv, NEW t \in Threads, NEW k \in Kinds, NEW a \in Addrs, NEW l \in BOOLEAN, NEW filtered \in BOOLEAN,
           Allocate(t, k, a, l, filtered)
    PROVE  Quiet
  <1>1. Types /\ RecordInv
    BY DEF BookInv
  <1>2. open' = open
    BY DEF Allocate, memory, log
  <1>3. \A j \in Kinds : missed[j] \subseteq missed'[j]
    BY <1>1 DEF Allocate, memory, log, Miss, Types, Kinds
  <1>4. \A x \in Addrs : mem'[x] \in Kinds /\ recorder'[x] # Null =>
                          mem'[x] = mem[x] /\ recorder'[x] = recorder[x]
    BY <1>1 DEF Allocate, memory, log, Types, RecordInv, Allocating, Kinds
  <1>5. \A u \in Threads : pc[u] \in {"line", "endline"} => pc'[u] = pc[u]
    BY <1>1 DEF Allocate, Hooked, Enter, Types
  <1>6. \A u \in Threads : pc'[u] \in {"got", "line", "endline"} => SameKind(u)
    <2>1. CASE Hooked(k, filtered)
      <3>1. k \in mode /\ \E m : Enter(t, m, k, a, l, FALSE)
        BY <2>1 DEF Allocate, Hooked
      <3>2. op'[t].kind = k /\ \A u \in Threads : u # t => pc'[u] = pc[u] /\ op'[u] = op[u]
        BY <1>1, <3>1 DEF Enter, Types
      <3>3. QED
        BY <3>1, <3>2 DEF SameKind
    <2>2. CASE ~Hooked(k, filtered)
      <3>1. pc' = pc /\ op' = op
        BY <2>2 DEF Allocate
      <3>2. QED
        BY <3>1 DEF SameKind
    <2>3. QED
      BY <2>1, <2>2
  <1>7. QED
    BY <1>2, <1>3, <1>4, <1>5, <1>6 DEF Quiet

\* A failure is of no address.
LEMMA AllocateFailsQuiet ==
    ASSUME BookInv, NEW t \in Threads, NEW k \in Kinds, NEW l \in BOOLEAN,
           AllocateFails(t, k, l)
    PROVE  Quiet
  <1>1. Types /\ RecordInv
    BY DEF BookInv
  <1>2. open' = open
    BY DEF AllocateFails, memory, log
  <1>3. \A j \in Kinds : missed[j] \subseteq missed'[j]
    BY <1>1 DEF AllocateFails, memory, log, Miss, Types, Kinds
  <1>4. \A x \in Addrs : mem'[x] \in Kinds /\ recorder'[x] # Null =>
                          mem'[x] = mem[x] /\ recorder'[x] = recorder[x]
    BY <1>1 DEF AllocateFails, memory, log, Types, RecordInv, Allocating, Kinds
  <1>5. \A u \in Threads : pc[u] \in {"line", "endline"} => pc'[u] = pc[u]
    BY <1>1 DEF AllocateFails, Enter, Types
  <1>6. \A u \in Threads : pc'[u] \in {"got", "line", "endline"} => SameKind(u)
    BY <1>1 DEF AllocateFails, Enter, Types, SameKind
  <1>7. QED
    BY <1>2, <1>3, <1>4, <1>5, <1>6 DEF Quiet

\* A block that moved has no record.
LEMMA ReallocateQuiet ==
    ASSUME BookInv, NEW t \in Threads, NEW a \in Addrs, NEW b \in Addrs, NEW l \in BOOLEAN, NEW filtered \in BOOLEAN,
           Reallocate(t, a, b, l, filtered)
    PROVE  Quiet
  <1>1. Types /\ RecordInv
    BY DEF BookInv
  <1>2. open' = open
    BY DEF Reallocate, memory, log
  <1>3. \A j \in Kinds : missed[j] \subseteq missed'[j]
    BY <1>1 DEF Reallocate, memory, log, Miss, Types, Kinds
  <1>4. \A x \in Addrs : mem'[x] \in Kinds /\ recorder'[x] # Null =>
                          mem'[x] = mem[x] /\ recorder'[x] = recorder[x]
    BY <1>1 DEF Reallocate, memory, log, Types, RecordInv, Allocating, Kinds
  <1>5. \A u \in Threads : pc[u] \in {"line", "endline"} => pc'[u] = pc[u]
    BY <1>1 DEF Reallocate, Hooked, Enter, Types
  <1>6. \A u \in Threads : pc'[u] \in {"got", "line", "endline"} => SameKind(u)
    BY <1>1 DEF Reallocate, Hooked, Enter, Types, SameKind
  <1>7. QED
    BY <1>2, <1>3, <1>4, <1>5, <1>6 DEF Quiet

\* A block that is being recorded has no record yet.
LEMMA RecordQuiet ==
    ASSUME BookInv, NEW t \in Threads,
           Record(t)
    PROVE  Quiet
  <1>1. Types /\ RecordInv
    BY DEF BookInv
  <1>2. open' = open
    BY DEF Record, memory, log
  <1>3. \A j \in Kinds : missed[j] \subseteq missed'[j]
    BY <1>1 DEF Record, memory, log, Miss, Types, Kinds
  <1>4. \A x \in Addrs : mem'[x] \in Kinds /\ recorder'[x] # Null =>
                          mem'[x] = mem[x] /\ recorder'[x] = recorder[x]
    BY <1>1 DEF Record, memory, log, Types, RecordInv, Allocating, Kinds
  <1>5. \A u \in Threads : pc[u] \in {"line", "endline"} => pc'[u] = pc[u]
    BY <1>1 DEF Record, Go, Back, Enter, Types
  <1>6. \A u \in Threads : pc'[u] \in {"got", "line", "endline"} => SameKind(u)
    BY <1>1 DEF Record, Go, Back, Enter, Types, SameKind
  <1>7. QED
    BY <1>2, <1>3, <1>4, <1>5, <1>6 DEF Quiet

\* A block that is released is the application's no more.
LEMMA FreeQuiet ==
    ASSUME BookInv, NEW t \in Threads, NEW a \in Addrs, NEW filtered \in BOOLEAN,
           Free(t, a, filtered)
    PROVE  Quiet
  <1>1. Types /\ RecordInv
    BY DEF BookInv
  <1>2. open' = open
    BY DEF Free, memory, log
  <1>3. \A j \in Kinds : missed[j] \subseteq missed'[j]
    <2>1. missed' = missed \/ Miss("heap", a)
      BY DEF Free, log
    <2>2. "heap" \in Kinds
      BY DEF Kinds
    <2>3. QED
      BY <1>1, <2>1, <2>2, MissLeaves
  <1>4. \A x \in Addrs : mem'[x] \in Kinds /\ recorder'[x] # Null =>
                          mem'[x] = mem[x] /\ recorder'[x] = recorder[x]
    BY <1>1 DEF Free, memory, log, Types, RecordInv, Allocating, Kinds
  <1>5. \A u \in Threads : pc[u] \in {"line", "endline"} => pc'[u] = pc[u]
    BY <1>1 DEF Free, Hooked, Enter, Types
  <1>6. \A u \in Threads : pc'[u] \in {"got", "line", "endline"} => SameKind(u)
    <2>1. CASE Hooked("heap", filtered)
      <3>1. "heap" \in mode /\ \E m : Enter(t, m, "heap", a, large[a], FALSE)
        BY <2>1 DEF Free, Hooked
      <3>2. op'[t].kind = "heap" /\ \A u \in Threads : u # t => pc'[u] = pc[u] /\ op'[u] = op[u]
        BY <1>1, <3>1 DEF Enter, Types
      <3>3. QED
        BY <3>1, <3>2 DEF SameKind
    <2>2. CASE ~Hooked("heap", filtered)
      <3>1. pc' = pc /\ op' = op
        BY <2>2 DEF Free
      <3>2. QED
        BY <3>1 DEF SameKind
    <2>3. QED
      BY <2>1, <2>2
  <1>7. QED
    BY <1>2, <1>3, <1>4, <1>5, <1>6 DEF Quiet

\* A mapping that is released is the application's no more.
LEMMA UnmapQuiet ==
    ASSUME BookInv, NEW t \in Threads, NEW a \in Addrs, NEW filtered \in BOOLEAN,
           Unmap(t, a, filtered)
    PROVE  Quiet
  <1>1. Types /\ RecordInv
    BY DEF BookInv
  <1>2. open' = open
    BY DEF Unmap, memory, log
  <1>3. \A j \in Kinds : missed[j] \subseteq missed'[j]
    <2>1. missed' = missed \/ Miss("map", a)
      BY DEF Unmap, log
    <2>2. "map" \in Kinds
      BY DEF Kinds
    <2>3. QED
      BY <1>1, <2>1, <2>2, MissLeaves
  <1>4. \A x \in Addrs : mem'[x] \in Kinds /\ recorder'[x] # Null =>
                          mem'[x] = mem[x] /\ recorder'[x] = recorder[x]
    BY <1>1 DEF Unmap, memory, log, Types, RecordInv, Allocating, Kinds
  <1>5. \A u \in Threads : pc[u] \in {"line", "endline"} => pc'[u] = pc[u]
    BY <1>1 DEF Unmap, Hooked, Enter, Types
  <1>6. \A u \in Threads : pc'[u] \in {"got", "line", "endline"} => SameKind(u)
    BY SMTT(40), <1>1 DEF Unmap, Hooked, Enter, Types, SameKind
  <1>7. QED
    BY <1>2, <1>3, <1>4, <1>5, <1>6 DEF Quiet

\* A block that ended has no record.
LEMMA OrigEndQuiet ==
    ASSUME BookInv, NEW t \in Threads,
           OrigEnd(t)
    PROVE  Quiet
  <1>1. Types /\ RecordInv
    BY DEF BookInv
  <1>2. open' = open
    BY DEF OrigEnd, memory, log
  <1>3. \A j \in Kinds : missed[j] \subseteq missed'[j]
    BY <1>1 DEF OrigEnd, memory, log, Miss, Types, Kinds
  <1>4. \A x \in Addrs : mem'[x] \in Kinds /\ recorder'[x] # Null =>
                          mem'[x] = mem[x] /\ recorder'[x] = recorder[x]
    BY <1>1 DEF OrigEnd, memory, log, Types, RecordInv, Allocating, Kinds
  <1>5. \A u \in Threads : pc[u] \in {"line", "endline"} => pc'[u] = pc[u]
    BY <1>1 DEF OrigEnd, Back, Enter, Types
  <1>6. \A u \in Threads : pc'[u] \in {"got", "line", "endline"} => SameKind(u)
    BY <1>1 DEF OrigEnd, Back, Enter, Types, SameKind
  <1>7. QED
    BY <1>2, <1>3, <1>4, <1>5, <1>6 DEF Quiet

\* The stack of a thread is no block of the application's.
LEMMA StartQuiet ==
    ASSUME BookInv, NEW t \in Threads, NEW a \in Addrs, NEW l \in BOOLEAN,
           Start(t, a, l)
    PROVE  Quiet
  <1>1. Types /\ RecordInv
    BY DEF BookInv
  <1>2. open' = open
    BY DEF Start, memory, log
  <1>3. \A j \in Kinds : missed[j] \subseteq missed'[j]
    BY <1>1 DEF Start, memory, log, Miss, Types, Kinds
  <1>4. \A x \in Addrs : mem'[x] \in Kinds /\ recorder'[x] # Null =>
                          mem'[x] = mem[x] /\ recorder'[x] = recorder[x]
    BY <1>1 DEF Start, memory, log, Types, RecordInv, Allocating, Kinds
  <1>5. \A u \in Threads : pc[u] \in {"line", "endline"} => pc'[u] = pc[u]
    BY <1>1 DEF Start, Back, Enter, Types
  <1>6. \A u \in Threads : pc'[u] \in {"got", "line", "endline"} => SameKind(u)
    BY <1>1 DEF Start, Back, Enter, Types, SameKind
  <1>7. QED
    BY <1>2, <1>3, <1>4, <1>5, <1>6 DEF Quiet

\* A thread that exits still has its stack.
LEMMA ExitQuiet ==
    ASSUME BookInv, NEW t \in Threads,
           Exit(t)
    PROVE  Quiet
  <1>1. Types /\ RecordInv
    BY DEF BookInv
  <1>2. open' = open
    BY DEF Exit, memory, log
  <1>3. \A j \in Kinds : missed[j] \subseteq missed'[j]
    BY <1>1 DEF Exit, memory, log, Miss, Types, Kinds
  <1>4. \A x \in Addrs : mem'[x] \in Kinds /\ recorder'[x] # Null =>
                          mem'[x] = mem[x] /\ recorder'[x] = recorder[x]
    BY <1>1 DEF Exit, memory, log, Types, RecordInv, Allocating, Kinds
  <1>5. \A u \in Threads : pc[u] \in {"line", "endline"} => pc'[u] = pc[u]
    BY <1>1 DEF Exit, Enter, Types
  <1>6. \A u \in Threads : pc'[u] \in {"got", "line", "endline"} => SameKind(u)
    <2>1. \A u \in Threads : u # t => pc'[u] = pc[u] /\ op'[u] = op[u]
      BY <1>1 DEF Exit, Enter, Types
    <2>2. pc'[t] = "endline" => "map" \in mode
      BY <1>1 DEF Exit, Enter, Types
    <2>3. op'[t].kind = "map" /\ pc'[t] \in {"endline", "ending"}
      BY <1>1 DEF Exit, Enter, Types
    <2>4. QED
      BY <2>1, <2>2, <2>3 DEF SameKind
  <1>7. QED
    BY <1>2, <1>3, <1>4, <1>5, <1>6 DEF Quiet

\* A thread that ended leaves its blocks without a record.
LEMMA EndedQuiet ==
    ASSUME BookInv, NEW t \in Threads,
           Ended(t)
    PROVE  Quiet
  <1>1. Types /\ RecordInv
    BY DEF BookInv
  <1>2. open' = open
    BY DEF Ended, memory, log
  <1>3. \A j \in Kinds : missed[j] \subseteq missed'[j]
    BY <1>1 DEF Ended, memory, log, Miss, Types, Kinds
  <1>4. \A x \in Addrs : mem'[x] \in Kinds /\ recorder'[x] # Null =>
                          mem'[x] = mem[x] /\ recorder'[x] = recorder[x]
    BY <1>1 DEF Ended, memory, log, Types, RecordInv, Allocating, Kinds
  <1>5. \A u \in Threads : pc[u] \in {"line", "endline"} => pc'[u] = pc[u]
    BY <1>1 DEF Ended, Enter, Types
  <1>6. \A u \in Threads : pc'[u] \in {"got", "line", "endline"} => SameKind(u)
    BY <1>1 DEF Ended, Enter, Types, SameKind
  <1>7. QED
    BY <1>2, <1>3, <1>4, <1>5, <1>6 DEF Quiet

-----------------------------------------------------------------------------
(***************************************************************************)
(* What the readers of the log make of a line.                             *)
(***************************************************************************)

\* The first handler that makes an event of the line.
LEMMA FirstMade ==
    ASSUME NEW x1, NEW x2, NEW x3, NEW x4, NEW n \in 1..4, <<x1, x2, x3, x4>>[n] # None,
           \A i \in 1..4 : i < n => <<x1, x2, x3, x4>>[i] = None
    PROVE  LET tried == <<x1, x2, x3, x4>>
               made == {i \in DOMAIN tried : tried[i] # None}
           IN (IF made = {} THEN None ELSE tried[Min(made)]) = <<x1, x2, x3, x4>>[n]
  <1> DEFINE tried == <<x1, x2, x3, x4>>
             made == {i \in DOMAIN tried : tried[i] # None}
  <1>1. DOMAIN tried = 1..4
    OBVIOUS
  <1>2. tried[n] # None /\ \A i \in 1..4 : i < n => tried[i] = None
    OBVIOUS
  <1> HIDE DEF tried
  <1>3. made \subseteq 1..4 /\ n \in made /\ 4 \in Nat
    BY <1>1, <1>2
  <1>4. \A i \in made : n <= i
    BY <1>1, <1>2
  <1> HIDE DEF made
  <1>5. Min(made) \in made /\ \A i \in made : Min(made) <= i
    BY <1>3, Extremes
  <1>6. Min(made) = n
    <2>1. n <= Min(made) /\ Min(made) <= n
      BY Zenon, <1>3, <1>4, <1>5
    <2>2. Min(made) \in 1..4
      BY Zenon, <1>3, <1>5
    <2>3. QED
      BY <2>1, <2>2
  <1>7. QED
    BY <1>3, <1>6 DEF made, tried

\* The handlers are tried in their order.
LEMMA Made ==
    ASSUME NEW line, NEW site
    PROVE  /\ HandleMmap(line, site) # None => HandleLine(line, site) = HandleMmap(line, site)
           /\ HandleMmap(line, site) = None /\ HandleMunmap(line) # None
                 => HandleLine(line, site) = HandleMunmap(line)
           /\ HandleMmap(line, site) = None /\ HandleMunmap(line) = None /\ HandleAlloc(line, site) # None
                 => HandleLine(line, site) = HandleAlloc(line, site)
           /\ HandleMmap(line, site) = None /\ HandleMunmap(line) = None
              /\ HandleAlloc(line, site) = None /\ HandleFree(line) # None
                 => HandleLine(line, site) = HandleFree(line)
           /\ HandleMmap(line, site) = None /\ HandleMunmap(line) = None
              /\ HandleAlloc(line, site) = None /\ HandleFree(line) = None
                 => HandleLine(line, site) = None
  <1> DEFINE x1 == HandleMmap(line, site)
             x2 == HandleMunmap(line)
             x3 == HandleAlloc(line, site)
             x4 == HandleFree(line)
             tried == <<x1, x2, x3, x4>>
             made == {i \in DOMAIN tried : tried[i] # None}
  <1>1. HandleLine(line, site) = IF made = {} THEN None ELSE tried[Min(made)]
    BY DEF HandleLine
  <1> HIDE DEF x1, x2, x3, x4
  <1>2. /\ tried[1] = x1 /\ tried[2] = x2 /\ tried[3] = x3 /\ tried[4] = x4
        /\ DOMAIN tried = 1..4
    OBVIOUS
  <1>3. ASSUME NEW n \in 1..4, tried[n] # None, \A i \in 1..4 : i < n => tried[i] = None
        PROVE  (IF made = {} THEN None ELSE tried[Min(made)]) = tried[n]
    BY <1>3, FirstMade
  <1> HIDE DEF tried
  <1>4. \A n \in 1..4 : tried[n] # None /\ (\A i \in 1..4 : i < n => tried[i] = None)
                           => HandleLine(line, site) = tried[n]
    BY <1>1, <1>3
  <1>5. (\A i \in 1..4 : tried[i] = None) => HandleLine(line, site) = None
    <2>1. (\A i \in 1..4 : tried[i] = None) => made = {}
      BY <1>2
    <2>2. QED
      BY <1>1, <2>1
  <1> HIDE DEF made
  <1>6. x1 # None => HandleLine(line, site) = x1
    BY <1>2, <1>4
  <1>7. x1 = None /\ x2 # None => HandleLine(line, site) = x2
    BY <1>2, <1>4
  <1>8. x1 = None /\ x2 = None /\ x3 # None => HandleLine(line, site) = x3
    BY <1>2, <1>4
  <1>9. x1 = None /\ x2 = None /\ x3 = None /\ x4 # None => HandleLine(line, site) = x4
    BY <1>2, <1>4
  <1>10. x1 = None /\ x2 = None /\ x3 = None /\ x4 = None => HandleLine(line, site) = None
    BY <1>2, <1>5
  <1>11. QED
    BY <1>6, <1>7, <1>8, <1>9, <1>10 DEF x1, x2, x3, x4

\* An event of a type of its own is none of those that are left out.
LEMMA NotNone ==
    ASSUME NEW ty, ty # "none", NEW addr, NEW l, NEW p, NEW f, NEW s, NEW site
    PROVE  Event(ty, addr, l, p, f, s, site) # None
  <1>1. Event(ty, addr, l, p, f, s, site).type = ty /\ None.type = "none"
    BY DEF Event, None
  <1>2. QED
    BY <1>1

\* An allocation line becomes an event with all that it says.
LEMMA AllocRead ==
    ASSUME NEW t \in Threads, op[t].kind \in Kinds, op[t].addr \in Results
    PROVE  LET e == HandleLine(AllocLine(t), t)
           IN /\ e \in Events /\ e.type = TypeFor(op[t].kind) /\ e.address = op[t].addr
              /\ e.length = SiteOf[t].length /\ e.stack = StackAutoWrap(SiteOf[t].stack)
  <1> DEFINE L == AllocLine(t)
             s == SiteOf[t]
  <1>1. s.length \in Nat /\ s.prot \in Nat /\ s.flag \in Nat
    BY SiteType DEF Site
  <1>2. StackAutoWrap(s.stack) \in Stacks
    BY DEF Stacks
  <1>3. CASE op[t].kind = "heap"
    <2>1. L = <<"alloc", op[t].addr, s.length, s.stack>>
      BY <1>3 DEF AllocLine
    <2> HIDE DEF L
    <2>2. HandleMmap(L, t) = None /\ HandleMunmap(L) = None
      BY <2>1 DEF HandleMmap, HandleMunmap
    <2>3. HandleAlloc(L, t) = Event("alloc", op[t].addr, s.length, 0, 0, StackAutoWrap(s.stack), t)
      BY <2>1 DEF HandleAlloc
    <2>4. HandleLine(L, t) = Event("alloc", op[t].addr, s.length, 0, 0, StackAutoWrap(s.stack), t)
      BY <2>2, <2>3, NotNone, Made
    <2> HIDE DEF s
    <2>5. HandleLine(L, t) = [type |-> "alloc", address |-> op[t].addr, length |-> s.length,
                             prot |-> 0, flag |-> 0, stack |-> StackAutoWrap(s.stack), site |-> t]
      BY <2>4 DEF Event
    <2>6. QED
      BY <1>1, <1>2, <1>3, <2>5 DEF L, s, Events, TypeFor
  <1>4. CASE op[t].kind = "map"
    <2>1. L = <<"mmap", op[t].addr, s.length, s.prot, s.flag, "fd", "link", s.stack>>
      BY <1>4 DEF AllocLine
    <2> HIDE DEF L
    <2>2. HandleMmap(L, t) = Event("mmap", op[t].addr, s.length, s.prot, s.flag, StackAutoWrap(s.stack), t)
      BY <2>1 DEF HandleMmap
    <2>3. HandleLine(L, t) = Event("mmap", op[t].addr, s.length, s.prot, s.flag, StackAutoWrap(s.stack), t)
      BY <2>2, NotNone, Made
    <2> HIDE DEF s
    <2>4. HandleLine(L, t) = [type |-> "mmap", address |-> op[t].addr, length |-> s.length,
                             prot |-> s.prot, flag |-> s.flag, stack |-> StackAutoWrap(s.stack), site |-> t]
      BY <2>3 DEF Event
    <2>5. QED
      BY <1>1, <1>2, <1>4, <2>4 DEF L, s, Events, TypeFor
  <1>5. QED
    BY <1>3, <1>4 DEF Kinds

\* A release line becomes an event of its address.
LEMMA EndRead ==
    ASSUME NEW t \in Threads, NEW line \in EndLines(t)
    PROVE  LET e == HandleLine(line, t)
           IN /\ e.type = IF op[t].kind = "heap" THEN "free" ELSE "munmap"
              /\ e.address = op[t].addr
  <1>1. CASE op[t].kind = "heap"
    <2>1. line = <<"free", op[t].addr>>
      BY <1>1 DEF EndLines
    <2>2. HandleMmap(line, t) = None /\ HandleMunmap(line) = None /\ HandleAlloc(line, t) = None
      BY <2>1 DEF HandleMmap, HandleMunmap, HandleAlloc
    <2>3. HandleFree(line) = Event("free", op[t].addr, 0, 0, 0, <<>>, Null)
      BY <2>1 DEF HandleFree
    <2>4. HandleLine(line, t) = Event("free", op[t].addr, 0, 0, 0, <<>>, Null)
      BY <2>2, <2>3, NotNone, Made
    <2>5. QED
      BY <1>1, <2>4 DEF Event
  <1>2. CASE op[t].kind # "heap"
    <2>1. PICK l : line = <<"munmap", op[t].addr, l, <<>> >>
      BY <1>2 DEF EndLines
    <2>2. HandleMmap(line, t) = None
      BY <2>1 DEF HandleMmap
    <2>3. HandleMunmap(line) = Event("munmap", op[t].addr, l, 0, 0, <<>>, Null)
      BY <2>1 DEF HandleMunmap
    <2>4. HandleLine(line, t) = Event("munmap", op[t].addr, l, 0, 0, <<>>, Null)
      BY <2>2, <2>3, NotNone, Made
    <2>5. QED
      BY <1>2, <2>4 DEF Event
  <1>3. QED
    BY <1>1, <1>2

-----------------------------------------------------------------------------
(***************************************************************************)
(* The lists of the charts.                                                *)
(***************************************************************************)

\* A new event is found at its own address only.
LEMMA AppendAt ==
    ASSUME NEW list \in Seq(Events), NEW e \in Events
    PROVE  /\ Append(list, e) \in Seq(Events)
           /\ \A b : \A i \in At(list, b) : i \in At(Append(list, e), b) /\ Append(list, e)[i] = list[i]
           /\ \A b : b # e.address => At(Append(list, e), b) = At(list, b)
           /\ At(Append(list, e), e.address) = At(list, e.address) \cup {Len(list) + 1}
           /\ Append(list, e)[Len(list) + 1] = e
  <1> DEFINE n == Len(list)
             long == Append(list, e)
  <1>1. /\ n \in Nat /\ DOMAIN list = 1..n /\ long \in Seq(Events) /\ DOMAIN long = 1..(n + 1)
        /\ long[n + 1] = e /\ \A i \in 1..n : long[i] = list[i]
    BY AppendProperties
  <1>2. /\ \A i \in 1..n : i \in 1..(n + 1) /\ i # n + 1
        /\ \A i \in 1..(n + 1) : i \in 1..n \/ i = n + 1
        /\ n + 1 \in 1..(n + 1)
    BY <1>1
  <1> HIDE DEF n, long
  <1>3. \A b : \A i \in At(list, b) : i \in At(long, b) /\ long[i] = list[i]
    BY <1>1, <1>2 DEF At
  <1>4. \A b : b # e.address => At(long, b) \subseteq At(list, b)
    BY <1>1, <1>2 DEF At
  <1>5. At(long, e.address) = At(list, e.address) \cup {n + 1}
    BY <1>1, <1>2 DEF At
  <1>6. QED
    BY <1>1, <1>3, <1>4, <1>5 DEF n, long

\* Without one event of an address, the others are still there and found once.
LEMMA RemovedAt ==
    ASSUME NEW list \in Seq(Events), NEW a, NEW m \in At(list, a)
    PROVE  LET short == RemoveAt(list, m)
           IN /\ short \in Seq(Events)
              /\ \A b : b # a => \A i \in At(list, b) : \E j \in At(short, b) : short[j] = list[i]
              /\ \A b : (\A i, j \in At(list, b) : i = j) => \A i, j \in At(short, b) : i = j
              /\ \A b : At(list, b) = {} => At(short, b) = {}
              /\ (\A i, j \in At(list, a) : i = j) => At(short, a) = {}
  <1> DEFINE n == Len(list)
             short == RemoveAt(list, m)
  <1>1. n \in Nat /\ DOMAIN list = 1..n /\ m \in 1..n /\ list[m].address = a
    BY DEF At
  <1>2. /\ short \in Seq(Events) /\ Len(short) = n - 1
        /\ \A i \in 1..(n - 1) : short[i] = IF i < m THEN list[i] ELSE list[i + 1]
    BY ZenonT(60), <1>1, Removed
  <1>3. DOMAIN short = 1..(n - 1)
    BY <1>2
  <1> DEFINE was(j) == IF j < m THEN j ELSE j + 1
  <1> HIDE DEF n, short
  <1>4. \A j \in 1..(n - 1) : was(j) \in 1..n /\ was(j) # m /\ short[j] = list[was(j)]
    BY <1>1, <1>2
  <1>5. \A i, j \in 1..(n - 1) : was(i) = was(j) => i = j
    BY <1>1
  <1>6. \A i \in 1..n : i # m => \E j \in 1..(n - 1) : was(j) = i
    <2>1. TAKE i \in 1..n
    <2>2. HAVE i # m
    <2>3. CASE i < m
      <3>1. i \in 1..(n - 1) /\ was(i) = i
        BY <1>1, <2>3
      <3>2. QED
        BY <3>1
    <2>4. CASE m < i
      <3>1. i - 1 \in 1..(n - 1) /\ was(i - 1) = i
        BY <1>1, <2>4
      <3>2. QED
        BY <3>1
    <2>5. QED
      BY <1>1, <2>2, <2>3, <2>4
  <1> HIDE DEF was
  <1>7. \A b : \A j \in At(short, b) : was(j) \in At(list, b) /\ was(j) # m
    BY <1>1, <1>3, <1>4 DEF At
  <1>8. \A b : b # a => \A i \in At(list, b) : \E j \in At(short, b) : short[j] = list[i]
    <2>1. SUFFICES ASSUME NEW b, b # a, NEW i \in At(list, b)
                   PROVE  \E j \in At(short, b) : short[j] = list[i]
      OBVIOUS
    <2>2. i \in 1..n /\ i # m /\ list[i].address = b
      BY <1>1, <2>1 DEF At
    <2>3. PICK j \in 1..(n - 1) : was(j) = i
      BY <1>6, <2>2
    <2>4. short[j] = list[i]
      BY <1>4, <2>3
    <2>5. QED
      BY <1>3, <2>2, <2>4 DEF At
  <1>9. ASSUME NEW b, \A i, j \in At(list, b) : i = j
        PROVE  \A i, j \in At(short, b) : i = j
    <2>1. TAKE i, j \in At(short, b)
    <2>2. was(i) = was(j)
      BY <1>7, <1>9
    <2>3. i \in 1..(n - 1) /\ j \in 1..(n - 1)
      BY <1>3 DEF At
    <2>4. QED
      BY <1>5, <2>2, <2>3
  <1>10. \A b : At(list, b) = {} => At(short, b) = {}
    BY <1>7
  <1>11. (\A i, j \in At(list, a) : i = j) => At(short, a) = {}
    BY <1>7
  <1>12. QED
    BY SMTT(40), <1>2, <1>8, <1>9, <1>10, <1>11 DEF short

\* RemoveLatest takes out one event of the address, if there is one: that, or an equal
\* one, which was found for it.
LEMMA LatestRemoved ==
    ASSUME NEW list \in Seq(Events), NEW a
    PROVE  IF At(list, a) = {}
           THEN RemoveLatest(list, a) = list
           ELSE \E m \in At(list, a) : /\ RemoveLatest(list, a) = RemoveAt(list, m)
                                       /\ list[m].length = list[Max(At(list, a))].length
  <1>1. CASE At(list, a) = {}
    BY <1>1 DEF RemoveLatest
  <1>2. CASE At(list, a) # {}
    <2> DEFINE n == Len(list)
               found == list[Max(At(list, a))]
               equal == {i \in DOMAIN list : Same(list[i], found)}
    <2>1. n \in Nat /\ DOMAIN list = 1..n
      OBVIOUS
    <2>2. At(list, a) \subseteq 1..n
      BY <2>1 DEF At
    <2> HIDE DEF n
    <2>3. Max(At(list, a)) \in At(list, a)
      BY <1>2, <2>1, <2>2, Extremes
    <2>4. Max(At(list, a)) \in DOMAIN list /\ found.address = a
      BY <2>3 DEF At
    <2>5. Max(At(list, a)) \in equal
      BY <2>4 DEF Same
    <2>6. equal \subseteq 1..n
      BY <2>1
    <2>7. \A i \in equal : i \in At(list, a) /\ list[i].length = found.length
      BY <2>4 DEF At, Same
    <2>8. RemoveLatest(list, a) = RemoveAt(list, Min(equal))
      BY <1>2 DEF RemoveLatest
    <2> HIDE DEF equal, found
    <2>9. Min(equal) \in equal
      BY <2>1, <2>5, <2>6, Extremes
    <2>10. QED
      BY <1>2, <2>7, <2>8, <2>9 DEF found
  <1>3. QED
    BY <1>1, <1>2

-----------------------------------------------------------------------------
\* A step of a thread writes an allocation line or a release line, or none.
LEMMA ThreeSteps ==
    ASSUME BookInv, Next
    PROVE  mode' = mode /\ (Quiet \/ \E t \in Threads : WriteLine(t) \/ WriteEnd(t))
  <1>1. PICK t \in Threads : /\ \/ Callback(t)
                                \/ \E a \in Addrs : Application(t, a)
                                \/ \E k \in Kinds, l \in BOOLEAN : AllocateFails(t, k, l)
                             /\ UNCHANGED mode
    BY DEF Next
  <1>2. CASE Callback(t)
    <2>1. Record(t) \/ OrigEnd(t) \/ Exit(t) \/ Ended(t) => Quiet
      BY RecordQuiet, OrigEndQuiet, ExitQuiet, EndedQuiet
    <2>2. QED
      BY <1>1, <1>2, <2>1 DEF Callback
  <1>3. ASSUME NEW a \in Addrs, Application(t, a)
        PROVE  Quiet
    <2>1. PICK l \in BOOLEAN, filtered \in BOOLEAN :
             \/ \E k \in Kinds : Allocate(t, k, a, l, filtered)
             \/ \E b \in Addrs : Reallocate(t, a, b, l, filtered)
             \/ Free(t, a, filtered)
             \/ Unmap(t, a, filtered)
             \/ Start(t, a, l)
      BY <1>3 DEF Application
    <2>2. QED
      BY <2>1, AllocateQuiet, ReallocateQuiet, FreeQuiet, UnmapQuiet, StartQuiet
  <1>4. ASSUME NEW k \in Kinds, NEW l \in BOOLEAN, AllocateFails(t, k, l)
        PROVE  Quiet
    BY <1>4, AllocateFailsQuiet
  <1>5. QED
    BY <1>1, <1>2, <1>3, <1>4

\* The line that the charts take up is the one that was written.
LEMMA WhoWrites ==
    ASSUME ChartNext, NEW t \in Threads, pc[t] \in {"line", "endline"}, pc'[t] # pc[t],
           \A u \in Threads : u # t => pc'[u] = pc[u]
    PROVE  \E l \in Lines(t) : Read(HandleLine(l, t))
  BY DEF ChartNext

\* A step without a line leaves the charts alone.
LEMMA NobodyWrites ==
    ASSUME ChartNext, \A t \in Threads : pc[t] \in {"line", "endline"} => pc'[t] = pc[t]
    PROVE  UNCHANGED charts
  BY DEF ChartNext

\* The charts still show what there is, if no line was written.
LEMMA QuietKeeps ==
    ASSUME Types, ChartInv, Quiet, mode' = mode, UNCHANGED charts
    PROVE  ChartInv'
  <1>1. /\ bars \in Seq(Events) /\ ShownInv /\ OnceInv /\ HeapMode
        /\ bars' = bars /\ allocs' = allocs /\ total' = total
    BY DEF ChartInv, charts
  <1>2. ShownInv'
    <2>1. SUFFICES ASSUME NEW a \in Addrs, mem'[a] \in Kinds, recorder'[a] # Null
                   PROVE  Shown(bars, a, recorder'[a], mem'[a])
      BY <1>1 DEF ShownInv
    <2>2. mem'[a] = mem[a] /\ recorder'[a] = recorder[a]
      BY <2>1 DEF Quiet
    <2>3. QED
      BY <1>1, <2>1, <2>2 DEF ShownInv
  <1>3. OnceInv'
    <2>1. SUFFICES ASSUME NEW a \in Addrs, \A k \in Kinds : a \notin missed'[k]
                   PROVE  /\ \A i, j \in At(bars, a) : i = j
                          /\ (At(bars, a) # {}) <=> \E k \in Kinds : open'[k][a] > 0
      BY <1>1 DEF OnceInv
    <2>2. open' = open /\ \A k \in Kinds : a \notin missed[k]
      BY <2>1 DEF Quiet
    <2>3. QED
      BY <1>1, <2>2 DEF OnceInv
  <1>4. HeapMode'
    <2>1. SUFFICES ASSUME mode = {"heap"}
                   PROVE  /\ \A t \in Threads : pc'[t] \in {"got", "line", "endline"} => op'[t].kind = "heap"
                          /\ allocs = bars /\ total = SumOf(bars)
      BY <1>1 DEF HeapMode
    <2>2. \A t \in Threads : pc'[t] \in {"got", "line", "endline"} => SameKind(t)
      BY DEF Quiet
    <2>3. \A t \in Threads : pc'[t] \in {"got", "line", "endline"} => op'[t].kind = "heap"
      BY <1>1, <2>1, <2>2 DEF SameKind, HeapMode
    <2>4. QED
      BY <1>1, <2>1, <2>3 DEF HeapMode
  <1>5. QED
    BY <1>1, <1>2, <1>3, <1>4 DEF ChartInv

\* Lengths are numbers.
LEMMA EventLengths == (\A d \in Events : d.length \in Int) /\ \A d \in Events : d.length \in Nat
  BY DEF Events

\* An allocation line: its bar is the only one at its address, if no end there was missed.
LEMMA LineKeepsCharts ==
    ASSUME BookInv, ChartInv, NEW t \in Threads, WriteLine(t), Read(HandleLine(AllocLine(t), t)),
           mode' = mode
    PROVE  ChartInv'
  <1> DEFINE e == HandleLine(AllocLine(t), t)
             a == op[t].addr
             k == op[t].kind
             n == Len(bars) + 1
  <1>1. /\ Types /\ HeldInv /\ LogInv /\ bars \in Seq(Events) /\ ShownInv /\ OnceInv /\ HeapMode
        /\ pc[t] = "line" /\ k \in Kinds /\ a \in Results /\ CallOK(t)
    BY DEF BookInv, ChartInv, WriteLine, Types, Call, HeldInv
  <1>2. /\ e \in Events /\ e.type = TypeFor(k) /\ e.address = a
        /\ e.length = SiteOf[t].length /\ e.stack = StackAutoWrap(SiteOf[t].stack)
    BY <1>1, AllocRead
  <1>3. /\ pc'[t] = "idle" /\ missed' = missed
        /\ \A u \in Threads : u # t => pc'[u] = pc[u] /\ op'[u] = op[u]
    BY <1>1 DEF WriteLine, Back, Enter, Types
  <1>4. a = Null => open' = open /\ mem' = mem /\ recorder' = recorder
    BY DEF WriteLine
  <1>5. a \in Addrs =>
           /\ \A j \in Kinds : \A x \in Addrs :
                 open'[j][x] = IF j = k /\ x = a THEN open[j][x] + 1 ELSE open[j][x]
           /\ \A x \in Addrs : mem'[x] = IF x = a THEN k ELSE mem[x]
           /\ \A x \in Addrs : recorder'[x] = IF x = a THEN t ELSE recorder[x]
    BY SMTT(40), <1>1, NullType DEF WriteLine, Types
  <1>6. /\ bars' = AdjustForMunmap(bars, e) /\ allocs' = PopAllocs(allocs, e)
        /\ total' = total + Change(allocs, e)
    BY DEF Read
  <1> HIDE DEF e
  <1>7. e.type \in {"mmap", "alloc"}
    BY <1>2 DEF TypeFor
  <1>8. bars' = Append(bars, e)
    BY <1>6, <1>7 DEF AdjustForMunmap
  <1>9. /\ bars' \in Seq(Events)
        /\ \A b : \A i \in At(bars, b) : i \in At(bars', b) /\ bars'[i] = bars[i]
        /\ \A b : b # a => At(bars', b) = At(bars, b)
        /\ At(bars', a) = At(bars, a) \cup {n}
        /\ bars'[n] = e
    <2>1. /\ Append(bars, e) \in Seq(Events)
          /\ \A b : \A i \in At(bars, b) :
                i \in At(Append(bars, e), b) /\ Append(bars, e)[i] = bars[i]
          /\ \A b : b # e.address => At(Append(bars, e), b) = At(bars, b)
          /\ At(Append(bars, e), e.address) = At(bars, e.address) \cup {Len(bars) + 1}
          /\ Append(bars, e)[Len(bars) + 1] = e
      BY <1>1, <1>2, AppendAt
    <2>2. e.address = a /\ bars' = Append(bars, e)
      BY <1>2, <1>8
    <2>3. QED
      BY Zenon, <2>1, <2>2
  <1> HIDE DEF a, k, n
  <1>10. a # Null => a \in Addrs
    BY <1>1 DEF Results
  <1>11. ShownInv'
    <2>1. SUFFICES ASSUME NEW x \in Addrs, mem'[x] \in Kinds, recorder'[x] # Null
                   PROVE  Shown(bars', x, recorder'[x], mem'[x])
      BY DEF ShownInv
    <2>2. CASE x = a
      <3>1. mem'[x] = k /\ recorder'[x] = t /\ n \in At(bars', x)
        BY <1>5, <1>9, <2>2
      <3>2. QED
        BY <1>2, <1>9, <3>1 DEF Shown
    <2>3. CASE x # a
      <3>1. mem'[x] = mem[x] /\ recorder'[x] = recorder[x]
        BY <1>4, <1>5, <1>10, <2>3
      <3>2. Shown(bars, x, recorder[x], mem[x])
        BY <1>1, <2>1, <3>1 DEF ShownInv
      <3>3. QED
        BY <1>9, <3>1, <3>2 DEF Shown
    <2>4. QED
      BY <2>2, <2>3
  <1>12. OnceInv'
    <2>1. SUFFICES ASSUME NEW x \in Addrs, \A j \in Kinds : x \notin missed[j]
                   PROVE  /\ \A i, j \in At(bars', x) : i = j
                          /\ (At(bars', x) # {}) <=> \E j \in Kinds : open'[j][x] > 0
      BY <1>3 DEF OnceInv
    <2>2. CASE x # a
      <3>1. At(bars', x) = At(bars, x) /\ \A j \in Kinds : open'[j][x] = open[j][x]
        BY <1>4, <1>5, <1>9, <1>10, <2>2
      <3>2. QED
        BY <1>1, <2>1, <3>1 DEF OnceInv
    <2>3. CASE x = a
      <3>1. Holds(t, x)
        BY <1>1, <2>3 DEF CallOK, Holds, Busy, a
      <3>2. mem[x] = "held" /\ \A u \in Threads : Holds(u, x) => u = t
        BY <1>1, <3>1 DEF HeldInv
      <3>3. ASSUME NEW j \in Kinds PROVE open[j][x] = 0
        <4>1. open[j][x] \in Nat /\ open[j][x] <= 1
          BY <1>1, <2>1 DEF LogInv, Types
        <4>2. mem[x] # j
          BY <3>2 DEF Kinds
        <4>3. ~Releasing(j, x)
          <5>1. \A u \in Threads : AtEnd(u, j, x) => Holds(u, x)
            BY <1>1, LinesHeld
          <5>2. QED
            BY <1>1, <3>2, <5>1 DEF Releasing, AtEnd
        <4>4. open[j][x] # 1
          BY <1>1, <2>1, <4>2, <4>3 DEF LogInv
        <4>5. QED
          BY <4>1, <4>4
      <3>4. At(bars, x) = {}
        BY <1>1, <2>1, <3>3 DEF OnceInv
      <3>5. At(bars', x) = {n}
        BY <1>9, <2>3, <3>4
      <3>6. open'[k][x] = 1
        BY <1>1, <1>5, <2>3, <3>3 DEF k
      <3>7. k \in Kinds
        BY <1>1 DEF k
      <3>8. QED
        BY <3>5, <3>6, <3>7
    <2>4. QED
      BY <2>2, <2>3
  <1>13. HeapMode'
    <2>1. SUFFICES ASSUME mode = {"heap"}
                   PROVE  /\ \A u \in Threads : pc'[u] \in {"got", "line", "endline"} => op'[u].kind = "heap"
                          /\ allocs' = bars' /\ total' = SumOf(bars')
      BY DEF HeapMode
    <2>2. /\ \A u \in Threads : pc[u] \in {"got", "line", "endline"} => op[u].kind = "heap"
          /\ allocs = bars /\ total = SumOf(bars)
      BY <1>1, <2>1 DEF HeapMode
    <2>3. \A u \in Threads : pc'[u] \in {"got", "line", "endline"} => op'[u].kind = "heap"
      BY <1>3, <2>2
    <2>4. e.type = "alloc"
      BY <1>1, <1>2, <2>2 DEF TypeFor, k
    <2>5. allocs' = Append(allocs, e) /\ total' = total + e.length
      BY <1>6, <2>4 DEF PopAllocs, Change
    <2>6. SumOf(Append(bars, e)) = SumOf(bars) + e.length
      BY <1>1, <1>2, EventLengths, SumAppend
    <2>7. QED
      BY <1>8, <2>2, <2>3, <2>5, <2>6
  <1>14. QED
    BY <1>9, <1>11, <1>12, <1>13 DEF ChartInv

\* A release line: the block is nobody's, and its bar is taken away.
LEMMA EndKeepsCharts ==
    ASSUME BookInv, ChartInv, NEW t \in Threads, WriteEnd(t), NEW line \in EndLines(t),
           Read(HandleLine(line, t)), mode' = mode
    PROVE  ChartInv'
  <1> DEFINE e == HandleLine(line, t)
             a == op[t].addr
             k == op[t].kind
  <1>1. /\ Types /\ HeldInv /\ LogInv /\ bars \in Seq(Events) /\ ShownInv /\ OnceInv /\ HeapMode
        /\ pc[t] = "endline" /\ k \in Kinds /\ CallOK(t)
    BY DEF BookInv, ChartInv, WriteEnd, Types, Call, HeldInv
  <1>2. e.type = (IF k = "heap" THEN "free" ELSE "munmap") /\ e.address = a
    BY EndRead
  <1>3. a \in Addrs
    BY <1>1 DEF CallOK
  <1>4. /\ pc'[t] = "ending" /\ missed' = missed /\ mem' = mem /\ recorder' = recorder /\ op' = op
        /\ \A u \in Threads : u # t => pc'[u] = pc[u]
    BY <1>1 DEF WriteEnd, Go, memory, Types
  <1>5. \A j \in Kinds : \A x \in Addrs :
           open'[j][x] = IF j = k /\ x = a
                         THEN IF open[j][x] > 0 THEN open[j][x] - 1 ELSE 0
                         ELSE open[j][x]
    BY <1>1, <1>3 DEF WriteEnd, Types
  <1>6. /\ bars' = AdjustForMunmap(bars, e) /\ allocs' = PopAllocs(allocs, e)
        /\ total' = total + Change(allocs, e)
    BY DEF Read
  <1> HIDE DEF e
  <1>7. bars' = RemoveLatest(bars, a)
    BY <1>2, <1>6 DEF AdjustForMunmap
  <1>8. IF At(bars, a) = {}
        THEN bars' = bars
        ELSE \E m \in At(bars, a) : /\ bars' = RemoveAt(bars, m)
                                    /\ bars[m].length = bars[Max(At(bars, a))].length
    BY <1>1, <1>7, LatestRemoved
  <1> HIDE DEF a, k
  <1>9. /\ bars' \in Seq(Events)
        /\ \A b : b # a => \A i \in At(bars, b) : \E j \in At(bars', b) : bars'[j] = bars[i]
        /\ \A b : (\A i, j \in At(bars, b) : i = j) => \A i, j \in At(bars', b) : i = j
        /\ \A b : At(bars, b) = {} => At(bars', b) = {}
        /\ (\A i, j \in At(bars, a) : i = j) => At(bars', a) = {}
    <2>1. CASE At(bars, a) = {}
      BY <1>1, <1>8, <2>1
    <2>2. CASE At(bars, a) # {}
      <3>1. PICK m \in At(bars, a) : bars' = RemoveAt(bars, m)
        BY <1>8, <2>2
      <3>2. /\ RemoveAt(bars, m) \in Seq(Events)
            /\ \A b : b # a => \A i \in At(bars, b) :
                  \E j \in At(RemoveAt(bars, m), b) : RemoveAt(bars, m)[j] = bars[i]
            /\ \A b : (\A i, j \in At(bars, b) : i = j) => \A i, j \in At(RemoveAt(bars, m), b) : i = j
            /\ \A b : At(bars, b) = {} => At(RemoveAt(bars, m), b) = {}
            /\ (\A i, j \in At(bars, a) : i = j) => At(RemoveAt(bars, m), a) = {}
        BY <1>1, RemovedAt
      <3>3. QED
        BY Zenon, <3>1, <3>2
    <2>3. QED
      BY <2>1, <2>2
  <1>10. /\ mem[a] \in {"held", "stack"}
         /\ \A j \in Kinds : \A u \in Threads : AtEnd(u, j, a) => j = k
    <2>1. CASE op[t].exit
      <3>1. mem[a] = "stack"
        BY <1>1, <1>3, <2>1, NullType DEF CallOK, HeldInv, a
      <3>2. \A j \in Kinds : \A u \in Threads : AtEnd(u, j, a) => mem[a] = "held"
        BY <1>1, <1>3, LinesHeld
      <3>3. QED
        BY <3>1, <3>2
    <2>2. CASE ~op[t].exit
      <3>1. Holds(t, a)
        BY <1>1, <2>2 DEF Holds, Busy, a
      <3>2. mem[a] = "held" /\ \A u \in Threads : Holds(u, a) => u = t
        BY <1>1, <1>3, <3>1 DEF HeldInv
      <3>3. \A j \in Kinds : \A u \in Threads : AtEnd(u, j, a) => Holds(u, a)
        BY <1>1, <1>3, LinesHeld
      <3>4. QED
        BY <3>2, <3>3 DEF AtEnd, k
    <2>3. QED
      BY <2>1, <2>2
  <1>11. ShownInv'
    <2>1. SUFFICES ASSUME NEW x \in Addrs, mem[x] \in Kinds, recorder[x] # Null
                   PROVE  Shown(bars', x, recorder[x], mem[x])
      BY <1>4 DEF ShownInv
    <2>2. x # a
      BY <1>10, <2>1 DEF Kinds
    <2>3. Shown(bars, x, recorder[x], mem[x])
      BY <1>1, <2>1 DEF ShownInv
    <2>4. PICK i \in At(bars, x) : /\ bars[i].type = TypeFor(mem[x])
                                   /\ bars[i].length = SiteOf[recorder[x]].length
                                   /\ bars[i].stack = StackAutoWrap(SiteOf[recorder[x]].stack)
      BY <2>3 DEF Shown
    <2>5. PICK j \in At(bars', x) : bars'[j] = bars[i]
      BY <1>9, <2>2
    <2>6. QED
      BY <2>4, <2>5 DEF Shown
  <1>12. OnceInv'
    <2>1. SUFFICES ASSUME NEW x \in Addrs, \A j \in Kinds : x \notin missed[j]
                   PROVE  /\ \A i, j \in At(bars', x) : i = j
                          /\ (At(bars', x) # {}) <=> \E j \in Kinds : open'[j][x] > 0
      BY <1>4 DEF OnceInv
    <2>2. /\ \A i, j \in At(bars, x) : i = j
          /\ (At(bars, x) # {}) <=> \E j \in Kinds : open[j][x] > 0
      BY <1>1, <2>1 DEF OnceInv
    <2>3. \A i, j \in At(bars', x) : i = j
      BY <1>9, <2>2
    <2>4. CASE x # a
      <3>1. (At(bars', x) # {}) <=> (At(bars, x) # {})
        BY <1>9, <2>4
      <3>2. \A j \in Kinds : open'[j][x] = open[j][x]
        BY <1>5, <2>4
      <3>3. QED
        BY <2>2, <2>3, <3>1, <3>2
    <2>5. CASE x = a
      <3>1. At(bars', x) = {}
        BY <1>9, <2>2, <2>5
      <3>2. ASSUME NEW j \in Kinds PROVE ~(open'[j][x] > 0)
        <4>1. open[j][x] \in Nat /\ open[j][x] <= 1
          BY <1>1, <2>1 DEF LogInv, Types
        <4>2. CASE j = k
          BY <1>5, <2>5, <4>1, <4>2
        <4>3. CASE j # k
          <5>1. ~Releasing(j, x) /\ mem[x] # j
            BY <1>10, <2>5, <4>3 DEF Releasing, Kinds
          <5>2. open[j][x] # 1
            BY <1>1, <2>1, <5>1 DEF LogInv
          <5>3. open'[j][x] = open[j][x]
            BY <1>5, <4>3
          <5>4. QED
            BY <4>1, <5>2, <5>3
        <4>4. QED
          BY <4>2, <4>3
      <3>3. QED
        BY <2>3, <3>1, <3>2
    <2>6. QED
      BY <2>4, <2>5
  <1>13. HeapMode'
    <2>1. SUFFICES ASSUME mode = {"heap"}
                   PROVE  /\ \A u \in Threads : pc'[u] \in {"got", "line", "endline"} => op'[u].kind = "heap"
                          /\ allocs' = bars' /\ total' = SumOf(bars')
      BY DEF HeapMode
    <2>2. /\ \A u \in Threads : pc[u] \in {"got", "line", "endline"} => op[u].kind = "heap"
          /\ allocs = bars /\ total = SumOf(bars)
      BY <1>1, <2>1 DEF HeapMode
    <2>3. \A u \in Threads : pc'[u] \in {"got", "line", "endline"} => op'[u].kind = "heap"
      BY <1>4, <2>2
    <2>4. e.type = "free"
      BY <1>1, <1>2, <2>2 DEF k
    <2>5. allocs' = bars'
      BY <1>2, <1>6, <1>7, <2>2, <2>4 DEF PopAllocs
    <2>6. total' = SumOf(bars')
      <3>1. SumOf(bars) \in Int
        <4>1. \A i \in 1..Len(bars) : bars[i].length \in Int
          BY <1>1, EventLengths
        <4>2. Len(bars) \in 0..Len(bars)
          BY <1>1
        <4>3. QED
          BY <1>1, <4>1, <4>2, SumSteps
      <3>2. CASE At(bars, a) = {}
        <4>1. Change(allocs, e) = 0 /\ bars' = bars
          BY <1>2, <1>8, <2>2, <2>4, <3>2 DEF Change
        <4>2. QED
          BY <1>6, <2>2, <3>1, <4>1
      <3>3. CASE At(bars, a) # {}
        <4>1. PICK m \in At(bars, a) : /\ bars' = RemoveAt(bars, m)
                                       /\ bars[m].length = bars[Max(At(bars, a))].length
          BY <1>8, <3>3
        <4>2. Change(allocs, e) = -bars[Max(At(bars, a))].length
          BY <1>2, <2>2, <2>4, <3>3 DEF Change
        <4>3. m \in 1..Len(bars) /\ bars[m].length \in Int
          BY <1>1, EventLengths DEF At
        <4>4. SumOf(RemoveAt(bars, m)) = SumOf(bars) - bars[m].length
          BY <1>1, <4>3, EventLengths, SumRemove
        <4>5. total' = SumOf(bars) + (-bars[m].length)
          BY <1>6, <2>2, <4>1, <4>2
        <4>6. QED
          BY <3>1, <4>1, <4>3, <4>4, <4>5
      <3>4. QED
        BY <3>2, <3>3
    <2>7. QED
      BY <2>3, <2>5, <2>6
  <1>14. QED
    BY <1>9, <1>11, <1>12, <1>13 DEF ChartInv

-----------------------------------------------------------------------------
\* Every step of the charts keeps both invariants.
LEMMA ChartKeeps == BookInv /\ ChartInv /\ [ChartNext]_<<vars, charts>> => BookInv' /\ ChartInv'
  <1>1. SUFFICES ASSUME BookInv, ChartInv, [ChartNext]_<<vars, charts>>
                 PROVE  BookInv' /\ ChartInv'
    OBVIOUS
  <1>2. [Next]_vars
    BY <1>1 DEF ChartNext
  <1>3. BookInv'
    BY <1>1, <1>2, StepKeeps
  <1>4. CASE UNCHANGED <<vars, charts>>
    <2>1. UNCHANGED <<mode, mem, pc, op, open, recorder, missed, bars, allocs, total>>
      BY <1>4 DEF vars, memory, log, charts
    <2>2. ChartInv'
      BY <1>1, <2>1 DEF ChartInv, ShownInv, OnceInv, HeapMode
    <2>3. QED
      BY <1>3, <2>2
  <1>5. CASE ChartNext
    <2>1. Next /\ Types
      BY <1>1, <1>5 DEF ChartNext, BookInv
    <2>2. mode' = mode /\ (Quiet \/ \E t \in Threads : WriteLine(t) \/ WriteEnd(t))
      BY <1>1, <2>1, ThreeSteps
    <2>3. CASE Quiet
      <3>1. UNCHANGED charts
        BY <1>5, <2>3, NobodyWrites DEF Quiet
      <3>2. QED
        BY <1>1, <1>3, <2>1, <2>2, <2>3, <3>1, QuietKeeps
    <2>4. ASSUME NEW t \in Threads, WriteLine(t)
          PROVE  ChartInv'
      <3>1. /\ pc[t] = "line" /\ pc'[t] # pc[t]
            /\ \A u \in Threads : u # t => pc'[u] = pc[u]
        BY <2>1, <2>4 DEF WriteLine, Back, Enter, Types
      <3>2. \E l \in Lines(t) : Read(HandleLine(l, t))
        BY <1>5, <3>1, WhoWrites
      <3>3. Read(HandleLine(AllocLine(t), t))
        BY <3>1, <3>2 DEF Lines
      <3>4. QED
        BY <1>1, <2>2, <2>4, <3>3, LineKeepsCharts
    <2>5. ASSUME NEW t \in Threads, WriteEnd(t)
          PROVE  ChartInv'
      <3>1. /\ pc[t] = "endline" /\ pc'[t] # pc[t]
            /\ \A u \in Threads : u # t => pc'[u] = pc[u]
        BY <2>1, <2>5 DEF WriteEnd, Go, Types
      <3>2. \E l \in Lines(t) : Read(HandleLine(l, t))
        BY <1>5, <3>1, WhoWrites
      <3>3. PICK l \in EndLines(t) : Read(HandleLine(l, t))
        BY <3>1, <3>2 DEF Lines
      <3>4. QED
        BY <1>1, <2>2, <2>5, <3>3, EndKeepsCharts
    <2>6. QED
      BY <1>3, <2>2, <2>3, <2>4, <2>5
  <1>6. QED
    BY <1>1, <1>4, <1>5

\* The charts of an empty log are empty.
LEMMA ChartInitHolds == ChartInit => BookInv /\ ChartInv
  <1>1. SUFFICES ASSUME ChartInit
                 PROVE  BookInv /\ ChartInv
    OBVIOUS
  <1>2. Init /\ bars = <<>> /\ allocs = <<>> /\ total = 0
    BY <1>1 DEF ChartInit
  <1>3. BookInv
    BY <1>2, InitHolds
  <1>4. bars \in Seq(Events) /\ Len(bars) = 0 /\ \A a : At(bars, a) = {}
    BY <1>2 DEF At
  <1>5. ShownInv
    BY <1>2 DEF Init, ShownInv
  <1>6. OnceInv
    BY <1>2, <1>4 DEF Init, OnceInv
  <1>7. SumOf(bars) = 0
    <2>1. \A i \in 1..Len(bars) : bars[i].length \in Int
      BY <1>4
    <2>2. PICK p \in [0..Len(bars) -> Int] : p[0] = 0 /\ SumOf(bars) = p[Len(bars)]
      BY <1>4, <2>1, SumSteps
    <2>3. QED
      BY <1>4, <2>2
  <1>8. HeapMode
    BY <1>2, <1>7, ThreadsType DEF Init, HeapMode
  <1>9. QED
    BY <1>3, <1>4, <1>5, <1>6, <1>8 DEF ChartInv

\* The books and the charts are in order in every reachable state.
THEOREM ChartInvariant == ChartSpec => [](BookInv /\ ChartInv)
  <1>1. QED
    BY ChartInitHolds, ChartKeeps, PTL DEF ChartSpec

\* The charts only watch: what the recorder does with them it does without them.
THEOREM ChartsWatch == ChartSpec => Spec
  <1>1. ChartInit => Init
    BY DEF ChartInit
  <1>2. [ChartNext]_<<vars, charts>> => [Next]_vars
    BY DEF ChartNext
  <1>3. QED
    BY <1>1, <1>2, PTL DEF ChartSpec, Spec

\* BarsShowMemory: every logged block that its own thread still holds is in the bar chart,
\* with its parameters, and nothing else is at an address of which the log missed no end.
LEMMA ChartsShow == BookInv /\ ChartInv => BarsShowMemory
  <1>1. SUFFICES ASSUME BookInv, ChartInv, NEW a \in Addrs
                 PROVE  /\ mem[a] \in Kinds /\ recorder[a] # Null =>
                              LET t == recorder[a]
                                  type == IF mem[a] = "heap" THEN "alloc" ELSE "mmap"
                              IN \E i \in At(bars, a) :
                                    /\ bars[i].type = type
                                    /\ bars[i].length = SiteOf[t].length
                                    /\ bars[i].stack = StackAutoWrap(SiteOf[t].stack)
                        /\ LET inUse == mem[a] \in Kinds
                                        \/ \E t \in Threads : pc[t] = "endline" /\ op[t].addr = a
                           IN Cardinality(At(bars, a)) > (IF inUse THEN 1 ELSE 0)
                                 => \E k \in Kinds : a \in missed[k]
    BY DEF BarsShowMemory
  <1>2. Types /\ LogInv /\ ShownInv /\ OnceInv
    BY <1>1 DEF BookInv, ChartInv
  <1>3. mem[a] \in Kinds /\ recorder[a] # Null => Shown(bars, a, recorder[a], mem[a])
    BY <1>2 DEF ShownInv
  <1> DEFINE inUse == mem[a] \in Kinds \/ \E t \in Threads : pc[t] = "endline" /\ op[t].addr = a
  <1>4. ASSUME \A k \in Kinds : a \notin missed[k]
        PROVE  ~(Cardinality(At(bars, a)) > (IF inUse THEN 1 ELSE 0))
    <2>1. /\ \A i, j \in At(bars, a) : i = j
          /\ (At(bars, a) # {}) <=> \E k \in Kinds : open[k][a] > 0
      BY <1>2, <1>4 DEF OnceInv
    <2>2. CASE At(bars, a) = {}
      <3>1. Cardinality(At(bars, a)) = 0
        BY <2>2, FS_EmptySet
      <3>2. QED
        BY <3>1
    <2>3. CASE At(bars, a) # {}
      <3>1. PICK i : At(bars, a) = {i}
        BY <2>1, <2>3
      <3>2. Cardinality(At(bars, a)) = 1
        BY <3>1, FS_Singleton
      <3>3. PICK k \in Kinds : open[k][a] > 0
        BY <2>1, <2>3
      <3>4. open[k][a] \in Nat /\ open[k][a] <= 1
        BY <1>2, <1>4 DEF Types, LogInv
      <3>5. open[k][a] = 1
        BY <3>3, <3>4
      <3>6. mem[a] = k \/ Releasing(k, a)
        BY <1>2, <1>4, <3>5 DEF LogInv
      <3>7. inUse
        BY <3>6 DEF Releasing, AtEnd
      <3>8. QED
        BY <3>2, <3>7
    <2>4. QED
      BY <2>2, <2>3
  <1> HIDE DEF inUse
  <1>5. Cardinality(At(bars, a)) > (IF inUse THEN 1 ELSE 0) => \E k \in Kinds : a \in missed[k]
    BY <1>4
  <1>6. QED
    BY <1>3, <1>5 DEF Shown, TypeFor, inUse

\* The bar chart shows the memory in use.
THEOREM BarsShow == ChartSpec => []BarsShowMemory
  <1>1. QED
    BY ChartInvariant, ChartsShow, PTL

\* The line chart of a log of malloc and free ends at what the bars add up to.
THEOREM LineEnds == ChartSpec => []LineEndsAtBars
  <1>1. ChartInv => LineEndsAtBars
    BY DEF ChartInv, HeapMode, LineEndsAtBars
  <1>2. QED
    BY <1>1, ChartInvariant, PTL

\* What is left of a line keeps its segments, but for the last.
LEMMA CutKeeps ==
    ASSUME NEW E, NEW line \in Seq(E), NEW left \in CutOff(line)
    PROVE  \E n \in 1..Len(line) : /\ DOMAIN left = 1..n /\ Len(left) = n
                                   /\ \A i \in 1..(n - 1) : left[i] = line[i]
  <1>1. Len(line) \in Nat /\ DOMAIN line = 1..Len(line)
    OBVIOUS
  <1>2. ASSUME NEW n \in 1..Len(line), left = SubSeq(line, 1, n)
        PROVE  /\ DOMAIN left = 1..n /\ Len(left) = n
               /\ \A i \in 1..(n - 1) : left[i] = line[i]
    BY <1>1, <1>2
  <1>3. ASSUME NEW n \in 1..Len(line), left = Append(SubSeq(line, 1, n - 1), Cut)
        PROVE  /\ DOMAIN left = 1..n /\ Len(left) = n
               /\ \A i \in 1..(n - 1) : left[i] = line[i]
    <2> DEFINE whole == SubSeq(line, 1, n - 1)
    <2>1. whole \in Seq(E \cup {Cut}) /\ Len(whole) = n - 1 /\ \A i \in 1..(n - 1) : whole[i] = line[i]
      BY <1>1, SubSeqProperties
    <2> HIDE DEF whole
    <2>2. left = Append(whole, Cut) /\ Cut \in E \cup {Cut}
      BY <1>3 DEF whole
    <2>3. /\ Len(left) = (n - 1) + 1 /\ left \in Seq(E \cup {Cut})
          /\ \A i \in 1..Len(whole) : left[i] = whole[i]
      BY <2>1, <2>2, AppendProperties
    <2>4. QED
      BY <2>1, <2>3
  <1>4. QED
    BY <1>1, <1>2, <1>3 DEF CutOff

\* CutAllocsWhole: no handler takes a number that the log ended in.
LEMMA CutsWhole == CutAllocsWhole
  <1>1. SUFFICES ASSUME NEW t \in Threads, NEW line \in CutOff(AllocLine(t)),
                        HandleLine(line, t) # None
                 PROVE  /\ HandleLine(line, t).address = op[t].addr
                        /\ HandleLine(line, t).length = SiteOf[t].length
    BY DEF CutAllocsWhole
  <1> DEFINE L == AllocLine(t)
             s == SiteOf[t]
             a == op[t].addr
             E == {L[i] : i \in DOMAIN L}
  <1>2. CASE op[t].kind = "heap"
    <2>1. L = <<"alloc", a, s.length, s.stack>>
      BY <1>2 DEF AllocLine
    <2>2. L \in Seq(E) /\ Len(L) = 4 /\ L[1] = "alloc" /\ L[2] = a /\ L[3] = s.length
      BY <2>1
    <2> HIDE DEF L, E, a, s
    <2>3. PICK n \in 1..4 : /\ DOMAIN line = 1..n /\ Len(line) = n
                            /\ \A i \in 1..(n - 1) : line[i] = L[i]
      BY <1>1, <2>2, CutKeeps DEF L
    <2>4. /\ n >= 2 => line[1] = "alloc"
          /\ n >= 3 => line[2] = a
          /\ n >= 4 => line[3] = s.length
      BY <2>2, <2>3
    <2>5. HandleMmap(line, t) = None /\ HandleMunmap(line) = None /\ HandleFree(line) = None
      BY <2>3, <2>4 DEF HandleMmap, HandleMunmap, HandleFree
    <2>6. HandleAlloc(line, t) # None
      BY <1>1, <2>5, Made
    <2>7. line[1] = "alloc" /\ Len(line) >= 4
      BY <2>6 DEF HandleAlloc
    <2>8. HandleLine(line, t) = Event("alloc", a, s.length, 0, 0, StackAutoWrap(line[4]), t)
      BY <2>3, <2>4, <2>5, <2>6, <2>7, Made DEF HandleAlloc
    <2>9. QED
      BY <2>8 DEF Event, a, s
  <1>3. CASE op[t].kind # "heap"
    <2>1. L = <<"mmap", a, s.length, s.prot, s.flag, "fd", "link", s.stack>>
      BY <1>3 DEF AllocLine
    <2>2. L \in Seq(E) /\ Len(L) = 8 /\ L[1] = "mmap" /\ L[2] = a /\ L[3] = s.length
      BY <2>1
    <2> HIDE DEF L, E, a, s
    <2>3. PICK n \in 1..8 : /\ DOMAIN line = 1..n /\ Len(line) = n
                            /\ \A i \in 1..(n - 1) : line[i] = L[i]
      BY <1>1, <2>2, CutKeeps DEF L
    <2>4. /\ n >= 2 => line[1] = "mmap"
          /\ n >= 3 => line[2] = a
          /\ n >= 4 => line[3] = s.length
      BY <2>2, <2>3
    <2>5. HandleMunmap(line) = None /\ HandleAlloc(line, t) = None /\ HandleFree(line) = None
      BY <2>3, <2>4 DEF HandleAlloc, HandleMunmap, HandleFree
    <2>6. HandleMmap(line, t) # None
      BY <1>1, <2>5, Made
    <2>7. line[1] = "mmap" /\ Len(line) > 6
      BY <2>6 DEF HandleMmap
    <2>8. line[2] = a /\ line[3] = s.length
      BY <2>3, <2>4, <2>7
    <2>9. PICK frames : HandleMmap(line, t) = Event("mmap", a, s.length, line[4], line[5], frames, t)
      BY <2>7, <2>8 DEF HandleMmap
    <2>10. HandleLine(line, t) = Event("mmap", a, s.length, line[4], line[5], frames, t)
      BY <2>6, <2>9, Made
    <2>11. QED
      BY <2>10 DEF Event, a, s
  <1>4. QED
    BY <1>2, <1>3

\* An allocation line that was cut off is charted whole or not at all.
THEOREM CutsAreWhole == ChartSpec => []CutAllocsWhole
  <1>1. QED
    BY CutsWhole, PTL
=============================================================================
