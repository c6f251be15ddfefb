------------------------------ MODULE Recorder ------------------------------
(***************************************************************************)
(* What HiMem records: the proxies of mem_hook.cpp around malloc, calloc,  *)
(* realloc, free, mmap, munmap and pthread_exit, and the callbacks of      *)
(* mem_callback.cpp that write one line per large block to the log.        *)
(*                                                                         *)
(* An allocation is logged after the original function has returned, a     *)
(* release before it is called, and no lock spans the two: between them    *)
(* the allocator may hand the same address to another thread.  A release   *)
(* by free is logged only if the address is in the cache of the thread     *)
(* that frees it; the cache is taken here as the bag that MemCache         *)
(* implements.  One line is one fwrite, which locks the file.              *)
(*                                                                         *)
(* The allocator, the kernel and the application are external: a block is  *)
(* used by one owner at a time, and not after it was released.             *)
(***************************************************************************)
EXTENDS Integers, FiniteSets

CONSTANTS
    Threads,    \* threads of the application
    Main,       \* the one whose stack is not allocated by pthread_create
    Addrs,      \* addresses of blocks
    Null,       \* the result of an allocation that fails
    Modes,      \* the values of MODE: sets of the kinds of blocks that are hooked
    MaxOpen     \* bound on unanswered lines, and on cache entries, per address

Kinds == {"heap", "map"}

ASSUME ThreadsType == Main \in Threads
ASSUME NullType == Null \notin Addrs
ASSUME ModesType == Modes \subseteq SUBSET Kinds
ASSUME MaxOpenType == MaxOpen \in Nat \ {0}

Results == Addrs \cup {Null}

VARIABLES
    mode,       \* MODE
    mem,        \* what each address is in use as
    large,      \* the size of the block there is over the threshold
    stack,      \* the block that is a thread's stack
    pc,         \* where a thread is
    op,         \* the call that a thread is in
    cache,      \* cache[k][t]: the address caches of a thread
    open,       \* log: allocation lines not yet answered by a release line
    recorder,   \* history: who wrote the allocation line of the block in use
    missed      \* history: addresses where a logged block ended without a line

memory == <<mem, large, stack>>
log == <<open, recorder, missed>>
vars == <<mode, memory, pc, op, cache, log>>

\*   gone     not started, or ended
\*   idle     in the application
\*   got      the original allocation function has returned
\*   line     about to write an allocation line
\*   endline  about to write a release line
\*   ending   about to call the original release function
PC == {"gone", "idle", "got", "line", "endline", "ending"}

\* "held": in the hands of one call, not of the application.
Uses == {"unused", "held", "stack"} \cup Kinds

Call == [kind : Kinds, addr : Results, large : BOOLEAN, exit : BOOLEAN]
NoCall == [kind |-> "heap", addr |-> Null, large |-> FALSE, exit |-> FALSE]

Counts == 0..(MaxOpen + Cardinality(Threads))

TypeOK ==
    /\ mode \in Modes
    /\ mem \in [Addrs -> Uses]
    /\ large \in [Addrs -> BOOLEAN]
    /\ stack \in [Threads -> Results]
    /\ pc \in [Threads -> PC]
    /\ op \in [Threads -> Call]
    /\ cache \in [Kinds -> [Threads -> [Addrs -> Counts]]]
    /\ open \in [Kinds -> [Addrs -> Counts]]
    /\ recorder \in [Addrs -> Threads \cup {Null}]
    /\ missed \in [Kinds -> SUBSET Addrs]

Init ==
    /\ mode \in Modes
    /\ mem = [a \in Addrs |-> "unused"]
    /\ large = [a \in Addrs |-> FALSE]
    /\ stack = [t \in Threads |-> Null]
    /\ pc = [t \in Threads |-> IF t = Main THEN "idle" ELSE "gone"]
    /\ op = [t \in Threads |-> NoCall]
    /\ cache = [k \in Kinds |-> [t \in Threads |-> [a \in Addrs |-> 0]]]
    /\ open = [k \in Kinds |-> [a \in Addrs |-> 0]]
    /\ recorder = [a \in Addrs |-> Null]
    /\ missed = [k \in Kinds |-> {}]

-----------------------------------------------------------------------------
\* t is in a proxy, or back in the application.
Enter(t, label, k, a, l, e) ==
    /\ pc' = [pc EXCEPT ![t] = label]
    /\ op' = [op EXCEPT ![t] = [kind |-> k, addr |-> a, large |-> l, exit |-> e]]
Go(t, label) == pc' = [pc EXCEPT ![t] = label] /\ UNCHANGED op
Back(t) == Enter(t, "idle", "heap", Null, FALSE, FALSE)

\* The callers in libraries that allow_filter leaves out are not hooked.
Hooked(k, filtered) == k \in mode /\ ~filtered

Room(k, t, a) == open[k][a] < MaxOpen /\ cache[k][t][a] < MaxOpen

\* The block at a ends and the log does not learn of it.
Miss(k, a) == missed' = IF open[k][a] > 0 THEN [missed EXCEPT ![k] = @ \cup {a}] ELSE missed

\* malloc, calloc, realloc(NULL), mmap and mmap64 return a block.
Allocate(t, k, a, l, filtered) ==
    /\ pc[t] = "idle"
    /\ mem[a] = "unused" /\ Room(k, t, a)
    /\ large' = [large EXCEPT ![a] = l]
    /\ IF Hooked(k, filtered)
       THEN mem' = [mem EXCEPT ![a] = "held"] /\ Enter(t, "got", k, a, l, FALSE)
       ELSE mem' = [mem EXCEPT ![a] = k] /\ UNCHANGED <<pc, op>>
    /\ UNCHANGED <<stack, cache, log>>

\* They fail.  The callback does not look at the result: it enters the failure in the
\* cache and logs it.  Neither is ever asked for again, and neither is counted here.
AllocateFails(t, k, l) ==
    /\ pc[t] = "idle"
    /\ k \in mode
    /\ Enter(t, "got", k, Null, l, FALSE)
    /\ UNCHANGED <<memory, cache, log>>

\* realloc returns b, which may be a: the proxy knows b only.
Reallocate(t, a, b, l, filtered) ==
    /\ pc[t] = "idle"
    /\ mem[a] = "heap" /\ (b = a \/ mem[b] = "unused") /\ Room("heap", t, b)
    /\ large' = [large EXCEPT ![a] = FALSE, ![b] = l]
    /\ IF Hooked("heap", filtered)
       THEN /\ mem' = [mem EXCEPT ![a] = "unused", ![b] = "held"]
            /\ Enter(t, "got", "heap", b, l, FALSE)
       ELSE /\ mem' = [mem EXCEPT ![a] = "unused", ![b] = "heap"]
            /\ UNCHANGED <<pc, op>>
    /\ recorder' = [recorder EXCEPT ![a] = Null]
    /\ Miss("heap", a)
    /\ UNCHANGED <<stack, cache, open>>

\* Mutant of Record: the line is written, the address not entered in the cache.
RecordLogOnly(t) ==
    LET c == op[t]
    IN /\ pc[t] = "got"
       /\ IF c.large
          THEN Go(t, "line") /\ UNCHANGED mem
          ELSE /\ mem' = IF c.addr = Null THEN mem ELSE [mem EXCEPT ![c.addr] = c.kind]
               /\ Back(t)
       /\ UNCHANGED <<large, stack, cache, log>>

\* callOnMalloc, onMmap: a large block is entered in the cache of the thread.
Record(t) ==
    LET c == op[t]
    IN /\ pc[t] = "got"
       /\ IF c.large
          THEN /\ cache' = IF c.addr = Null THEN cache
                           ELSE [cache EXCEPT ![c.kind][t][c.addr] = @ + 1]
               /\ Go(t, "line") /\ UNCHANGED mem
          ELSE /\ mem' = IF c.addr = Null THEN mem ELSE [mem EXCEPT ![c.addr] = c.kind]
               /\ Back(t) /\ UNCHANGED cache
       /\ UNCHANGED <<large, stack, log>>

\* postOnMalloc, postOnMmap: then the proxy returns the block.
WriteLine(t) ==
    LET c == op[t]
    IN /\ pc[t] = "line"
       /\ IF c.addr = Null
          THEN UNCHANGED <<mem, open, recorder>>
          ELSE /\ open' = [open EXCEPT ![c.kind][c.addr] = @ + 1]
               /\ mem' = [mem EXCEPT ![c.addr] = c.kind]
               /\ recorder' = [recorder EXCEPT ![c.addr] = t]
       /\ Back(t)
       /\ UNCHANGED <<large, stack, cache, missed>>

\* MemoryCache::remove.
Forget(k, t, a) == cache' = [cache EXCEPT ![k][t][a] = IF @ > 0 THEN @ - 1 ELSE 0]

\* Mutant of Free: whether the address was in the cache is not looked at.
FreeAlways(t, a, filtered) ==
    /\ pc[t] = "idle"
    /\ mem[a] = "heap"
    /\ mem' = [mem EXCEPT ![a] = IF Hooked("heap", filtered) THEN "held" ELSE "unused"]
    /\ IF Hooked("heap", filtered)
       THEN /\ Forget("heap", t, a)
            /\ Enter(t, "endline", "heap", a, large[a], FALSE)
            /\ UNCHANGED <<recorder, missed>>
       ELSE /\ Miss("heap", a)
            /\ recorder' = [recorder EXCEPT ![a] = Null]
            /\ UNCHANGED <<pc, op, cache>>
    /\ UNCHANGED <<large, stack, open>>

\* free: logged if the cache of this very thread has the address.
Free(t, a, filtered) ==
    /\ pc[t] = "idle"
    /\ mem[a] = "heap"
    /\ mem' = [mem EXCEPT ![a] = IF Hooked("heap", filtered) THEN "held" ELSE "unused"]
    /\ \/ /\ Hooked("heap", filtered) /\ cache["heap"][t][a] > 0
          /\ Forget("heap", t, a)
          /\ Enter(t, "endline", "heap", a, large[a], FALSE)
          /\ UNCHANGED <<recorder, missed>>
       \/ /\ Hooked("heap", filtered) /\ cache["heap"][t][a] = 0
          /\ Enter(t, "ending", "heap", a, large[a], FALSE)
          /\ Miss("heap", a)
          /\ UNCHANGED <<cache, recorder>>
       \/ /\ ~Hooked("heap", filtered)
          /\ Miss("heap", a)
          /\ recorder' = [recorder EXCEPT ![a] = Null]
          /\ UNCHANGED <<pc, op, cache>>
    /\ UNCHANGED <<large, stack, open>>

\* Mutant of Unmap: the original munmap is called before the callback.
UnmapFirst(t, a, filtered) ==
    /\ pc[t] = "idle"
    /\ mem[a] = "map"
    /\ IF Hooked("map", filtered) /\ large[a]
       THEN /\ mem' = [mem EXCEPT ![a] = "unused"]
            /\ Forget("map", t, a)
            /\ Enter(t, "endline", "map", a, TRUE, FALSE)
            /\ UNCHANGED <<recorder, missed>>
       ELSE /\ mem' = [mem EXCEPT ![a] = "unused"]
            /\ Miss("map", a)
            /\ recorder' = [recorder EXCEPT ![a] = Null]
            /\ UNCHANGED <<pc, op, cache>>
    /\ UNCHANGED <<large, stack, open>>

\* munmap of a whole block: logged if it is large, whatever the cache says.
Unmap(t, a, filtered) ==
    /\ pc[t] = "idle"
    /\ mem[a] = "map"
    /\ IF Hooked("map", filtered) /\ large[a]
       THEN /\ mem' = [mem EXCEPT ![a] = "held"]
            /\ Forget("map", t, a)
            /\ Enter(t, "endline", "map", a, TRUE, FALSE)
            /\ UNCHANGED <<recorder, missed>>
       ELSE /\ mem' = [mem EXCEPT ![a] = "unused"]
            /\ Miss("map", a)
            /\ recorder' = [recorder EXCEPT ![a] = Null]
            /\ UNCHANGED <<pc, op, cache>>
    /\ UNCHANGED <<large, stack, open>>

\* postOnFree, postOnMunmap.  A reader of the log that finds no allocation line for a
\* release line leaves it out.
WriteEnd(t) ==
    LET c == op[t]
    IN /\ pc[t] = "endline"
       /\ open' = [open EXCEPT ![c.kind][c.addr] = IF @ > 0 THEN @ - 1 ELSE 0]
       /\ Go(t, "ending")
       /\ UNCHANGED <<memory, cache, recorder, missed>>

\* The original free or munmap is called and the proxy returns.
OrigEnd(t) ==
    LET c == op[t]
    IN /\ pc[t] = "ending" /\ ~c.exit
       /\ mem' = [mem EXCEPT ![c.addr] = "unused"]
       /\ recorder' = [recorder EXCEPT ![c.addr] = Null]
       /\ Back(t)
       /\ UNCHANGED <<large, stack, cache, open, missed>>

\* pthread_create, in libc, which is not hooked, maps the stack; the caches of a new
\* thread are empty.
Start(t, a, l) ==
    /\ pc[t] = "gone"
    /\ mem[a] = "unused"
    /\ mem' = [mem EXCEPT ![a] = "stack"]
    /\ large' = [large EXCEPT ![a] = l]
    /\ stack' = [stack EXCEPT ![t] = a]
    /\ Back(t)
    /\ UNCHANGED <<cache, log>>

\* pthread_exit logs the stack of the thread as unmapped.
Exit(t) ==
    LET a == stack[t]
    IN /\ pc[t] = "idle" /\ a # Null
       /\ IF "map" \in mode /\ large[a]
          THEN Forget("map", t, a) /\ Enter(t, "endline", "map", a, TRUE, TRUE)
          ELSE UNCHANGED cache /\ Enter(t, "ending", "map", a, large[a], TRUE)
       /\ UNCHANGED <<memory, log>>

\* The thread ends and with it its caches and its stack.
Ended(t) ==
    /\ pc[t] = "ending" /\ op[t].exit
    /\ Enter(t, "gone", "heap", Null, FALSE, FALSE)
    /\ mem' = [mem EXCEPT ![stack[t]] = "unused"]
    /\ stack' = [stack EXCEPT ![t] = Null]
    /\ cache' = [k \in Kinds |-> [cache[k] EXCEPT ![t] = [a \in Addrs |-> 0]]]
    /\ recorder' = [a \in Addrs |-> IF recorder[a] = t THEN Null ELSE recorder[a]]
    /\ UNCHANGED <<large, open, missed>>

Callback(t) == Record(t) \/ WriteLine(t) \/ WriteEnd(t) \/ OrigEnd(t) \/ Exit(t) \/ Ended(t)

Application(t, a) ==
    \E l, filtered \in BOOLEAN :
        \/ \E k \in Kinds : Allocate(t, k, a, l, filtered)
        \/ \E b \in Addrs : Reallocate(t, a, b, l, filtered)
        \/ Free(t, a, filtered)
        \/ Unmap(t, a, filtered)
        \/ Start(t, a, l)

Next == \E t \in Threads :
    /\ \/ Callback(t)
       \/ \E a \in Addrs : Application(t, a)
       \/ \E k \in Kinds, l \in BOOLEAN : AllocateFails(t, k, l)
    /\ UNCHANGED mode

Spec == Init /\ [][Next]_vars

-----------------------------------------------------------------------------
(***************************************************************************)
(* Properties.                                                             *)
(***************************************************************************)

\* Every free line answers an alloc line of its address that was written before it,
\* though entries of blocks freed elsewhere stay in the caches.
FreesMatched ==
    \A t \in Threads :
        pc[t] = "endline" /\ op[t].kind = "heap" => open["heap"][op[t].addr] > 0

\* The log knows of no two blocks at one address: when an allocation line is about to
\* be written, that of the block that was there before has its release line, unless
\* that block ended where the log could not learn of it.
LogAlternates ==
    \A t \in Threads :
        pc[t] \in {"got", "line"} /\ op[t].large /\ op[t].addr \notin missed[op[t].kind] \cup {Null}
            => open[op[t].kind][op[t].addr] = 0

\* A thread that logged a block still has it in its cache when it comes to release it,
\* however often the address was used before, by itself or by other threads.
LiveHeld ==
    \A a \in Addrs :
        mem[a] \in Kinds /\ recorder[a] # Null => cache[mem[a]][recorder[a]][a] > 0
=============================================================================
