# HiMem in TLA+

HiMem records the native allocations of an Android application.  It hooks
`malloc`, `free`, `mmap`, `munmap` and their relatives in every loaded library
by means of an embedded copy of ByteHook, writes one line per large block to a
log file, and a Python program, HiMemAnalyzer, turns that log into plots.  This
directory holds a formal model of the parts of it that are hard to get right:
TLA+ modules, instances of them that TLC checks, and theorems about them whose
proofs TLAPS checks.

To check a module: `tlc -config Analyzer.cfg MCAnalyzer`; to check its proofs:
`tlapm HookChainProofs.tla`.  `PROJECT.json` lists the runs, relates every
definition to the lines of code it stands for, and gives for each property a
mutation of the model (the definitions commented "Mutant of ...") that
violates it.

## 1. The system

Paths are relative to `src/HiMem/src/main/cpp/`.

    Java: init, memFlush, deInit    mem.cpp, mem_hook.cpp      Startup, Tracer
          | engine initialised, a task per function; symbols   SymTab
          v
    hook manager, tasks, ELF manager, dl monitor
          |   which libraries a task reaches                   HookEngine
          |   what locks hold when calls nest                  DlLock
          |   what happens in one library's GOT                GotHook
          |        | reads of mapped ELFs                      ElfTables
          |        | faults while an ELF is read or written    SigProtect
          v
    hook chains + trampolines bhook/bh_hook.c, bh_trampo.c     HookChain
          |
    proxies and callbacks     mem_hook.cpp, mem_callback.cpp   Recorder
          |   \
          |    address caches collection/*                     MemCache, AddrBag
          v
    log file                  mem_tracer.cpp, mem.cpp          Tracer
          |
    HiMemAnalyzer             src/HiMemAnalyzer/               Analyzer

| component | state it keeps | operations | what is hard | what makes it correct |
|---|---|---|---|---|
| hook chains, trampolines (`bh_hook.c`, `bh_trampo.c`) | per GOT slot a list of proxies with an enabled flag; per thread a stack of frames | add, delete a proxy; `push_stack`, `get_prev_func`, `pop_stack` | callers walk the list without the lock that writers hold; frames are matched with calls by a return address only; calls nest | a call enters each enabled proxy once, a proxy finds its own frame, no proxy is entered from inside itself, walks end |
| signal protection (`bytesig.c`, `.h`) | per signal a table of slots: owner and jump buffer | init, TRY, CATCH, EXIT, the handler | threads share the table without a lock; faults at any instruction, between the installation of the handler and that of its table too | a fault goes to its own block, or to the action that was there before; slots are given back, nobody waits for ever |
| address cache (`collection/`) | hash table of node lists, node array, ring of returned nodes, two wrapping counters | insert, remove | pool exhausted, counter wrapped, list corrupted: nothing notices | it is the bag of addresses its users take it for |
| proxies, callbacks (`mem_hook.cpp`, `mem_callback.cpp`) | per thread two caches; the mode; the stubs of the tasks | a proxy per hooked function; hook and unhook them all | between the original call and the line the address may be in use by another thread; memory is freed by another thread than that which allocated it | release lines answer allocation lines, in order; a stub is a task that is there |
| log file (`mem_tracer.cpp`, `mem.cpp`) | stream, count of bytes since the last flush | init, writeLine, memFlush, deInit | the stream and the count are unsynchronised globals; proxies run on after deInit | no written line is lost, lines are flushed again and again |
| engine initialisation (`bh_core.c`) | the status, the managers | bytehook_init | the status is read without the lock under which it is set; each step may fail | who finds the status OK finds everything made; who does not, makes no task |
| hook manager, tasks (`bh_hook_manager.c`, `bh_task*.c`) | the hooks, by GOT slot; tasks | hook, unhook, per ELF and per task, in two modes | GOT slots are found, verified, made writable and replaced while libraries come and go and others parse the same ELF | a task is installed in all its slots or reported as failed; an unhook restores them; pages get their protection back |
| ELF manager, dl monitor (`bh_elf_manager.c`, `bh_dl_monitor.c`) | the ELFs, abandoned ones, a read-write lock, a recursion count per thread | refresh, iterate, the proxies of dlopen and dlclose, callbacks for dlopen | two managers that meet new ELFs and new tasks in any order; several locks, one of them the linker's; code of others runs under most of them and calls back | every ELF meets every task once; no ELF is freed in use; no deadlock |
| ELF parsing (`bh_elf.c`, `bh_sleb128.c`) | the decoded tables of an ELF | parse, lookups by name and by address | two kinds of hash table, three of relocations, one of them packed; a flag that is read without its lock | all slots of a symbol are found |
| symbols of the system (`bh_linker.c`, `bh_dl.c`, `xdl/`) | what was found | lookup in `.symtab` of a file | files stripped, cut short, compressed | what is called as a function is that function |
| stack capture (`mem_stack.cpp`) | the address of DumpJavaStack | lookup, unwinding | calls into ART | only the text of a line depends on it |
| Kotlin interface (`com/himem/*.kt`) | none | init, flush, deInit | it promises more than the native code does (section 5) | see Tracer, Startup |
| analyzer, reading (`himem.py`, `handler/`, `utils/`) | the list of events | one handler per kind of line | the log has release lines without allocation lines and the reverse, and may end anywhere | events are those of the log |
| analyzer, plots (`plot/`) | running totals, groups of equal stacks | aggregation, removal of released blocks | blocks are matched by address only, in two ways | what is left is in use |
| vendored code (`tree.h`, `queue.h`), code not built (`xunwind/`), utilities, demo, no-op library | - | - | - | not modelled |

The interactions: a call of a hooked function jumps to the trampoline of its
GOT slot, which calls `push_stack` (HookChain) and goes on in the proxy it
returns; the proxy calls the original through `CALL_PREV` (HookChain), then a
callback (Recorder), which keeps the caches of its thread (MemCache) and writes
to the file (Tracer), whose lines the analyzer reads (Analyzer).  Meanwhile
tasks, made by Startup's `do_hook`, meet ELFs (HookEngine) that dlopen and dlclose
bring and take away (DlLock), look for their slots in each (GotHook, ElfTables)
and change the chains under their locks, protected from faults by SigProtect.

## 2. The modules

**HookChain** - `bh_hook.c`, `bh_trampo.c`, the macros of `bytehook.h`, and the
part of `bh_hook_manager.c` that decides which chain a task adds to.
`chain[h]` is the `running_list` of the slot `h`, oldest node first (nodes are
put in front and never freed, so an index is a pointer and the length is the
head of the list).  `Match` are the slots, by their libraries, that a task is
for.  `Rehook` says whether a proxy may be hooked by a second task while the first is there, as a second `init` without `deInit` does: then a node
can be enabled again (`ReEnable`) behind a newer one of the same proxy, and what
depends on `OldNodesOver` - looking the running proxy up by its address - is not
promised, nor is `NoProxyTwice`; `NoHookSkipped` is proved with it too.  Writers are atomic, as they hold `running_list_lock`; the
walks of readers look at one `enabled` flag per step (`ScanHit`, `Skip`,
`PrevHit`, `WalkEnd`).  `push_stack` copies the head of the list after its
walk, from which the chain may have grown: `Push` does so too.  `frames[t]` is
the bytehook stack of a thread, `stack[t]` its C stack as far as it goes
through trampolines; nothing in the code relates the two, the properties do.
`Site` stands for return addresses.  The search for the running proxy in
`get_prev_func` is one step, for functions and links never change.
`ThreadExit` is `pthread_exit` called as an original, with the destructor of
the thread's key.  Histories: `frame` and `due`, which no guard reads.

**SigProtect** - `bytesig_protect`, `bytesig_unprotect`, the handler and the
macros.  Every TRY of the repository names SIGSEGV and SIGBUS in this order and
none nests: `Signums` is one sequence for all.  A claim of a slot and the store
of the jump buffer are two steps, as are clearing and giving back; a weak
compare-and-swap may fail without reason (`Miss`).  A fault for which the
handler finds no slot, or the buffer of another block, leads to "lost".
`bytesig_init`, and the forwarding of the handler to the previous one (`Forward`), are in Startup.

**MemCache** - `MemoryCache` and `AllocPool`.  A cache is `thread_local`, so
operations do not overlap; the walks are step by step because they may never
end.  `Width` stands for 2^32, `Size` for the `1 << 15` nodes of the array; the
ring's memory is not initialised (`Init`: null or wild pointers; a wild one is
written through and the process dies).  When a node is asked for while all are
in use, or the counter has come back to zero, the history `lost` is set; what
is promised holds until then, and the model goes `LateMax` operations further.
The nodes of a list (`ListOf`) are the least set that has its first node and is
closed under `next`: it is there whether or not the links make a list.

**AddrBag** - the abstract specification: a bag of addresses, with the number held
and of nodes taken, whose operations answer truthfully until it is lost.  `MemCache` implements it under the mapping
at the end of that module.

**Recorder** - the proxies and the callbacks.  Each call is cut where another
thread's may come in between: the original allocation, the entry in the cache,
the line, the return; for releases the callback comes first.  The caches are
bags (AddrBag).  The allocator, the kernel and the application are external: a
block is used by one owner, may be freed by any thread, moved by `realloc`
(whose proxy only sees the new address), or be the stack of a thread
(`pthread_exit`'s proxy logs it as unmapped).  `filtered` stands for callers in
libraries that the filter leaves unhooked.  `open` is the log, as the number of
unanswered allocation lines per address.  Histories: `recorder`, `missed`.
Not modelled: calls that the unwinder makes from inside a callback, unmapping
of a part of a block; failed allocations are, but NULL and MAP_FAILED are not
counted in the cache.

**Tracer** - `mem_tracer.cpp` with `init`, `memFlush` and `deInit` of `mem.cpp`.
`writeLine` is cut at each access of `dumpFile` and `wroteSize`; the compiler
may use the value of `dumpFile` it tested or read it again, so `Write` takes
either.  A use of a closed stream, or a write to nullptr, is undefined: it sets
`misused` and the model stops.  Its specification is `LogSpec`, and `place` is where
a thread is, so that one module can have the proofs of Tracer and of MemCache.  stdio is external, one call one step: what does
not fit in the buffer is written with all that is in it.

**HookEngine** - `bh_core.c`, `bh_task_manager.c`, `bh_task.c`,
`bh_elf_manager.c`, `bh_hook_manager.c`, `bh_dl_monitor.c` together: which GOT slots a task
reaches while libraries come and go.  The linker and the application are
external: a library has a number of handles (`refs`), is mapped at an address
(`at`) and unmapped with its last handle.  `elf[e]` is the `bh_elf_t` made for
the mapping `e`, in the tree or abandoned; `chained` are the addresses of the tree
`hooks`, `enabled` the tasks in each chain (HookChain looks inside), `got` what the slots hold:
the original, the trampoline of the chain ("live"), or that of an abandoned one
("dead").  A thread is in one call at a time (`op`, `arg`, `pc`); `todo` is the
copy of the ELFs that a task goes through, or the copies of tasks for a new
ELF; it is a set, so any order is taken.  Locks are no variables: who holds the
dlclose lock, that of the task list and an ELF's `hook_lock` follows from where
threads are (`Readers`, `Writers`, `ListReaders`, `cur`).  Between the change of
a chain and that of its slot `cur` holds the pair; `Replace` and `ReplaceFails` end
it.  The first hook initialises the monitor (`TestMonitor`, `InitRefresh`,
`InitOpen`, `InitClose`), a hook meanwhile goes the way of `Oneshot`; until then, dlopen and
dlclose go unseen ("rawopen", "rawclose").  One symbol, hence one slot per
library; the two CFI functions are one step that may fail in `Brittle`
libraries, as verification and protection of a slot may.  Automatic mode,
Android 8 or later.  Histories: `told`, `unseen`, and `by`, the refresh that found
an ELF.  Manual mode, tasks limited to a callee and the slots of one library are in
GotHook; nested calls and the linker's lock in DlLock.

**DlLock** - `bh_dl_monitor.c` and the locks of the managers that are taken inside
of it.  A thread has a stack of calls (`stack[t]`, the innermost last), and code of others runs in
six places (`Places`): outside of all calls, in the callbacks before and after
dlopen, in constructors and destructors, in the `hooked` callback of a task.
From each it may call any of the six functions (`Call`), but for the pairs in
`Barred`.  `lock[x]` are the read-write locks, as bionic has them: readers are
preferred, a thread that holds the lock for writing gets EDEADLK, and unlocking
gives up whatever is held, by whomever.  `count` is the recursion count in the
TLS, `linker` the linker's recursive mutex.  What a task does to an ELF is one
step (`Install`); that is HookEngine's subject.  The history `odd` has the
mappings that came before there was a refresh and those that went unnoticed.

**ElfTables** - `bh_elf.c` and `bh_sleb128.c` as operators.  An image is what the
linker has mapped: symbols, styles of hash tables, relocations, the packed ones
as the bytes they are, segments.  `tab` is the set of the `bh_elf_t`'s fields
that have been set so far, and every operator answers for a partly parsed ELF
as the code does: a table of which only the pointer is known is not read, a
count without its pointer faults.  The bloom filter, buckets and chains are
written as the link editor does (external) and looked up as bhook does.

**GotHook** - `bh_hook_manager.c`, with the parsing of `bh_elf.c`: a meeting of a
task and one ELF from `bh_hook_manager_hook` to the report.  `dynParsed` is
tested without its lock, the dynamic section is parsed entry by entry (`Entry`),
the first hook takes the CFI lock if `CfiLock` (64-bit programs on Android 8 and
later).  A slot goes through add, verify, make writable, store and seal, each a
step under the ELF's lock; `prot` are the protections of pages that slots
share.  In the ELFs of `Crowded` the `mprotect` before the store may be refused
(`Refusals`), and `stuck` has the slots that an unhook could not write for that;
the one after the store gives the page the protection of its neighbours back, which needs no
mapping more, and succeeds.  `Manual` is manual mode: slots get the proxy, and the original is
told first.  Its tasks are single: their caller is this ELF.

**SymTab** - `bh_linker.c`, `bh_dl.c` and, of xDL, what HiMem calls: `xdl_open` by
name and `xdl_dsym`.  An ELF is its sections as the file has them: linked,
misnamed, outside of the file, `.gnu_debugdata` with an ELF inside.
**Startup** - `init` and `deInit` of `mem.cpp`, `mem_hook.cpp`, `bh_core_init`,
`bytesig_init`.  What there is to find on a system does not change, so it is
looked up when the behaviour starts (`Sight`); `made`, `action`, `table` are the
parts of the engine, `stub` and `live` the tasks.  Each step of the
initialisation may fail.

**Analyzer** - HiMemAnalyzer over the lines that Recorder writes: it EXTENDS Recorder,
and each step that writes a line (`ChartNext`) also feeds it to the handlers
(`HandleLine`), the removal of released blocks (`AdjustForMunmap`), the running
total (`Change`), so that every state shows the charts of a log that ends
there.  A line is the sequence of its segments.  Clusters are a fold over the
list (`Clusters`).  `site`, which names the thread that a line came from, is read
by properties only.

**HookChainProofs**, **SigProtectProofs**, **StartupProofs**, **TracerProofs**,
**RecorderProofs**, **HookEngineProofs**, **GotHookProofs**, **DlLockProofs** -
the theorems (section 4).  Each extends its module; TracerProofs has what the tracer
keeps, its log (Tracer) and its caches (MemCache), and RecorderProofs what is written
(Recorder) and what is read of it (Analyzer).
**MC...** - the instances for TLC: model values, symmetry, and, in MCGotHook and
MCStartup, the ELF files and phones.

## 3. The runs

| run | instance | shows |
|---|---|---|
| `chain_race` | 1 thread, 3 slots of 2 originals, 2 proxies, 3 tasks (a proxy is hooked, unhooked and hooked again), calls 2 deep, 2 frames | `TypeOK`, `OldNodesOver`, `NoProxyTwice`, `NoHookSkipped`, `FramesMatchCalls`, `NoReentry` while tasks come and go during nested calls |
| `chain_again` | 2 slots of 2 originals, the same tasks, two of one proxy at once (`Rehook`), calls 2 deep, 1 frame | `OneEnabledPerFunc`, `WalkEnds` when init is called twice, and when the stack of frames is full |
| `sig_slots` | 3 threads, 2 slots, 2 signals | `FaultsCaught`, `SlotsBalanced`, `NoStall` |
| `cache` | 2 addresses of one list, 4 nodes, counters modulo 8 | `NodesAccounted`, `ImplementsBag`, `WalkEnds` |
| `recorder` | 2 threads, 2 addresses, heap or map mode, 2 unanswered lines per address, 3 lines charted, total of 1 when a call begins | `FreesMatched`, `LogAlternates`, `LiveHeld` of the log; `BarsShowMemory`, `LineEndsAtBars`, `CutAllocsWhole` of what the analyzer makes of it |
| `analyzer_stacks` | the same in heap mode, two call sites with stacks of short frames | violation of `ExactClusters` (section 5) |
| `tracer` | 2 threads, lines of 1 and 2, threshold 2, stdio buffer 6, 2 recordings | `LinesSaved`, `FlushGoesOn` |
| `engine` | 2 threads, library l1 there from the start (one handle, hooking it may fail), l2 loaded by dlopen (up to 2 handles), a task for all libraries and a single task for l2 | `ChainPatched`, `UnhookComplete`, `HookedEverywhere`, `NoDeadlock` from before the first hook on |
| `engine_reload` | 1 thread, 2 mappings of each library, addresses used again | violation of `ToldIsHooked` (section 5) |
| `dl` | 3 threads, 2 libraries (one mapped twice, one opened twice), 1 task, 4 calls, nested 3 deep; destructors do not hook or unhook | `StuckByRisk`, `CleanAlone`, `ElfsMapped`, `HookedEverywhere` |
| `got` | 2 threads, 3 tasks (two of one symbol, one that names its callee), 66 images: 5 slots on 2 pages, 3 ways of packing, both hash tables, symbols of 4 types, originals verified in 4 ways; both modes | `AllSlotsFound`, `ProtectionKept`, `UnhookRestores`, `OkInAllSlots`, `ToldBeforeReplaced` |
| `start` | 2 threads, 2 calls of init, modes 1, 2, 4, 30 different findings from 11 linkers, 164 files of libart and 4 lists of libraries | `ReadyWhenUsed`, `FaultsForwarded`, `TasksOwned`, `SymbolsRight`, `InitEnds` |

Every state machine has a type invariant, Analyzer that of Recorder.  HookChain's is checked in its run and proved;
those of the other modules were found to hold in the same instances, by adding
`TypeOK` to the cfg, and are not part of the runs.  What the proofs need of types is part of
the inductive invariants.

Why the bounds are enough.  *HookChain*: threads share nothing but the chain,
and a thread meets any sequence of changes of the chain that other threads
could see, so one is enough; three tasks make a proxy's node old, disabled and
replaced by a newer one; two slots of one original let a proxy be called from
inside itself by way of another library; one frame and two calls (`chain_again`) fill the stack
of frames and go past it, while in `chain_race` there is room for every call that nests, so that
`FramesMatchCalls` at a full stack (170 frames of a page, in a 64-bit process) rests on the
theorem `FramesMatch`, for every `FrameMax`.  *SigProtect*: with more threads than slots, slots change hands
while others wait with a slot of the first signal in hand.  *MemCache*: four
nodes in one list are taken from its head, its middle and its end, the ring is
gone round and the counter comes back to zero within eight insertions.
*Recorder* and *Analyzer*: two addresses and two threads are one block that moves
or is freed elsewhere while the other address is taken over; three lines are
two of one address and one of another.  `MaxOpen` bounds unanswered lines, and entries of the
cache, per address, `MaxBars` the charted lines, `MaxTotal` the total: a call is not
begun beyond them.  Heap and map mode are separate behaviours of the instance;
the mixed mode, which the Kotlin interface starts by default although its
comment names the map mode, is too large for an exhaustive run.
*Tracer*: both threads can be past the comparison at once,
and a second recording can begin while a proxy of the first one runs.
*HookEngine*: two threads are a hook or unhook against a dlopen or dlclose, two
hooks at the first initialisation, or a dlopen against a dlclose; an ELF is
found by each of the three refreshes, met by both kinds of task, abandoned and
destroyed.  `MaxLoads` is 1 in the run that checks what is promised, as a library
that is mapped again is what breaks it: an ELF is known by its pathname and a
chain by its address, so either may be stale (section 5).  `MaxRefs` bounds handles.
*DlLock*: a deadlock through the linker takes two threads, and a reader or writer in
between a third; a call in a constructor in a callback is three deep.  *GotHook*:
two threads meet in the parsing, in the chain of a slot and at a page; a third
task by callee sees values that others have changed.  Two buckets and two words of
the bloom filter make names collide in each table; the 66 images
have each type of symbol, imported or exported, each style of hash table and each
packing.  `Crowded` is one of them: what `mprotect` does has nothing to do with tables.
*Startup*: two calls, at once or one after the other, before or after deInit;
a kind of section that is not usable comes before one that is.

Fairness.  `HookChain`: weak fairness of the steps of a walk, which take no
lock.  `SigProtect`: weak fairness of each thread's steps, and strong fairness of
its claim: a compare-and-swap on a slot that is free again and again succeeds
in the end; a body, which reads tables of an ELF, ends.  `MemCache` and
`Tracer`: a thread inside an operation goes on.  `Startup`: weak fairness of each
thread's steps; the lock is taken by at most two threads, once each per call of
init, so that a thread that waits for it cannot be passed for ever.  The other
modules have safety properties only (`NoDeadlock` and `StuckByRisk` are of
states: `Ready` names, place by place, what a call waits for, and `ENABLED` tells that it is all).  Nothing is assumed of the application: it need not call, hook or unhook anything.

Deadlock is not checked where the system may stop: HookChain and GotHook (tasks are
finite), MemCache (dead, or `LateMax` reached), HookEngine and DlLock (tasks, calls and mappings are
finite; `NoDeadlock` and `StuckByRisk` say instead that a call under way goes on), Tracer (`misused`, or `FileMax`
recordings over), Startup (`InitMax` calls over).  It is checked in SigProtect and Recorder.

## 4. The theorems

*HookChainProofs*, for any sets of threads, slots, originals, proxies and tasks
and any depth:

- `CallInvariant`: `CallInv` is inductive.  `FramesMatchCalls` alone is not: it
  says nothing of the calls under way.  `CallInv` adds to the types, for each
  thread, that frames and calls with a frame are paired in order, that a call
  in a proxy has a frame of its slot, its original and its return address, which
  mode goes with a frame and with active proxies, and that walks stay within
  the part of the chain that is there.  `FramesMatch`, `TypeCorrect` follow.
- `OneEnabled`: `OneEnabledPerFunc` is inductive given the types: both walks of
  `bh_hook_add_func` are over the whole list, under its lock.
- `OldNodes`: if no proxy is hooked twice at a time, `ListInv` is inductive: a node
  of a proxy behind a newer one belongs to a dead task (`Ordered`), a node is
  of the proxy of its task (`Owned`), and tasks of one proxy exclude each other
  (`Exclusive`).
- `Reentry`: from `CallInv` and `NestInv`: the frames on the stack are of
  different originals, so a call of an original that is on it goes past the
  proxies.
- `WalkInvariant`: `NoHookSkipped` is of calls that have reached the original.  `WalkInv` says what
  holds on the way: every proxy that is due has run or has an enabled node in the part of the
  list that the walk has still before it (`Covers`); a node that a walk has passed while it was
  disabled owes nothing, as a proxy enabled later is not due.  `CALL_PREV` looks the running proxy up by its
  address, from the frame's head, and so may go on from a newer node of it than the one that
  was run: then more is ahead, never less, so `NothingSkipped` holds with `Rehook` too.
- `NothingTwice` (`~Rehook`): the second half of `WalkInv` (`Once`): the proxies that ran are all
  behind the walk, and by `OldNodes` none of them has an enabled node ahead.

*SigProtectProofs*, for any number of threads, slots and distinct signals:

- `SlotInvariant`: `SlotInv` says for each place in the loops of protect and
  unprotect which signals the thread has a slot for, that it has one slot of
  each, and with whose jump buffer: all of it inductive.  `Caught` and
  `Balanced` follow.  The interference of other threads is confined to one
  lemma: they write slots only that are free or their own.

*StartupProofs*, for any threads, phones and modes and any number of calls of init:

- `StartInvariant`: `StartInv` is inductive.  `ReadyWhenUsed` speaks of the engine
  as it is found by others; what makes it true is what the one thread in the lock has
  made so far at each place (`Progress`), that it is one (`LockInv`), and that
  nobody has anything of the engine before the status says so (`EngineInv`).
  `Ready` and `Forwarded` follow from it.  `Owns` rests on what a thread has still to hook or
  to clear, which has no stub or no other task (`TaskInv`).
- `SymbolsFound`: a function of the linker or of ART that is called is the one of that name.  The steps call
  only what was found (`SymbolInv`); the rest is about the search, for any number of libraries,
  sections and symbols: what a search in a list yields is the first that fits, as a set of numbers has a least one
  (`Least`), so it is in some table of the file or of the one packed in it (`LinkerTable`, `XdlTable`), and
  a symbol of a table, moved by the load bias, is one of its homes (`LookupHome`).
  `PhonesType` says what the files and maps are: the lists are lists, addresses are natural numbers, a library is
  mapped from its lowest segment or above, the linker is not named libart.so, and the number of the
  linker's section of section names is zero or one of its sections.

*TracerProofs*, for any threads, sizes of lines and number of recordings, and any
addresses, hash function, size of the pool and width of its counters:

- `FileInvariant`: `LinesSaved` is of streams that are closed, but a proxy may
  have found one long before.  `FileInv` says that no stream has bytes in its
  buffer but the one in use.  `Saved` follows.
- `CacheInvariant`: that nodes are accounted for is not inductive, since a node might be
  in two lists by way of its links.  `CacheInv` says, until `lost`: no two nodes in use are
  linked to the same one, and none to the first of a list, so lists are disjoint and
  have no circle (`ListInv`); a node is in use, was never taken, or is in the part
  of the ring between `head` and `tail - Size`, once (`PoolInv`); a walk has the node
  that it looks for still ahead (`WalkInv`).  `Accounted` follows.
- `Refines`: MemCache implements AddrBag, step by step: the `Push` of an insert is `Insert` or
  `Lose`, the unlinking of a node `Remove`, a walk stutters; after `lost` all is `Unspecified`.

*RecorderProofs*, for any threads and addresses, any call sites and any bounds:

- `BookInvariant`: `BookInv` is inductive.  A block that is neither free nor the
  application's is in the hands of one call (`HeldInv`); its entry is with the thread
  that logged it (`RecordInv`, hence `Held`); it has one unanswered line at most (`LogInv`,
  hence `Alternates`).
- `Matched`: `FreesMatched` needs a sum over the caches of all threads, as any of them may
  release a block: the entries for an address, counted in all caches as one finite set
  (`Entries`), and the release line under way are not more than the unanswered lines and the
  allocation line under way (`HeapInv`).
- `ChartInvariant`: the bars of the analyzer are the unanswered lines.  Where no end was missed there is one
  bar at an address while a line is open there, and none otherwise (`OnceInv`); no release line
  is under way for a block in use, so its bar stays, with the parameters of its line (`ShownInv`).
  `BarsShow` follows.  In a log of malloc and free both makers have the same list, and the total is
  its sum (`HeapMode`), hence `LineEnds`; that the event which is removed may be another one
  that equals the one found does not matter, as its length is the same (`LatestRemoved`).  The sum of a list is a fold; the proof
  goes by induction over the sets of its first indices (`PartSumsThere`).
- `CutsAreWhole`: what is left of an allocation line keeps its segments but for the last, and no handler that makes an
  event of it takes the address or the length from that one.
- `ChartsWatch`: a behaviour with the charts is one of Recorder.

*HookEngineProofs*, for any threads, libraries and tasks and any bounds:

- `EngineInvariant` (`~Reuse`): an address means one mapping for good (`PlaceInv`), each
  call is where it may be, with the locks that go with it (`CallInv`), a pair of task and ELF is in
  the hands of one thread while its slot is written (`PairInv`), a chain is there as long as a
  proxy is enabled in it, and its slot leads there unless a thread is between the two
  (`SlotInv`).  `Patched` follows.  `HookLockFree` is what carries it: with the
  `hook_lock` of the ELF no second thread comes to a chain whose slot is not written yet.
- `UnhookDone` (`~Reuse`, `SingleFits`): `UnhookComplete` is of the end of an unhook.  Its
  invariant says what leads there: while a task that leaves is in the chain of a mapped library, the
  thread of its unhook has that ELF still before it (`LeaveInv`), and no other thread adds the task meanwhile
  (`OwnInv`).
- `HookDone` (`~Reuse`, `SingleFits`, `SingleOnce`): as long as a task is not in a library that
  it is for, some thread is going to bring the two together (`MeetInv`): the one that
  hooks the task, or the one whose dlopen found the library.  Both take the list and the tree in
  opposite order, which is why none is missed; the first refresh is `MonitorInv`.

- `SomeoneReady` (no condition): a thread at a GOT slot waits for nothing, and without one every hook lock is
  free; then no thread that goes through ELFs waits, so neither does the one that does the refresh
  of the first hook; without these the lock of dlclose is free.  `WaitInv` has threads with
  a hook lock, and that one, be where this says.

  `~Reuse`: no library is mapped at an address where another one was.  Without it the code does not do
  what is promised (`ToldIsHooked`, section 5), nor do the theorems hold.
  `SingleFits`: the name of a single task is that of one library; the code takes any
  that matches, and may take another one to unhook (`bh_task.c:161`).
  `SingleOnce`: where there are single tasks libraries are mapped once; a single task is
  finished with the first library it meets and does not come to a later mapping.
  The instance of `engine` satisfies all three, that of `engine_reload` has `Reuse`.

*GotHookProofs*, for any threads, tasks and ELFs, both modes:

- `GotInvariant` (`CfiLock`, `TablesRight`): `GotInv` is inductive.  Nobody but the thread with the CFI lock
  parses, and whoever comes later finds all tables (`ReadInv`); a task has one
  thread, which goes to the slots that it found (`BusyInv`); a page is writable for the thread that is
  between the two `mprotect`s only (`PageInv`); a slot with a chain has its
  trampoline, one without has the original, or its old trampoline when an unhook could not
  write it, but for the slot that a thread is replacing (`ChainInv`); a proxy is enabled where its task has been, or is still to go in order to unhook
  (`EnabledInv`); a task with OK is in each of its slots (`OkInv`); in manual mode
  a proxy is told before it is stored (`ToldInv`).
- `Found`, `Protected`, `Restored`, `Everywhere` and `ToldFirst` follow: the five properties of
  the run `got`.

  `CfiLock`: a 64-bit program on Android 8 or later; without it `AllSlotsFound` is false (section 5).
  `TablesRight`: a lookup in the whole tables of an image does not fault and finds the slots of the symbol, or, by
  callee, slots that hold it.  It is about data, walks of hash chains and packed numbers, and what recursive functions
  compute for every input is out of reach of the proof system; `AllSlotsFound` compares the same lookups with the relocations
  that each of the 66 images of the run was made from.

*DlLockProofs*, for any threads, libraries and tasks and any depth of nested calls:

- `CallInvariant`: all of it goes by the calls under way, counted by where they are (`Where`).  The
  lock count in a thread's TLS is the number of its calls in the linker (`CountInv`), and
  no call of dlclose is without a handle of its own to give back (`HandleInv`).
- `AlwaysCleanAlone` (no hook or unhook in a destructor): the write lock of dlclose is held by the thread
  whose outermost dlclose took it (`HoldInv`), and by as many readers as are between their lock and
  unlock (`ReadInv`), both by what a call may find around it in its own thread (`FitInv`).
- `AlwaysElfsMapped` (the same condition): a library with an ELF in the tree is mapped, has gone
  unnoticed, or is being closed by the one thread that has the write lock and will clean (`TreeInv`).
- `AlwaysHookedEverywhere` (no condition): a mapped library without an ELF has come unnoticed, or a refresh is
  still due, as a dlopen or dlclose is under way (`NewInv`); a task that is not in a library
  with an ELF is owed to it by a call that has both still before it (`OwedInv`).

- `SomeoneReady`: no calls wait for each other in a circle (`~AtRisk`).  `WaitInv` adds to `CallInv` whose
  each lock is: the linker belongs to the thread with calls in it, as often as its lock count says
  (`OwnerInv`); a call that refreshes is not in the linker (`CalmInv`); who has a lock for writing is where it is
  needed (`WriterInv`), and a lock has no more readers than there are calls that took it (`SharedInv`; it may
  have less, see section 5).  From that the order follows in which the locks are waited for: the one
  in the linker waits for nothing; then the one in a refresh, for the linker only; then the holder
  of the write lock of dlclose; then the readers of it, of the list of tasks and of that of callbacks; then their writers.

  The condition of `AlwaysCleanAlone` is on `Barred`: with a hook or unhook in a destructor the write lock is given
  away (section 5).  The run `dl` has it; `SomeoneReady` does not need it.

The assumptions are otherwise those of the modules' `ASSUME`s, which TLC evaluates in the
runs.  The invariants of HookEngine, GotHook, Recorder, Analyzer, MemCache and DlLock were checked by TLC, as invariants of
the instances of section 3 or smaller ones, before they were proved.

Only model-checked:

- liveness and `ENABLED`, out of reach of the proof system: `WalkEnds` (both),
  `NoStall`, `FlushGoesOn`, `InitEnds`, and of `NoDeadlock` and `StuckByRisk` the half that a call which has
  what it waits for goes on (`ReadyGoesOn`).  The other half, that there always is such a call, is
  `SomeoneReady`; `WaitsEnd` and `WaitsByRisk` put the two together;
- what a lookup in the whole tables of an image finds (`TablesRight`), a hypothesis of the theorems about GotHook:
  `AllSlotsFound` compares it with what each of the 66 images of the run `got` was made from.

No module has a `RECURSIVE` operator; what the recursive functions of ElfTables (`Unpacked`, the chains)
yield for every input would need induction over data.

## 5. Where code and documentation differ

Shown by a run:

- `ToldIsHooked` (`bh_hook_manager.c:114`).  The comment at line 346 says that the
  slot is replaced if that was not done yet.  Whether it was is told by the chain
  that is found for the address of the slot, and chains outlive their library:
  where a hooked library was closed and another one is mapped, a task is added
  to the old chain, its slot is left alone, and OK is reported.
- `ExactClusters` (`utils/StackUtils.py:21`).  The comment at line 14 says that every
  line of a stack is processed, and `README.md:149` that the lines of a cluster of the
  exact chart have entirely the same stack.  Only lines of more than 150 characters are kept: call
  sites that differ in frames of ordinary length are one cluster.

Limits of the code that the models show or that reading them for the models brought up, and that no
run states.  The first group are behaviours of the models, kept apart by a
condition of a property or by a constant; to see one, drop the condition.

- HookEngine, DlLock: a library that the refresh of a dlclose finds first is never
  announced (`bh_task_manager.c:101`, with no callback for newborn ELFs;
  `bh_elf_manager.c:165` speaks of one): one thread's dlopen has mapped it but not
  come to its own refresh, for which it is not new any more.  `HookedEverywhere` is
  of the others.
- HookEngine, DlLock: a library that is mapped again before a refresh has noticed that
  it went is taken for the one before (`bh_elf_manager.c:96`).  After
  `bytehook_add_dlopen_callback` and before the first hook no refresh is made
  at all (`bh_dl_monitor.c:638`).
- DlLock: a hook or unhook in a destructor gets EDEADLK for the read lock, whose
  result nobody looks at, and its unlock gives away the write lock of the dlclose
  around it (`bh_dl_monitor.c:410`, `:676`): what `bh_elf_manager.c:154` relies on
  does not hold, and `CleanAlone` fails.  `TameDestructors` leaves them out.
- DlLock: the nestings in `Risky` can deadlock.  A constructor or destructor that hooks, unhooks or
  changes the dlopen callbacks waits, in the linker, for a lock whose holder
  waits for the linker; a dlopen callback that changes the list of callbacks waits
  for itself, and so does a task's callback that unhooks or closes.
- GotHook: tasks that name their callee look for their slots by what these hold.  After
  the hook that is the trampoline, so an unhook finds nothing
  (`bh_hook_manager.c:416`, `:579`), and neither does a second task.
- GotHook: when `mprotect` refuses an unhook the slot keeps the trampoline of a chain that is
  gone (`bh_hook_manager.c:270`, `:419`), and is never hooked again: the trampoline is in no library that
  `dladdr` knows, so a later hook ends with GOT_VERIFY.  In manual mode the proxy of the task
  that is gone stays.
- GotHook: in a program without the CFI lock (32-bit, or Android 7) a task that finds
  `dyn_parsed` set while another thread still parses sees no tables, or a count
  without its pointer, and the ELF is given up (`bh_elf.c:248`).  `AllSlotsFound` fails with
  `CfiLock = FALSE`.
- GotHook: with `.hash` alone, or an empty `.gnu.hash`, calls inside of the library are not
  found (`bh_elf.c:517`).  In manual mode the original is told before the ELF is
  locked, so it may be another task's proxy, and tasks that are not unhooked in reverse
  order bring back a proxy that is gone (`bh_hook_manager.c:454`).
- Tracer: `wroteSize` is set to zero after the flush, and so forgets what others
  counted in between (`mem_tracer.cpp:50`); `HiMemNative.kt:42` says that the log is
  flushed past the threshold.  `FlushGoesOn` shows that this is not for ever.
- Tracer: a proxy that has tested `dumpFile` writes to it after `fclose`
  (`mem_tracer.cpp:46`): unhooking does not wait for running proxies, although
  `HiMemNative.kt:58` has deInit end the monitoring.  The model stops there (`misused`).
- MemCache: `AllocPool::apply` does not notice that all nodes are in use, or that `tail` has
  come back to zero (`AllocPool.hpp:44`): it hands out a pointer that was never written, or a node that is
  in a list, and lists may become circles.  `lost` marks that; all properties of the cache are about what
  comes before.
- Recorder: a failed allocation is logged as a block at NULL (`mem_hook.cpp:87`), which no release line
  answers, and `realloc` does not log the end of the old block (`mem_hook.cpp:103`).  `LogAlternates`, `LiveHeld` and
  `BarsShowMemory` are about addresses of memory, and `missed` has what ended unlogged.
- Startup: between `sigaction` and the store of the table (`bytesig.c:277`) the handler finds no
  table.  An `init` over a recording that goes on leaves the first one's tasks
  without stubs (`mem_hook.cpp:143`).

By reading only:

- `bytesig.c:248`: if the previous action was SIG_DFL, the handler returns and the fault
  repeats.  Startup calls any previous action that of the application.
- `mem.cpp:25`: a second deInit deletes the global reference again.
  `mem_stack.cpp:56`: the xDL handle is never closed.
- `xdl_iterate.c:153`: a buffer is used after the end of its block.
  `xdl_linker.c` sets `inited` before the mutex is found.
- `bh_dl.c:108` does not compare `e_shstrndx` with the number of sections, as `xdl.c:312` does,
  and would read past the table of them.  `PhonesType` leaves out linkers of which that number is none
  of a section or zero; a linker with zero is among the phones of the run.
- The mode that `HiMemNative.kt` starts with is 4, both; its comment says `MMAP_MODE`.

## 6. Not modelled

- Allocation failures in the hook manager (`bh_hook_manager.c:125`), an `mprotect` that fails to take
  the right to write from a page again (`bh_hook_manager.c:289`), and a failing
  initialisation of the monitor; a single task whose name matches two libraries
  (`bh_task.c:161`).  Each adds a dimension to modules that are at the limit of
  an exhaustive run.
- In the log: release lines that are cut in the address, for which the analyzer's
  `int('')` raises an exception; lengths of 2^31 and more, which are printed with
  `%d` (`mem_tracer.cpp:61-78`); the unmapping of a part of a block; calls that
  the unwinder makes from inside a callback.
- Calls of destroy at the same time: nothing in the code or the documentation
  allows them.  `sync_refresh = false` of `bh_task_manager_post_dlclose`: it cannot
  be reached.  `sigHandler` and `initSigaction` of `mem.cpp`: nobody calls them.
- Of xDL: `xdl_addr`, `xdl_sym`, forced loads, and the decompression, which HiMem does
  not call or which is external.  The trees and queues (`tree.h`, `queue.h`) are
  taken as the sets and lists that they implement.  `xunwind` is not built.
- Unwinding and ART; sorting, labels and drawing; wrappers, logging, the no-op
  library, the demo: no state of their own, or output only.

## 7. Plan

Done: all modules of section 2 with their runs; the proofs of section 4.  What is left is what
section 4 lists as only model-checked, and the parts of section 6 that would be modules of their own:
allocation failures in the hook manager, and single tasks that match two libraries.
