----------------------------- MODULE HookEngine -----------------------------
(***************************************************************************)
(* Which GOT slots a hook task reaches (bh_core.c, bh_task_manager.c,      *)
(* bh_task.c, bh_elf_manager.c, bh_hook_manager.c, bh_dl_monitor.c).       *)
(*                                                                         *)
(* A task wants its proxy in the GOT slot of every library that its filter *)
(* allows.  Libraries come and go while tasks do: a hook goes through the  *)
(* libraries that the ELF manager knows, a dlopen that the dl monitor sees *)
(* refreshes the ELF manager and goes through the tasks for each library   *)
(* that is new to it, and a dlclose refreshes it too.  What keeps these    *)
(* apart is a read-write lock around dlclose, one around the list of       *)
(* tasks, and a mutex per ELF.  The slots are those of one symbol, one per *)
(* library; automatic mode on Android 8 or later, where the monitor hooks  *)
(* the loader's entries in libdl.so.                                       *)
(***************************************************************************)
EXTENDS Naturals, FiniteSets

CONSTANTS
    Threads,    \* threads that hook, unhook, load and unload
    Libs,       \* pathnames of libraries
    Initial,    \* those that are loaded at the start
    Tasks,      \* calls of bytehook_hook_*, each with a proxy of its own
    Single,     \* those that are made with bytehook_hook_single
    Match,      \* Match[k]: the libraries that task k is for
    Brittle,    \* libraries where hooking may fail: protection, verification
    MaxRefs,    \* bound: MaxRefs[l], the handles on a library at a time
    MaxLoads,   \* bound: how often a library is mapped
    Reuse,      \* may a library be mapped where another one was?
    None

ASSUME LibsType == Initial \subseteq Libs /\ Brittle \subseteq Libs
ASSUME TasksType == Single \subseteq Tasks /\ Match \in [Tasks -> SUBSET Libs]
ASSUME BoundsType == MaxRefs \in [Libs -> Nat \ {0}] /\ MaxLoads \in Nat \ {0}
ASSUME ReuseType == Reuse \in BOOLEAN
ASSUME NoneType == None \notin Threads \cup Tasks \cup Libs
ASSUME ThreadsType == Threads \cap {"no", "done"} = {}

\* A mapping of a library: its n-th one.  It also names the address of the
\* GOT slot in it, and the bh_elf_t that the ELF manager makes for it.
Instances == Libs \X (1..MaxLoads)
Path(e) == e[1]

VARIABLES
    \* the linker
    refs,       \* refs[l]: the handles on a library, 0 when it is not mapped
    loads,      \* loads[l]: how often it was mapped
    at,         \* at[l]: the address it is mapped at
    got,        \* got[a]: what the slot at address a holds
    \* the ELF manager
    elf,        \* elf[e]: the bh_elf_t of a mapping
    \* the hook manager: a chain for each address
    chained,    \* addresses with a chain in 'hooks'
    enabled,    \* enabled[a]: tasks whose proxies are enabled in the chain
    origFunc,   \* origFunc[a]: what the slot held before the chain
    \* the tasks
    status,     \* status[k]
    \* the dl monitor
    monitor,    \* how far its initialisation has come
    oneshot,    \* oneshot_refreshed, or the thread that is at it
    \* threads
    op, arg,    \* the call a thread is in and what it is about
    pc,         \* where it is in it
    todo,       \* pairs of a task and an ELF it is still to bring together
    cur,        \* the pair whose GOT slot it is about to write, if any
    new,        \* ELFs that are new and not yet announced to the tasks
    \* history
    told,       \* pairs reported with BYTEHOOK_STATUS_CODE_OK
    unseen      \* libraries that were mapped or unmapped without the monitor

linker == <<refs, loads, at>>
chains == <<chained, enabled, origFunc>>
engine == <<monitor, oneshot>>
local == <<op, arg, pc, todo, cur, new>>
vars == <<linker, got, elf, chains, status, engine, local, told, unseen>>

Ops == {"none", "hook", "unhook", "open", "rawopen", "close", "rawclose"}

\*   monitor, init, initopen, initclose, oneshot, start
\*                    bh_task_manager_hook before it hooks
\*   meet             with an ELF and a task, or about to
\*   new              between the new ELFs of a refresh
\*   call, post       dlopen, before and after the original function
\*   wrlock, unload, clean   dlclose
PC == {"idle", "monitor", "init", "initopen", "initclose", "oneshot", "start",
       "meet", "new", "call", "post", "wrlock", "unload", "clean"}

NoElf == [st |-> "none", at |-> None, by |-> "none", cfi |-> "unknown"]

TypeOK ==
    /\ refs \in [Libs -> Nat] /\ \A l \in Libs : refs[l] <= MaxRefs[l]
    /\ loads \in [Libs -> 0..MaxLoads]
    /\ at \in [Libs -> Instances \cup {None}]
    /\ got \in [Instances -> {"orig", "live", "dead"}]
    /\ elf \in [Instances -> [st : {"none", "tree", "abandoned"},
                              at : Instances \cup {None},
                              by : {"none", "oneshot", "open", "close"},
                              cfi : {"unknown", "ok", "failed"}]]
    /\ chained \subseteq Instances
    /\ enabled \in [Instances -> SUBSET Tasks]
    /\ origFunc \in [Instances -> {"orig", "dead"}]
    /\ status \in [Tasks -> {"new", "unfinished", "finished",
                             "unhooking", "gone"}]
    /\ monitor \in {"off", "init", "open", "on"}
    /\ oneshot \in Threads \cup {"no", "done"}
    /\ op \in [Threads -> Ops]
    /\ arg \in [Threads -> Tasks \cup Libs \cup {None}]
    /\ pc \in [Threads -> PC]
    /\ todo \in [Threads -> SUBSET (Tasks \X Instances)]
    /\ cur \in [Threads -> SUBSET (Tasks \X Instances)]
    /\ new \in [Threads -> SUBSET Instances]
    /\ told \subseteq Tasks \X Instances
    /\ unseen \subseteq Libs \X {"load", "unload"}

Init ==
    /\ refs = [l \in Libs |-> IF l \in Initial THEN 1 ELSE 0]
    /\ loads = refs
    /\ at = [l \in Libs |-> IF l \in Initial THEN <<l, 1>> ELSE None]
    /\ got = [a \in Instances |-> "orig"]
    /\ elf = [e \in Instances |-> NoElf]
    /\ chained = {}
    /\ enabled = [a \in Instances |-> {}]
    /\ origFunc = [a \in Instances |-> "orig"]
    /\ status = [k \in Tasks |-> "new"]
    /\ monitor = "off"
    /\ oneshot = "no"
    /\ op = [t \in Threads |-> "none"]
    /\ arg = [t \in Threads |-> None]
    /\ pc = [t \in Threads |-> "idle"]
    /\ todo = [t \in Threads |-> {}]
    /\ cur = [t \in Threads |-> {}]
    /\ new = [t \in Threads |-> {}]
    /\ told = {}
    /\ unseen = {}

-----------------------------------------------------------------------------
(* Locks: who holds one follows from where threads are. *)

\* bh_dl_monitor_dlclose_lock: around hooking, unhooking and the refresh that
\* follows dlopen for reading, around dlclose for writing.
Readers == {t \in Threads : pc[t] \in {"meet", "new"}}
Writers == {t \in Threads : pc[t] \in {"unload", "clean"} /\ op[t] = "close"}
CanRead == Writers = {}
CanWrite == Readers = {} /\ Writers = {}

\* The lock of the task list is held for reading while a new ELF is brought
\* together with all tasks; bh_task_manager_add and _del write the list.
ListReaders == {t \in Threads : pc[t] = "meet" /\ op[t] = "open"}
CanChangeList == ListReaders = {}

\* elf->hook_lock, held from the change of the chain to that of the slot.
\* Mutant of HookLockFree: the chain and the slot are changed without it.
HookLockMissing(e) == TRUE
HookLockFree(e) == \A t \in Threads, k \in Tasks : <<k, e>> \notin cur[t]

-----------------------------------------------------------------------------
(* The linker and the ELF manager. *)

Loaded == {l \in Libs : refs[l] > 0}
Mapped(e) == Path(e) \in Loaded /\ at[Path(e)] = elf[e].at
Tree == {e \in Instances : elf[e].st = "tree"}

\* ELFs are found by pathname: what is mapped under a known one is not new.
Known == {Path(e) : e \in Tree}
Born == {<<l, loads[l]>> : l \in Loaded \ Known}

\* bh_elf_manager_refresh: ELFs of libraries that are not there any more are
\* abandoned; under the write lock of dlclose abandoned ones are destroyed.
Refreshed(by) ==
    [e \in Instances |->
        LET gone == elf[e].st = "tree" /\ Path(e) \notin Loaded
        IN  IF e \in Born
            THEN [st |-> "tree", at |-> at[Path(e)], by |-> by,
                  cfi |-> "unknown"]
            ELSE IF by = "close" /\ (gone \/ elf[e].st = "abandoned")
            THEN NoElf
            ELSE IF gone THEN [elf[e] EXCEPT !.st = "abandoned"]
            ELSE elf[e]]

-----------------------------------------------------------------------------
(* Tasks. *)

\* Mutant of Listed: an unhook takes its task from the list at its end.
ListedTooLong ==
    {k \in Tasks : status[k] \in {"unfinished", "finished", "unhooking"}}

\* Mutant of Listed: a hook puts its task in the list at its end.
ListedTooLate ==
    {k \in Tasks : /\ status[k] \in {"unfinished", "finished"}
                   /\ \A t \in Threads : op[t] = "hook" => arg[t] # k}

\* The task list of the task manager.
Listed == {k \in Tasks : status[k] \in {"unfinished", "finished"}}

\* bh_task_check_pre_hook: a single task that has met its ELF is done.
Finished(k) == status[k] = "finished"
Ended(k) == [status EXCEPT ![k] =
                IF k \in Single /\ @ = "unfinished" THEN "finished" ELSE @]

\* What a task is to meet among the ELFs of a tree: all of those it is for,
\* or, for a single task, one (bh_elf_manager_find_elf).
Targets(k, tree) ==
    LET fit == {e \in tree : Path(e) \in Match[k]}
    IN  IF k \in Single /\ fit # {} THEN {{e} : e \in fit} ELSE {fit}

Goto(t, where) == pc' = [pc EXCEPT ![t] = where]
Enter(t, o, x, where) ==
    /\ pc[t] = "idle"
    /\ op' = [op EXCEPT ![t] = o]
    /\ arg' = [arg EXCEPT ![t] = x]
    /\ Goto(t, where)
Return(t) ==
    /\ op' = [op EXCEPT ![t] = "none"]
    /\ arg' = [arg EXCEPT ![t] = None]
    /\ Goto(t, "idle")

\* bytehook_hook_*: the task is put in the list.
Hook(t, k) ==
    /\ status[k] = "new"
    /\ CanChangeList
    /\ Enter(t, "hook", k, "monitor")
    /\ status' = [status EXCEPT ![k] = "unfinished"]
    /\ UNCHANGED <<linker, got, elf, chains, engine, todo, cur, new,
                   told, unseen>>

\* bytehook_unhook, of a stub that bytehook_hook_* has returned: the task is
\* taken from the list.
Unhook(t, k) ==
    /\ k \in Listed
    /\ \A u \in Threads : arg[u] # k
    /\ CanChangeList
    /\ Enter(t, "unhook", k, "start")
    /\ status' = [status EXCEPT ![k] = "unhooking"]
    /\ UNCHANGED <<linker, got, elf, chains, engine, todo, cur, new,
                   told, unseen>>

\* The first hook initialises the dl monitor, under a mutex; a hook that
\* comes meanwhile goes another way.
TestMonitor(t) ==
    /\ pc[t] = "monitor"
    /\ \/ monitor = "off" /\ monitor' = "init" /\ Goto(t, "init")
       \/ monitor \in {"init", "open"} /\ Goto(t, "oneshot")
          /\ UNCHANGED monitor
       \/ monitor = "on" /\ Goto(t, "start") /\ UNCHANGED monitor
    /\ UNCHANGED <<linker, got, elf, chains, status, oneshot, op, arg, todo,
                   cur, new, told, unseen>>

\* The monitor's own task for dlopen comes through bh_task_manager_hook too,
\* and refreshes the ELFs if nobody has.
InitRefresh(t) ==
    /\ pc[t] = "init"
    /\ \/ oneshot = "no" /\ oneshot' = t /\ elf' = Refreshed("oneshot")
       \/ oneshot = "done" /\ UNCHANGED <<oneshot, elf>>
    /\ Goto(t, "initopen")
    /\ UNCHANGED <<linker, got, chains, status, monitor, op, arg, todo, cur,
                   new, told, unseen>>

\* From here on dlopen is the monitor's.
InitOpen(t) ==
    /\ pc[t] = "initopen"
    /\ monitor' = "open"
    /\ oneshot' = IF oneshot = t THEN "done" ELSE oneshot
    /\ Goto(t, "initclose")
    /\ UNCHANGED <<linker, got, elf, chains, status, op, arg, todo, cur, new,
                   told, unseen>>

\* From here on dlclose is.
InitClose(t) ==
    /\ pc[t] = "initclose"
    /\ monitor' = "on"
    /\ Goto(t, "start")
    /\ UNCHANGED <<linker, got, elf, chains, status, oneshot, op, arg, todo,
                   cur, new, told, unseen>>

\* A hook while the monitor is being initialised.
Oneshot(t) ==
    /\ pc[t] = "oneshot"
    /\ \/ /\ oneshot = "no"
          /\ CanRead
          /\ oneshot' = t
          /\ elf' = Refreshed("oneshot")
          /\ \E es \in Targets(arg[t], {e \in Instances : elf'[e].st = "tree"}) :
                todo' = [todo EXCEPT ![t] = {arg[t]} \X es]
          /\ Goto(t, "meet")
       \/ /\ oneshot = "done"
          /\ Goto(t, "start")
          /\ UNCHANGED <<oneshot, elf, todo>>
    /\ UNCHANGED <<linker, got, chains, status, monitor, op, arg, cur, new,
                   told, unseen>>

\* The read lock is taken and the ELFs are copied or looked up.
Start(t) ==
    /\ pc[t] = "start"
    /\ CanRead
    /\ \E es \in Targets(arg[t], Tree) :
          todo' = [todo EXCEPT ![t] =
                      IF Finished(arg[t]) THEN {} ELSE {arg[t]} \X es]
    /\ Goto(t, "meet")
    /\ UNCHANGED <<linker, got, elf, chains, status, engine, op, arg, cur,
                   new, told, unseen>>

-----------------------------------------------------------------------------
(* A task meets an ELF. *)

\* A thread that is with no GOT slot takes the next pair.
Meets(t, k, e) ==
    /\ pc[t] = "meet"
    /\ cur[t] = {}
    /\ <<k, e>> \in todo[t]

Drop(t, k, e) == todo' = [todo EXCEPT ![t] = @ \ {<<k, e>>}]

\* bh_hook_manager_find_hook: by the address of the slot.
HasChain(e) == elf[e].at \in chained

\* bh_hook_manager_hook first hooks the ELF's CFI functions, once.
HookCfi(t, k, e) ==
    /\ Meets(t, k, e)
    /\ op[t] # "unhook"
    /\ ~Finished(k)
    /\ elf[e].cfi = "unknown" /\ Mapped(e)
    /\ \E r \in {"ok"} \cup {"failed" : l \in Brittle \cap {Path(e)}} :
          elf' = [elf EXCEPT ![e].cfi = r]
    /\ UNCHANGED <<linker, got, chains, status, engine, local, told, unseen>>

\* Nothing is done with an ELF that cannot be hooked, nor for a single task
\* that has found its ELF meanwhile.  An ELF that cannot be read, as its library
\* is not there any more, is marked.
Skip(t, k, e) ==
    /\ Meets(t, k, e)
    /\ \/ op[t] # "unhook" /\ (Finished(k) \/ elf[e].cfi = "failed")
       \/ op[t] = "unhook" /\ ~HasChain(e)
       \/ ~Mapped(e)
    /\ status' = IF op[t] # "unhook" THEN Ended(k) ELSE status
    /\ elf' = [elf EXCEPT ![e].cfi = IF Mapped(e) THEN @ ELSE "failed"]
    /\ Drop(t, k, e)
    /\ UNCHANGED <<linker, got, chains, engine, op, arg, pc, cur, new,
                   told, unseen>>

\* bh_hook_manager_add_func to the chain that the hook manager has for the
\* address: the slot is not touched.
AddFunc(t, k, e) ==
    /\ Meets(t, k, e)
    /\ op[t] # "unhook" /\ ~Finished(k)
    /\ elf[e].cfi = "ok" /\ Mapped(e) /\ HookLockFree(e)
    /\ HasChain(e)
    /\ enabled' = [enabled EXCEPT ![elf[e].at] = @ \cup {k}]
    /\ told' = IF k \in enabled[elf[e].at] THEN told ELSE told \cup {<<k, e>>}
    /\ status' = Ended(k)
    /\ Drop(t, k, e)
    /\ UNCHANGED <<linker, got, elf, chained, origFunc, engine, op, arg, pc,
                   cur, new, unseen>>

\* bh_hook_manager_add_func to a new chain: the slot is next.
AddChain(t, k, e) ==
    /\ Meets(t, k, e)
    /\ op[t] # "unhook" /\ ~Finished(k)
    /\ elf[e].cfi = "ok" /\ Mapped(e) /\ HookLockFree(e)
    /\ ~HasChain(e)
    /\ chained' = chained \cup {elf[e].at}
    /\ enabled' = [enabled EXCEPT ![elf[e].at] = {k}]
    /\ origFunc' = [origFunc EXCEPT ![elf[e].at] = got[elf[e].at]]
    /\ cur' = [cur EXCEPT ![t] = {<<k, e>>}]
    /\ Drop(t, k, e)
    /\ UNCHANGED <<linker, got, elf, status, engine, op, arg, pc, new, told,
                   unseen>>

\* bh_hook_manager_del_func: the chain that results for address a.  A chain
\* without an enabled proxy is abandoned; a slot that led to it still does.
DelFunc(k, a) ==
    LET left == enabled[a] \ {k}
    IN  /\ enabled' = [enabled EXCEPT ![a] = left]
        /\ chained' = IF left = {} THEN chained \ {a} ELSE chained
        /\ got' = IF left = {} /\ got[a] = "live"
                  THEN [got EXCEPT ![a] = "dead"] ELSE got

\* bh_hook_manager_unhook_single_got up to the restoring of the slot.
Delete(t, k, e) ==
    /\ Meets(t, k, e)
    /\ op[t] = "unhook"
    /\ Mapped(e) /\ HookLockFree(e)
    /\ HasChain(e)
    /\ DelFunc(k, elf[e].at)
    /\ cur' = [cur EXCEPT ![t] =
                  IF elf[e].at \in chained' THEN {} ELSE {<<k, e>>}]
    /\ Drop(t, k, e)
    /\ UNCHANGED <<linker, elf, origFunc, status, engine, op, arg, pc, new,
                   told, unseen>>

\* bh_hook_manager_replace_got_value: to the trampoline of the new chain, or
\* back to what was there before.
Replace(t, k, e) ==
    /\ <<k, e>> \in cur[t]
    /\ got' = [got EXCEPT ![elf[e].at] =
                  IF op[t] = "unhook" THEN origFunc[elf[e].at] ELSE "live"]
    /\ told' = IF op[t] = "unhook" THEN told ELSE told \cup {<<k, e>>}
    /\ status' = IF op[t] = "unhook" THEN status ELSE Ended(k)
    /\ cur' = [cur EXCEPT ![t] = {}]
    /\ UNCHANGED <<linker, elf, chains, engine, op, arg, pc, todo, new, unseen>>

\* It fails: a hook takes its proxy back from the chain.
ReplaceFails(t, k, e) ==
    /\ <<k, e>> \in cur[t]
    /\ Path(e) \in Brittle
    /\ IF op[t] = "unhook"
       THEN UNCHANGED <<chained, enabled, got, status>>
       ELSE DelFunc(k, elf[e].at) /\ status' = Ended(k)
    /\ cur' = [cur EXCEPT ![t] = {}]
    /\ UNCHANGED <<linker, elf, origFunc, engine, op, arg, pc, todo, new,
                   told, unseen>>

\* Mutant of Finish: a oneshot hook keeps its lock.
FinishLocked(t) ==
    /\ pc[t] = "meet" /\ cur[t] = {} /\ todo[t] = {}
    /\ status' = [k \in Tasks |->
                    IF op[t] = "unhook" /\ k = arg[t] THEN "gone" ELSE status[k]]
    /\ IF op[t] = "open" THEN Goto(t, "new") /\ UNCHANGED <<op, arg>>
                         ELSE Return(t)
    /\ UNCHANGED <<linker, got, elf, chains, engine, todo, cur, new,
                   told, unseen>>

\* All pairs are done.  A hook returns; an unhook destroys its task; a dlopen
\* goes on with its next new ELF.
Finish(t) ==
    /\ pc[t] = "meet" /\ cur[t] = {} /\ todo[t] = {}
    /\ oneshot' = IF oneshot = t THEN "done" ELSE oneshot
    /\ status' = [k \in Tasks |->
                    IF op[t] = "unhook" /\ k = arg[t] THEN "gone" ELSE status[k]]
    /\ IF op[t] = "open" THEN Goto(t, "new") /\ UNCHANGED <<op, arg>>
                         ELSE Return(t)
    /\ UNCHANGED <<linker, got, elf, chains, monitor, todo, cur, new,
                   told, unseen>>

-----------------------------------------------------------------------------
(* dlopen and dlclose. *)

\* A call of dlopen: whether it is the monitor's depends on libdl's slot.
Dlopen(t, l) ==
    /\ refs[l] < MaxRefs[l] /\ (l \in Loaded \/ loads[l] < MaxLoads)
    /\ Enter(t, IF monitor \in {"open", "on"} THEN "open" ELSE "rawopen",
             l, "call")
    /\ UNCHANGED <<linker, got, elf, chains, status, engine, todo, cur, new,
                   told, unseen>>

\* Where the next mapping of l may lie.
Places(l) ==
    {<<l, loads[l] + 1>>} \cup
    {a \in Instances : Reuse /\ a[2] <= loads[a[1]]
                             /\ \A m \in Loaded : at[m] # a}

\* The original dlopen.
Load(t) ==
    /\ pc[t] = "call"
    /\ LET l == arg[t] IN
       /\ refs[l] < MaxRefs[l]
       /\ refs' = [refs EXCEPT ![l] = @ + 1]
       /\ \/ l \in Loaded /\ UNCHANGED <<loads, at, got, unseen>>
          \/ /\ l \notin Loaded /\ loads[l] < MaxLoads
             /\ loads' = [loads EXCEPT ![l] = @ + 1]
             /\ \E a \in Places(l) :
                   /\ at' = [at EXCEPT ![l] = a]
                   /\ got' = [got EXCEPT ![a] = "orig"]
             /\ unseen' = IF op[t] = "open" THEN unseen
                          ELSE unseen \cup {<<l, "load">>}
    /\ IF op[t] = "open" THEN Goto(t, "post") /\ UNCHANGED <<op, arg>>
                         ELSE Return(t)
    /\ UNCHANGED <<elf, chains, status, engine, todo, cur, new, told>>

\* dlopen fails.
LoadFails(t) ==
    /\ pc[t] = "call"
    /\ Return(t)
    /\ UNCHANGED <<linker, got, elf, chains, status, engine, todo, cur, new,
                   told, unseen>>

\* bh_task_manager_post_dlopen.
PostDlopen(t) ==
    /\ pc[t] = "post"
    /\ CanRead
    /\ elf' = Refreshed("open")
    /\ new' = [new EXCEPT ![t] = Born]
    /\ Goto(t, "new")
    /\ UNCHANGED <<linker, got, chains, status, engine, op, arg, todo, cur,
                   told, unseen>>

\* bh_task_manager_post_new_elf: the next new ELF and all tasks.
NewElf(t, e) ==
    /\ pc[t] = "new"
    /\ e \in new[t]
    /\ new' = [new EXCEPT ![t] = @ \ {e}]
    /\ todo' = [todo EXCEPT ![t] = {k \in Listed : Path(e) \in Match[k]} \X {e}]
    /\ Goto(t, "meet")
    /\ UNCHANGED <<linker, got, elf, chains, status, engine, op, arg, cur,
                   told, unseen>>

\* dlopen returns.
Opened(t) ==
    /\ pc[t] = "new"
    /\ new[t] = {}
    /\ Return(t)
    /\ UNCHANGED <<linker, got, elf, chains, status, engine, todo, cur, new,
                   told, unseen>>

\* Handles that calls under way are about to return, or to give back.
Pending(l) ==
    {t \in Threads :
        /\ arg[t] = l
        /\ \/ op[t] \in {"close", "rawclose"}
           \/ op[t] = "open" /\ pc[t] # "call"}

\* A call of dlclose with a handle that a dlopen returned.
Dlclose(t, l) ==
    /\ refs[l] > Cardinality(Pending(l))
    /\ \/ monitor = "on" /\ Enter(t, "close", l, "wrlock")
       \/ monitor # "on" /\ Enter(t, "rawclose", l, "unload")
    /\ UNCHANGED <<linker, got, elf, chains, status, engine, todo, cur, new,
                   told, unseen>>

WriteLock(t) ==
    /\ pc[t] = "wrlock"
    /\ CanWrite
    /\ Goto(t, "unload")
    /\ UNCHANGED <<linker, got, elf, chains, status, engine, op, arg, todo,
                   cur, new, told, unseen>>

\* The original dlclose.
Unload(t) ==
    /\ pc[t] = "unload"
    /\ LET l == arg[t] IN
       /\ refs' = [refs EXCEPT ![l] = @ - 1]
       /\ at' = [at EXCEPT ![l] = IF refs[l] = 1 THEN None ELSE @]
       /\ unseen' = IF op[t] = "rawclose" /\ refs[l] = 1
                    THEN unseen \cup {<<l, "unload">>} ELSE unseen
    /\ IF op[t] = "close" THEN Goto(t, "clean") /\ UNCHANGED <<op, arg>>
                          ELSE Return(t)
    /\ UNCHANGED <<loads, got, elf, chains, status, engine, todo, cur, new,
                   told>>

\* bh_task_manager_post_dlclose, in the range of the write lock.
Clean(t) ==
    /\ pc[t] = "clean"
    /\ elf' = Refreshed("close")
    /\ Return(t)
    /\ UNCHANGED <<linker, got, chains, status, engine, todo, cur, new,
                   told, unseen>>

-----------------------------------------------------------------------------
Meeting(t) ==
    \E k \in Tasks, e \in Instances :
        \/ HookCfi(t, k, e)
        \/ Skip(t, k, e)
        \/ AddFunc(t, k, e)
        \/ AddChain(t, k, e)
        \/ Delete(t, k, e)
        \/ Replace(t, k, e)
        \/ ReplaceFails(t, k, e)

\* The steps of a call under way.
Step(t) ==
    \/ TestMonitor(t)
    \/ InitRefresh(t)
    \/ InitOpen(t)
    \/ InitClose(t)
    \/ Oneshot(t)
    \/ Start(t)
    \/ Meeting(t)
    \/ Finish(t)
    \/ Load(t)
    \/ LoadFails(t)
    \/ PostDlopen(t)
    \/ \E e \in Instances : NewElf(t, e)
    \/ Opened(t)
    \/ WriteLock(t)
    \/ Unload(t)
    \/ Clean(t)

Next ==
    \E t \in Threads :
        \/ \E k \in Tasks : Hook(t, k) \/ Unhook(t, k)
        \/ \E l \in Libs : Dlopen(t, l) \/ Dlclose(t, l)
        \/ Step(t)

Spec == Init /\ [][Next]_vars

-----------------------------------------------------------------------------
(* Properties. *)

\* The slot of a mapped library leads to the trampoline of a chain in 'hooks'
\* exactly when there is one, except while a thread that holds the lock of
\* the ELF is between the two (bh_hook_manager.c:309-440).
ChainPatched ==
    \A l \in Loaded :
        \/ \E t \in Threads : \E p \in cur[t] : elf[p[2]].at = at[l]
        \/ at[l] \in chained <=> got[at[l]] = "live"

\* A task that was unhooked is in no mapped library: neither a dlopen at the
\* same time nor a hook that failed leaves it there (bh_core.c:178-189).
UnhookComplete ==
    \A k \in Tasks, l \in Loaded :
        status[k] = "gone" => k \notin enabled[at[l]]

Quiet == \A t \in Threads : pc[t] = "idle"
Installed(k, e) ==
    /\ elf[e].at \in chained
    /\ k \in enabled[elf[e].at]
    /\ got[elf[e].at] = "live"

\* When no call is under way, each task is in all mapped libraries it is for
\* that the ELF manager knows by a refresh of the first hook or of a dlopen:
\* a hook and a dlopen at the same time do not miss each other
\* (bh_core.c:132-133, bh_elf_manager.c:166-172).
HookedEverywhere ==
    Quiet => \A e \in Tree, k \in Listed :
        Mapped(e) /\ Path(e) \in Match[k] \ Brittle /\ elf[e].by # "close"
          => Installed(k, e)

\* The slot of a library for which a task was reported as hooked leads to the
\* task's chain (bh_hook_manager.c:346): it is replaced if it was not yet.
ToldIsHooked ==
    Quiet => \A k \in Listed, e \in Tree :
        <<k, e>> \in told /\ Mapped(e) => Installed(k, e)

\* What the call of a thread waits for is there.
Ready(t) ==
    /\ pc[t] = "init" => oneshot \in {"no", "done"}
    /\ pc[t] = "oneshot" => oneshot = "done" \/ (oneshot = "no" /\ CanRead)
    /\ pc[t] \in {"start", "post"} => CanRead
    /\ pc[t] = "wrlock" => CanWrite
    /\ pc[t] = "meet" /\ cur[t] = {} /\ todo[t] # {} =>
          \E p \in todo[t] : HookLockFree(p[2])

\* It goes on when that is there.
GoesOn(t) == ENABLED Step(t)
ReadyGoesOn == \A t \in Threads : pc[t] # "idle" /\ Ready(t) => GoesOn(t)

\* While calls are under way one of them can go on: whatever calls come
\* together, they do not wait for each other in a circle, and a call waits for
\* nothing but what Ready names.
NoDeadlock == ReadyGoesOn /\ (Quiet \/ \E t \in Threads : GoesOn(t))
=============================================================================
