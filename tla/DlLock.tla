------------------------------- MODULE DlLock -------------------------------
(***************************************************************************)
(* The locks around dlopen and dlclose (bh_dl_monitor.c, and the parts of  *)
(* bh_task_manager.c and bh_elf_manager.c that run inside of it).          *)
(*                                                                         *)
(* Loading a library runs code of others: its constructor, under the       *)
(* linker's mutex; the callbacks for every dlopen, under the lock of their *)
(* list; the callbacks of hook tasks, under the lock between dlclose and   *)
(* the readers of the ELF cache; the destructor.  All of it may call the   *)
(* same functions again, in the same thread.  HookEngine has one call per  *)
(* thread at a time and no linker mutex; here calls nest, every lock is a  *)
(* variable, and what a hook does to an ELF is one step.                   *)
(***************************************************************************)
EXTENDS Naturals, Sequences, FiniteSets

CONSTANTS
    Threads,
    Libs,       \* pathnames of libraries
    Initial,    \* those that are loaded at the start
    Tasks,      \* hook tasks, for all libraries
    Barred,     \* pairs of a place and a function that is not called inside
    Nested,     \* bound: calls that are in progress in a thread at a time
    MaxCalls,   \* bound: calls of all threads, nested ones included
    MaxRefs,    \* bound: MaxRefs[l], handles on a library at a time
    MaxLoads,   \* bound: MaxLoads[l], how often a library is mapped
    None

\* Where others' code runs: at the bottom of a thread, in the callbacks before
\* and after a dlopen, in constructors and destructors, and in the callback of
\* a task for an ELF.
Places == {"top", "pre", "post", "ctor", "dtor", "told"}
Functions == {"open", "close", "hook", "unhook", "add", "del"}

ASSUME BarredType == Barred \subseteq Places \X Functions
ASSUME LibsType == Initial \subseteq Libs
ASSUME BoundsType ==
    /\ {Nested, MaxCalls} \subseteq Nat \ {0}
    /\ {MaxRefs, MaxLoads} \subseteq [Libs -> Nat \ {0}]
ASSUME NoneType == None \notin Threads \cup Libs \cup Tasks

VARIABLES
    stack,      \* stack[t]: the calls that a thread is in, innermost last
    calls,      \* how many calls were made
    count,      \* count[t]: the lock count in its TLS
    lock,       \* lock[x]: the read-write locks
    linker,     \* the linker's mutex: its owner and how often it locked it
    refs,       \* refs[l]: handles on a library, 0 when it is not mapped
    loads,      \* loads[l]: how often it was mapped
    tree,       \* tree[l]: the ELF that the ELF manager has under a pathname
    tasks,      \* the list of the task manager
    done,       \* tasks that were unhooked
    hooked,     \* hooked[l]: the tasks that are in the mapped library
    refreshing, \* bh_dl_monitor_post_dlopen and _post_dlclose are set
    listed,     \* the callback for dlopen is in the list
    odd         \* history: mappings that came before there was a refresh,
                \* and those that went unnoticed or without the write lock

linking == <<linker, refs, loads>>
elves == <<tree, hooked, odd>>
clients == <<tasks, done, refreshing, listed>>
vars == <<stack, calls, count, lock, linking, elves, clients>>

Locks == {"dlclose", "cbs", "elfs", "tasks"}
PC == {"start", "pre", "link", "ctor", "linked", "rd", "elfs", "iter", "new", "told",
       "notify", "post", "wr", "dtor", "sync", "fin", "copy", "meet"}
Mappings == Libs \X (Nat \ {0})
NoElf == [gen |-> 0, by |-> "none"]
Frames == [fn : Functions, arg : Libs \cup Tasks \cup {None}, pc : PC,
           wr : BOOLEAN, todo : SUBSET Libs]

TypeOK ==
    /\ stack \in [Threads -> Seq(Frames)]
    /\ calls \in 0..MaxCalls
    /\ count \in [Threads -> 0..Nested]
    /\ lock \in [Locks -> [w : Threads \cup {None}, r : Nat]]
    /\ \A x \in Locks : lock[x].w = None \/ lock[x].r = 0
    /\ linker \in [owner : Threads \cup {None}, n : 0..Nested + 1]
    /\ linker.owner = None <=> linker.n = 0
    /\ refs \in [Libs -> Nat] /\ \A l \in Libs : refs[l] <= MaxRefs[l]
    /\ loads \in [Libs -> Nat] /\ \A l \in Libs : loads[l] <= MaxLoads[l]
    /\ tree \in [Libs -> [gen : Nat,
                          by : {"none", "oneshot", "open", "close"}]]
    /\ tasks \subseteq Tasks /\ done \subseteq Tasks \ tasks
    /\ hooked \in [Libs -> SUBSET Tasks]
    /\ refreshing \in BOOLEAN /\ listed \in BOOLEAN
    /\ odd \subseteq Mappings \X {"came", "went"}

\* The monitor has been initialised: by the first hook, or by the first
\* bytehook_add_dlopen_callback, which sets no function for after a dlopen.
Init ==
    /\ stack = [t \in Threads |-> <<>>]
    /\ calls = 0
    /\ count = [t \in Threads |-> 0]
    /\ lock = [x \in Locks |-> [w |-> None, r |-> 0]]
    /\ linker = [owner |-> None, n |-> 0]
    /\ refs = [l \in Libs |-> IF l \in Initial THEN 1 ELSE 0]
    /\ loads = refs
    /\ tree = [l \in Libs |-> IF l \in Initial
                              THEN [gen |-> 1, by |-> "oneshot"] ELSE NoElf]
    /\ tasks = {}
    /\ done = {}
    /\ hooked = [l \in Libs |-> {}]
    /\ refreshing \in BOOLEAN
    /\ listed \in BOOLEAN
    /\ ~refreshing => listed
    /\ odd = {}

-----------------------------------------------------------------------------
(* pthread_rwlock_t of bionic, which prefers readers.  A thread that has   *)
(* the lock for writing gets EDEADLK for any other request, and to unlock  *)
(* is to give up whatever is held, by whomever.                            *)

\* Mutant of CanRead: readers do not wait.
ReadAnyway(x, t) == TRUE
CanRead(x, t) == lock[x].w \in {None, t}
\* Mutant of CanWrite: a writer takes the lock while readers hold it.
WriteAnyway(x, t) == lock[x].w \in {None, t}
CanWrite(x, t) == lock[x].w = t \/ lock[x] = [w |-> None, r |-> 0]

RdLocked(x, t) ==
    [lock EXCEPT ![x].r = IF lock[x].w = None THEN @ + 1 ELSE @]
WrLocked(x, t) == [lock EXCEPT ![x].w = t]
Unlocked(x, t) ==
    IF lock[x].w = t THEN [lock EXCEPT ![x].w = None]
    ELSE [lock EXCEPT ![x].r = IF @ > 0 THEN @ - 1 ELSE @]

\* The mutex of the linker is recursive.
LinkerFree(t) == linker.owner \in {None, t}
LinkerLocked(t) == [owner |-> t, n |-> linker.n + 1]
LinkerUnlocked ==
    IF linker.n = 1 THEN [owner |-> None, n |-> 0]
    ELSE [linker EXCEPT !.n = @ - 1]

\* How many calls of dlopen and dlclose a thread is in, in its TLS.
AddLockCount(t) == [count EXCEPT ![t] = @ + 1]
SubLockCount(t) == [count EXCEPT ![t] = @ - 1]

-----------------------------------------------------------------------------
(* Calls. *)

Depth(t) == Len(stack[t])
Top(t) == stack[t][Depth(t)]
At(t, fn, where) == stack[t] # <<>> /\ Top(t).fn \in fn /\ Top(t).pc = where
Goto(t, where) == stack' = [stack EXCEPT ![t][Depth(t)].pc = where]
Return(t) == stack' = [stack EXCEPT ![t] = SubSeq(@, 1, Depth(t) - 1)]

Place(t) == IF stack[t] = <<>> THEN "top" ELSE Top(t).pc

AllFrames(t) == {stack[t][i] : i \in DOMAIN stack[t]}

\* Handles on l that calls under way have not returned or are giving back.
Pending(l) ==
    {p \in Threads \X (1..Nested) :
        LET t == p[1]
            i == p[2]
        IN /\ i \in DOMAIN stack[t] /\ stack[t][i].arg = l
           /\ \/ stack[t][i].fn = "open" /\ stack[t][i].pc \notin {"start", "pre", "link"}
              \/ stack[t][i].fn = "close" /\ stack[t][i].pc \in {"start", "link", "dtor", "linked"}}

Dying(l) ==
    \E t \in Threads : \E f \in AllFrames(t) :
        f.fn = "close" /\ f.arg = l /\ f.pc = "dtor"

\* What a call may be about.
Arguments(fn) ==
    CASE fn = "open"  -> {l \in Libs : ~Dying(l)}
      [] fn = "close" -> {l \in Libs : refs[l] > Cardinality(Pending(l))}
      [] fn = "hook"  -> Tasks \ (tasks \cup done)
      [] fn = "unhook" -> tasks
      [] OTHER        -> {None}

\* Code of others calls a function.
Call(t, fn) ==
    /\ Place(t) \in Places
    /\ \A f \in AllFrames(t) : <<f.pc, fn>> \notin Barred
    /\ Depth(t) < Nested /\ calls < MaxCalls
    /\ calls' = calls + 1
    /\ \E x \in Arguments(fn) :
          /\ fn \in {"hook", "unhook"} =>
                \A u \in Threads : \A f \in AllFrames(u) : f.arg # x
          /\ stack' = [stack EXCEPT ![t] =
                Append(@, [fn |-> fn, arg |-> x, pc |-> "start", wr |-> FALSE, todo |-> {}])]
    /\ UNCHANGED <<count, lock, linking, elves, clients>>

-----------------------------------------------------------------------------
(* dlopen *)

\* bh_dl_monitor_call_cb_pre and _post: the list is tested without its lock.
Callbacks(t, from, to, after) ==
    /\ At(t, {"open"}, from)
    /\ \/ listed /\ CanRead("cbs", t) /\ lock' = RdLocked("cbs", t)
          /\ Goto(t, to)
       \/ ~listed /\ UNCHANGED lock
          /\ IF after = "return" THEN Return(t) ELSE Goto(t, after)
    /\ UNCHANGED <<calls, count, linking, elves, clients>>

CallCbPre(t) == Callbacks(t, "start", "pre", "link")
CallCbPost(t) == Callbacks(t, "notify", "post", "return")

\* The callback returns.
CbPreDone(t) ==
    /\ At(t, {"open"}, "pre")
    /\ lock' = Unlocked("cbs", t)
    /\ Goto(t, "link")
    /\ UNCHANGED <<calls, count, linking, elves, clients>>

CbPostDone(t) ==
    /\ At(t, {"open"}, "post")
    /\ lock' = Unlocked("cbs", t)
    /\ Return(t)
    /\ UNCHANGED <<calls, count, linking, elves, clients>>

\* Libraries that are mapped before there is a refresh, and those that are
\* mapped again under their name before a refresh has noticed that they went.
Early == {l \in Libs : refs[l] = 0 /\ ~refreshing}
Reborn == {l \in Libs : refs[l] = 0 /\ tree[l] # NoElf}

\* The original function, up to the constructor of a library that it maps.
Load(t) ==
    /\ At(t, {"open"}, "link")
    /\ LinkerFree(t)
    /\ LET l == Top(t).arg IN
       /\ refs[l] < MaxRefs[l] /\ (refs[l] > 0 \/ loads[l] < MaxLoads[l])
       /\ ~Dying(l)
       /\ refs' = [refs EXCEPT ![l] = @ + 1]
       /\ loads' = [loads EXCEPT ![l] = IF refs[l] = 0 THEN @ + 1 ELSE @]
       /\ hooked' = [hooked EXCEPT ![l] = IF refs[l] = 0 THEN {} ELSE @]
       /\ odd' = odd
            \cup {<<<<l, loads'[l]>>, "came">> : m \in {l} \cap Early}
            \cup {<<<<l, tree[l].gen>>, "went">> : m \in {l} \cap Reborn}
    /\ linker' = LinkerLocked(t)
    /\ count' = AddLockCount(t)
    /\ Goto(t, IF refs[Top(t).arg] = 0 THEN "ctor" ELSE "linked")
    /\ UNCHANGED <<calls, lock, tree, clients>>

\* dlopen fails.
LoadFails(t) ==
    /\ At(t, {"open"}, "link")
    /\ LinkerFree(t)
    /\ Goto(t, "notify")
    /\ UNCHANGED <<calls, count, lock, linking, elves, clients>>

\* Mutant of AfterCall: the count is compared before it is lowered.
AfterCallBefore(t) == count[t] = 0 /\ refreshing
\* After the outermost call: the ELF cache is updated.
AfterCall(t) == count[t] = 1 /\ refreshing

\* The original dlopen returns.
Loaded(t) ==
    /\ Place(t) \in {"ctor", "linked"} /\ Top(t).fn = "open"
    /\ linker' = LinkerUnlocked
    /\ count' = SubLockCount(t)
    /\ Goto(t, IF AfterCall(t) THEN "rd" ELSE "notify")
    /\ UNCHANGED <<calls, lock, refs, loads, elves, clients>>

-----------------------------------------------------------------------------
(* The refresh of the ELF cache, and hooks in new ELFs. *)

\* bh_dl_monitor_dlclose_rdlock, after dlopen, in a hook and in an unhook.
RdLock(t) ==
    /\ At(t, {"open", "hook", "unhook"}, "rd")
    /\ CanRead("dlclose", t)
    /\ lock' = RdLocked("dlclose", t)
    /\ Goto(t, IF Top(t).fn = "open" THEN "elfs" ELSE "copy")
    /\ UNCHANGED <<calls, count, linking, elves, clients>>

\* bh_elf_manager_refresh locks the tree,
LockElfs(t) ==
    /\ At(t, {"open", "close"}, "elfs")
    /\ CanWrite("elfs", t)
    /\ lock' = WrLocked("elfs", t)
    /\ Goto(t, "iter")
    /\ UNCHANGED <<calls, count, linking, elves, clients>>

Mapped(l) == tree[l].gen = loads[l] /\ refs[l] > 0
Born == {l \in Libs : refs[l] > 0 /\ tree[l] = NoElf}

\* goes through the linker's list under its mutex, and unlocks the tree.
Iterate(t) ==
    /\ At(t, {"open", "close"}, "iter")
    /\ LinkerFree(t)
    /\ tree' = [l \in Libs |->
                  IF refs[l] = 0 THEN NoElf
                  ELSE IF l \in Born THEN [gen |-> loads[l], by |-> Top(t).fn]
                  ELSE tree[l]]
    /\ lock' = Unlocked("elfs", t)
    /\ stack' = [stack EXCEPT ![t][Depth(t)] =
          [@ EXCEPT !.pc = IF Top(t).fn = "open" THEN "new" ELSE "sync",
                    !.todo = IF Top(t).fn = "open" THEN Born ELSE {}]]
    /\ UNCHANGED <<calls, count, linking, hooked, odd, clients>>

Drop(t, l, where) ==
    stack' = [stack EXCEPT ![t][Depth(t)] = [@ EXCEPT !.todo = Top(t).todo \ {l}, !.pc = where]]

Install(l, ks) ==
    hooked' = [hooked EXCEPT ![l] = IF Mapped(l) THEN @ \cup ks ELSE @]

\* bh_task_manager_post_new_elf: all tasks are brought together with an ELF,
\* and their clients are told under the lock of the list.
NewElf(t, l) ==
    /\ At(t, {"open"}, "new") /\ l \in Top(t).todo
    /\ CanRead("tasks", t)
    /\ Install(l, tasks)
    /\ IF tasks = {} THEN Drop(t, l, "new") /\ UNCHANGED lock
       ELSE Drop(t, l, "told") /\ lock' = RdLocked("tasks", t)
    /\ UNCHANGED <<calls, count, linking, tree, odd, clients>>

NewElfTold(t) ==
    /\ At(t, {"open"}, "told")
    /\ lock' = Unlocked("tasks", t)
    /\ Goto(t, "new")
    /\ UNCHANGED <<calls, count, linking, elves, clients>>

\* The end of bh_task_manager_post_dlopen.
Refreshed(t) ==
    /\ At(t, {"open"}, "new") /\ Top(t).todo = {}
    /\ lock' = Unlocked("dlclose", t)
    /\ Goto(t, "notify")
    /\ UNCHANGED <<calls, count, linking, elves, clients>>

-----------------------------------------------------------------------------
(* dlclose.  The outermost call always gets the write lock: what the code   *)
(* would do without it (post_dlclose with sync_refresh = false) is left    *)
(* out.                                                                    *)

\* Mutant of Outermost: every dlclose takes the write lock.
OutermostAlways(t) == TRUE
\* bh_dl_monitor_dlmutex_is_locked: only the outermost call takes it.
Outermost(t) == count[t] = 0

WrLock(t) ==
    /\ At(t, {"close"}, "start")
    /\ IF Outermost(t)
       THEN /\ CanWrite("dlclose", t)
            /\ lock' = WrLocked("dlclose", t)
            /\ stack' = [stack EXCEPT ![t][Depth(t)] =
                            [@ EXCEPT !.pc = "link", !.wr = lock["dlclose"].w # t]]
       ELSE Goto(t, "link") /\ UNCHANGED lock
    /\ UNCHANGED <<calls, count, linking, elves, clients>>

\* The original function, up to the destructor of a library that goes.
Unlink(t) ==
    /\ At(t, {"close"}, "link")
    /\ LinkerFree(t)
    /\ linker' = LinkerLocked(t)
    /\ count' = AddLockCount(t)
    /\ Goto(t, IF refs[Top(t).arg] = 1 THEN "dtor" ELSE "linked")
    /\ UNCHANGED <<calls, lock, refs, loads, elves, clients>>

\* The library is unmapped with its last handle, and the function returns.
Unload(t) ==
    /\ Place(t) \in {"dtor", "linked"} /\ Top(t).fn = "close"
    /\ LET l == Top(t).arg IN
       /\ refs' = [refs EXCEPT ![l] = @ - 1]
       /\ odd' = IF refs[l] = 1 /\ (lock["dlclose"].w # t \/ ~refreshing)
                 THEN odd \cup {<<<<l, loads[l]>>, "went">>} ELSE odd
    /\ linker' = LinkerUnlocked
    /\ count' = SubLockCount(t)
    /\ Goto(t, IF AfterCall(t) THEN "elfs" ELSE "fin")
    /\ UNCHANGED <<calls, lock, loads, tree, hooked, clients>>

\* An abandoned ELF is destroyed; nothing but the lock keeps others from it.
SyncClean(t) ==
    /\ At(t, {"close"}, "sync")
    /\ Goto(t, "fin")
    /\ UNCHANGED <<calls, count, lock, linking, elves, clients>>

Closed(t) ==
    /\ At(t, {"close"}, "fin")
    /\ lock' = IF Top(t).wr THEN Unlocked("dlclose", t) ELSE lock
    /\ Return(t)
    /\ UNCHANGED <<calls, count, linking, elves, clients>>

-----------------------------------------------------------------------------
(* Hooks and unhooks, and the list of callbacks. *)

\* bh_task_manager_add, and the functions that bh_task_manager_hook sets the
\* first time.
Hook(t) ==
    /\ At(t, {"hook"}, "start")
    /\ CanWrite("tasks", t)
    /\ tasks' = tasks \cup {Top(t).arg}
    /\ refreshing' = TRUE
    /\ Goto(t, "rd")
    /\ UNCHANGED <<calls, count, lock, linking, elves, done, listed>>

\* bh_task_manager_del.
Unhook(t) ==
    /\ At(t, {"unhook"}, "start")
    /\ CanWrite("tasks", t)
    /\ tasks' = tasks \ {Top(t).arg}
    /\ Goto(t, "rd")
    /\ UNCHANGED <<calls, count, lock, linking, elves, done, refreshing, listed>>

\* bh_elf_manager_iterate copies the tree, under its lock.
Copy(t) ==
    /\ At(t, {"hook", "unhook"}, "copy")
    /\ CanRead("elfs", t)
    /\ stack' = [stack EXCEPT ![t][Depth(t)] =
                    [@ EXCEPT !.pc = "meet", !.todo = {l \in Libs : tree[l] # NoElf}]]
    /\ UNCHANGED <<calls, count, lock, linking, elves, clients>>

\* The task meets the next ELF: a hook tells its client.
Meet(t, l) ==
    /\ At(t, {"hook", "unhook"}, "meet") /\ l \in Top(t).todo
    /\ IF Top(t).fn = "hook"
       THEN Install(l, {Top(t).arg}) /\ Drop(t, l, "told")
       ELSE /\ hooked' = [hooked EXCEPT ![l] = @ \ {Top(t).arg}]
            /\ Drop(t, l, "meet")
    /\ UNCHANGED <<calls, count, lock, linking, tree, odd, clients>>

MeetTold(t) ==
    /\ At(t, {"hook"}, "told")
    /\ Goto(t, "meet")
    /\ UNCHANGED <<calls, count, lock, linking, elves, clients>>

Met(t) ==
    /\ At(t, {"hook", "unhook"}, "meet") /\ Top(t).todo = {}
    /\ lock' = Unlocked("dlclose", t)
    /\ done' = IF Top(t).fn = "unhook" THEN done \cup {Top(t).arg} ELSE done
    /\ Return(t)
    /\ UNCHANGED <<calls, count, linking, elves, tasks, refreshing, listed>>

\* bh_dl_monitor_add_dlopen_callback and _del_dlopen_callback.
ChangeList(t) ==
    /\ At(t, {"add", "del"}, "start")
    /\ CanWrite("cbs", t)
    /\ listed' = (Top(t).fn = "add")
    /\ Return(t)
    /\ UNCHANGED <<calls, count, lock, linking, elves, tasks, done, refreshing>>

-----------------------------------------------------------------------------
\* The steps of a call under way.
Step(t) ==
    \/ CallCbPre(t) \/ CbPreDone(t) \/ CallCbPost(t) \/ CbPostDone(t)
    \/ Load(t) \/ LoadFails(t) \/ Loaded(t)
    \/ RdLock(t) \/ LockElfs(t) \/ Iterate(t)
    \/ \E l \in Libs : NewElf(t, l)
    \/ NewElfTold(t) \/ Refreshed(t)
    \/ WrLock(t) \/ Unlink(t) \/ Unload(t) \/ SyncClean(t) \/ Closed(t)
    \/ Hook(t) \/ Unhook(t) \/ Copy(t)
    \/ \E l \in Libs : Meet(t, l)
    \/ MeetTold(t) \/ Met(t)
    \/ ChangeList(t)

Next ==
    \E t \in Threads :
        \/ \E fn \in Functions : Call(t, fn)
        \/ Step(t)

Spec == Init /\ [][Next]_vars

-----------------------------------------------------------------------------
(* Properties. *)

Busy == {t \in Threads : stack[t] # <<>>}

\* What the innermost call of a thread waits for is there.
Ready(t) ==
    LET f == Top(t) IN
    /\ f.pc \in {"link", "iter"} => LinkerFree(t)
    /\ f.pc = "rd" => CanRead("dlclose", t)
    /\ f.pc = "elfs" => CanWrite("elfs", t)
    /\ f.pc = "copy" => CanRead("elfs", t)
    /\ f.pc = "new" /\ f.todo # {} => CanRead("tasks", t)
    /\ f.fn = "open" /\ f.pc \in {"start", "notify"} => ~listed \/ CanRead("cbs", t)
    /\ f.fn = "close" /\ f.pc = "start" => ~Outermost(t) \/ CanWrite("dlclose", t)
    /\ f.fn \in {"hook", "unhook"} /\ f.pc = "start" => CanWrite("tasks", t)
    /\ f.fn \in {"add", "del"} => CanWrite("cbs", t)

\* It goes on when that is there.
GoesOn(t) == ENABLED Step(t)
ReadyGoesOn == \A t \in Busy : Ready(t) => GoesOn(t)

Stuck == Busy # {} /\ \A t \in Threads : ~GoesOn(t)

\* The calls of thread t, each with the places inside of which it was made.
Nests(t) ==
    UNION {{<<stack[t][i].pc, stack[t][j].fn>> : i \in 1..(j - 1)} : j \in DOMAIN stack[t]}

\* What code of others must not do: hook, unhook, or change the callbacks for
\* dlopen while it is called in the linker, change them from such a callback,
\* and wait for itself in the callback of a task.
Risky ==
    ({"ctor", "dtor"} \X {"hook", "unhook", "add", "del"})
    \cup ({"pre", "post"} \X {"add", "del"})
    \cup ({"told"} \X {"hook", "unhook", "add", "del", "close"})
AtRisk == \E t \in Busy : Nests(t) \cap Risky # {}

\* Threads wait for each other in a circle only if code of others does one of
\* these: calls of dlopen and dlclose nest without a deadlock from wherever
\* they are made, although dlclose waits for the linker under its write lock
\* (bh_dl_monitor.c:410) and a refresh under that of the tree.  A call waits
\* for nothing but what Ready names.
StuckByRisk == ReadyGoesOn /\ (Stuck => AtRisk)

Using(t) == UNION {f.todo : f \in AllFrames(t)}

\* "if we are in sync-clean status, no other iterate or hooks can be performed
\* at the same time" (bh_elf_manager.c:154): while one thread destroys the
\* abandoned ELFs no other is in a refresh or goes through ELFs.
CleanAlone ==
    \A t \in Threads : At(t, {"close"}, "sync") =>
        \A u \in Threads \ {t} : \A f \in AllFrames(u) :
            f.pc \notin {"iter", "new", "told", "copy", "meet"}

\* An ELF that a thread goes through is that of a mapped library, unless it
\* was unmapped by a dlclose from a constructor, which has no write lock
\* (bh_dl_monitor.c:113, :437), or before the first hook.
ElfsMapped ==
    \A t \in Threads : \A l \in Using(t) :
        \/ tree[l] = NoElf \/ Mapped(l)
        \/ <<<<l, tree[l].gen>>, "went">> \in odd

\* With no call under way each task is in every mapped library, however the
\* calls nested, but for three reasons: it was a dlclose that found the library
\* (bh_task_manager.c:101), it was mapped when only callbacks for dlopen had
\* been added (bh_dl_monitor.c:638), or it took the place of one of its name
\* that went unnoticed (bh_elf_manager.c:96).
HookedEverywhere ==
    Busy = {} => \A l \in Libs :
        \/ refs[l] = 0 \/ tasks \subseteq hooked[l]
        \/ tree[l].by = "close"
        \/ <<<<l, loads[l]>>, "came">> \in odd
        \/ <<<<l, tree[l].gen>>, "went">> \in odd
=============================================================================
