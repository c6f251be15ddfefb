------------------------------- MODULE Startup -------------------------------
(***************************************************************************)
(* How HiMem is started and ended (mem.cpp, mem_hook.cpp) and how the hook *)
(* engine is initialised on the way (bh_core.c, bytesig.c): the functions  *)
(* of the system are looked for (SymTab), the parts of the engine are made *)
(* under a lock, the signal handlers are installed, and a task is made for *)
(* each function of the mode, whose stub is kept in a global variable.     *)
(*                                                                         *)
(* initAndStart is not synchronised: threads may be in it at once, and     *)
(* again after a first one.  The engine's status is read without the lock. *)
(* destroy has no answer to another call at the same time, whose stubs it  *)
(* would give back twice, and is called alone.                             *)
(***************************************************************************)
EXTENDS SymTab, FiniteSets

CONSTANTS
    Threads,        \* threads that start and end the recording
    Phones,         \* systems: Android version, linker and libraries
    Modes,          \* modes of initAndStart
    InitMax,        \* bound on the calls of initAndStart
    None            \* no thread, no task, no table

ASSUME InitMaxType == InitMax \in Nat
ASSUME ModesType == Modes \subseteq {1, 2, 4}

-----------------------------------------------------------------------------
(* What there is to find on a system: its files stay as they are, so that  *)
(* whoever looks, and when, finds the same.                                *)

\* bh_linker_init, and initJavaStackDumper.
FindLinkerFuncs(p) == LinkerInit(p.api, p.linker.elf)
FindDumper(p) == XdlDsym(XdlFind(p.linker, p.libs, "libart.so"), "DumpJavaStack")

ArtElfs(p) == {lib.elf : lib \in {x \in ToSet(p.libs) : x.name = "libart.so"}}

\* An ELF that can be read and has one table, in .symtab or in .gnu_debugdata.
Plain(elf) ==
    /\ elf.readable /\ elf.headers /\ NamesInside(elf)
    /\ \E t \in Tables(elf) : Tables(elf) = {t}

\* Nothing stands in the way of DumpJavaStack.
CanDump(p) ==
    /\ \A lib \in ToSet(p.libs) : lib.name = "libart.so" => Tells(p.linker, lib)
    /\ ArtElfs(p) # {}
    /\ \A e \in ArtElfs(p) : Plain(e) /\ Homes(e, "DumpJavaStack") # {}

\* Systems are as link editors and the kernel make them: what is mapped has an address
\* that is not less than the lowest one in its file, and a linker that names the section
\* of its section names has that section.
TableRight(table) ==
    /\ table # NoTable /\ Len(table) \in Nat /\ DOMAIN table = 1..Len(table)
    /\ \A i \in DOMAIN table : table[i].value \in Nat
SectionsRight(elf) ==
    /\ Len(elf.sections) \in Nat /\ DOMAIN elf.sections = 1..Len(elf.sections)
    /\ \A n \in DOMAIN elf.sections : TableRight(elf.sections[n].syms)
ElfRight(elf) ==
    /\ elf.base \in Nat /\ elf.loads \subseteq Nat
    /\ SectionsRight(elf)
    /\ \A n \in DOMAIN elf.sections :
          elf.sections[n].elf = NoElf \/ SectionsRight(elf.sections[n].elf)
PhoneRight(p) ==
    /\ p.linker.name # "libart.so" /\ ElfRight(p.linker.elf)
    /\ p.linker.elf.shstrndx \in {0} \cup Sections(p.linker.elf)
    /\ Len(p.libs) \in Nat /\ DOMAIN p.libs = 1..Len(p.libs)
    /\ \A i \in DOMAIN p.libs :
          /\ p.libs[i].elf # NoElf /\ ElfRight(p.libs[i].elf)
          /\ \E v \in p.libs[i].elf.loads : v <= p.libs[i].elf.base

ASSUME PhonesType == \A p \in Phones : PhoneRight(p)

\* What is found there, and what a function may be: NULL, or at one of its homes.
Sight(p) ==
    [api |-> p.api,
     linker |-> FindLinkerFuncs(p),
     dumper |-> FindDumper(p),
     linkerHomes |-> [f \in DOMAIN NoLinker |-> {Null} \cup Homes(p.linker.elf, f)],
     dumperHomes |-> {Null} \cup UNION {Homes(e, "DumpJavaStack") : e \in ArtElfs(p)},
     canDump |-> CanDump(p)]

-----------------------------------------------------------------------------
VARIABLES
    phone,      \* what there is to find on the system that the program runs on
    status,     \* bh_core.init_status
    lock,       \* the thread in bh_core_init's lock, or None
    linker,     \* what bh_linker_init has found
    made,       \* made[p]: how often part p of bh_core was made
    action,     \* action[s]: who is called for signal s
    old,        \* the prev_action of the bytesig_signal_t under way, or None
    table,      \* table[s]: the action saved in bytesig_signal_array[s], or None
    dumper,     \* DumpJavaStack
    MODE,       \* MODE
    stub,       \* stub[f]: the task in f's ..._hook_stub, or None
    live,       \* tasks that are in the engine
    inits,      \* calls of initAndStart so far
    pc,         \* where a thread is
    todo,       \* what it has still to do there, in order
    over        \* history: init was called over a recording that goes on

engine == <<status, lock, linker, made, action, old, table>>
tasks == <<MODE, stub, live, inits, over>>
vars == <<phone, engine, dumper, tasks, pc, todo>>

Signals == {"SIGSEGV", "SIGBUS"}
Parts == <<"task_mgr", "hook_mgr", "elf_mgr", "tls_key">>
MapFuncs == <<"pthread_exit", "mmap", "mmap64", "munmap">>
AllocFuncs == <<"malloc", "calloc", "realloc", "free">>
Funcs == ToSet(MapFuncs \o AllocFuncs)

ASSUME NoneType == None \notin Threads \cup (Funcs \X Threads \X Nat)

\* MMAP_MODE, ALLOC_MODE and MMAP_AND_ALLOC_MODE.
MapModes == {1, 4}
AllocModes == {2, 4}

\* clear_hook.
ClearOrder ==
    <<"calloc", "free", "malloc", "realloc", "mmap64", "mmap", "munmap", "pthread_exit">>

Statuses == {"uninit", "ok", "sym", "part", "sig"}

\*   out     not in init or deInit
\*   init    in init, before the engine's status is read
\*   wait    found it uninitialised
\*   locked  has the lock
\*   make    parts are made
\*   sigaction  the handler is to be installed
\*   store   installed, not yet in bytesig_signal_array
\*   unlock  the status is stored
\*   map, alloc  in do_hook, in hook_for_... and at the test of the mode after it
\*   clear   in clear_hook
PC == {"out", "init", "wait", "locked", "make", "sigaction", "store", "unlock",
       "map", "alloc", "clear"}

TypeOK ==
    /\ phone.linker \in [ok : BOOLEAN, addr : [DOMAIN NoLinker -> Nat]]
    /\ phone.dumper \in Nat /\ phone.canDump \in BOOLEAN
    /\ status \in Statuses
    /\ lock \in Threads \cup {None}
    /\ linker \in [DOMAIN NoLinker -> Nat]
    /\ made \in [ToSet(Parts) -> 0..InitMax]
    /\ action \in [Signals -> {"app", "bytesig"}]
    /\ old \in {"app", "bytesig", None}
    /\ table \in [Signals -> {"app", "bytesig", None}]
    /\ dumper \in Nat
    /\ MODE \in Modes
    /\ stub \in [Funcs -> (Funcs \X Threads \X (1..InitMax)) \cup {None}]
    /\ live \subseteq Funcs \X Threads \X (1..InitMax)
    /\ inits \in 0..InitMax
    /\ pc \in [Threads -> PC]
    /\ todo \in [Threads -> Seq(Funcs \cup Signals \cup ToSet(Parts))]
    /\ over \in BOOLEAN

Init ==
    /\ phone \in {Sight(p) : p \in Phones}
    /\ status = "uninit" /\ lock = None
    /\ linker = NoLinker
    /\ made = [p \in ToSet(Parts) |-> 0]
    /\ action = [s \in Signals |-> "app"]
    /\ old = None /\ table = [s \in Signals |-> None]
    /\ dumper = Null
    /\ MODE = 1
    /\ stub = [f \in Funcs |-> None]
    /\ live = {} /\ inits = 0 /\ over = FALSE
    /\ pc = [t \in Threads |-> "out"]
    /\ todo = [t \in Threads |-> <<>>]

-----------------------------------------------------------------------------
GoTo(t, label) == pc' = [pc EXCEPT ![t] = label]
Do(t, seq) == todo' = [todo EXCEPT ![t] = seq]
Done(t) == Do(t, Tail(todo[t]))

\* init (JNI): the mode, and DumpJavaStack of the first library of that name.
InitAndStart(t) ==
    /\ pc[t] = "out" /\ inits < InitMax
    /\ \A u \in Threads : pc[u] # "clear"
    /\ inits' = inits + 1
    /\ MODE' \in Modes
    /\ dumper' = phone.dumper
    /\ over' = (over \/ live # {} \/ \E u \in Threads : pc[u] # "out")
    /\ GoTo(t, "init")
    /\ UNCHANGED <<phone, engine, stub, live, todo>>

\* What do_hook goes on with, whatever bytehook_init has returned.
DoHook(t) == GoTo(t, "map") /\ Do(t, IF MODE \in MapModes THEN MapFuncs ELSE <<>>)

\* bh_core_init: do not repeat the initialisation.
ReadStatus(t) ==
    /\ pc[t] = "init"
    /\ IF status = "uninit" THEN GoTo(t, "wait") /\ UNCHANGED todo ELSE DoHook(t)
    /\ UNCHANGED <<phone, engine, dumper, tasks>>

Lock(t) ==
    /\ pc[t] = "wait" /\ lock = None
    /\ lock' = t
    /\ GoTo(t, "locked")
    /\ UNCHANGED <<phone, status, linker, made, action, old, table, dumper, tasks, todo>>

\* bh_core_init: "end", with the lock in hand.
End(t, result) == status' = result /\ GoTo(t, "unlock") /\ Do(t, <<>>)

\* Mutant of FindLinker: the status is not read again under the lock.
FindLinkerAgain(t) ==
    /\ pc[t] = "locked"
    /\ LET r == phone.linker
       IN  /\ linker' = r.addr
           /\ IF r.ok THEN GoTo(t, "make") /\ Do(t, Parts) /\ UNCHANGED status
              ELSE End(t, "sym")
    /\ UNCHANGED <<phone, lock, made, action, old, table, dumper, tasks>>

\* Mutant of FindLinker: without a linker the lock is kept.
FindLinkerStuck(t) ==
    /\ pc[t] = "locked"
    /\ LET r == phone.linker
       IN  IF status # "uninit"
           THEN GoTo(t, "unlock") /\ UNCHANGED <<linker, status, todo>>
           ELSE /\ linker' = r.addr
                /\ IF r.ok THEN GoTo(t, "make") /\ Do(t, Parts) /\ UNCHANGED status
                   ELSE status' = "sym" /\ DoHook(t)
    /\ UNCHANGED <<phone, lock, made, action, old, table, dumper, tasks>>

\* The status is read again, and the linker's functions are looked for.
FindLinker(t) ==
    /\ pc[t] = "locked"
    /\ LET r == phone.linker
       IN  IF status # "uninit"
           THEN GoTo(t, "unlock") /\ UNCHANGED <<linker, status, todo>>
           ELSE /\ linker' = r.addr
                /\ IF r.ok THEN GoTo(t, "make") /\ Do(t, Parts) /\ UNCHANGED status
                   ELSE End(t, "sym")
    /\ UNCHANGED <<phone, lock, made, action, old, table, dumper, tasks>>

\* bh_task_manager_create and the others, or no memory or key for them.
Make(t) ==
    /\ pc[t] = "make"
    /\ \/ /\ made' = [made EXCEPT ![Head(todo[t])] = @ + 1]
          /\ IF Len(todo[t]) > 1 THEN Done(t) /\ UNCHANGED pc
             ELSE GoTo(t, "sigaction") /\ Do(t, <<"SIGSEGV", "SIGBUS">>)
          /\ UNCHANGED status
       \/ End(t, "part") /\ UNCHANGED made
    /\ UNCHANGED <<phone, lock, linker, action, old, table, dumper, tasks>>

\* Mutant of Sigaction: both handlers are installed before the tables are stored.
SigactionBoth(t) ==
    /\ pc[t] = "sigaction"
    /\ \/ /\ action' = [s \in Signals |-> "bytesig"]
          /\ old' = action[Head(todo[t])]
          /\ GoTo(t, "store")
          /\ UNCHANGED <<status, todo>>
       \/ End(t, "sig") /\ UNCHANGED <<action, old>>
    /\ UNCHANGED <<phone, lock, linker, made, table, dumper, tasks>>

\* bytesig_init: no symbols, no memory, no sigaction; or the handler is installed,
\* and the action that was there is kept.
Sigaction(t) ==
    /\ pc[t] = "sigaction"
    /\ \/ /\ table[Head(todo[t])] = None
          /\ action' = [action EXCEPT ![Head(todo[t])] = "bytesig"]
          /\ old' = action[Head(todo[t])]
          /\ GoTo(t, "store")
          /\ UNCHANGED <<status, todo>>
       \/ End(t, "sig") /\ UNCHANGED <<action, old>>
    /\ UNCHANGED <<phone, lock, linker, made, table, dumper, tasks>>

\* The table is stored: from here on the handler finds it.
Store(t) ==
    /\ pc[t] = "store"
    /\ table' = [table EXCEPT ![Head(todo[t])] = old]
    /\ old' = None
    /\ IF Len(todo[t]) > 1
       THEN GoTo(t, "sigaction") /\ Done(t) /\ UNCHANGED status
       ELSE End(t, "ok")
    /\ UNCHANGED <<phone, lock, linker, made, action, dumper, tasks>>

\* Who gets signal s if it comes outside of the engine: bytesig_handler finds no jump
\* buffer of the thread, and calls the action that was there before.
Forward(s) == IF action[s] = "bytesig" THEN table[s] ELSE action[s]

Unlock(t) ==
    /\ pc[t] = "unlock"
    /\ lock' = None
    /\ DoHook(t)
    /\ UNCHANGED <<phone, status, linker, made, action, old, table, dumper, tasks>>

\* hook_for_...: bytehook_hook_single or _partial; without an engine no stub.
HookNext(t) ==
    /\ pc[t] \in {"map", "alloc"} /\ todo[t] # <<>>
    /\ LET f == Head(todo[t])
           task == <<f, t, inits>>
       IN  IF status = "ok"
           THEN stub' = [stub EXCEPT ![f] = task] /\ live' = live \cup {task}
           ELSE stub' = [stub EXCEPT ![f] = None] /\ UNCHANGED live
    /\ Done(t)
    /\ UNCHANGED <<phone, engine, dumper, MODE, inits, over, pc>>

\* do_hook tests the mode a second time, and ends.
HookAlloc(t) ==
    /\ pc[t] = "map" /\ todo[t] = <<>>
    /\ GoTo(t, "alloc")
    /\ Do(t, IF MODE \in AllocModes THEN AllocFuncs ELSE <<>>)
    /\ UNCHANGED <<phone, engine, dumper, tasks>>

Hooked(t) ==
    /\ pc[t] = "alloc" /\ todo[t] = <<>>
    /\ GoTo(t, "out")
    /\ UNCHANGED <<phone, engine, dumper, tasks, todo>>

\* deInit (JNI).
DeInit(t) ==
    /\ \A u \in Threads : pc[u] = "out"
    /\ GoTo(t, "clear") /\ Do(t, ClearOrder)
    /\ UNCHANGED <<phone, engine, dumper, tasks>>

\* Mutant of ClearNext: the stub is kept.
ClearNextKeeping(t) ==
    /\ pc[t] = "clear" /\ todo[t] # <<>>
    /\ live' = live \ {stub[Head(todo[t])]}
    /\ Done(t)
    /\ UNCHANGED <<phone, engine, dumper, MODE, stub, inits, over, pc>>

\* clear_hook: bytehook_unhook of a stub that is not nullptr, which it then is.
ClearNext(t) ==
    /\ pc[t] = "clear" /\ todo[t] # <<>>
    /\ live' = live \ {stub[Head(todo[t])]}
    /\ stub' = [stub EXCEPT ![Head(todo[t])] = None]
    /\ Done(t)
    /\ UNCHANGED <<phone, engine, dumper, MODE, inits, over, pc>>

Cleared(t) ==
    /\ pc[t] = "clear" /\ todo[t] = <<>>
    /\ GoTo(t, "out")
    /\ UNCHANGED <<phone, engine, dumper, tasks, todo>>

Step(t) ==
    \/ ReadStatus(t) \/ Lock(t) \/ FindLinker(t) \/ Make(t)
    \/ Sigaction(t) \/ Store(t) \/ Unlock(t)
    \/ HookNext(t) \/ HookAlloc(t) \/ Hooked(t)
    \/ ClearNext(t) \/ Cleared(t)

Next == \E t \in Threads : InitAndStart(t) \/ DeInit(t) \/ Step(t)

Spec == Init /\ [][Next]_vars

\* A thread in init or deInit gets on with it, and gets the lock when it is free.
FairSpec == Spec /\ \A t \in Threads : WF_vars(Step(t))

-----------------------------------------------------------------------------
(***************************************************************************)
(* Properties.                                                             *)
(***************************************************************************)

\* What the monitor of dlopen calls on Android 5.x and 7.x (bh_dl_monitor.c:286-336).
LinkerReady ==
    /\ phone.api \in LollipopApis \cup NougatApis => linker.g_dl_mutex # Null
    /\ phone.api \in NougatApis => linker.dlopen_ext # Null \/ linker.do_dlopen # Null

\* The status is read without the lock: whoever finds it to be OK finds all parts made,
\* once, the handlers with their tables and the linker's functions; and an engine that
\* could not be initialised has no task, whoever asks it for a hook, and when.
ReadyWhenUsed ==
    /\ status = "ok" =>
          /\ \A p \in ToSet(Parts) : made[p] = 1
          /\ \A s \in Signals : action[s] = "bytesig" /\ table[s] = "app"
          /\ LinkerReady
    /\ status # "ok" => live = {}

\* A fault of the application outside of the engine (ART turns SIGSEGV into exceptions)
\* gets from the handler to the action that was there before, never to the handler
\* itself, and also if the initialisation fails later on.  But for the moment between
\* sigaction and the store in bytesig_init, when the handler finds no table.
FaultsForwarded ==
    \A s \in Signals :
        \/ Forward(s) = "app"
        \/ \E t \in Threads : pc[t] = "store" /\ Head(todo[t]) = s /\ old = "app"

Owned == {stub[f] : f \in Funcs} \ {None}

\* A stub is a task of the engine, never one that is gone; and after destroy no task
\* is left, but for those of an initAndStart that another one came over, whose stubs it
\* has overwritten.
TasksOwned ==
    /\ Owned \subseteq live
    /\ ~over => live \subseteq Owned
    /\ \A t \in Threads : pc[t] = "clear" /\ todo[t] = <<>> => Owned = {}

\* What is called as a function of the system is that function, in whatever table of a
\* file cut short or stripped it was looked for; and DumpJavaStack is found if it is in
\* the only table of the only libart.so.
SymbolsRight ==
    /\ dumper \in phone.dumperHomes
    /\ \A f \in DOMAIN NoLinker : linker[f] \in phone.linkerHomes[f]
    /\ inits > 0 /\ phone.canDump => dumper # Null

\* initAndStart comes back from the engine's lock, however its initialisation fails
\* and whoever is in it.
InitEnds == \A t \in Threads : pc[t] = "wait" ~> pc[t] \in {"map", "alloc", "out"}
=============================================================================
