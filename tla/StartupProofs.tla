----------------------------- MODULE StartupProofs -----------------------------
(***************************************************************************)
(* Proofs about Startup, for every set of threads, of phones and of modes  *)
(* and every number of calls of initAndStart.                              *)
(*                                                                         *)
(* What ReadyWhenUsed and FaultsForwarded say of the engine when it is     *)
(* read follows from what bh_core_init has done so far at each place of    *)
(* the thread that has the lock (EngineInv); that only one thread is at    *)
(* these places is LockInv.  TasksOwned rests on what the thread that      *)
(* hooks has still to do: there is no task yet of those functions, unless  *)
(* init was called over a recording (TaskInv).                             *)
(*                                                                         *)
(* What the symbols lead to (SymbolsRight) is shown for any phone the      *)
(* assumption PhonesType describes: the least section that an address lies *)
(* in is its home, and what is found by name is defined in such a section; *)
(* the steps only call what was found (SymbolInv).                         *)
(***************************************************************************)
EXTENDS Startup, WellFoundedInduction, TLAPS

\* What is left to do, as a set: no thread does a thing twice.
Left(t) == ToSet(todo[t])
Works == Funcs \cup Signals \cup ToSet(Parts)
Task == Funcs \X Threads \X Nat

Types ==
    /\ inits \in Nat
    /\ lock \in Threads \cup {None}
    /\ made \in [ToSet(Parts) -> Nat]
    /\ action \in [Signals -> {"app", "bytesig"}]
    /\ table \in [Signals -> {"app", "bytesig", None}]
    /\ stub \in [Funcs -> Task \cup {None}]
    /\ live \subseteq Task
    /\ over \in BOOLEAN
    /\ pc \in [Threads -> PC]
    /\ todo \in [Threads -> Seq(Works)]
    /\ \A t \in Threads : IsInjective(todo[t])

Making == {"make", "sigaction", "store"}
InLock == {"locked", "unlock"} \cup Making

\* The threads between lock and unlock are the one that has the lock.
LockInv == \A t \in Threads : pc[t] \in InLock <=> lock = t

Untouched(s) == action[s] = "app" /\ table[s] = None
Handled(s) == action[s] = "bytesig" /\ table[s] = "app"

\* The linker's functions were found, all of those that the phone needs.
Linked == phone.linker.ok /\ linker = phone.linker.addr

\* What t has made of the engine before it goes on from where it is.
Progress(t) ==
    /\ Linked /\ todo[t] # <<>>
    /\ pc[t] = "make" =>
          /\ Left(t) \subseteq ToSet(Parts)
          /\ \A p \in ToSet(Parts) : made[p] = IF p \in Left(t) THEN 0 ELSE 1
          /\ \A s \in Signals : Untouched(s)
    /\ pc[t] \in {"sigaction", "store"} =>
          /\ Left(t) \subseteq Signals
          /\ \A p \in ToSet(Parts) : made[p] = 1
          /\ \A s \in Signals : s \notin Left(t) => Handled(s)
          /\ \A s \in Left(t) : s # Head(todo[t]) => Untouched(s)
    /\ pc[t] = "sigaction" => Untouched(Head(todo[t]))
    /\ pc[t] = "store" => action[Head(todo[t])] = "bytesig" /\ old = "app"

EngineInv ==
    /\ \A t \in Threads : pc[t] \in Making => status = "uninit" /\ Progress(t)
    /\ status = "uninit" /\ (\A t \in Threads : pc[t] \notin Making) =>
          /\ \A p \in ToSet(Parts) : made[p] = 0
          /\ \A s \in Signals : Untouched(s)
    /\ status = "ok" =>
          /\ Linked
          /\ \A p \in ToSet(Parts) : made[p] = 1
          /\ \A s \in Signals : Handled(s)
    /\ status # "uninit" => \A s \in Signals : Untouched(s) \/ Handled(s)

\* What bh_linker_init does not fail without.
PhoneInv ==
    phone.linker.ok =>
        /\ phone.api \in LollipopApis \cup NougatApis => phone.linker.addr.g_dl_mutex # Null
        /\ phone.api \in NougatApis =>
              phone.linker.addr.dlopen_ext # Null \/ phone.linker.addr.do_dlopen # Null

Hooking == {"map", "alloc"}

TaskInv ==
    /\ status # "ok" => live = {}
    /\ \A f \in Funcs : stub[f] # None => stub[f] \in live /\ stub[f][1] = f
    /\ ~over => live \subseteq Owned
    /\ ~over => \A t, u \in Threads : pc[t] # "out" /\ pc[u] # "out" => t = u
    /\ ~over => \A t \in Threads : pc[t] \notin Hooking \cup {"out", "clear"} => live = {}
    /\ ~over => \A t \in Threads : pc[t] \in Hooking =>
          \A x \in live : x[1] \notin Left(t) /\ (pc[t] = "map" => x[1] \notin ToSet(AllocFuncs))
    /\ \A t \in Threads : pc[t] = "map" => Left(t) \subseteq ToSet(MapFuncs)
    /\ \A t \in Threads : pc[t] = "alloc" => Left(t) \subseteq ToSet(AllocFuncs)
    /\ \A t \in Threads : pc[t] = "clear" =>
          /\ \A u \in Threads : u # t => pc[u] = "out"
          /\ Left(t) \subseteq Funcs
          /\ \A f \in Funcs : stub[f] # None => f \in Left(t)

StartInv == Types /\ LockInv /\ EngineInv /\ PhoneInv /\ TaskInv

-----------------------------------------------------------------------------
\* What there is to do, one less of it.
LEMMA TailLeft ==
    ASSUME NEW S, NEW s \in Seq(S), s # <<>>, IsInjective(s)
    PROVE  /\ Head(s) \in ToSet(s) /\ Head(s) \in S /\ ToSet(s) \subseteq S
           /\ Tail(s) \in Seq(S) /\ IsInjective(Tail(s))
           /\ ToSet(Tail(s)) = ToSet(s) \ {Head(s)}
           /\ Len(s) > 1 <=> Tail(s) # <<>>
  <1>1. /\ Len(s) \in Nat /\ Len(s) >= 1 /\ DOMAIN s = 1..Len(s)
        /\ \A i \in 1..Len(s) : s[i] \in S
        /\ Head(s) = s[1]
    OBVIOUS
  <1>2. /\ Tail(s) \in Seq(S) /\ Len(Tail(s)) = Len(s) - 1
        /\ DOMAIN Tail(s) = 1..(Len(s) - 1)
        /\ \A i \in 1..(Len(s) - 1) : Tail(s)[i] = s[i + 1]
    BY <1>1
  <1>3. IsInjective(Tail(s))
    BY <1>1, <1>2 DEF IsInjective
  <1>4. ToSet(Tail(s)) \subseteq ToSet(s) \ {Head(s)}
    BY <1>1, <1>2 DEF IsInjective, ToSet
  <1>5. ASSUME NEW x \in ToSet(s) \ {Head(s)}
        PROVE  x \in ToSet(Tail(s))
    <2>1. PICK i \in 1..Len(s) : x = s[i] /\ i # 1
      BY <1>1, <1>5 DEF ToSet
    <2>2. i - 1 \in 1..(Len(s) - 1) /\ Tail(s)[i - 1] = s[i]
      BY <1>1, <1>2, <2>1
    <2>3. QED
      BY <1>2, <2>1, <2>2 DEF ToSet
  <1>6. Len(s) > 1 <=> Tail(s) # <<>>
    BY <1>1, <1>2
  <1>7. Head(s) \in ToSet(s) /\ ToSet(s) \subseteq S
    BY <1>1 DEF ToSet
  <1>8. ToSet(Tail(s)) = ToSet(s) \ {Head(s)}
    BY <1>4, <1>5
  <1>9. QED
    BY <1>1, <1>2, <1>3, <1>6, <1>7, <1>8

\* The lists of things to do.
LEMMA Lists ==
    /\ Funcs = {"pthread_exit", "mmap", "mmap64", "munmap",
                "malloc", "calloc", "realloc", "free"}
    /\ ToSet(MapFuncs) = {"pthread_exit", "mmap", "mmap64", "munmap"}
    /\ ToSet(AllocFuncs) = {"malloc", "calloc", "realloc", "free"}
    /\ ToSet(ClearOrder) = Funcs
    /\ ToSet(Parts) = {"task_mgr", "hook_mgr", "elf_mgr", "tls_key"}
    /\ ToSet(<<"SIGSEGV", "SIGBUS">>) = Signals
    /\ ToSet(<<>>) = {}
    /\ \A s \in {MapFuncs, AllocFuncs, ClearOrder, Parts, <<"SIGSEGV", "SIGBUS">>, <<>>} :
          s \in Seq(Works) /\ IsInjective(s)
  <1>1. /\ ToSet(MapFuncs) = {"pthread_exit", "mmap", "mmap64", "munmap"}
        /\ ToSet(AllocFuncs) = {"malloc", "calloc", "realloc", "free"}
        /\ ToSet(<<>>) = {}
        /\ ToSet(<<"SIGSEGV", "SIGBUS">>) = Signals
        /\ ToSet(Parts) = {"task_mgr", "hook_mgr", "elf_mgr", "tls_key"}
    BY DEF ToSet, MapFuncs, AllocFuncs, Signals, Parts
  <1>2. Funcs = {"pthread_exit", "mmap", "mmap64", "munmap",
                 "malloc", "calloc", "realloc", "free"}
    BY DEF ToSet, MapFuncs, AllocFuncs, Funcs
  <1>3. ToSet(ClearOrder) = Funcs
    BY <1>2 DEF ToSet, ClearOrder
  <1>4. \A s \in {MapFuncs, AllocFuncs, ClearOrder, Parts, <<"SIGSEGV", "SIGBUS">>, <<>>} :
          s \in Seq(Works)
    <2>1. MapFuncs \in Seq(Works) /\ AllocFuncs \in Seq(Works)
      BY <1>2 DEF MapFuncs, AllocFuncs, Works
    <2>2. ClearOrder \in Seq(Works)
      BY <1>2 DEF ClearOrder, Works
    <2>3. Parts \in Seq(Works)
      BY <1>1 DEF Parts, Works
    <2>4. <<"SIGSEGV", "SIGBUS">> \in Seq(Works) /\ <<>> \in Seq(Works)
      BY DEF Works, Signals
    <2>5. QED
      BY <2>1, <2>2, <2>3, <2>4
  <1>5. \A s \in {MapFuncs, AllocFuncs, ClearOrder, Parts, <<"SIGSEGV", "SIGBUS">>, <<>>} :
          IsInjective(s)
    BY DEF MapFuncs, AllocFuncs, ClearOrder, Parts, IsInjective
  <1>6. QED
    BY <1>1, <1>2, <1>3, <1>4, <1>5

\* A thread that goes on with another list leaves those of the others alone.
LEMMA TodoKeeps ==
    ASSUME Types, NEW t \in Threads, NEW q \in Seq(Works), IsInjective(q),
           todo' = [todo EXCEPT ![t] = q]
    PROVE  /\ todo' \in [Threads -> Seq(Works)]
           /\ \A u \in Threads : IsInjective(todo'[u])
           /\ \A u \in Threads : u # t => todo'[u] = todo[u] /\ Left(u)' = Left(u)
           /\ todo'[t] = q /\ Left(t)' = ToSet(q)
  <1>1. \A u \in Threads : todo'[u] = IF u = t THEN q ELSE todo[u]
    BY DEF Types
  <1>2. todo' \in [Threads -> Seq(Works)]
    BY DEF Types
  <1>3. \A u \in Threads : IsInjective(todo'[u])
    BY <1>1 DEF Types
  <1>4. QED
    BY <1>1, <1>2, <1>3 DEF Left

\* A step of a thread that makes no part of the engine, and after which it makes none.
LEMMA EngineFrame ==
    ASSUME StartInv, NEW t \in Threads,
           UNCHANGED <<phone, status, linker, made, action, old, table>>,
           pc[t] \notin Making, pc'[t] \notin Making,
           \A u \in Threads : u # t => pc'[u] = pc[u] /\ todo'[u] = todo[u]
    PROVE  EngineInv'
  <1>1. \A u \in Threads : pc'[u] \in Making => u # t
    OBVIOUS
  <1>2. \A u \in Threads : pc[u] \in Making <=> pc'[u] \in Making
    OBVIOUS
  <1>3. \A u \in Threads : u # t /\ Progress(u) => Progress(u)'
    BY DEF Progress, Linked, Untouched, Handled, Left
  <1>4. QED
    BY <1>1, <1>2, <1>3 DEF StartInv, EngineInv, Linked, Untouched, Handled

\* A step on the way from initAndStart to do_hook.
LEMMA TaskFrame ==
    ASSUME StartInv, NEW t \in Threads,
           UNCHANGED <<stub, live, over>>,
           status = "ok" => status' = "ok",
           pc[t] \notin Hooking \cup {"out", "clear"}, pc'[t] \notin {"out", "clear"},
           pc'[t] \in Hooking => pc'[t] = "map" /\ Left(t)' \subseteq ToSet(MapFuncs),
           \A u \in Threads : u # t => pc'[u] = pc[u] /\ todo'[u] = todo[u]
    PROVE  TaskInv'
  <1>1. TaskInv
    BY DEF StartInv
  <1>2. Owned' = Owned
    BY DEF Owned
  <1>3. \A u \in Threads : u # t => Left(u)' = Left(u)
    BY DEF Left
  <1>4. \A u \in Threads : pc[u] # "clear" /\ pc'[u] # "clear"
    BY <1>1 DEF TaskInv
  <1>5. ~over => live = {}
    BY <1>1 DEF TaskInv
  <1>6. \A u \in Threads : pc'[u] # "out" <=> pc[u] # "out"
    OBVIOUS
  <1>7. \A u \in Threads : /\ pc'[u] = "map" => Left(u)' \subseteq ToSet(MapFuncs)
                           /\ pc'[u] = "alloc" => Left(u)' \subseteq ToSet(AllocFuncs)
    BY <1>1, <1>3 DEF TaskInv, Hooking
  <1>8. QED
    BY <1>1, <1>2, <1>4, <1>5, <1>6, <1>7 DEF TaskInv

\* Another call of init.
LEMMA InitStartKeeps ==
    ASSUME StartInv, NEW t \in Threads, InitAndStart(t)
    PROVE  StartInv'
  <1>1. InitAndStart(t) /\ Types /\ LockInv /\ EngineInv /\ PhoneInv /\ TaskInv
    BY DEF StartInv
  <1>2. todo' = todo
    BY <1>1 DEF InitAndStart
  <1>3. Types'
    BY <1>1, <1>2, Lists DEF Types, InitAndStart, GoTo, Do, engine, tasks, PC
  <1>4. LockInv'
    BY <1>1, NoneType DEF Types, LockInv, InitAndStart, GoTo, Do, engine, tasks, InLock, Making
  <1>5. EngineInv'
    BY <1>1, <1>2, EngineFrame DEF Types, InitAndStart, GoTo, Do, engine, tasks, Making
  <1>6. PhoneInv'
    BY <1>1 DEF PhoneInv, InitAndStart
  <1>7. TaskInv'
    <2>1. ~over' => live = {} /\ \A u \in Threads : pc[u] = "out"
      BY <1>1 DEF InitAndStart, TaskInv, Types
    <2>2. \A u \in Threads : pc'[u] = IF u = t THEN "init" ELSE pc[u]
      BY <1>1 DEF InitAndStart, GoTo, Types
    <2>3. \A u \in Threads : pc[u] # "clear" /\ pc'[u] # "clear"
      BY <1>1, <2>2 DEF InitAndStart
    <2>4. \A u \in Threads : Left(u)' = Left(u)
      BY <1>2 DEF Left
    <2>5. Owned' = Owned /\ UNCHANGED <<status, stub, live>>
      BY <1>1 DEF InitAndStart, engine, Owned
    <2>6. QED
      BY <1>1, <2>1, <2>2, <2>3, <2>4, <2>5 DEF TaskInv, Hooking
  <1>8. QED
    BY <1>3, <1>4, <1>5, <1>6, <1>7 DEF StartInv

\* The status is read without the lock.
LEMMA ReadStatusKeeps ==
    ASSUME StartInv, NEW t \in Threads, ReadStatus(t)
    PROVE  StartInv'
  <1>1. ReadStatus(t) /\ Types /\ LockInv /\ EngineInv /\ PhoneInv /\ TaskInv
    BY DEF StartInv
  <1>2. \/ todo' = todo /\ ~(pc'[t] \in Hooking)
        \/ \E q \in {MapFuncs, <<>>} : todo' = [todo EXCEPT ![t] = q]
    BY <1>1 DEF ReadStatus, DoHook, GoTo, Do, Types, Hooking
  <1>3. Types'
    <2>1. todo' \in [Threads -> Seq(Works)] /\ \A u \in Threads : IsInjective(todo'[u])
      BY <1>1, <1>2, Lists, TodoKeeps DEF Types
    <2>2. QED
      BY <1>1, <2>1 DEF Types, ReadStatus, DoHook, GoTo, engine, tasks, PC
  <1>4. LockInv'
    BY <1>1, NoneType DEF Types, LockInv, ReadStatus, DoHook, GoTo, Do, engine, tasks, InLock, Making
  <1>5. EngineInv'
    BY <1>1, <1>2, EngineFrame DEF Types, ReadStatus, DoHook, GoTo, Do, engine, tasks, Making
  <1>6. PhoneInv'
    BY <1>1 DEF PhoneInv, ReadStatus
  <1>7. TaskInv'
    <2>1. pc'[t] \in Hooking => pc'[t] = "map" /\ Left(t)' \subseteq ToSet(MapFuncs)
      <3>1. ASSUME NEW q \in {MapFuncs, <<>>}, todo' = [todo EXCEPT ![t] = q]
            PROVE  Left(t)' \subseteq ToSet(MapFuncs)
        <4>1. q \in Seq(Works) /\ IsInjective(q) /\ ToSet(q) \subseteq ToSet(MapFuncs)
          BY <3>1, Lists
        <4>2. QED
          BY <1>1, <3>1, <4>1, TodoKeeps
      <3>2. pc'[t] \in Hooking => pc'[t] = "map"
        BY <1>1 DEF ReadStatus, DoHook, GoTo, Types, Hooking
      <3>3. QED
        BY <1>2, <3>1, <3>2
    <2>2. \A u \in Threads : u # t => pc'[u] = pc[u] /\ todo'[u] = todo[u]
      BY <1>1, <1>2 DEF Types, ReadStatus, DoHook, GoTo
    <2>3. QED
      BY <1>1, <2>1, <2>2, TaskFrame DEF Types, ReadStatus, DoHook, GoTo, engine, tasks, Hooking
  <1>8. QED
    BY <1>3, <1>4, <1>5, <1>6, <1>7 DEF StartInv

\* The lock is taken.
LEMMA LockKeeps ==
    ASSUME StartInv, NEW t \in Threads, Lock(t)
    PROVE  StartInv'
  <1>1. Lock(t) /\ Types /\ LockInv /\ EngineInv /\ PhoneInv /\ TaskInv
    BY DEF StartInv
  <1>2. todo' = todo
    BY <1>1 DEF Lock
  <1>3. Types'
    BY <1>1, <1>2, Lists DEF Types, Lock, GoTo, Do, engine, tasks, PC
  <1>4. LockInv'
    BY <1>1, NoneType DEF Types, LockInv, Lock, GoTo, Do, engine, tasks, InLock, Making
  <1>5. EngineInv'
    BY <1>1, <1>2, EngineFrame DEF Types, Lock, GoTo, Do, engine, tasks, Making
  <1>6. PhoneInv'
    BY <1>1 DEF PhoneInv, Lock
  <1>7. TaskInv'
    BY <1>1, <1>2, <1>3, TaskFrame DEF Types, Lock, GoTo, Do, engine, tasks, Hooking
  <1>8. QED
    BY <1>3, <1>4, <1>5, <1>6, <1>7 DEF StartInv

\* The status is read again under the lock, and the linker is looked at.
LEMMA FindLinkerKeeps ==
    ASSUME StartInv, NEW t \in Threads, FindLinker(t)
    PROVE  StartInv'
  <1>1. FindLinker(t) /\ Types /\ LockInv /\ EngineInv /\ PhoneInv /\ TaskInv
    BY DEF StartInv
  <1>2. /\ status = "uninit" => \A u \in Threads : pc[u] \notin Making
        /\ \E q \in {todo[t], Parts, <<>>} : todo' = [todo EXCEPT ![t] = q]
        /\ \A u \in Threads : u # t => pc'[u] = pc[u] /\ todo'[u] = todo[u]
    BY <1>1 DEF FindLinker, End, GoTo, Do, Types, LockInv, InLock, Making
  <1>3. Types'
    <2>1. todo' \in [Threads -> Seq(Works)] /\ \A u \in Threads : IsInjective(todo'[u])
      BY <1>1, <1>2, Lists, TodoKeeps DEF Types
    <2>2. QED
      BY <1>1, <2>1 DEF Types, FindLinker, End, GoTo, tasks, PC
  <1>4. LockInv'
    BY <1>1, NoneType DEF Types, LockInv, FindLinker, GoTo, Do, engine, tasks, InLock, Making, End
  <1>5. EngineInv'
    <2>1. CASE status # "uninit"
      BY <1>1, <1>2, <2>1, EngineFrame DEF Types, FindLinker, GoTo, tasks, Making
    <2>2. CASE status = "uninit" /\ phone.linker.ok
      <3>1. /\ pc'[t] = "make" /\ todo'[t] = Parts /\ status' = "uninit" /\ Linked'
            /\ UNCHANGED <<made, action, table>>
        BY <1>1, <2>2 DEF FindLinker, GoTo, Do, Linked, Types
      <3>2. \A u \in Threads : u # t => pc'[u] \notin Making
        BY <1>1, <1>2, <2>2
      <3>3. Left(t)' = ToSet(Parts) /\ Parts # <<>>
        BY <3>1 DEF Left, Parts
      <3>4. Progress(t)'
        BY <1>1, <1>2, <2>2, <3>1, <3>3 DEF Progress, EngineInv, Untouched
      <3>5. QED
        BY <3>1, <3>2, <3>4 DEF EngineInv, Making
    <2>3. CASE status = "uninit" /\ ~phone.linker.ok
      <3>1. status' = "sym" /\ UNCHANGED <<action, table>>
        BY <1>1, <2>3 DEF FindLinker, End
      <3>2. \A u \in Threads : pc'[u] \notin Making
        BY <1>1, <1>2, <2>3 DEF FindLinker, End, GoTo, Types, Making
      <3>3. QED
        BY <1>1, <1>2, <2>3, <3>1, <3>2 DEF EngineInv, Untouched
    <2>4. QED
      BY <2>1, <2>2, <2>3
  <1>6. PhoneInv'
    BY <1>1 DEF PhoneInv, FindLinker
  <1>7. TaskInv'
    BY ZenonT(60), <1>1, <1>2, TaskFrame DEF FindLinker, End, GoTo, tasks, Types, Hooking
  <1>8. QED
    BY <1>3, <1>4, <1>5, <1>6, <1>7 DEF StartInv

\* A part of the engine is made, or cannot be.
LEMMA MakeKeeps ==
    ASSUME StartInv, NEW t \in Threads, Make(t)
    PROVE  StartInv'
  <1>1. Make(t) /\ Types /\ LockInv /\ EngineInv /\ PhoneInv /\ TaskInv
    BY DEF StartInv
  <1>2. /\ \A u \in Threads : u # t => pc[u] \notin Making /\ pc'[u] = pc[u] /\ todo'[u] = todo[u]
        /\ status = "uninit" /\ Progress(t)
        /\ Linked' = Linked /\ UNCHANGED <<phone, linker, tasks>>
    BY <1>1 DEF Make, LockInv, InLock, Making, EngineInv, Linked, Types, End, Done, GoTo, Do
  <1>9. /\ Head(todo[t]) \in Left(t) /\ Left(t) \subseteq Works
        /\ Tail(todo[t]) \in Seq(Works) /\ IsInjective(Tail(todo[t]))
        /\ ToSet(Tail(todo[t])) = Left(t) \ {Head(todo[t])}
        /\ Len(todo[t]) > 1 <=> Tail(todo[t]) # <<>>
    BY <1>1, <1>2, TailLeft DEF Types, Left, Progress
  <1>10. \E q \in {todo[t], Tail(todo[t]), <<"SIGSEGV", "SIGBUS">>, <<>>} :
            todo' = [todo EXCEPT ![t] = q]
    BY <1>1 DEF Make, End, Done, GoTo, Do, Types
  <1>11. todo' \in [Threads -> Seq(Works)] /\ \A u \in Threads : IsInjective(todo'[u])
    BY <1>1, <1>9, <1>10, Lists, TodoKeeps DEF Types
  <1>3. Types'
    <2>1. Head(todo[t]) \in ToSet(Parts)
      BY <1>1, <1>2, <1>9 DEF Make, Progress
    <2>2. made' = [made EXCEPT ![Head(todo[t])] = made[Head(todo[t])] + 1] \/ made' = made
      BY <1>1 DEF Make
    <2>3. made' \in [ToSet(Parts) -> Nat]
      BY <1>1, <2>1, <2>2 DEF Types
    <2>4. pc' = pc \/ pc' = [pc EXCEPT ![t] = "sigaction"] \/ pc' = [pc EXCEPT ![t] = "unlock"]
      BY <1>1 DEF Make, End, GoTo
    <2>5. pc' \in [Threads -> PC]
      BY <1>1, <2>4 DEF Types, PC
    <2>6. QED
      BY <1>1, <1>2, <1>11, <2>3, <2>5 DEF Types, Make, tasks
  <1>4. LockInv'
    BY <1>1, NoneType DEF Types, LockInv, Make, End, Done, GoTo, Do, GoTo, Do, engine, tasks, InLock, Making
  <1>5. EngineInv'
    <2>1. CASE made' = [made EXCEPT ![Head(todo[t])] = @ + 1] /\ status' = status
      <3>1. /\ Head(todo[t]) \in ToSet(Parts)
            /\ \A p \in ToSet(Parts) : made'[p] = IF p \in Left(t) \ {Head(todo[t])} THEN 0 ELSE 1
            /\ \A s \in Signals : Untouched(s)'
            /\ UNCHANGED <<action, table>>
        BY <1>1, <1>2, <1>9, <2>1 DEF Make, Progress, Types, Untouched
      <3>2. CASE Len(todo[t]) > 1
        <4>1. pc'[t] = "make" /\ todo'[t] = Tail(todo[t]) /\ Left(t)' = Left(t) \ {Head(todo[t])}
          <5>1. pc'[t] = "make" /\ todo' = [todo EXCEPT ![t] = Tail(todo[t])]
            BY <1>1, <1>2, <2>1, <3>2 DEF Make, Done, Do, End, GoTo, Types
          <5>2. QED
            BY <1>1, <1>9, <5>1, TodoKeeps
        <4>2. Progress(t)'
          BY <1>1, <1>2, <1>9, <3>1, <3>2, <4>1 DEF Progress, Make
        <4>3. QED
          BY <1>2, <2>1, <3>1, <4>1, <4>2 DEF EngineInv, Making
      <3>3. CASE ~(Len(todo[t]) > 1)
        <4>1. /\ pc'[t] = "sigaction" /\ todo'[t] = <<"SIGSEGV", "SIGBUS">>
              /\ Left(t)' = Signals
          BY <1>1, <1>2, <2>1, <3>3, Lists DEF Make, Do, Types, Left, End, GoTo
        <4>2. Left(t) \ {Head(todo[t])} = {}
          BY <1>9, <3>3, Lists
        <4>3. Head(todo'[t]) \in Signals /\ todo'[t] # <<>>
          BY <4>1 DEF Signals
        <4>4. Progress(t)'
          BY <1>1, <1>2, <3>1, <4>1, <4>2, <4>3 DEF Progress
        <4>5. QED
          BY <1>2, <2>1, <3>1, <4>1, <4>4 DEF EngineInv, Making
      <3>4. QED
        BY <3>2, <3>3
    <2>2. CASE End(t, "part") /\ UNCHANGED made
      <3>1. /\ status' = "part" /\ pc'[t] = "unlock"
            /\ UNCHANGED <<action, table>>
        BY <1>1, <2>2 DEF Make, End, GoTo, Types
      <3>2. \A u \in Threads : pc'[u] \notin Making
        BY <1>2, <3>1 DEF Making
      <3>3. \A s \in Signals : Untouched(s) \/ Handled(s)
        BY <1>1, <1>2 DEF Make, Progress
      <3>4. QED
        BY <3>1, <3>2, <3>3 DEF EngineInv, Untouched, Handled
    <2>3. QED
      BY <1>1, <2>1, <2>2 DEF Make
  <1>6. PhoneInv'
    BY <1>1 DEF PhoneInv, Make
  <1>7. TaskInv'
    BY <1>1, <1>2, TaskFrame DEF Make, End, GoTo, tasks, Types, Hooking
  <1>8. QED
    BY <1>3, <1>4, <1>5, <1>6, <1>7 DEF StartInv

\* A handler is installed, or cannot be.
LEMMA SigactionKeeps ==
    ASSUME StartInv, NEW t \in Threads, Sigaction(t)
    PROVE  StartInv'
  <1>1. Sigaction(t) /\ Types /\ LockInv /\ EngineInv /\ PhoneInv /\ TaskInv
    BY DEF StartInv
  <1>2. /\ \A u \in Threads : u # t => pc[u] \notin Making /\ pc'[u] = pc[u] /\ todo'[u] = todo[u]
        /\ status = "uninit" /\ Progress(t)
        /\ Linked' = Linked /\ UNCHANGED <<phone, linker, tasks>>
    BY <1>1 DEF Sigaction, LockInv, InLock, Making, EngineInv, Linked, Types, End, Done, GoTo, Do
  <1>9. /\ Head(todo[t]) \in Left(t) /\ Left(t) \subseteq Works
        /\ Tail(todo[t]) \in Seq(Works) /\ IsInjective(Tail(todo[t]))
        /\ ToSet(Tail(todo[t])) = Left(t) \ {Head(todo[t])}
        /\ Len(todo[t]) > 1 <=> Tail(todo[t]) # <<>>
    BY <1>1, <1>2, TailLeft DEF Types, Left, Progress
  <1>10. \E q \in {todo[t], Tail(todo[t]), <<"SIGSEGV", "SIGBUS">>, <<>>} :
            todo' = [todo EXCEPT ![t] = q]
    BY <1>1 DEF Sigaction, End, Done, GoTo, Do, Types
  <1>11. todo' \in [Threads -> Seq(Works)] /\ \A u \in Threads : IsInjective(todo'[u])
    BY <1>1, <1>9, <1>10, Lists, TodoKeeps DEF Types
  <1>3. Types'
    BY <1>1, <1>2, <1>9, <1>11 DEF Types, Sigaction, End, Done, GoTo, Do, tasks, PC, Progress
  <1>4. LockInv'
    BY <1>1, NoneType DEF Types, LockInv, Sigaction, End, Done, GoTo, Do, GoTo, Do, engine, tasks, InLock, Making
  <1>5. EngineInv'
    <2>1. CASE /\ action' = [action EXCEPT ![Head(todo[t])] = "bytesig"]
               /\ old' = action[Head(todo[t])]
               /\ GoTo(t, "store")
               /\ UNCHANGED <<status, todo>>
      <3>1. /\ pc'[t] = "store" /\ Left(t)' = Left(t) /\ UNCHANGED <<made, table>>
            /\ Head(todo[t]) \in Signals
            /\ old' = "app" /\ action'[Head(todo[t])] = "bytesig"
            /\ \A s \in Signals : s # Head(todo[t]) => action'[s] = action[s]
        BY <1>1, <1>2, <1>9, <2>1 DEF Sigaction, GoTo, Progress, Types, Untouched, Left
      <3>2. Progress(t)'
        BY <1>1, <1>2, <2>1, <3>1 DEF Progress, Sigaction, Untouched, Handled
      <3>3. QED
        BY <1>2, <2>1, <3>1, <3>2 DEF EngineInv, Making
    <2>2. CASE End(t, "sig") /\ UNCHANGED <<action, old>>
      <3>1. /\ status' = "sig" /\ pc'[t] = "unlock"
            /\ UNCHANGED <<action, table>>
        BY <1>1, <2>2 DEF Sigaction, End, GoTo, Types
      <3>2. \A u \in Threads : pc'[u] \notin Making
        BY <1>2, <3>1 DEF Making
      <3>3. \A s \in Signals : Untouched(s) \/ Handled(s)
        BY <1>1, <1>2 DEF Sigaction, Progress
      <3>4. QED
        BY <3>1, <3>2, <3>3 DEF EngineInv, Untouched, Handled
    <2>3. QED
      BY <1>1, <2>1, <2>2 DEF Sigaction
  <1>6. PhoneInv'
    BY <1>1 DEF PhoneInv, Sigaction
  <1>7. TaskInv'
    BY SMTT(40), <1>1, <1>2, TaskFrame DEF Sigaction, End, GoTo, tasks, Types, Hooking
  <1>8. QED
    BY <1>3, <1>4, <1>5, <1>6, <1>7 DEF StartInv

\* The action that was there is stored.
LEMMA StoreKeeps ==
    ASSUME StartInv, NEW t \in Threads, Store(t)
    PROVE  StartInv'
  <1>1. Store(t) /\ Types /\ LockInv /\ EngineInv /\ PhoneInv /\ TaskInv
    BY DEF StartInv
  <1>2. /\ \A u \in Threads : u # t => pc[u] \notin Making /\ pc'[u] = pc[u] /\ todo'[u] = todo[u]
        /\ status = "uninit" /\ Progress(t)
        /\ Linked' = Linked /\ UNCHANGED <<phone, linker, tasks>>
    BY <1>1 DEF Store, LockInv, InLock, Making, EngineInv, Linked, Types, End, Done, GoTo, Do
  <1>9. /\ Head(todo[t]) \in Left(t) /\ Left(t) \subseteq Works
        /\ Tail(todo[t]) \in Seq(Works) /\ IsInjective(Tail(todo[t]))
        /\ ToSet(Tail(todo[t])) = Left(t) \ {Head(todo[t])}
        /\ Len(todo[t]) > 1 <=> Tail(todo[t]) # <<>>
    BY <1>1, <1>2, TailLeft DEF Types, Left, Progress
  <1>10. \E q \in {todo[t], Tail(todo[t]), <<"SIGSEGV", "SIGBUS">>, <<>>} :
            todo' = [todo EXCEPT ![t] = q]
    BY <1>1 DEF Store, End, Done, GoTo, Do, Types
  <1>11. todo' \in [Threads -> Seq(Works)] /\ \A u \in Threads : IsInjective(todo'[u])
    BY <1>1, <1>9, <1>10, Lists, TodoKeeps DEF Types
  <1>3. Types'
    BY <1>1, <1>2, <1>9, <1>11 DEF Types, Store, End, Done, GoTo, Do, tasks, PC, Progress
  <1>4. LockInv'
    BY <1>1, NoneType DEF Types, LockInv, Store, End, Done, GoTo, Do, GoTo, Do, engine, tasks, InLock, Making
  <1>5. EngineInv'
    <2>1. /\ Head(todo[t]) \in Signals /\ UNCHANGED <<made, action>>
          /\ \A s \in Signals : s # Head(todo[t]) => table'[s] = table[s]
          /\ \A s \in Signals : s \notin Left(t) \ {Head(todo[t])} => Handled(s)'
          /\ \A s \in Left(t) \ {Head(todo[t])} : Untouched(s)'
      <3>1. /\ Left(t) \subseteq Signals /\ Head(todo[t]) \in Signals
            /\ UNCHANGED <<made, action>>
            /\ table' = [table EXCEPT ![Head(todo[t])] = "app"]
            /\ action[Head(todo[t])] = "bytesig"
        BY <1>1, <1>2, <1>9 DEF Store, Progress
      <3>2. \A s \in Signals : table'[s] = IF s = Head(todo[t]) THEN "app" ELSE table[s]
        BY <1>1, <3>1 DEF Types
      <3>3. \A s \in Signals : s \notin Left(t) => Handled(s)
        BY <1>1, <1>2 DEF Store, Progress
      <3>4. \A s \in Left(t) : s # Head(todo[t]) => Untouched(s)
        BY <1>1, <1>2 DEF Store, Progress
      <3>5. \A s \in Signals : s \notin Left(t) \ {Head(todo[t])} => Handled(s)'
        BY <3>1, <3>2, <3>3 DEF Handled
      <3>6. \A s \in Left(t) \ {Head(todo[t])} : Untouched(s)'
        BY <3>1, <3>2, <3>4 DEF Untouched
      <3>7. QED
        BY <3>1, <3>2, <3>5, <3>6
    <2>2. CASE Len(todo[t]) > 1
      <3>1. /\ pc'[t] = "sigaction" /\ todo'[t] = Tail(todo[t]) /\ status' = status
            /\ Left(t)' = Left(t) \ {Head(todo[t])}
        BY <1>1, <1>9, <2>2 DEF Store, Done, Do, GoTo, Types, Left
      <3>2. Head(todo'[t]) \in Left(t)' /\ todo'[t] # <<>>
        BY <1>9, <1>11, <2>2, <3>1, TailLeft DEF Left
      <3>3. Progress(t)'
        <4>1. \A p \in ToSet(Parts) : made'[p] = 1
          BY <1>1, <1>2, <2>1 DEF Store, Progress
        <4>2. Left(t)' \subseteq Signals
          BY <1>1, <1>2, <3>1 DEF Store, Progress
        <4>3. Untouched(Head(todo[t]))'
          BY <2>1, <3>1, <3>2 DEF Untouched
        <4>4. QED
          BY <1>1, <1>2, <2>1, <3>1, <3>2, <4>1, <4>2, <4>3 DEF Progress
      <3>4. QED
        BY <1>2, <3>1, <3>3 DEF EngineInv, Making
    <2>3. CASE ~(Len(todo[t]) > 1)
      <3>1. pc'[t] = "unlock" /\ status' = "ok" /\ Left(t) \ {Head(todo[t])} = {}
        BY <1>1, <1>9, <2>3, Lists DEF Store, End, GoTo, Types
      <3>2. \A u \in Threads : pc'[u] \notin Making
        BY <1>2, <3>1 DEF Making
      <3>3. \A s \in Signals : Handled(s)'
        BY <2>1, <3>1
      <3>4. \A p \in ToSet(Parts) : made'[p] = 1
        BY <1>1, <1>2, <2>1 DEF Store, Progress
      <3>5. QED
        BY <1>2, <3>1, <3>2, <3>3, <3>4 DEF EngineInv, Progress
    <2>4. QED
      BY <2>2, <2>3
  <1>6. PhoneInv'
    BY <1>1 DEF PhoneInv, Store
  <1>7. TaskInv'
    BY ZenonT(60), <1>1, <1>2, TaskFrame DEF Store, End, GoTo, tasks, Types, Hooking
  <1>8. QED
    BY <1>3, <1>4, <1>5, <1>6, <1>7 DEF StartInv

\* The lock is given back.
LEMMA UnlockKeeps ==
    ASSUME StartInv, NEW t \in Threads, Unlock(t)
    PROVE  StartInv'
  <1>1. Unlock(t) /\ Types /\ LockInv /\ EngineInv /\ PhoneInv /\ TaskInv
    BY DEF StartInv
  <1>2. \E q \in {MapFuncs, <<>>} : todo' = [todo EXCEPT ![t] = q]
    BY <1>1 DEF Unlock, DoHook, GoTo, Do, Types, Hooking
  <1>3. Types'
    <2>1. todo' \in [Threads -> Seq(Works)] /\ \A u \in Threads : IsInjective(todo'[u])
      BY <1>1, <1>2, Lists, TodoKeeps DEF Types
    <2>2. QED
      BY <1>1, <2>1 DEF Types, Unlock, DoHook, GoTo, engine, tasks, PC
  <1>4. LockInv'
    BY <1>1, NoneType DEF Types, LockInv, Unlock, DoHook, GoTo, Do, engine, tasks, InLock, Making
  <1>5. EngineInv'
    BY <1>1, <1>2, EngineFrame DEF Types, Unlock, DoHook, GoTo, Do, engine, tasks, Making
  <1>6. PhoneInv'
    BY <1>1 DEF PhoneInv, Unlock
  <1>7. TaskInv'
    <2>1. pc'[t] \in Hooking => pc'[t] = "map" /\ Left(t)' \subseteq ToSet(MapFuncs)
      <3>1. ASSUME NEW q \in {MapFuncs, <<>>}, todo' = [todo EXCEPT ![t] = q]
            PROVE  Left(t)' \subseteq ToSet(MapFuncs)
        <4>1. q \in Seq(Works) /\ IsInjective(q) /\ ToSet(q) \subseteq ToSet(MapFuncs)
          BY <3>1, Lists
        <4>2. QED
          BY <1>1, <3>1, <4>1, TodoKeeps
      <3>2. pc'[t] \in Hooking => pc'[t] = "map"
        BY <1>1 DEF Unlock, DoHook, GoTo, Types, Hooking
      <3>3. QED
        BY <1>2, <3>1, <3>2
    <2>2. \A u \in Threads : u # t => pc'[u] = pc[u] /\ todo'[u] = todo[u]
      BY <1>1, <1>2 DEF Types, Unlock, DoHook, GoTo
    <2>3. QED
      BY <1>1, <2>1, <2>2, TaskFrame DEF Types, Unlock, DoHook, GoTo, engine, tasks, Hooking
  <1>8. QED
    BY <1>3, <1>4, <1>5, <1>6, <1>7 DEF StartInv

\* A function is hooked, or has no task.
LEMMA HookNextKeeps ==
    ASSUME StartInv, NEW t \in Threads, HookNext(t)
    PROVE  StartInv'
  <1>1. HookNext(t) /\ Types /\ LockInv /\ EngineInv /\ PhoneInv /\ TaskInv
    BY DEF StartInv
  <1>2. /\ Head(todo[t]) \in Left(t) /\ Left(t) \subseteq Funcs
        /\ Tail(todo[t]) \in Seq(Works) /\ IsInjective(Tail(todo[t]))
        /\ todo' = [todo EXCEPT ![t] = Tail(todo[t])] /\ pc' = pc
        /\ Left(t)' = Left(t) \ {Head(todo[t])}
        /\ \A u \in Threads : u # t => todo'[u] = todo[u] /\ Left(u)' = Left(u)
    <2>1. todo[t] # <<>> /\ todo' = [todo EXCEPT ![t] = Tail(todo[t])] /\ pc' = pc
      BY <1>1 DEF HookNext, Done, Do
    <2>2. /\ Head(todo[t]) \in Left(t) /\ ToSet(Tail(todo[t])) = Left(t) \ {Head(todo[t])}
          /\ Tail(todo[t]) \in Seq(Works) /\ IsInjective(Tail(todo[t]))
      BY <1>1, <2>1, TailLeft DEF Types, Left
    <2>3. Left(t) \subseteq Funcs
      BY <1>1, Lists DEF HookNext, TaskInv, Hooking
    <2>4. QED
      BY <1>1, <2>1, <2>2, <2>3, TodoKeeps
  <1>3. Types'
    <2>1. todo' \in [Threads -> Seq(Works)] /\ \A u \in Threads : IsInjective(todo'[u])
      BY <1>1, <1>2, TodoKeeps
    <2>2. stub' \in [Funcs -> Task \cup {None}] /\ live' \subseteq Task
      <3>1. <<Head(todo[t]), t, inits>> \in Task
        BY <1>1, <1>2 DEF Types, Task
      <3>2. QED
        BY <1>1, <1>2, <3>1 DEF Types, HookNext
    <2>3. QED
      BY <1>1, <1>2, <2>1, <2>2 DEF Types, HookNext, engine
  <1>4. LockInv'
    BY <1>1, NoneType DEF Types, LockInv, HookNext, Done, GoTo, Do, engine, tasks, InLock, Making
  <1>5. EngineInv'
    BY <1>1, <1>2, EngineFrame DEF HookNext, engine, Making
  <1>6. PhoneInv'
    BY <1>1 DEF PhoneInv, HookNext
  <1>7. TaskInv'
    <2> DEFINE f == Head(todo[t])
               task == <<f, t, inits>>
    <2>1. task \in Task /\ task # None /\ task[1] = f /\ f \in Funcs
      BY <1>1, <1>2, NoneType DEF Types, Task
    <2>2. CASE status = "ok"
      <3>1. /\ live' = live \cup {task} /\ UNCHANGED <<status, over, pc>>
            /\ \A g \in Funcs : stub'[g] = IF g = f THEN task ELSE stub[g]
        BY <1>1, <2>1, <2>2 DEF HookNext, engine, Types
      <3>2. \A g \in Funcs : stub'[g] # None => stub'[g] \in live' /\ stub'[g][1] = g
        BY <1>1, <2>1, <3>1 DEF TaskInv
      <3>3. ASSUME ~over
            PROVE  /\ live' \subseteq Owned'
                   /\ \A u \in Threads : pc[u] # "out" => u = t
        <4>1. live \subseteq Owned /\ \A x \in live : x[1] # f
          BY <1>1, <1>2, <3>3 DEF TaskInv, HookNext, Hooking
        <4>2. \A x \in live : x[1] \in Funcs /\ x = stub[x[1]]
          BY <1>1, <4>1 DEF TaskInv, Owned
        <4>3. \A x \in live' : x # None /\ \E g \in Funcs : x = stub'[g]
          <5>1. \A x \in live : stub'[x[1]] = x /\ x[1] \in Funcs /\ x # None
            BY <1>1, <3>1, <4>1, <4>2, NoneType DEF Types, Owned
          <5>2. stub'[f] = task
            BY <2>1, <3>1
          <5>3. QED
            BY <2>1, <3>1, <5>1, <5>2
        <4>4. QED
          BY <1>1, <3>3, <4>3 DEF TaskInv, HookNext, Owned
      <3>4. ASSUME ~over
            PROVE  \A x \in live' : /\ x[1] \notin Left(t)'
                                    /\ pc[t] = "map" => x[1] \notin ToSet(AllocFuncs)
        <4>1. \A x \in live : /\ x[1] \notin Left(t)
                              /\ pc[t] = "map" => x[1] \notin ToSet(AllocFuncs)
          BY <1>1, <3>4 DEF TaskInv, HookNext, Hooking
        <4>2. QED
          BY <1>2, <2>1, <3>1, <4>1, <1>1, Lists DEF TaskInv, Types
      <3>5. \A u \in Threads : pc[u] # "clear"
        BY <1>1 DEF HookNext, TaskInv
      <3>6. \A u \in Threads : /\ pc'[u] = "map" => Left(u)' \subseteq ToSet(MapFuncs)
                               /\ pc'[u] = "alloc" => Left(u)' \subseteq ToSet(AllocFuncs)
        BY <1>1, <1>2 DEF TaskInv
      <3>7. QED
        BY <1>1, <2>2, <3>1, <3>2, <3>3, <3>4, <3>5, <3>6 DEF TaskInv, HookNext, Hooking
    <2>3. CASE status # "ok"
      <3>1. /\ live = {} /\ live' = {} /\ UNCHANGED <<status, over, pc>>
            /\ \A g \in Funcs : stub'[g] = IF g = f THEN None ELSE stub[g]
        BY <1>1, <2>1, <2>3 DEF HookNext, TaskInv, engine, Types
      <3>2. \A g \in Funcs : stub'[g] = None
        BY <1>1, <3>1 DEF TaskInv
      <3>3. QED
        BY <1>1, <1>2, <3>1, <3>2 DEF TaskInv, HookNext, Hooking
    <2>4. QED
      BY <2>2, <2>3
  <1>8. QED
    BY <1>3, <1>4, <1>5, <1>6, <1>7 DEF StartInv

\* The mode is tested a second time.
LEMMA HookAllocKeeps ==
    ASSUME StartInv, NEW t \in Threads, HookAlloc(t)
    PROVE  StartInv'
  <1>1. HookAlloc(t) /\ Types /\ LockInv /\ EngineInv /\ PhoneInv /\ TaskInv
    BY DEF StartInv
  <1>2. \E q \in {AllocFuncs, <<>>} : todo' = [todo EXCEPT ![t] = q] /\ ToSet(q) \subseteq ToSet(AllocFuncs)
    BY <1>1, Lists DEF HookAlloc, Do
  <1>3. Types'
    <2>1. todo' \in [Threads -> Seq(Works)] /\ \A u \in Threads : IsInjective(todo'[u])
      BY <1>1, <1>2, Lists, TodoKeeps DEF Types
    <2>2. QED
      BY <1>1, <2>1 DEF Types, HookAlloc, GoTo, engine, tasks, PC
  <1>4. LockInv'
    BY <1>1, NoneType DEF Types, LockInv, HookAlloc, GoTo, Do, engine, tasks, InLock, Making
  <1>5. EngineInv'
    <2>1. \A u \in Threads : u # t => pc'[u] = pc[u] /\ todo'[u] = todo[u]
      BY <1>1, <1>2 DEF HookAlloc, GoTo, Types
    <2>2. QED
      BY <1>1, <2>1, EngineFrame DEF HookAlloc, GoTo, engine, Types, Making
  <1>6. PhoneInv'
    BY <1>1 DEF PhoneInv, HookAlloc
  <1>7. TaskInv'
    <2>1. /\ pc[t] = "map" /\ Left(t) = {} /\ pc'[t] = "alloc"
          /\ Left(t)' \subseteq ToSet(AllocFuncs)
          /\ \A u \in Threads : u # t => pc'[u] = pc[u] /\ Left(u)' = Left(u)
          /\ UNCHANGED <<status, live, stub, over>>
          /\ \A u \in Threads : pc[u] # "clear"
      <3>1. pc[t] = "map" /\ todo[t] = <<>> /\ pc'[t] = "alloc" /\ UNCHANGED <<status, live, stub, over>>
        BY <1>1 DEF HookAlloc, GoTo, engine, tasks, Types
      <3>2. \A u \in Threads : u # t => pc'[u] = pc[u] /\ Left(u)' = Left(u)
        BY <1>1, <1>2 DEF HookAlloc, GoTo, Types, Left
      <3>3. Left(t)' \subseteq ToSet(AllocFuncs)
        BY <1>1, <1>2, Lists DEF Left, Types
      <3>4. Left(t) = {}
        BY <3>1, Lists DEF Left
      <3>5. \A u \in Threads : pc[u] # "clear"
        BY <1>1, <3>1 DEF TaskInv
      <3>6. QED
        BY <3>1, <3>2, <3>3, <3>4, <3>5
    <2>2. Owned' = Owned
      BY <2>1 DEF Owned
    <2>3. \A u \in Threads : pc'[u] # "out" => pc[u] # "out"
      BY <2>1
    <2>4. \A u \in Threads : pc'[u] # "clear"
      BY <2>1
    <2>5. ~over => \A u \in Threads : pc'[u] \in Hooking =>
            \A x \in live : x[1] \notin Left(u)' /\ (pc'[u] = "map" => x[1] \notin ToSet(AllocFuncs))
      <3>1. ~over => \A x \in live : x[1] \notin ToSet(AllocFuncs)
        BY <1>1, <2>1 DEF TaskInv, Hooking
      <3>2. QED
        BY <1>1, <2>1, <3>1 DEF TaskInv, Hooking
    <2>6. ~over => \A u \in Threads : pc'[u] \notin Hooking \cup {"out", "clear"} => live = {}
      BY <1>1, <2>1 DEF TaskInv, Hooking
    <2>7. \A u \in Threads : /\ pc'[u] = "map" => Left(u)' \subseteq ToSet(MapFuncs)
                             /\ pc'[u] = "alloc" => Left(u)' \subseteq ToSet(AllocFuncs)
      BY <1>1, <2>1 DEF TaskInv
    <2>8. QED
      BY <1>1, <2>1, <2>2, <2>3, <2>4, <2>5, <2>6, <2>7 DEF TaskInv
  <1>8. QED
    BY <1>3, <1>4, <1>5, <1>6, <1>7 DEF StartInv

\* init comes back.
LEMMA HookedKeeps ==
    ASSUME StartInv, NEW t \in Threads, Hooked(t)
    PROVE  StartInv'
  <1>1. Hooked(t) /\ Types /\ LockInv /\ EngineInv /\ PhoneInv /\ TaskInv
    BY DEF StartInv
  <1>2. todo' = todo
    BY <1>1 DEF Hooked
  <1>3. Types'
    BY <1>1, <1>2, Lists DEF Types, Hooked, GoTo, Do, engine, tasks, PC
  <1>4. LockInv'
    BY <1>1, NoneType DEF Types, LockInv, Hooked, GoTo, Do, engine, tasks, InLock, Making
  <1>5. EngineInv'
    BY <1>1, <1>2, EngineFrame DEF Types, Hooked, GoTo, Do, engine, tasks, Making
  <1>6. PhoneInv'
    BY <1>1 DEF PhoneInv, Hooked
  <1>7. TaskInv'
    <2>1. /\ pc[t] = "alloc" /\ Left(t) = {} /\ pc'[t] = "out"
          /\ Left(t)' = {}
          /\ \A u \in Threads : u # t => pc'[u] = pc[u] /\ Left(u)' = Left(u)
          /\ UNCHANGED <<status, live, stub, over>>
          /\ \A u \in Threads : pc[u] # "clear"
      <3>1. pc[t] = "alloc" /\ todo[t] = <<>> /\ pc'[t] = "out" /\ UNCHANGED <<status, live, stub, over>>
        BY <1>1 DEF Hooked, GoTo, engine, tasks, Types
      <3>2. \A u \in Threads : u # t => pc'[u] = pc[u] /\ Left(u)' = Left(u)
        BY <1>1, <1>2 DEF Hooked, GoTo, Types, Left
      <3>3. Left(t)' = {}
        BY <1>2, <3>1, Lists DEF Left
      <3>4. Left(t) = {}
        BY <3>1, Lists DEF Left
      <3>5. \A u \in Threads : pc[u] # "clear"
        BY <1>1, <3>1 DEF TaskInv
      <3>6. QED
        BY <3>1, <3>2, <3>3, <3>4, <3>5
    <2>2. Owned' = Owned
      BY <2>1 DEF Owned
    <2>3. \A u \in Threads : pc'[u] # "out" => pc[u] # "out"
      BY <2>1
    <2>4. \A u \in Threads : pc'[u] # "clear"
      BY <2>1
    <2>5. ~over => \A u \in Threads : pc'[u] \in Hooking =>
            \A x \in live : x[1] \notin Left(u)' /\ (pc'[u] = "map" => x[1] \notin ToSet(AllocFuncs))
      BY <1>1, <2>1 DEF TaskInv, Hooking
    <2>6. ~over => \A u \in Threads : pc'[u] \notin Hooking \cup {"out", "clear"} => live = {}
      BY <1>1, <2>1 DEF TaskInv, Hooking
    <2>7. \A u \in Threads : /\ pc'[u] = "map" => Left(u)' \subseteq ToSet(MapFuncs)
                             /\ pc'[u] = "alloc" => Left(u)' \subseteq ToSet(AllocFuncs)
      BY <1>1, <2>1 DEF TaskInv
    <2>8. QED
      BY <1>1, <2>1, <2>2, <2>3, <2>4, <2>5, <2>6, <2>7 DEF TaskInv
  <1>8. QED
    BY <1>3, <1>4, <1>5, <1>6, <1>7 DEF StartInv

\* destroy begins, while nobody is in init.
LEMMA DeInitKeeps ==
    ASSUME StartInv, NEW t \in Threads, DeInit(t)
    PROVE  StartInv'
  <1>1. DeInit(t) /\ Types /\ LockInv /\ EngineInv /\ PhoneInv /\ TaskInv
    BY DEF StartInv
  <1>2. todo' = [todo EXCEPT ![t] = ClearOrder]
    BY <1>1 DEF DeInit, Do
  <1>3. Types'
    <2>1. todo' \in [Threads -> Seq(Works)] /\ \A u \in Threads : IsInjective(todo'[u])
      BY <1>1, <1>2, Lists, TodoKeeps DEF Types
    <2>2. QED
      BY <1>1, <2>1 DEF Types, DeInit, GoTo, engine, tasks, PC
  <1>4. LockInv'
    BY <1>1, NoneType DEF Types, LockInv, DeInit, GoTo, Do, engine, tasks, InLock, Making
  <1>5. EngineInv'
    <2>1. \A u \in Threads : u # t => pc'[u] = pc[u] /\ todo'[u] = todo[u]
      BY <1>1, <1>2 DEF DeInit, GoTo, Types
    <2>2. QED
      BY ZenonT(60), <1>1, <2>1, EngineFrame DEF DeInit, GoTo, engine, Types, Making
  <1>6. PhoneInv'
    BY <1>1 DEF PhoneInv, DeInit
  <1>7. TaskInv'
    BY <1>1, Lists DEF Types, TaskInv, DeInit, GoTo, Do, engine, tasks, Hooking, Left, Owned
  <1>8. QED
    BY <1>3, <1>4, <1>5, <1>6, <1>7 DEF StartInv

\* A stub is given back.
LEMMA ClearNextKeeps ==
    ASSUME StartInv, NEW t \in Threads, ClearNext(t)
    PROVE  StartInv'
  <1>1. ClearNext(t) /\ Types /\ LockInv /\ EngineInv /\ PhoneInv /\ TaskInv
    BY DEF StartInv
  <1>2. /\ Head(todo[t]) \in Left(t) /\ Left(t) \subseteq Funcs
        /\ Tail(todo[t]) \in Seq(Works) /\ IsInjective(Tail(todo[t]))
        /\ todo' = [todo EXCEPT ![t] = Tail(todo[t])] /\ pc' = pc
        /\ Left(t)' = Left(t) \ {Head(todo[t])}
        /\ \A u \in Threads : u # t => todo'[u] = todo[u] /\ Left(u)' = Left(u)
    <2>1. todo[t] # <<>> /\ todo' = [todo EXCEPT ![t] = Tail(todo[t])] /\ pc' = pc
      BY <1>1 DEF ClearNext, Done, Do
    <2>2. /\ Head(todo[t]) \in Left(t) /\ ToSet(Tail(todo[t])) = Left(t) \ {Head(todo[t])}
          /\ Tail(todo[t]) \in Seq(Works) /\ IsInjective(Tail(todo[t]))
      BY <1>1, <2>1, TailLeft DEF Types, Left
    <2>3. Left(t) \subseteq Funcs
      BY <1>1 DEF ClearNext, TaskInv
    <2>4. QED
      BY <1>1, <2>1, <2>2, <2>3, TodoKeeps
  <1>3. Types'
    <2>1. todo' \in [Threads -> Seq(Works)] /\ \A u \in Threads : IsInjective(todo'[u])
      BY <1>1, <1>2, TodoKeeps
    <2>2. stub' \in [Funcs -> Task \cup {None}] /\ live' \subseteq Task
      BY <1>1, <1>2 DEF Types, ClearNext, Task
    <2>3. QED
      BY <1>1, <1>2, <2>1, <2>2 DEF Types, ClearNext, engine
  <1>4. LockInv'
    BY <1>1, NoneType DEF Types, LockInv, ClearNext, Done, GoTo, Do, engine, tasks, InLock, Making
  <1>5. EngineInv'
    BY <1>1, <1>2, EngineFrame DEF ClearNext, engine, Making
  <1>6. PhoneInv'
    BY <1>1 DEF PhoneInv, ClearNext
  <1>7. TaskInv'
    <2>1. /\ UNCHANGED <<status, over>>
          /\ live' = live \ {stub[Head(todo[t])]}
          /\ \A g \in Funcs : stub'[g] = IF g = Head(todo[t]) THEN None ELSE stub[g]
      BY <1>1 DEF ClearNext, engine, Types
    <2>2. \A u \in Threads : u # t => pc[u] = "out"
      BY <1>1 DEF ClearNext, TaskInv
    <2>3. \A f \in Funcs : stub'[f] # None => /\ stub'[f] \in live' /\ stub'[f][1] = f
                                              /\ f \in Left(t)'
      <3>1. \A f \in Funcs : stub[f] # None => /\ stub[f] \in live /\ stub[f][1] = f
                                               /\ f \in Left(t)
        BY <1>1 DEF ClearNext, TaskInv
      <3>2. \A f \in Funcs : stub'[f] # None =>
               stub'[f] = stub[f] /\ stub[f] # None /\ f # Head(todo[t])
        BY <2>1
      <3>3. stub[Head(todo[t])] # None => stub[Head(todo[t])][1] = Head(todo[t])
        BY <1>2, <3>1, Lists
      <3>4. \A f \in Funcs : stub'[f] # None => stub[f] # stub[Head(todo[t])]
        BY <1>2, <3>1, <3>2, <3>3
      <3>5. QED
        BY <1>2, <2>1, <3>1, <3>2, <3>4
    <2>4. live \subseteq Owned => live' \subseteq Owned'
      BY <2>1 DEF Owned
    <2>5. QED
      BY <1>1, <1>2, <2>1, <2>2, <2>3, <2>4 DEF TaskInv, ClearNext, Hooking
  <1>8. QED
    BY <1>3, <1>4, <1>5, <1>6, <1>7 DEF StartInv

\* destroy comes back.
LEMMA ClearedKeeps ==
    ASSUME StartInv, NEW t \in Threads, Cleared(t)
    PROVE  StartInv'
  <1>1. Cleared(t) /\ Types /\ LockInv /\ EngineInv /\ PhoneInv /\ TaskInv
    BY DEF StartInv
  <1>2. todo' = todo
    BY <1>1 DEF Cleared
  <1>3. Types'
    BY <1>1, <1>2, Lists DEF Types, Cleared, GoTo, Do, engine, tasks, PC
  <1>4. LockInv'
    BY <1>1, NoneType DEF Types, LockInv, Cleared, GoTo, Do, engine, tasks, InLock, Making
  <1>5. EngineInv'
    BY <1>1, <1>2, EngineFrame DEF Types, Cleared, GoTo, Do, engine, tasks, Making
  <1>6. PhoneInv'
    BY <1>1 DEF PhoneInv, Cleared
  <1>7. TaskInv'
    BY <1>1, Lists DEF Types, TaskInv, Cleared, GoTo, engine, tasks, Hooking, Left, Owned
  <1>8. QED
    BY <1>3, <1>4, <1>5, <1>6, <1>7 DEF StartInv

-----------------------------------------------------------------------------
\* What bh_linker_init has found when it comes back with success.
LEMMA LinkerFound ==
    ASSUME NEW api, NEW elf, LinkerInit(api, elf).ok
    PROVE  /\ api \in LollipopApis \cup NougatApis => LinkerInit(api, elf).addr.g_dl_mutex # Null
           /\ api \in NougatApis => \/ LinkerInit(api, elf).addr.dlopen_ext # Null
                                    \/ LinkerInit(api, elf).addr.do_dlopen # Null
  BY DEF LinkerInit, Failed, NoLinker, LollipopApis, NougatApis

\* The invariant holds before the first call of init.
LEMMA InitHolds == Init => StartInv
  <1>1. SUFFICES ASSUME Init PROVE StartInv
    OBVIOUS
  <1>2. Types
    BY <1>1, Lists DEF Init, Types, PC, Task
  <1>3. LockInv /\ EngineInv
    BY <1>1, NoneType DEF Init, LockInv, EngineInv, InLock, Making, Untouched
  <1>4. PhoneInv
    <2>1. PICK p \in Phones : phone = Sight(p)
      BY <1>1 DEF Init
    <2>2. phone.linker = LinkerInit(p.api, p.linker.elf) /\ phone.api = p.api
      BY <2>1 DEF Sight, FindLinkerFuncs
    <2>3. QED
      BY <2>2, LinkerFound DEF PhoneInv
  <1>5. TaskInv
    BY <1>1 DEF Init, TaskInv, Hooking, Owned
  <1>6. QED
    BY <1>2, <1>3, <1>4, <1>5 DEF StartInv

\* Every step of a thread keeps the invariant.
LEMMA StepKeeps == StartInv /\ [Next]_vars => StartInv'
  <1>1. SUFFICES ASSUME StartInv, [Next]_vars PROVE StartInv'
    OBVIOUS
  <1>2. CASE UNCHANGED vars
    <2>1. UNCHANGED <<phone, status, lock, linker, made, action, old, table, stub, live,
                      inits, over, pc, todo>>
      BY <1>2 DEF vars, engine, tasks
    <2>2. Types' /\ LockInv' /\ PhoneInv'
      BY <1>1, <2>1 DEF StartInv, Types, LockInv, PhoneInv
    <2>3. EngineInv'
      BY <1>1, <2>1 DEF StartInv, EngineInv, Progress, Linked, Untouched, Handled, Left
    <2>4. TaskInv'
      BY <1>1, <2>1 DEF StartInv, TaskInv, Owned, Left
    <2>5. QED
      BY <2>2, <2>3, <2>4 DEF StartInv
  <1>3. ASSUME NEW t \in Threads, InitAndStart(t) \/ DeInit(t) \/ Step(t)
        PROVE  StartInv'
    BY <1>1, <1>3, InitStartKeeps, ReadStatusKeeps, LockKeeps, FindLinkerKeeps, MakeKeeps,
       SigactionKeeps, StoreKeeps, UnlockKeeps, HookNextKeeps, HookAllocKeeps, HookedKeeps,
       DeInitKeeps, ClearNextKeeps, ClearedKeeps DEF Step
  <1>4. QED
    BY <1>1, <1>2, <1>3 DEF Next

\* What holds of the lock, the engine and the tasks at each place, whatever the threads do.
THEOREM StartInvariant == Spec => []StartInv
  BY InitHolds, StepKeeps, PTL DEF Spec

\* Whoever reads the status as OK, with the lock or without, finds an engine that is
\* complete and was made once; one that is not has no task.
THEOREM Ready == Spec => []ReadyWhenUsed
  <1>1. StartInv => ReadyWhenUsed
    BY DEF StartInv, EngineInv, PhoneInv, TaskInv, ReadyWhenUsed, LinkerReady, Linked, Handled
  <1>2. QED
    BY <1>1, StartInvariant, PTL

\* A handler that is installed finds the action of the application to forward a fault to,
\* but for the moment of the store, and however the initialisation ends.
THEOREM Forwarded == Spec => []FaultsForwarded
  <1>1. StartInv => FaultsForwarded
    <2>1. SUFFICES ASSUME StartInv, NEW s \in Signals, action[s] = "bytesig", table[s] # "app"
                   PROVE  \E t \in Threads : pc[t] = "store" /\ Head(todo[t]) = s /\ old = "app"
      BY DEF FaultsForwarded, Forward, StartInv, Types
    <2>2. ~Untouched(s) /\ ~Handled(s)
      BY <2>1 DEF Untouched, Handled
    <2>3. PICK t \in Threads : pc[t] \in Making
      BY <2>1, <2>2 DEF StartInv, EngineInv
    <2>4. Progress(t)
      BY <2>1, <2>3 DEF StartInv, EngineInv, Progress, Making
    <2>5. QED
      BY <2>1, <2>2, <2>3, <2>4 DEF Progress, Making
  <1>2. QED
    BY <1>1, StartInvariant, PTL

\* A stub is the task of its function that is in the engine; destroy gives back all
\* stubs, and no task stays but those whose stub another initAndStart has overwritten.
THEOREM Owns == Spec => []TasksOwned
  <1>1. StartInv => TasksOwned
    <2>1. SUFFICES ASSUME StartInv PROVE TasksOwned
      OBVIOUS
    <2>2. Owned \subseteq live /\ (~over => live \subseteq Owned)
      BY <2>1 DEF StartInv, TaskInv, Owned
    <2>3. ASSUME NEW t \in Threads, pc[t] = "clear", todo[t] = <<>>
          PROVE  Owned = {}
      BY <2>1, <2>3, Lists DEF StartInv, TaskInv, Owned, Left
    <2>4. QED
      BY <2>2, <2>3 DEF TasksOwned
  <1>2. QED
    BY <1>1, StartInvariant, PTL

-----------------------------------------------------------------------------
(***************************************************************************)
(* Functions of the system are found where they are.                       *)
(***************************************************************************)

\* A set of natural numbers has a least one, and Min is it.
LEMMA Least ==
    ASSUME NEW S, S \subseteq Nat, S # {}
    PROVE  \E x \in S : \A y \in S : x <= y
  <1>1. PICK x \in S : \A y \in S : ~ (<<y, x>> \in OpToRel(<, Nat))
    BY NatLessThanWellFounded, WFMin, Zenon
  <1>2. \A y \in S : ~ (y < x)
    BY <1>1, Zenon DEF OpToRel
  <1>3. QED
    BY <1>2

LEMMA MinThere ==
    ASSUME NEW S, S \subseteq Nat, S # {}
    PROVE  Min(S) \in S
  <1>1. \E x \in S : \A y \in S : x <= y
    BY Least
  <1>2. QED
    BY <1>1 DEF Min

LEMMA LowestThere ==
    ASSUME NEW elf, elf.loads \subseteq Nat, elf.loads # {}
    PROVE  /\ LowestLoad(elf) \in elf.loads
           /\ \A w \in elf.loads : LowestLoad(elf) <= w
  <1>1. \E x \in elf.loads : \A y \in elf.loads : x <= y
    BY Least
  <1>2. QED
    BY <1>1 DEF LowestLoad

\* Every table of an ELF, packed ones too, is one of symbols.
LEMMA TableTypes ==
    ASSUME NEW elf, ElfRight(elf), NEW t \in Tables(elf)
    PROVE  TableRight(t)
  <1>1. CASE \E n \in Sections(elf) : t = elf.sections[n].syms
    BY <1>1 DEF ElfRight, SectionsRight, Sections
  <1>2. CASE \E n \in Sections(elf) : t = Debugdata(elf, n) /\ t # NoTable
    <2>1. PICK n \in Sections(elf) : t = Debugdata(elf, n) /\ t # NoTable
      BY <1>2
    <2> DEFINE inner == elf.sections[n].elf
    <2>2. t = DebugSymtab(inner) /\ inner # NoElf
      BY <2>1 DEF Debugdata
    <2>3. SectionsRight(inner)
      BY <2>1, <2>2 DEF ElfRight, Sections
    <2> DEFINE I == {i \in 1..Len([m \in Sections(inner) |-> m]) :
                        /\ IsSymtab(inner, [m \in Sections(inner) |-> m][i])
                        /\ Inside(inner, [m \in Sections(inner) |-> m][i])}
    <2>4. FirstSection(inner, LAMBDA i : IsSymtab(inner, i) /\ Inside(inner, i)) =
              IF I # {} THEN Min(I) ELSE 0
      BY DEF FirstSection, SelectInSeq
    <2>5. I # {} /\ t = inner.sections[Min(I)].syms
      BY <2>1, <2>2, <2>4 DEF DebugSymtab
    <2>6. Sections(inner) = 1..Len(inner.sections) /\ Len(inner.sections) \in Nat
      BY <2>3 DEF SectionsRight, Sections
    <2>7. I \subseteq 1..Len(inner.sections)
      <3>1. Len([m \in Sections(inner) |-> m]) = Len(inner.sections)
        BY <2>6
      <3>2. QED
        BY <3>1
    <2> HIDE DEF I, inner
    <2>8. Min(I) \in Sections(inner)
      BY <2>5, <2>6, <2>7, MinThere
    <2>9. QED
      BY <2>3, <2>5, <2>8 DEF SectionsRight, Sections
  <1>3. QED
    BY <1>1, <1>2 DEF Tables

\* What is found in a table of an ELF is one of the homes of that name, and something
\* is found if it is there.
LEMMA LookupHome ==
    ASSUME NEW elf, ElfRight(elf), elf.loads # {}, NEW t \in Tables(elf), NEW name
    PROVE  /\ Lookup(elf, t, name) \in {Null} \cup Homes(elf, name)
           /\ \A s \in ToSet(t) : s.shndx = "section" /\ s.name = name =>
                 \E x \in ToSet(t) : x.value \in Nat /\ Lookup(elf, t, name) = LoadBias(elf) + x.value
  <1> DEFINE I == {i \in 1..Len(t) : t[i].shndx = "section" /\ t[i].name = name}
  <1>1. TableRight(t)
    BY TableTypes
  <1>2. Len(t) \in Nat /\ DOMAIN t = 1..Len(t) /\ \A i \in 1..Len(t) : t[i].value \in Nat
    BY <1>1 DEF TableRight
  <1>3. I \subseteq Nat /\ I \subseteq 1..Len(t)
    BY <1>2
  <1>4. Lookup(elf, t, name) =
            LET i == IF I # {} THEN Min(I) ELSE 0
            IN  IF i = 0 THEN Null ELSE LoadBias(elf) + t[i].value
    BY DEF Lookup, SelectInSeq
  <1>5. \A s \in ToSet(t) : s.shndx = "section" /\ s.name = name => I # {}
    BY <1>2 DEF ToSet
  <1>6. I # {} => Min(I) \in 1..Len(t) /\ t[Min(I)].shndx = "section" /\ t[Min(I)].name = name
    <2> SUFFICES ASSUME I # {} PROVE Min(I) \in I
      OBVIOUS
    <2> HIDE DEF I
    <2>1. QED
      BY <1>3, MinThere
  <1> HIDE DEF I
  <1>7. CASE I = {}
    BY <1>4, <1>5, <1>7
  <1>8. CASE I # {}
    <2> DEFINE s == t[Min(I)]
    <2>1. s \in ToSet(t) /\ s.value \in Nat /\ s.shndx = "section" /\ s.name = name
      BY <1>2, <1>6, <1>8 DEF ToSet
    <2>2. Min(I) # 0
      BY <1>2, <1>6, <1>8
    <2>3. Lookup(elf, t, name) = LoadBias(elf) + s.value
      BY <1>4, <1>8, <2>2
    <2> HIDE DEF s
    <2>4. elf.base \in Nat /\ LowestLoad(elf) \in Nat
      BY LowestThere DEF ElfRight
    <2>5. Lookup(elf, t, name) = elf.base + (s.value - LowestLoad(elf))
      BY <2>1, <2>3, <2>4 DEF LoadBias
    <2>6. Lookup(elf, t, name) \in Homes(elf, name)
      BY <2>1, <2>5 DEF Homes
    <2>7. QED
      BY <2>1, <2>3, <2>6
  <1>9. QED
    BY <1>7, <1>8


\* A section that meets a condition is found: the first one of those.
LEMMA FirstThere ==
    ASSUME NEW elf, SectionsRight(elf), NEW I, I = {i \in 1..Len([n \in Sections(elf) |-> n]) : i \in I}
    PROVE  /\ I \subseteq Sections(elf)
           /\ I # {} => Min(I) \in I /\ Min(I) # 0
           /\ \A i \in Sections(elf) : [n \in Sections(elf) |-> n][i] = i
           /\ 1..Len([n \in Sections(elf) |-> n]) = Sections(elf)
  <1>1. Sections(elf) = 1..Len(elf.sections) /\ Len(elf.sections) \in Nat
    BY DEF SectionsRight, Sections
  <1>2. Len([n \in Sections(elf) |-> n]) = Len(elf.sections)
    BY <1>1
  <1>3. I \subseteq Sections(elf) /\ I \subseteq Nat
    BY <1>1, <1>2
  <1>4. QED
    BY <1>1, <1>2, <1>3, MinThere

\* bhook takes the symbols of the linker from one of its tables, if it finds any.
LEMMA LinkerTable ==
    ASSUME NEW elf, ElfRight(elf), OpenLinker(elf) # NoTable
    PROVE  elf.loads # {} /\ OpenLinker(elf) \in Tables(elf)
  <1> DEFINE I == {i \in 1..Len([n \in Sections(elf) |-> n]) : IsSymtab(elf, [n \in Sections(elf) |-> n][i])}
  <1>1. OpenLinker(elf) = BhSymtab(elf) /\ elf.loads # {}
    BY DEF OpenLinker
  <1>2. BhSymtab(elf) = LET n == IF I # {} THEN Min(I) ELSE 0 IN
            IF ~elf.readable \/ ~elf.headers \/ ~BhNamesInside(elf) \/ n = 0 THEN NoTable
            ELSE IF Inside(elf, n) THEN elf.sections[n].syms ELSE NoTable
    BY DEF BhSymtab, FirstSection, SelectInSeq
  <1>3. /\ I \subseteq Sections(elf) /\ (I # {} => Min(I) \in I)
        /\ \A i \in Sections(elf) : [n \in Sections(elf) |-> n][i] = i
    <2>1. SectionsRight(elf) /\ I = {i \in 1..Len([n \in Sections(elf) |-> n]) : i \in I}
      BY DEF ElfRight
    <2> HIDE DEF I
    <2>2. QED
      BY <2>1, FirstThere
  <1>4. \A i \in I : IsSymtab(elf, i)
    BY <1>3
  <1> HIDE DEF I
  <1>5. I # {} /\ Inside(elf, Min(I)) /\ BhSymtab(elf) = elf.sections[Min(I)].syms
    BY <1>1, <1>2
  <1>6. QED
    BY <1>1, <1>3, <1>4, <1>5 DEF Tables

\* xDL takes the symbols of an ELF from one of its tables, if it finds any, and it finds
\* one in a file that can be read if there is one.
LEMMA XdlTable ==
    ASSUME NEW elf, ElfRight(elf)
    PROVE  /\ XdlSymtab(elf) = NoTable \/ (elf.loads # {} /\ XdlSymtab(elf) \in Tables(elf))
           /\ elf.loads # {} /\ elf.readable /\ elf.headers /\ NamesInside(elf) /\ Tables(elf) # {} =>
                 XdlSymtab(elf) # NoTable
  <1> DEFINE symtab(n) == IF IsSymtab(elf, n) /\ Inside(elf, n) THEN elf.sections[n].syms
                         ELSE Debugdata(elf, n)
             I == {i \in 1..Len([n \in Sections(elf) |-> n]) : symtab([n \in Sections(elf) |-> n][i]) # NoTable}
             d == IF I # {} THEN Min(I) ELSE 0
  <1>1. XdlSymtab(elf) = IF \/ elf.loads = {} \/ ~elf.readable
                            \/ ~elf.headers \/ ~NamesInside(elf) \/ d = 0 THEN NoTable
                         ELSE symtab(d)
    BY DEF XdlSymtab, FirstSection, SelectInSeq
  <1>2. /\ I \subseteq Sections(elf) /\ (I # {} => Min(I) \in I /\ Min(I) # 0)
        /\ \A i \in Sections(elf) : [n \in Sections(elf) |-> n][i] = i
        /\ 1..Len([n \in Sections(elf) |-> n]) = Sections(elf)
    <2>1. SectionsRight(elf) /\ I = {i \in 1..Len([n \in Sections(elf) |-> n]) : i \in I}
      BY DEF ElfRight
    <2> HIDE DEF I
    <2>2. QED
      BY <2>1, FirstThere
  <1>3. I = {i \in Sections(elf) : symtab(i) # NoTable}
    BY <1>2
  <1>4. \A i \in I : symtab(i) \in Tables(elf)
    BY <1>3 DEF Tables
  <1>5. Tables(elf) # {} => I # {}
    <2>1. SUFFICES ASSUME NEW t \in Tables(elf) PROVE I # {}
      OBVIOUS
    <2>2. CASE \E n \in Sections(elf) : IsSymtab(elf, n) /\ Inside(elf, n)
      <3>1. PICK n \in Sections(elf) : IsSymtab(elf, n) /\ Inside(elf, n)
        BY <2>2
      <3>2. elf.sections[n].syms # NoTable
        BY <3>1 DEF ElfRight, SectionsRight, TableRight, Sections
      <3>3. QED
        BY <1>3, <3>1, <3>2
    <2>3. CASE \E n \in Sections(elf) : Debugdata(elf, n) # NoTable
      <3>1. PICK n \in Sections(elf) : Debugdata(elf, n) # NoTable
        BY <2>3
      <3>2. ~IsSymtab(elf, n)
        BY <3>1 DEF IsSymtab, Debugdata
      <3>3. QED
        BY <1>3, <3>1, <3>2
    <2>4. QED
      BY <2>1, <2>2, <2>3 DEF Tables
  <1> HIDE DEF symtab, I
  <1>6. d # 0 <=> I # {}
    BY <1>2
  <1>7. d # 0 => d \in I
    BY <1>2
  <1> HIDE DEF d
  <1>8. \A i \in I : symtab(i) # NoTable
    BY <1>3 DEF I
  <1>9. QED
    BY <1>1, <1>4, <1>5, <1>6, <1>7, <1>8

\* The functions of the linker are those of that name, or none.
LEMMA LinkerHomes ==
    ASSUME NEW p, PhoneRight(p), NEW f \in DOMAIN NoLinker
    PROVE  /\ FindLinkerFuncs(p).addr[f] \in {Null} \cup Homes(p.linker.elf, f)
           /\ NoLinker[f] = Null
  <1> DEFINE elf == p.linker.elf
             symtab == OpenLinker(elf)
             dsym(name) == Lookup(elf, symtab, name)
             locked == [NoLinker EXCEPT !.g_dl_mutex = dsym("g_dl_mutex")]
  <1>1. ElfRight(elf)
    BY DEF PhoneRight
  <1>2. f \in {"g_dl_mutex", "dlopen_ext", "do_dlopen", "get_error_buffer", "format_dlerror"}
        /\ NoLinker[f] = Null
    BY DEF NoLinker
  <1>3. FindLinkerFuncs(p) =
           IF p.api \notin LollipopApis \cup NougatApis THEN [ok |-> TRUE, addr |-> NoLinker]
           ELSE IF symtab = NoTable THEN Failed
           ELSE IF dsym("g_dl_mutex") = Null THEN Failed
           ELSE IF p.api \in LollipopApis THEN [ok |-> TRUE, addr |-> locked]
           ELSE IF dsym("dlopen_ext") # Null
           THEN [ok |-> TRUE, addr |-> [locked EXCEPT !.dlopen_ext = dsym("dlopen_ext")]]
           ELSE IF dsym("do_dlopen") = Null THEN Failed
           ELSE [ok |-> TRUE,
                 addr |-> [locked EXCEPT
                             !.do_dlopen = dsym("do_dlopen"),
                             !.get_error_buffer = dsym("get_error_buffer"),
                             !.format_dlerror = dsym("format_dlerror")]]
    BY DEF FindLinkerFuncs, LinkerInit
  <1>4. symtab # NoTable => \A name : dsym(name) \in {Null} \cup Homes(elf, name)
    <2> SUFFICES ASSUME symtab # NoTable, NEW name PROVE dsym(name) \in {Null} \cup Homes(elf, name)
      OBVIOUS
    <2>1. elf.loads # {} /\ symtab \in Tables(elf)
      BY <1>1, LinkerTable
    <2>2. QED
      BY <1>1, <2>1, LookupHome
  <1> HIDE DEF dsym, symtab, elf
  <1>5. symtab = NoTable \/ p.api \notin LollipopApis \cup NougatApis => FindLinkerFuncs(p).addr = NoLinker
    BY <1>3 DEF Failed
  <1>6. locked[f] \in {NoLinker[f], dsym(f)}
    BY <1>2 DEF NoLinker
  <1>7. [locked EXCEPT !.dlopen_ext = dsym("dlopen_ext")][f] \in {locked[f], dsym(f)}
    BY <1>2 DEF NoLinker
  <1>8. [locked EXCEPT !.do_dlopen = dsym("do_dlopen"),
                       !.get_error_buffer = dsym("get_error_buffer"),
                       !.format_dlerror = dsym("format_dlerror")][f] \in {locked[f], dsym(f)}
    BY <1>2 DEF NoLinker
  <1>9. Failed.addr = NoLinker
    BY DEF Failed
  <1> HIDE DEF locked
  <1>10. FindLinkerFuncs(p).addr[f] \in {NoLinker[f], dsym(f)}
    BY <1>3, <1>6, <1>7, <1>8, <1>9
  <1>11. QED
    BY <1>2, <1>4, <1>5, <1>10 DEF elf


\* xDL finds an ELF of that name, if it finds one, and one if all are told of.
LEMMA ArtFound ==
    ASSUME NEW p, PhoneRight(p)
    PROVE  LET e == XdlFind(p.linker, p.libs, "libart.so") IN
           /\ e # NoElf => e \in ArtElfs(p) /\ ElfRight(e) /\ LoadBias(e) \in Nat \ {0}
           /\ CanDump(p) => e # NoElf
  <1> DEFINE fits(lib) == Tells(p.linker, lib) /\ lib.name = "libart.so"
             I == {i \in 1..Len(p.libs) : fits(p.libs[i])}
             d == IF I # {} THEN Min(I) ELSE 0
             e == XdlFind(p.linker, p.libs, "libart.so")
             Goal == /\ e # NoElf => e \in ArtElfs(p) /\ ElfRight(e) /\ LoadBias(e) \in Nat \ {0}
                     /\ CanDump(p) => e # NoElf
  <1> SUFFICES Goal
    OBVIOUS
  <1>1. /\ p.linker.name # "libart.so" /\ Len(p.libs) \in Nat /\ DOMAIN p.libs = 1..Len(p.libs)
        /\ \A i \in 1..Len(p.libs) : /\ p.libs[i].elf # NoElf /\ ElfRight(p.libs[i].elf)
                                     /\ \E v \in p.libs[i].elf.loads : v <= p.libs[i].elf.base
    BY DEF PhoneRight
  <1>2. e = IF d = 0 THEN NoElf ELSE p.libs[d].elf
    BY <1>1 DEF XdlFind, SelectInSeq
  <1>3. \A i \in I : i \in 1..Len(p.libs) /\ fits(p.libs[i])
    OBVIOUS
  <1>4. CanDump(p) => I # {}
    <2>1. SUFFICES ASSUME CanDump(p) PROVE I # {}
      OBVIOUS
    <2>2. PICK lib \in ToSet(p.libs) : lib.name = "libart.so" /\ Tells(p.linker, lib)
      BY <2>1 DEF CanDump, ArtElfs
    <2>3. PICK i \in 1..Len(p.libs) : lib = p.libs[i]
      BY <1>1, <2>2 DEF ToSet
    <2>4. QED
      BY <2>2, <2>3
  <1>5. I # {} => Min(I) \in I
    <2>1. I \subseteq Nat
      BY <1>1
    <2> HIDE DEF I
    <2>2. QED
      BY <2>1, MinThere
  <1> HIDE DEF I, e
  <1>6. CASE I = {}
    BY <1>2, <1>4, <1>6
  <1>7. CASE I # {}
    <2>1. d \in I /\ d \in 1..Len(p.libs) /\ d # 0 /\ fits(p.libs[d])
      BY <1>1, <1>3, <1>5, <1>7
    <2> HIDE DEF d
    <2>2. e = p.libs[d].elf /\ e # NoElf /\ ElfRight(e)
      BY <1>1, <1>2, <2>1
    <2>3. p.libs[d] \in ToSet(p.libs) /\ p.libs[d].name = "libart.so" /\ LoadBias(e) # Null
      BY <1>1, <2>1, <2>2 DEF ToSet, Tells
    <2>4. e \in ArtElfs(p)
      BY <2>2, <2>3 DEF ArtElfs
    <2>5. LoadBias(e) \in Nat \ {0}
      <3>1. PICK v \in e.loads : v <= e.base
        BY <1>1, <2>1, <2>2
      <3>2. e.base \in Nat /\ e.loads \subseteq Nat
        BY <2>2 DEF ElfRight
      <3>3. LowestLoad(e) \in Nat /\ LowestLoad(e) <= v
        BY <3>1, <3>2, LowestThere
      <3>4. QED
        BY <2>3, <3>1, <3>2, <3>3 DEF LoadBias, Null
    <2>6. QED
      BY <2>2, <2>4, <2>5
  <1>8. QED
    BY <1>6, <1>7

\* What is called as DumpJavaStack is it, and it is found if nothing is in the way.
LEMMA DumperHome ==
    ASSUME NEW p, PhoneRight(p)
    PROVE  /\ FindDumper(p) \in Sight(p).dumperHomes
           /\ CanDump(p) => FindDumper(p) # Null
  <1> DEFINE e == XdlFind(p.linker, p.libs, "libart.so")
             t == XdlSymtab(e)
  <1>1. /\ e # NoElf => e \in ArtElfs(p) /\ ElfRight(e) /\ LoadBias(e) \in Nat \ {0}
        /\ CanDump(p) => e # NoElf
    BY ArtFound
  <1>2. FindDumper(p) = IF e = NoElf THEN Null
                        ELSE IF t = NoTable THEN Null ELSE Lookup(e, t, "DumpJavaStack")
    BY DEF FindDumper, XdlDsym
  <1>3. Sight(p).dumperHomes = {Null} \cup UNION {Homes(x, "DumpJavaStack") : x \in ArtElfs(p)}
    BY DEF Sight
  <1> HIDE DEF e
  <1>4. CASE e = NoElf \/ t = NoTable
    <2>1. FindDumper(p) = Null
      BY <1>2, <1>4
    <2>2. ASSUME CanDump(p) PROVE FALSE
      <3>1. /\ e # NoElf /\ e \in ArtElfs(p) /\ ElfRight(e) /\ Plain(e) /\ Homes(e, "DumpJavaStack") # {}
        BY <1>1, <2>2 DEF CanDump
      <3>2. e.loads # {} /\ Tables(e) # {}
        BY <3>1 DEF Homes
      <3>3. QED
        BY <1>4, <3>1, <3>2, XdlTable DEF Plain
    <2>3. QED
      BY <1>3, <2>1, <2>2
  <1>5. CASE e # NoElf /\ t # NoTable
    <2>1. e \in ArtElfs(p) /\ ElfRight(e) /\ LoadBias(e) \in Nat \ {0}
      BY <1>1, <1>5
    <2>2. e.loads # {} /\ t \in Tables(e)
      BY <1>5, <2>1, XdlTable
    <2> HIDE DEF t
    <2>3. FindDumper(p) = Lookup(e, t, "DumpJavaStack")
      BY <1>2, <1>5
    <2>4. FindDumper(p) \in {Null} \cup Homes(e, "DumpJavaStack")
      BY <2>1, <2>2, <2>3, LookupHome
    <2>5. ASSUME CanDump(p) PROVE FindDumper(p) # Null
      <3>1. Plain(e) /\ Homes(e, "DumpJavaStack") # {}
        BY <2>1, <2>5 DEF CanDump
      <3>2. Tables(e) = {t}
        BY <2>2, <3>1 DEF Plain
      <3>3. PICK s \in ToSet(t) : s.shndx = "section" /\ s.name = "DumpJavaStack"
        BY <3>1, <3>2 DEF Homes
      <3>4. PICK x \in ToSet(t) : x.value \in Nat /\ FindDumper(p) = LoadBias(e) + x.value
        BY <2>1, <2>2, <2>3, <3>3, LookupHome
      <3>5. QED
        BY <2>1, <3>4 DEF Null
    <2>6. QED
      BY <1>3, <2>1, <2>4, <2>5
  <1>6. QED
    BY <1>4, <1>5

\* What is called was found on the system on which the program runs, or nothing was.
SymbolInv ==
    /\ phone \in {Sight(p) : p \in Phones}
    /\ linker \in {NoLinker, phone.linker.addr}
    /\ dumper \in {Null, phone.dumper}
    /\ inits \in Nat /\ (inits > 0 => dumper = phone.dumper)

LEMMA SymbolStarts == Init => SymbolInv
  BY DEF Init, SymbolInv

LEMMA SymbolKeeps == SymbolInv /\ [Next]_vars => SymbolInv'
  <1>1. SUFFICES ASSUME SymbolInv, [Next]_vars PROVE SymbolInv'
    OBVIOUS
  <1>2. UNCHANGED phone
    BY <1>1 DEF Next, Step, vars, InitAndStart, DeInit, ReadStatus, Lock, FindLinker, Make, Sigaction, Store,
       Unlock, HookNext, HookAlloc, Hooked, ClearNext, Cleared
  <1>3. linker' \in {linker, phone.linker.addr}
    BY <1>1 DEF Next, Step, vars, engine, InitAndStart, DeInit, ReadStatus, Lock, FindLinker, Make, Sigaction,
       Store, Unlock, HookNext, HookAlloc, Hooked, ClearNext, Cleared
  <1>4. \/ UNCHANGED <<dumper, inits>>
        \/ dumper' = phone.dumper /\ inits' = inits + 1
    BY <1>1 DEF Next, Step, vars, tasks, InitAndStart, DeInit, ReadStatus, Lock, FindLinker, Make, Sigaction,
       Store, Unlock, HookNext, HookAlloc, Hooked, ClearNext, Cleared
  <1>5. QED
    BY <1>1, <1>2, <1>3, <1>4 DEF SymbolInv

LEMMA SymbolsThere == SymbolInv => SymbolsRight
  <1>1. SUFFICES ASSUME SymbolInv PROVE SymbolsRight
    OBVIOUS
  <1>2. PICK p \in Phones : phone = Sight(p)
    BY <1>1 DEF SymbolInv
  <1>3. PhoneRight(p)
    BY PhonesType
  <1>4. /\ phone.dumper = FindDumper(p) /\ phone.canDump = CanDump(p)
        /\ phone.linker = FindLinkerFuncs(p)
        /\ \A f \in DOMAIN NoLinker : phone.linkerHomes[f] = {Null} \cup Homes(p.linker.elf, f)
        /\ phone.dumperHomes = Sight(p).dumperHomes
        /\ Null \in phone.dumperHomes
    BY <1>2 DEF Sight
  <1>5. dumper \in phone.dumperHomes
    BY <1>1, <1>3, <1>4, DumperHome DEF SymbolInv
  <1>6. ASSUME NEW f \in DOMAIN NoLinker PROVE linker[f] \in phone.linkerHomes[f]
    <2>1. FindLinkerFuncs(p).addr[f] \in {Null} \cup Homes(p.linker.elf, f) /\ NoLinker[f] = Null
      BY <1>3, LinkerHomes
    <2>2. QED
      BY <1>1, <1>4, <2>1 DEF SymbolInv
  <1>7. inits > 0 /\ phone.canDump => dumper # Null
    BY <1>1, <1>3, <1>4, DumperHome DEF SymbolInv
  <1>8. QED
    BY <1>5, <1>6, <1>7 DEF SymbolsRight

\* A function of the linker or of ART that is called is the one of that name, in whatever
\* table of its file, or of the one packed in it, it was found (bh_linker.c:70,
\* mem_stack.cpp:50), and DumpJavaStack is found if nothing is in the way: on
\* every system that is as link editors and the kernel make them (PhonesType).
THEOREM SymbolsFound == Spec => []SymbolsRight
  <1>1. Init => SymbolInv
    BY SymbolStarts
  <1>2. SymbolInv /\ [Next]_vars => SymbolInv'
    BY SymbolKeeps
  <1>3. SymbolInv => SymbolsRight
    BY SymbolsThere
  <1>4. QED
    BY <1>1, <1>2, <1>3, PTL DEF Spec

=============================================================================
