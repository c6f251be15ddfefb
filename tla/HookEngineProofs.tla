--------------------------- MODULE HookEngineProofs ---------------------------
(***************************************************************************)
(* Proofs about HookEngine, for every set of threads, libraries and tasks, *)
(* when no library is mapped where another one was (~Reuse): a chain is    *)
(* found by an address, and with a second library at it nothing holds.     *)
(*                                                                         *)
(* EngineInv has an address mean one mapping for good (PlaceInv), who is   *)
(* where holds which lock (CallInv, PairInv), and what a chain and its     *)
(* slot are to each other, with the thread that is between the two in the  *)
(* way of all others (SlotInv).                                            *)
(*                                                                         *)
(* That no call waits for ever for another one goes by what the threads    *)
(* wait for (WaitInv), and there ~Reuse is not needed.                     *)
(***************************************************************************)
EXTENDS HookEngine, Integers, TLAPS

ElfTypes == [st : {"none", "tree", "abandoned"},
             at : Instances \cup {None},
             by : {"none", "oneshot", "open", "close"},
             cfi : {"unknown", "ok", "failed"}]

\* That a dlclose finds a handle to give back is not needed for what follows.
Types ==
    /\ refs \in [Libs -> Int] /\ loads \in [Libs -> Nat]
    /\ at \in [Libs -> Instances \cup {None}]
    /\ got \in [Instances -> {"orig", "live", "dead"}]
    /\ elf \in [Instances -> ElfTypes]
    /\ chained \subseteq Instances
    /\ enabled \in [Instances -> SUBSET Tasks]
    /\ origFunc \in [Instances -> {"orig", "dead"}]
    /\ status \in [Tasks -> {"new", "unfinished", "finished", "unhooking", "gone"}]
    /\ op \in [Threads -> Ops]
    /\ arg \in [Threads -> Tasks \cup Libs \cup {None}]
    /\ pc \in [Threads -> PC]
    /\ todo \in [Threads -> SUBSET (Tasks \X Instances)]
    /\ cur \in [Threads -> SUBSET (Tasks \X Instances)]
    /\ new \in [Threads -> SUBSET Instances]

\* What calls are where.
Ways(o) ==
    CASE o = "none" -> {"idle"}
      [] o = "hook" -> {"monitor", "init", "initopen", "initclose", "oneshot", "start", "meet"}
      [] o = "unhook" -> {"start", "meet"}
      [] o = "open" -> {"call", "post", "new", "meet"}
      [] o = "rawopen" -> {"call"}
      [] o = "close" -> {"wrlock", "unload", "clean"}
      [] o = "rawclose" -> {"unload"}

CallInv ==
    /\ \A t \in Threads : pc[t] \in Ways(op[t])
    /\ \A t \in Threads : op[t] \in {"hook", "unhook"} => arg[t] \in Tasks
    /\ \A t \in Threads : op[t] \in {"open", "rawopen", "close", "rawclose"} => arg[t] \in Libs
    /\ Readers = {} \/ Writers = {}

\* An address is that of one mapping for good, and an ELF is at its own.
PlaceInv ==
    /\ \A l \in Libs : refs[l] > 0 =>
          loads[l] \in 1..MaxLoads /\ at[l] = <<l, loads[l]>>
    /\ \A e \in Instances : elf[e].st # "none" => elf[e].at = e /\ e[2] <= loads[Path(e)]
    /\ \A e \in Instances : elf[e].st = "abandoned" =>
          refs[Path(e)] <= 0 \/ e[2] < loads[Path(e)]
    /\ \A e, f \in Tree : Path(e) = Path(f) => e = f
    /\ \A a \in Instances : a \in chained => a[2] <= loads[Path(a)]
    /\ \A a \in Instances : got[a] # "orig" => a[2] <= loads[Path(a)]

\* t is to bring task k and ELF e together, or is between chain and slot.
Has(t, k, e) == <<k, e>> \in todo[t] \cup cur[t]
Between(t, k, e) == <<k, e>> \in cur[t]

PairInv ==
    /\ \A t \in Threads : \A k \in Tasks : \A e \in Instances : Has(t, k, e) =>
          /\ pc[t] = "meet" /\ elf[e].st # "none"
          /\ Path(e) \in Match[k]
          /\ op[t] # "open" => k = arg[t]
    /\ \A t \in Threads : \A e \in new[t] :
          op[t] = "open" /\ pc[t] \in {"new", "meet"} /\ elf[e].st # "none"
    /\ \A t, u \in Threads : \A k, j \in Tasks : \A e \in Instances :
          Between(t, k, e) /\ Between(u, j, e) => t = u /\ k = j
    /\ \A t \in Threads : \A k, j \in Tasks : \A e, f \in Instances :
          Between(t, k, e) /\ Between(t, j, f) => k = j /\ e = f

\* A chain is there as long as a proxy is enabled in it, and the slot leads
\* there, but for the thread that is between the two.
SlotInv ==
    /\ \A a \in Instances : a \in chained <=> enabled[a] # {}
    /\ \A a \in Instances :
          \/ \E t \in Threads : \E k \in Tasks : Between(t, k, a)
          \/ a \in chained <=> got[a] = "live"
    /\ \A t \in Threads : \A k \in Tasks : \A e \in Instances : Between(t, k, e) =>
          /\ got[e] # "live"
          /\ IF op[t] = "unhook" THEN e \notin chained
                                 ELSE e \in chained /\ enabled[e] = {k}

EngineInv == Types /\ CallInv /\ PlaceInv /\ PairInv /\ SlotInv

-----------------------------------------------------------------------------
\* What a refresh leaves of the ELF manager's tree.
LEMMA RefreshLeaves ==
    ASSUME Types, PlaceInv, NEW by \in {"oneshot", "open", "close"}, elf' = Refreshed(by)
    PROVE  /\ elf' \in [Instances -> ElfTypes]
           /\ Born \subseteq Instances
           /\ \A e \in Instances :
                 /\ e \in Born => /\ elf'[e].st = "tree" /\ elf'[e].at = e /\ elf'[e].by = by
                                  /\ elf'[e].cfi = "unknown"
                                  /\ refs[Path(e)] > 0 /\ e[2] = loads[Path(e)]
                                  /\ \A f \in Tree : Path(f) # Path(e)
                 /\ e \notin Born /\ elf'[e].st = "tree" => e \in Tree /\ elf'[e] = elf[e]
                 /\ e \in Tree /\ refs[Path(e)] > 0 => e \notin Born /\ elf'[e] = elf[e]
                 /\ elf'[e].st = "abandoned" =>
                       /\ elf[e].st = "abandoned" \/ refs[Path(e)] <= 0
                       /\ elf[e].st # "none" /\ elf'[e].at = elf[e].at
                       /\ elf'[e].cfi = elf[e].cfi
                 /\ elf[e].st # "none" /\ by # "close" => elf'[e].st # "none"
  <1>1. Born \subseteq Instances /\ \A e \in Born : refs[Path(e)] > 0 /\ e[2] = loads[Path(e)]
                                                   /\ e = at[Path(e)] /\ Path(e) \notin Known
    <2>1. ASSUME NEW e \in Born
          PROVE  /\ e \in Instances /\ refs[Path(e)] > 0 /\ e[2] = loads[Path(e)]
                 /\ e = at[Path(e)] /\ Path(e) \notin Known
      <3>1. PICK l \in Loaded \ Known : e = <<l, loads[l]>>
        BY DEF Born
      <3>2. l \in Libs /\ refs[l] > 0 /\ Path(e) = l /\ e[2] = loads[l]
        BY <3>1 DEF Loaded, Path
      <3>3. loads[l] \in 1..MaxLoads /\ at[l] = e
        BY <3>1, <3>2 DEF PlaceInv
      <3>4. QED
        BY <3>1, <3>2, <3>3 DEF Instances
    <2>2. QED
      BY <2>1
  <1>2. \A e \in Born : \A f \in Tree : Path(f) # Path(e)
    BY <1>1 DEF Known
  <1> DEFINE gone(e) == elf[e].st = "tree" /\ Path(e) \notin Loaded
  <1>3. \A e \in Instances : elf'[e] =
            IF e \in Born THEN [st |-> "tree", at |-> at[Path(e)], by |-> by, cfi |-> "unknown"]
            ELSE IF by = "close" /\ (gone(e) \/ elf[e].st = "abandoned") THEN NoElf
            ELSE IF gone(e) THEN [elf[e] EXCEPT !.st = "abandoned"]
            ELSE elf[e]
    BY DEF Refreshed
  <1>4. \A e \in Instances : Path(e) \in Libs /\ elf[e] \in ElfTypes
    BY DEF Instances, Path, Types
  <1>5. \A e \in Instances : elf'[e] \in ElfTypes
    <2>1. TAKE e \in Instances
    <2>2. CASE e \in Born
      <3>1. elf'[e] = [st |-> "tree", at |-> e, by |-> by, cfi |-> "unknown"]
        BY <1>1, <1>3, <2>2
      <3>2. QED
        BY <3>1 DEF ElfTypes
    <2>3. CASE e \notin Born
      <3>1. elf'[e] \in {NoElf, elf[e], [elf[e] EXCEPT !.st = "abandoned"]}
        BY <1>3, <2>3
      <3>2. QED
        BY <1>4, <3>1 DEF ElfTypes, NoElf
    <2>4. QED
      BY <2>2, <2>3
  <1>6. elf' \in [Instances -> ElfTypes]
    BY <1>5 DEF Refreshed
  <1>7. ASSUME NEW e \in Instances
        PROVE  /\ e \in Born => /\ elf'[e].st = "tree" /\ elf'[e].at = e /\ elf'[e].by = by
                                /\ elf'[e].cfi = "unknown"
                                /\ refs[Path(e)] > 0 /\ e[2] = loads[Path(e)]
                                /\ \A f \in Tree : Path(f) # Path(e)
               /\ e \notin Born /\ elf'[e].st = "tree" => e \in Tree /\ elf'[e] = elf[e]
               /\ e \in Tree /\ refs[Path(e)] > 0 => e \notin Born /\ elf'[e] = elf[e]
               /\ elf'[e].st = "abandoned" =>
                     /\ elf[e].st = "abandoned" \/ refs[Path(e)] <= 0
                     /\ elf[e].st # "none" /\ elf'[e].at = elf[e].at
                     /\ elf'[e].cfi = elf[e].cfi
               /\ elf[e].st # "none" /\ by # "close" => elf'[e].st # "none"
    <2>1. CASE e \in Born
      <3>1. elf'[e] = [st |-> "tree", at |-> e, by |-> by, cfi |-> "unknown"]
        BY <1>1, <1>3, <2>1
      <3>2. e \notin Tree
        BY <1>2, <2>1
      <3>3. QED
        BY <1>1, <1>2, <2>1, <3>1, <3>2
    <2>2. CASE e \notin Born /\ gone(e)
      <3>1. refs[Path(e)] <= 0
        BY <1>4, <2>2 DEF Loaded, Types
      <3>2. QED
        <4>1. (elf'[e] = NoElf /\ by = "close") \/ elf'[e] = [elf[e] EXCEPT !.st = "abandoned"]
          BY <1>3, <2>2
        <4>2. ~(refs[Path(e)] > 0)
          BY <1>4, <3>1 DEF Types
        <4>3. QED
          BY <1>4, <2>2, <3>1, <4>1, <4>2 DEF NoElf, ElfTypes, Tree
    <2>3. CASE e \notin Born /\ ~gone(e)
      <3>1. elf'[e] = elf[e] \/ (elf'[e] = NoElf /\ by = "close" /\ elf[e].st = "abandoned")
        BY <1>3, <2>3
      <3>2. QED
        BY <1>4, <2>3, <3>1 DEF NoElf, Tree, ElfTypes
    <2>4. QED
      BY <2>1, <2>2, <2>3
  <1>8. QED
    BY <1>1, <1>6, <1>7

\* A refresh keeps ELFs at their own addresses.
LEMMA RefreshPlaces ==
    ASSUME Types, PlaceInv, NEW by \in {"oneshot", "open", "close"}, elf' = Refreshed(by),
           UNCHANGED <<refs, loads, at, got, chained>>
    PROVE  PlaceInv'
  <1>1. /\ elf' \in [Instances -> ElfTypes]
        /\ Born \subseteq Instances
        /\ \A e \in Instances :
              /\ e \in Born => /\ elf'[e].st = "tree" /\ elf'[e].at = e
                               /\ refs[Path(e)] > 0 /\ e[2] = loads[Path(e)]
                               /\ \A f \in Tree : Path(f) # Path(e)
              /\ e \notin Born /\ elf'[e].st = "tree" => e \in Tree /\ elf'[e] = elf[e]
              /\ elf'[e].st = "abandoned" =>
                    /\ elf[e].st = "abandoned" \/ refs[Path(e)] <= 0
                    /\ elf[e].st # "none" /\ elf'[e].at = elf[e].at
    BY RefreshLeaves
  <1>2. \A e \in Instances : /\ elf'[e].st \in {"none", "tree", "abandoned"}
                             /\ Path(e) \in Libs /\ e[2] \in Nat /\ loads[Path(e)] \in Nat
                             /\ e = <<Path(e), e[2]>>
    BY <1>1 DEF ElfTypes, Types, Instances, Path
  <1>3. \A e \in Instances : elf'[e].st # "none" => elf'[e].at = e /\ e[2] <= loads'[Path(e)]
    BY <1>1, <1>2 DEF PlaceInv, Tree
  <1>4. \A e \in Instances : elf'[e].st = "abandoned" =>
            refs'[Path(e)] <= 0 \/ e[2] < loads'[Path(e)]
    BY <1>1 DEF PlaceInv
  <1>5. \A e, f \in Tree' : Path(e) = Path(f) => e = f
    <2>1. TAKE e, f \in Tree'
    <2>2. HAVE Path(e) = Path(f)
    <2>3. e \in Instances /\ f \in Instances /\ elf'[e].st = "tree" /\ elf'[f].st = "tree"
      BY DEF Tree
    <2>4. CASE e \in Born /\ f \in Born
      BY <1>1, <1>2, <2>2, <2>3, <2>4
    <2>5. CASE e \notin Born /\ f \notin Born
      BY <1>1, <2>2, <2>3, <2>5 DEF PlaceInv
    <2>6. CASE e \in Born /\ f \notin Born
      BY <1>1, <2>2, <2>3, <2>6
    <2>7. CASE e \notin Born /\ f \in Born
      BY <1>1, <2>2, <2>3, <2>7
    <2>8. QED
      BY <2>4, <2>5, <2>6, <2>7
  <1>6. QED
    BY <1>3, <1>4, <1>5 DEF PlaceInv, Tree

\* What a task is to meet is for it.
LEMMA TargetsFit ==
    ASSUME NEW k, NEW tree, NEW es \in Targets(k, tree)
    PROVE  es \subseteq tree /\ \A f \in es : Path(f) \in Match[k]
  BY DEF Targets

\* Hook keeps chains, slots, locks and holders in step (EngineInv).
LEMMA HookKeeps ==
    ASSUME EngineInv, ~Reuse, NEW t \in Threads, NEW k \in Tasks, Hook(t, k)
    PROVE  EngineInv'
  <1>1. Hook(t, k) /\ Types /\ CallInv /\ PlaceInv /\ PairInv /\ SlotInv /\ ~Reuse
    BY DEF EngineInv
  <1>2. \A j \in Tasks : \A f \in Instances : ~Has(t, j, f) /\ ~Between(t, j, f)
    BY <1>1 DEF PairInv, Has, Between, Hook, Enter
  <1>3. Types'
    BY <1>1 DEF Types, Hook, vars, linker, chains, engine, local, Enter, Goto, Ops, PC, ElfTypes
  <1>4. CallInv'
    <2>1. \A u \in Threads : pc'[u] \in Ways(op'[u])
      <3>1. \A u \in Threads : u # t => pc'[u] = pc[u] /\ op'[u] = op[u]
        BY <1>1, <1>2 DEF Types, Hook, local, Enter, Goto, Ops, PC
      <3>2. pc'[t] \in Ways(op'[t])
        BY <1>1, <1>2 DEF Types, Ways, Hook, local, Enter, Goto, Ops, PC
      <3>3. QED
        BY <1>1, <3>1, <3>2 DEF CallInv
    <2>2. \A u \in Threads : op'[u] \in {"hook", "unhook"} => arg'[u] \in Tasks
      BY <1>1, <1>2 DEF Types, Hook, linker, chains, engine, local, CallInv, Enter, Goto, Ops, PC
    <2>3. \A u \in Threads : op'[u] \in {"open", "rawopen", "close", "rawclose"} => arg'[u] \in Libs
      BY <1>1, <1>2 DEF Types, Hook, linker, chains, engine, local, CallInv, Enter, Goto, Ops, PC
    <2>4. (Readers = {} \/ Writers = {})'
      BY <1>1, <1>2 DEF Types, Hook, linker, chains, engine, local, CallInv, Readers, Writers,
         Ways, CanRead, CanWrite, Enter, Goto, Ops, PC
    <2>5. QED
      BY <2>1, <2>2, <2>3, <2>4 DEF CallInv
  <1>5. PlaceInv'
    BY <1>1, <1>2 DEF Hook, linker, chains, engine, local, PlaceInv, Path, Tree, Goto
  <1>6. PairInv'
    <2>1. \A u \in Threads : \A j \in Tasks : \A f \in Instances : Has(u, j, f)' =>
          /\ pc'[u] = "meet" /\ elf'[f].st # "none"
          /\ Path(f) \in Match[j]
          /\ op'[u] # "open" => j = arg'[u]
      <3>1. \A u \in Threads : \A j \in Tasks : \A f \in Instances :
                /\ Has(u, j, f)' <=> Has(u, j, f)
                /\ Has(u, j, f) => pc'[u] = pc[u] /\ op'[u] = op[u] /\ arg'[u] = arg[u]
        BY ZenonT(60), <1>1, <1>2 DEF Types, Has, Hook, local, Enter, Goto
      <3>2. UNCHANGED elf
        BY <1>1, <1>2 DEF Hook
      <3>3. QED
        BY <1>1, <3>1, <3>2 DEF PairInv
    <2>2. \A u \in Threads : \A f \in new'[u] :
          op'[u] = "open" /\ pc'[u] \in {"new", "meet"} /\ elf'[f].st # "none"
      BY <1>1, <1>2 DEF Types, Hook, linker, chains, engine, local, PairInv, Enter, Goto, Ops, PC
    <2>3. \A u, v \in Threads : \A i, j \in Tasks : \A f \in Instances :
          Between(u, i, f)' /\ Between(v, j, f)' => u = v /\ i = j
      BY <1>1, <1>2 DEF Types, Hook, linker, chains, engine, local, PairInv, Between, Enter, Goto,
         Ops, PC
    <2>4. \A u \in Threads : \A i, j \in Tasks : \A f, g \in Instances :
          Between(u, i, f)' /\ Between(u, j, g)' => i = j /\ f = g
      BY <1>1, <1>2 DEF Types, Hook, linker, chains, engine, local, PairInv, Between, Enter, Goto,
         Ops, PC
    <2>5. QED
      BY <2>1, <2>2, <2>3, <2>4 DEF PairInv
  <1>7. SlotInv'
    <2>1. \A u \in Threads : \A j \in Tasks : \A f \in Instances :
             /\ Between(u, j, f)' <=> Between(u, j, f)
             /\ Between(u, j, f) => op'[u] = op[u]
      BY <1>1, <1>2 DEF Types, Between, Hook, local, Enter
    <2>2. UNCHANGED <<chained, enabled, got>>
      BY <1>1, <1>2 DEF Hook, chains
    <2>3. QED
      BY <1>1, <1>2, <2>1, <2>2 DEF SlotInv
  <1>8. QED
    BY <1>3, <1>4, <1>5, <1>6, <1>7 DEF EngineInv

\* Unhook keeps chains, slots, locks and holders in step (EngineInv).
LEMMA UnhookKeeps ==
    ASSUME EngineInv, ~Reuse, NEW t \in Threads, NEW k \in Tasks, Unhook(t, k)
    PROVE  EngineInv'
  <1>1. Unhook(t, k) /\ Types /\ CallInv /\ PlaceInv /\ PairInv /\ SlotInv /\ ~Reuse
    BY DEF EngineInv
  <1>2. \A j \in Tasks : \A f \in Instances : ~Has(t, j, f) /\ ~Between(t, j, f)
    BY <1>1 DEF PairInv, Has, Between, Unhook, Enter
  <1>3. Types'
    BY <1>1 DEF Types, Unhook, vars, linker, chains, engine, local, Enter, Goto, Listed, Ops, PC,
       ElfTypes
  <1>4. CallInv'
    <2>1. \A u \in Threads : pc'[u] \in Ways(op'[u])
      <3>1. \A u \in Threads : u # t => pc'[u] = pc[u] /\ op'[u] = op[u]
        BY <1>1, <1>2 DEF Types, Unhook, local, Enter, Goto, Listed, Ops, PC
      <3>2. pc'[t] \in Ways(op'[t])
        BY <1>1, <1>2 DEF Types, Ways, Unhook, local, Enter, Goto, Listed, Ops, PC
      <3>3. QED
        BY <1>1, <3>1, <3>2 DEF CallInv
    <2>2. \A u \in Threads : op'[u] \in {"hook", "unhook"} => arg'[u] \in Tasks
      BY <1>1, <1>2 DEF Types, Unhook, linker, chains, engine, local, CallInv, Enter, Goto, Listed,
         Ops, PC
    <2>3. \A u \in Threads : op'[u] \in {"open", "rawopen", "close", "rawclose"} => arg'[u] \in Libs
      BY <1>1, <1>2 DEF Types, Unhook, linker, chains, engine, local, CallInv, Enter, Goto, Listed,
         Ops, PC
    <2>4. (Readers = {} \/ Writers = {})'
      BY <1>1, <1>2 DEF Types, Unhook, linker, chains, engine, local, CallInv, Readers, Writers,
         Ways, CanRead, CanWrite, Enter, Goto, Listed, Ops, PC
    <2>5. QED
      BY <2>1, <2>2, <2>3, <2>4 DEF CallInv
  <1>5. PlaceInv'
    BY <1>1, <1>2 DEF Unhook, linker, chains, engine, local, PlaceInv, Path, Tree, Goto
  <1>6. PairInv'
    <2>1. \A u \in Threads : \A j \in Tasks : \A f \in Instances : Has(u, j, f)' =>
          /\ pc'[u] = "meet" /\ elf'[f].st # "none"
          /\ Path(f) \in Match[j]
          /\ op'[u] # "open" => j = arg'[u]
      <3>1. \A u \in Threads : \A j \in Tasks : \A f \in Instances :
                /\ Has(u, j, f)' <=> Has(u, j, f)
                /\ Has(u, j, f) => pc'[u] = pc[u] /\ op'[u] = op[u] /\ arg'[u] = arg[u]
        <4>1. /\ UNCHANGED <<todo, cur>>
              /\ \A u \in Threads : u # t => pc'[u] = pc[u] /\ op'[u] = op[u] /\ arg'[u] = arg[u]
          BY <1>1 DEF Types, Unhook, Enter, Goto
        <4>2. QED
          BY <1>2, <4>1 DEF Has
      <3>2. UNCHANGED elf
        BY <1>1, <1>2 DEF Unhook
      <3>3. QED
        BY <1>1, <3>1, <3>2 DEF PairInv
    <2>2. \A u \in Threads : \A f \in new'[u] :
          op'[u] = "open" /\ pc'[u] \in {"new", "meet"} /\ elf'[f].st # "none"
      BY <1>1, <1>2 DEF Types, Unhook, linker, chains, engine, local, PairInv, Enter, Goto, Listed,
         Ops, PC
    <2>3. \A u, v \in Threads : \A i, j \in Tasks : \A f \in Instances :
          Between(u, i, f)' /\ Between(v, j, f)' => u = v /\ i = j
      BY <1>1, <1>2 DEF Types, Unhook, linker, chains, engine, local, PairInv, Between, Enter,
         Goto, Listed, Ops, PC
    <2>4. \A u \in Threads : \A i, j \in Tasks : \A f, g \in Instances :
          Between(u, i, f)' /\ Between(u, j, g)' => i = j /\ f = g
      BY <1>1, <1>2 DEF Types, Unhook, linker, chains, engine, local, PairInv, Between, Enter,
         Goto, Listed, Ops, PC
    <2>5. QED
      BY <2>1, <2>2, <2>3, <2>4 DEF PairInv
  <1>7. SlotInv'
    <2>1. \A u \in Threads : \A j \in Tasks : \A f \in Instances :
             /\ Between(u, j, f)' <=> Between(u, j, f)
             /\ Between(u, j, f) => op'[u] = op[u]
      BY <1>1, <1>2 DEF Types, Between, Unhook, local, Enter
    <2>2. UNCHANGED <<chained, enabled, got>>
      BY <1>1, <1>2 DEF Unhook, chains
    <2>3. QED
      BY <1>1, <1>2, <2>1, <2>2 DEF SlotInv
  <1>8. QED
    BY <1>3, <1>4, <1>5, <1>6, <1>7 DEF EngineInv

\* TestMonitor keeps chains, slots, locks and holders in step (EngineInv).
LEMMA TestMonitorKeeps ==
    ASSUME EngineInv, ~Reuse, NEW t \in Threads, TestMonitor(t)
    PROVE  EngineInv'
  <1>1. TestMonitor(t) /\ Types /\ CallInv /\ PlaceInv /\ PairInv /\ SlotInv /\ ~Reuse
    BY DEF EngineInv
  <1>2. op[t] \in {"hook"} /\ op[t] \in Ops
    BY <1>1 DEF Types, CallInv, Ways, Ops, TestMonitor
  <1>3. \A j \in Tasks : \A f \in Instances : ~Has(t, j, f) /\ ~Between(t, j, f)
    BY <1>1, <1>2 DEF PairInv, Has, Between, TestMonitor
  <1>4. Types'
    BY <1>1 DEF Types, TestMonitor, vars, linker, chains, engine, local, Goto, PC, ElfTypes
  <1>5. CallInv'
    <2>1. \A u \in Threads : pc'[u] \in Ways(op'[u])
      <3>1. \A u \in Threads : u # t => pc'[u] = pc[u] /\ op'[u] = op[u]
        BY <1>1, <1>2, <1>3 DEF Types, TestMonitor, local, Goto, PC
      <3>2. pc'[t] \in Ways(op'[t])
        BY <1>1, <1>2, <1>3 DEF Types, Ways, TestMonitor, local, Goto, PC
      <3>3. QED
        BY <1>1, <3>1, <3>2 DEF CallInv
    <2>2. \A u \in Threads : op'[u] \in {"hook", "unhook"} => arg'[u] \in Tasks
      BY <1>1, <1>2, <1>3 DEF Types, TestMonitor, linker, chains, engine, local, CallInv, Goto, PC
    <2>3. \A u \in Threads : op'[u] \in {"open", "rawopen", "close", "rawclose"} => arg'[u] \in Libs
      BY <1>1, <1>2, <1>3 DEF Types, TestMonitor, linker, chains, engine, local, CallInv, Goto, PC
    <2>4. (Readers = {} \/ Writers = {})'
      BY <1>1, <1>2, <1>3 DEF Types, TestMonitor, linker, chains, engine, local, CallInv, Readers,
         Writers, Ways, CanRead, CanWrite, Goto, PC
    <2>5. QED
      BY <2>1, <2>2, <2>3, <2>4 DEF CallInv
  <1>6. PlaceInv'
    BY <1>1, <1>2, <1>3 DEF TestMonitor, linker, chains, engine, local, PlaceInv, Path, Tree, Goto
  <1>7. PairInv'
    <2>1. \A u \in Threads : \A j \in Tasks : \A f \in Instances : Has(u, j, f)' =>
          /\ pc'[u] = "meet" /\ elf'[f].st # "none"
          /\ Path(f) \in Match[j]
          /\ op'[u] # "open" => j = arg'[u]
      <3>1. \A u \in Threads : \A j \in Tasks : \A f \in Instances :
                /\ Has(u, j, f)' <=> Has(u, j, f)
                /\ Has(u, j, f) => pc'[u] = pc[u] /\ op'[u] = op[u] /\ arg'[u] = arg[u]
        BY <1>1, <1>2, <1>3 DEF Types, Has, TestMonitor, local, Goto
      <3>2. UNCHANGED elf
        BY <1>1, <1>2, <1>3 DEF TestMonitor
      <3>3. QED
        BY <1>1, <3>1, <3>2 DEF PairInv
    <2>2. \A u \in Threads : \A f \in new'[u] :
          op'[u] = "open" /\ pc'[u] \in {"new", "meet"} /\ elf'[f].st # "none"
      BY ZenonT(60), <1>1, <1>2, <1>3 DEF Types, TestMonitor, linker, chains, engine, local, PairInv, Goto, PC
    <2>3. \A u, v \in Threads : \A i, j \in Tasks : \A f \in Instances :
          Between(u, i, f)' /\ Between(v, j, f)' => u = v /\ i = j
      BY <1>1, <1>2, <1>3 DEF Types, TestMonitor, linker, chains, engine, local, PairInv, Between,
         Goto, PC
    <2>4. \A u \in Threads : \A i, j \in Tasks : \A f, g \in Instances :
          Between(u, i, f)' /\ Between(u, j, g)' => i = j /\ f = g
      BY <1>1, <1>2, <1>3 DEF Types, TestMonitor, linker, chains, engine, local, PairInv, Between,
         Goto, PC
    <2>5. QED
      BY <2>1, <2>2, <2>3, <2>4 DEF PairInv
  <1>8. SlotInv'
    <2>1. \A u \in Threads : \A j \in Tasks : \A f \in Instances :
             /\ Between(u, j, f)' <=> Between(u, j, f)
             /\ Between(u, j, f) => op'[u] = op[u]
      BY <1>1, <1>2, <1>3 DEF Types, Between, TestMonitor, local
    <2>2. UNCHANGED <<chained, enabled, got>>
      BY <1>1, <1>2, <1>3 DEF TestMonitor, chains
    <2>3. QED
      BY <1>1, <1>2, <1>3, <2>1, <2>2 DEF SlotInv
  <1>9. QED
    BY <1>4, <1>5, <1>6, <1>7, <1>8 DEF EngineInv

\* InitOpen keeps chains, slots, locks and holders in step (EngineInv).
LEMMA InitOpenKeeps ==
    ASSUME EngineInv, ~Reuse, NEW t \in Threads, InitOpen(t)
    PROVE  EngineInv'
  <1>1. InitOpen(t) /\ Types /\ CallInv /\ PlaceInv /\ PairInv /\ SlotInv /\ ~Reuse
    BY DEF EngineInv
  <1>2. op[t] \in {"hook"} /\ op[t] \in Ops
    BY <1>1 DEF Types, CallInv, Ways, Ops, InitOpen
  <1>3. \A j \in Tasks : \A f \in Instances : ~Has(t, j, f) /\ ~Between(t, j, f)
    BY <1>1, <1>2 DEF PairInv, Has, Between, InitOpen
  <1>4. Types'
    BY <1>1 DEF Types, InitOpen, vars, linker, chains, engine, local, Goto, PC, ElfTypes
  <1>5. CallInv'
    <2>1. \A u \in Threads : pc'[u] \in Ways(op'[u])
      <3>1. \A u \in Threads : u # t => pc'[u] = pc[u] /\ op'[u] = op[u]
        BY <1>1, <1>2, <1>3 DEF Types, InitOpen, local, Goto, PC
      <3>2. pc'[t] \in Ways(op'[t])
        BY <1>1, <1>2, <1>3 DEF Types, Ways, InitOpen, local, Goto, PC
      <3>3. QED
        BY <1>1, <3>1, <3>2 DEF CallInv
    <2>2. \A u \in Threads : op'[u] \in {"hook", "unhook"} => arg'[u] \in Tasks
      BY <1>1, <1>2, <1>3 DEF Types, InitOpen, linker, chains, engine, local, CallInv, Goto, PC
    <2>3. \A u \in Threads : op'[u] \in {"open", "rawopen", "close", "rawclose"} => arg'[u] \in Libs
      BY <1>1, <1>2, <1>3 DEF Types, InitOpen, linker, chains, engine, local, CallInv, Goto, PC
    <2>4. (Readers = {} \/ Writers = {})'
      BY <1>1, <1>2, <1>3 DEF Types, InitOpen, linker, chains, engine, local, CallInv, Readers,
         Writers, Ways, CanRead, CanWrite, Goto, PC
    <2>5. QED
      BY <2>1, <2>2, <2>3, <2>4 DEF CallInv
  <1>6. PlaceInv'
    BY <1>1, <1>2, <1>3 DEF InitOpen, linker, chains, engine, local, PlaceInv, Path, Tree, Goto
  <1>7. PairInv'
    <2>1. \A u \in Threads : \A j \in Tasks : \A f \in Instances : Has(u, j, f)' =>
          /\ pc'[u] = "meet" /\ elf'[f].st # "none"
          /\ Path(f) \in Match[j]
          /\ op'[u] # "open" => j = arg'[u]
      <3>1. \A u \in Threads : \A j \in Tasks : \A f \in Instances :
                /\ Has(u, j, f)' <=> Has(u, j, f)
                /\ Has(u, j, f) => pc'[u] = pc[u] /\ op'[u] = op[u] /\ arg'[u] = arg[u]
        BY <1>1, <1>2, <1>3 DEF Types, Has, InitOpen, local, Goto
      <3>2. UNCHANGED elf
        BY <1>1, <1>2, <1>3 DEF InitOpen
      <3>3. QED
        BY <1>1, <3>1, <3>2 DEF PairInv
    <2>2. \A u \in Threads : \A f \in new'[u] :
          op'[u] = "open" /\ pc'[u] \in {"new", "meet"} /\ elf'[f].st # "none"
      BY <1>1, <1>2, <1>3 DEF Types, InitOpen, linker, chains, engine, local, PairInv, Goto, PC
    <2>3. \A u, v \in Threads : \A i, j \in Tasks : \A f \in Instances :
          Between(u, i, f)' /\ Between(v, j, f)' => u = v /\ i = j
      BY <1>1, <1>2, <1>3 DEF Types, InitOpen, linker, chains, engine, local, PairInv, Between,
         Goto, PC
    <2>4. \A u \in Threads : \A i, j \in Tasks : \A f, g \in Instances :
          Between(u, i, f)' /\ Between(u, j, g)' => i = j /\ f = g
      BY <1>1, <1>2, <1>3 DEF Types, InitOpen, linker, chains, engine, local, PairInv, Between,
         Goto, PC
    <2>5. QED
      BY <2>1, <2>2, <2>3, <2>4 DEF PairInv
  <1>8. SlotInv'
    <2>1. \A u \in Threads : \A j \in Tasks : \A f \in Instances :
             /\ Between(u, j, f)' <=> Between(u, j, f)
             /\ Between(u, j, f) => op'[u] = op[u]
      BY <1>1, <1>2, <1>3 DEF Types, Between, InitOpen, local
    <2>2. UNCHANGED <<chained, enabled, got>>
      BY <1>1, <1>2, <1>3 DEF InitOpen, chains
    <2>3. QED
      BY <1>1, <1>2, <1>3, <2>1, <2>2 DEF SlotInv
  <1>9. QED
    BY <1>4, <1>5, <1>6, <1>7, <1>8 DEF EngineInv

\* InitClose keeps chains, slots, locks and holders in step (EngineInv).
LEMMA InitCloseKeeps ==
    ASSUME EngineInv, ~Reuse, NEW t \in Threads, InitClose(t)
    PROVE  EngineInv'
  <1>1. InitClose(t) /\ Types /\ CallInv /\ PlaceInv /\ PairInv /\ SlotInv /\ ~Reuse
    BY DEF EngineInv
  <1>2. op[t] \in {"hook"} /\ op[t] \in Ops
    BY <1>1 DEF Types, CallInv, Ways, Ops, InitClose
  <1>3. \A j \in Tasks : \A f \in Instances : ~Has(t, j, f) /\ ~Between(t, j, f)
    BY <1>1, <1>2 DEF PairInv, Has, Between, InitClose
  <1>4. Types'
    BY <1>1 DEF Types, InitClose, vars, linker, chains, engine, local, Goto, PC, ElfTypes
  <1>5. CallInv'
    <2>1. \A u \in Threads : pc'[u] \in Ways(op'[u])
      <3>1. \A u \in Threads : u # t => pc'[u] = pc[u] /\ op'[u] = op[u]
        BY <1>1, <1>2, <1>3 DEF Types, InitClose, local, Goto, PC
      <3>2. pc'[t] \in Ways(op'[t])
        BY <1>1, <1>2, <1>3 DEF Types, Ways, InitClose, local, Goto, PC
      <3>3. QED
        BY <1>1, <3>1, <3>2 DEF CallInv
    <2>2. \A u \in Threads : op'[u] \in {"hook", "unhook"} => arg'[u] \in Tasks
      BY <1>1, <1>2, <1>3 DEF Types, InitClose, linker, chains, engine, local, CallInv, Goto, PC
    <2>3. \A u \in Threads : op'[u] \in {"open", "rawopen", "close", "rawclose"} => arg'[u] \in Libs
      BY <1>1, <1>2, <1>3 DEF Types, InitClose, linker, chains, engine, local, CallInv, Goto, PC
    <2>4. (Readers = {} \/ Writers = {})'
      BY <1>1, <1>2, <1>3 DEF Types, InitClose, linker, chains, engine, local, CallInv, Readers,
         Writers, Ways, CanRead, CanWrite, Goto, PC
    <2>5. QED
      BY <2>1, <2>2, <2>3, <2>4 DEF CallInv
  <1>6. PlaceInv'
    BY <1>1, <1>2, <1>3 DEF InitClose, linker, chains, engine, local, PlaceInv, Path, Tree, Goto
  <1>7. PairInv'
    <2>1. \A u \in Threads : \A j \in Tasks : \A f \in Instances : Has(u, j, f)' =>
          /\ pc'[u] = "meet" /\ elf'[f].st # "none"
          /\ Path(f) \in Match[j]
          /\ op'[u] # "open" => j = arg'[u]
      <3>1. \A u \in Threads : \A j \in Tasks : \A f \in Instances :
                /\ Has(u, j, f)' <=> Has(u, j, f)
                /\ Has(u, j, f) => pc'[u] = pc[u] /\ op'[u] = op[u] /\ arg'[u] = arg[u]
        BY <1>1, <1>2, <1>3 DEF Types, Has, InitClose, local, Goto
      <3>2. UNCHANGED elf
        BY <1>1, <1>2, <1>3 DEF InitClose
      <3>3. QED
        BY <1>1, <3>1, <3>2 DEF PairInv
    <2>2. \A u \in Threads : \A f \in new'[u] :
          op'[u] = "open" /\ pc'[u] \in {"new", "meet"} /\ elf'[f].st # "none"
      BY <1>1, <1>2, <1>3 DEF Types, InitClose, linker, chains, engine, local, PairInv, Goto, PC
    <2>3. \A u, v \in Threads : \A i, j \in Tasks : \A f \in Instances :
          Between(u, i, f)' /\ Between(v, j, f)' => u = v /\ i = j
      BY <1>1, <1>2, <1>3 DEF Types, InitClose, linker, chains, engine, local, PairInv, Between,
         Goto, PC
    <2>4. \A u \in Threads : \A i, j \in Tasks : \A f, g \in Instances :
          Between(u, i, f)' /\ Between(u, j, g)' => i = j /\ f = g
      BY <1>1, <1>2, <1>3 DEF Types, InitClose, linker, chains, engine, local, PairInv, Between,
         Goto, PC
    <2>5. QED
      BY <2>1, <2>2, <2>3, <2>4 DEF PairInv
  <1>8. SlotInv'
    <2>1. \A u \in Threads : \A j \in Tasks : \A f \in Instances :
             /\ Between(u, j, f)' <=> Between(u, j, f)
             /\ Between(u, j, f) => op'[u] = op[u]
      BY <1>1, <1>2, <1>3 DEF Types, Between, InitClose, local
    <2>2. UNCHANGED <<chained, enabled, got>>
      BY <1>1, <1>2, <1>3 DEF InitClose, chains
    <2>3. QED
      BY <1>1, <1>2, <1>3, <2>1, <2>2 DEF SlotInv
  <1>9. QED
    BY <1>4, <1>5, <1>6, <1>7, <1>8 DEF EngineInv

\* Dlopen keeps chains, slots, locks and holders in step (EngineInv).
LEMMA DlopenKeeps ==
    ASSUME EngineInv, ~Reuse, NEW t \in Threads, NEW l \in Libs, Dlopen(t, l)
    PROVE  EngineInv'
  <1>1. Dlopen(t, l) /\ Types /\ CallInv /\ PlaceInv /\ PairInv /\ SlotInv /\ ~Reuse
    BY DEF EngineInv
  <1>2. \A j \in Tasks : \A f \in Instances : ~Has(t, j, f) /\ ~Between(t, j, f)
    BY <1>1 DEF PairInv, Has, Between, Dlopen, Enter
  <1>3. Types'
    BY <1>1 DEF Types, Dlopen, vars, linker, chains, engine, local, Enter, Goto, Ops, PC, ElfTypes
  <1>4. CallInv'
    <2>1. \A u \in Threads : pc'[u] \in Ways(op'[u])
      <3>1. \A u \in Threads : u # t => pc'[u] = pc[u] /\ op'[u] = op[u]
        BY <1>1, <1>2 DEF Types, Dlopen, local, Enter, Goto, Ops, PC
      <3>2. pc'[t] \in Ways(op'[t])
        BY <1>1, <1>2 DEF Types, Ways, Dlopen, local, Enter, Goto, Ops, PC
      <3>3. QED
        BY <1>1, <3>1, <3>2 DEF CallInv
    <2>2. \A u \in Threads : op'[u] \in {"hook", "unhook"} => arg'[u] \in Tasks
      BY <1>1, <1>2 DEF Types, Dlopen, linker, chains, engine, local, CallInv, Enter, Goto, Ops, PC
    <2>3. \A u \in Threads : op'[u] \in {"open", "rawopen", "close", "rawclose"} => arg'[u] \in Libs
      BY <1>1, <1>2 DEF Types, Dlopen, linker, chains, engine, local, CallInv, Enter, Goto, Ops, PC
    <2>4. (Readers = {} \/ Writers = {})'
      BY <1>1, <1>2 DEF Types, Dlopen, linker, chains, engine, local, CallInv, Readers, Writers,
         Ways, CanRead, CanWrite, Enter, Goto, Ops, PC
    <2>5. QED
      BY <2>1, <2>2, <2>3, <2>4 DEF CallInv
  <1>5. PlaceInv'
    BY <1>1, <1>2 DEF Dlopen, linker, chains, engine, local, PlaceInv, Path, Tree, Goto
  <1>6. PairInv'
    <2>1. \A u \in Threads : \A j \in Tasks : \A f \in Instances : Has(u, j, f)' =>
          /\ pc'[u] = "meet" /\ elf'[f].st # "none"
          /\ Path(f) \in Match[j]
          /\ op'[u] # "open" => j = arg'[u]
      <3>1. \A u \in Threads : \A j \in Tasks : \A f \in Instances :
                /\ Has(u, j, f)' <=> Has(u, j, f)
                /\ Has(u, j, f) => pc'[u] = pc[u] /\ op'[u] = op[u] /\ arg'[u] = arg[u]
        BY ZenonT(60), <1>1, <1>2 DEF Types, Has, Dlopen, local, Enter, Goto
      <3>2. UNCHANGED elf
        BY <1>1, <1>2 DEF Dlopen
      <3>3. QED
        BY <1>1, <3>1, <3>2 DEF PairInv
    <2>2. \A u \in Threads : \A f \in new'[u] :
          op'[u] = "open" /\ pc'[u] \in {"new", "meet"} /\ elf'[f].st # "none"
      BY <1>1, <1>2 DEF Types, Dlopen, linker, chains, engine, local, PairInv, Enter, Goto, Ops, PC
    <2>3. \A u, v \in Threads : \A i, j \in Tasks : \A f \in Instances :
          Between(u, i, f)' /\ Between(v, j, f)' => u = v /\ i = j
      BY <1>1, <1>2 DEF Types, Dlopen, linker, chains, engine, local, PairInv, Between, Enter,
         Goto, Ops, PC
    <2>4. \A u \in Threads : \A i, j \in Tasks : \A f, g \in Instances :
          Between(u, i, f)' /\ Between(u, j, g)' => i = j /\ f = g
      BY <1>1, <1>2 DEF Types, Dlopen, linker, chains, engine, local, PairInv, Between, Enter,
         Goto, Ops, PC
    <2>5. QED
      BY <2>1, <2>2, <2>3, <2>4 DEF PairInv
  <1>7. SlotInv'
    <2>1. \A u \in Threads : \A j \in Tasks : \A f \in Instances :
             /\ Between(u, j, f)' <=> Between(u, j, f)
             /\ Between(u, j, f) => op'[u] = op[u]
      BY <1>1, <1>2 DEF Types, Between, Dlopen, local, Enter
    <2>2. UNCHANGED <<chained, enabled, got>>
      BY <1>1, <1>2 DEF Dlopen, chains
    <2>3. QED
      BY <1>1, <1>2, <2>1, <2>2 DEF SlotInv
  <1>8. QED
    BY <1>3, <1>4, <1>5, <1>6, <1>7 DEF EngineInv

\* LoadFails keeps chains, slots, locks and holders in step (EngineInv).
LEMMA LoadFailsKeeps ==
    ASSUME EngineInv, ~Reuse, NEW t \in Threads, LoadFails(t)
    PROVE  EngineInv'
  <1>1. LoadFails(t) /\ Types /\ CallInv /\ PlaceInv /\ PairInv /\ SlotInv /\ ~Reuse
    BY DEF EngineInv
  <1>2. op[t] \in {"open", "rawopen"} /\ op[t] \in Ops
    BY <1>1 DEF Types, CallInv, Ways, Ops, LoadFails
  <1>3. \A j \in Tasks : \A f \in Instances : ~Has(t, j, f) /\ ~Between(t, j, f)
    BY <1>1, <1>2 DEF PairInv, Has, Between, LoadFails
  <1>4. Types'
    BY <1>1 DEF Types, LoadFails, vars, linker, chains, engine, local, Return, Goto, Ops, PC,
       ElfTypes
  <1>5. CallInv'
    <2>1. \A u \in Threads : pc'[u] \in Ways(op'[u])
      <3>1. \A u \in Threads : u # t => pc'[u] = pc[u] /\ op'[u] = op[u]
        BY <1>1, <1>2, <1>3 DEF Types, LoadFails, local, Return, Goto, Ops, PC
      <3>2. pc'[t] \in Ways(op'[t])
        BY <1>1, <1>2, <1>3 DEF Types, Ways, LoadFails, local, Return, Goto, Ops, PC
      <3>3. QED
        BY <1>1, <3>1, <3>2 DEF CallInv
    <2>2. \A u \in Threads : op'[u] \in {"hook", "unhook"} => arg'[u] \in Tasks
      BY <1>1, <1>2, <1>3 DEF Types, LoadFails, linker, chains, engine, local, CallInv, Return,
         Goto, Ops, PC
    <2>3. \A u \in Threads : op'[u] \in {"open", "rawopen", "close", "rawclose"} => arg'[u] \in Libs
      BY <1>1, <1>2, <1>3 DEF Types, LoadFails, linker, chains, engine, local, CallInv, Return,
         Goto, Ops, PC
    <2>4. (Readers = {} \/ Writers = {})'
      BY <1>1, <1>2, <1>3 DEF Types, LoadFails, linker, chains, engine, local, CallInv, Readers,
         Writers, Ways, CanRead, CanWrite, Return, Goto, Ops, PC
    <2>5. QED
      BY <2>1, <2>2, <2>3, <2>4 DEF CallInv
  <1>6. PlaceInv'
    BY <1>1, <1>2, <1>3 DEF LoadFails, linker, chains, engine, local, PlaceInv, Path, Tree, Goto
  <1>7. PairInv'
    <2>1. \A u \in Threads : \A j \in Tasks : \A f \in Instances : Has(u, j, f)' =>
          /\ pc'[u] = "meet" /\ elf'[f].st # "none"
          /\ Path(f) \in Match[j]
          /\ op'[u] # "open" => j = arg'[u]
      <3>1. \A u \in Threads : \A j \in Tasks : \A f \in Instances :
                /\ Has(u, j, f)' <=> Has(u, j, f)
                /\ Has(u, j, f) => pc'[u] = pc[u] /\ op'[u] = op[u] /\ arg'[u] = arg[u]
        BY ZenonT(60), <1>1, <1>2, <1>3 DEF Types, Has, LoadFails, local, Return, Goto
      <3>2. UNCHANGED elf
        BY <1>1, <1>2, <1>3 DEF LoadFails
      <3>3. QED
        BY <1>1, <3>1, <3>2 DEF PairInv
    <2>2. \A u \in Threads : \A f \in new'[u] :
          op'[u] = "open" /\ pc'[u] \in {"new", "meet"} /\ elf'[f].st # "none"
      BY <1>1, <1>2, <1>3 DEF Types, LoadFails, linker, chains, engine, local, PairInv, Return,
         Goto, Ops, PC
    <2>3. \A u, v \in Threads : \A i, j \in Tasks : \A f \in Instances :
          Between(u, i, f)' /\ Between(v, j, f)' => u = v /\ i = j
      BY <1>1, <1>2, <1>3 DEF Types, LoadFails, linker, chains, engine, local, PairInv, Between,
         Return, Goto, Ops, PC
    <2>4. \A u \in Threads : \A i, j \in Tasks : \A f, g \in Instances :
          Between(u, i, f)' /\ Between(u, j, g)' => i = j /\ f = g
      BY <1>1, <1>2, <1>3 DEF Types, LoadFails, linker, chains, engine, local, PairInv, Between,
         Return, Goto, Ops, PC
    <2>5. QED
      BY <2>1, <2>2, <2>3, <2>4 DEF PairInv
  <1>8. SlotInv'
    <2>1. \A u \in Threads : \A j \in Tasks : \A f \in Instances :
             /\ Between(u, j, f)' <=> Between(u, j, f)
             /\ Between(u, j, f) => op'[u] = op[u]
      BY <1>1, <1>2, <1>3 DEF Types, Between, LoadFails, local, Return
    <2>2. UNCHANGED <<chained, enabled, got>>
      BY <1>1, <1>2, <1>3 DEF LoadFails, chains
    <2>3. QED
      BY <1>1, <1>2, <1>3, <2>1, <2>2 DEF SlotInv
  <1>9. QED
    BY <1>4, <1>5, <1>6, <1>7, <1>8 DEF EngineInv

\* Opened keeps chains, slots, locks and holders in step (EngineInv).
LEMMA OpenedKeeps ==
    ASSUME EngineInv, ~Reuse, NEW t \in Threads, Opened(t)
    PROVE  EngineInv'
  <1>1. Opened(t) /\ Types /\ CallInv /\ PlaceInv /\ PairInv /\ SlotInv /\ ~Reuse
    BY DEF EngineInv
  <1>2. op[t] \in {"open"} /\ op[t] \in Ops
    BY <1>1 DEF Types, CallInv, Ways, Ops, Opened
  <1>3. \A j \in Tasks : \A f \in Instances : ~Has(t, j, f) /\ ~Between(t, j, f)
    BY <1>1, <1>2 DEF PairInv, Has, Between, Opened
  <1>4. Types'
    BY <1>1 DEF Types, Opened, vars, linker, chains, engine, local, Return, Goto, Ops, PC, ElfTypes
  <1>5. CallInv'
    <2>1. \A u \in Threads : pc'[u] \in Ways(op'[u])
      <3>1. \A u \in Threads : u # t => pc'[u] = pc[u] /\ op'[u] = op[u]
        BY <1>1, <1>2, <1>3 DEF Types, Opened, local, Return, Goto, Ops, PC
      <3>2. pc'[t] \in Ways(op'[t])
        BY <1>1, <1>2, <1>3 DEF Types, Ways, Opened, local, Return, Goto, Ops, PC
      <3>3. QED
        BY <1>1, <3>1, <3>2 DEF CallInv
    <2>2. \A u \in Threads : op'[u] \in {"hook", "unhook"} => arg'[u] \in Tasks
      BY <1>1, <1>2, <1>3 DEF Types, Opened, linker, chains, engine, local, CallInv, Return, Goto,
         Ops, PC
    <2>3. \A u \in Threads : op'[u] \in {"open", "rawopen", "close", "rawclose"} => arg'[u] \in Libs
      BY <1>1, <1>2, <1>3 DEF Types, Opened, linker, chains, engine, local, CallInv, Return, Goto,
         Ops, PC
    <2>4. (Readers = {} \/ Writers = {})'
      BY <1>1, <1>2, <1>3 DEF Types, Opened, linker, chains, engine, local, CallInv, Readers,
         Writers, Ways, CanRead, CanWrite, Return, Goto, Ops, PC
    <2>5. QED
      BY <2>1, <2>2, <2>3, <2>4 DEF CallInv
  <1>6. PlaceInv'
    BY <1>1, <1>2, <1>3 DEF Opened, linker, chains, engine, local, PlaceInv, Path, Tree, Goto
  <1>7. PairInv'
    <2>1. \A u \in Threads : \A j \in Tasks : \A f \in Instances : Has(u, j, f)' =>
          /\ pc'[u] = "meet" /\ elf'[f].st # "none"
          /\ Path(f) \in Match[j]
          /\ op'[u] # "open" => j = arg'[u]
      <3>1. \A u \in Threads : \A j \in Tasks : \A f \in Instances :
                /\ Has(u, j, f)' <=> Has(u, j, f)
                /\ Has(u, j, f) => pc'[u] = pc[u] /\ op'[u] = op[u] /\ arg'[u] = arg[u]
        BY ZenonT(60), <1>1, <1>2, <1>3 DEF Types, Has, Opened, local, Return, Goto
      <3>2. UNCHANGED elf
        BY <1>1, <1>2, <1>3 DEF Opened
      <3>3. QED
        BY <1>1, <3>1, <3>2 DEF PairInv
    <2>2. \A u \in Threads : \A f \in new'[u] :
          op'[u] = "open" /\ pc'[u] \in {"new", "meet"} /\ elf'[f].st # "none"
      BY <1>1, <1>2, <1>3 DEF Types, Opened, linker, chains, engine, local, PairInv, Return, Goto,
         Ops, PC
    <2>3. \A u, v \in Threads : \A i, j \in Tasks : \A f \in Instances :
          Between(u, i, f)' /\ Between(v, j, f)' => u = v /\ i = j
      BY <1>1, <1>2, <1>3 DEF Types, Opened, linker, chains, engine, local, PairInv, Between,
         Return, Goto, Ops, PC
    <2>4. \A u \in Threads : \A i, j \in Tasks : \A f, g \in Instances :
          Between(u, i, f)' /\ Between(u, j, g)' => i = j /\ f = g
      BY <1>1, <1>2, <1>3 DEF Types, Opened, linker, chains, engine, local, PairInv, Between,
         Return, Goto, Ops, PC
    <2>5. QED
      BY <2>1, <2>2, <2>3, <2>4 DEF PairInv
  <1>8. SlotInv'
    <2>1. \A u \in Threads : \A j \in Tasks : \A f \in Instances :
             /\ Between(u, j, f)' <=> Between(u, j, f)
             /\ Between(u, j, f) => op'[u] = op[u]
      BY <1>1, <1>2, <1>3 DEF Types, Between, Opened, local, Return
    <2>2. UNCHANGED <<chained, enabled, got>>
      BY <1>1, <1>2, <1>3 DEF Opened, chains
    <2>3. QED
      BY <1>1, <1>2, <1>3, <2>1, <2>2 DEF SlotInv
  <1>9. QED
    BY <1>4, <1>5, <1>6, <1>7, <1>8 DEF EngineInv

\* Dlclose keeps chains, slots, locks and holders in step (EngineInv).
LEMMA DlcloseKeeps ==
    ASSUME EngineInv, ~Reuse, NEW t \in Threads, NEW l \in Libs, Dlclose(t, l)
    PROVE  EngineInv'
  <1>1. Dlclose(t, l) /\ Types /\ CallInv /\ PlaceInv /\ PairInv /\ SlotInv /\ ~Reuse
    BY DEF EngineInv
  <1>2. \A j \in Tasks : \A f \in Instances : ~Has(t, j, f) /\ ~Between(t, j, f)
    BY <1>1 DEF PairInv, Has, Between, Dlclose, Enter
  <1>3. Types'
    <2>1. refs' \in [Libs -> Int] /\ loads' \in [Libs -> Nat]
      BY <1>1, <1>2 DEF Types, Dlclose, linker, chains, engine, local, Enter, Goto, Ops, PC
    <2>2. at' \in [Libs -> Instances \cup {None}]
      BY <1>1, <1>2 DEF Types, Dlclose, linker, chains, engine, local, Enter, Goto, Ops, PC
    <2>3. got' \in [Instances -> {"orig", "live", "dead"}]
      BY <1>1, <1>2 DEF Types, Dlclose, linker, chains, engine, local, Enter, Goto, Ops, PC
    <2>4. elf' \in [Instances -> ElfTypes]
      BY <1>1, <1>2 DEF Types, Dlclose, linker, chains, engine, local, Enter, Goto, Ops, PC
    <2>5. chained' \subseteq Instances /\ enabled' \in [Instances -> SUBSET Tasks]
      BY <1>1, <1>2 DEF Types, Dlclose, linker, chains, engine, local, Enter, Goto, Ops, PC
    <2>6. origFunc' \in [Instances -> {"orig", "dead"}]
      BY <1>1, <1>2 DEF Types, Dlclose, linker, chains, engine, local, Enter, Goto, Ops, PC
    <2>7. status' \in [Tasks -> {"new", "unfinished", "finished", "unhooking", "gone"}]
      BY <1>1, <1>2 DEF Types, Dlclose, linker, chains, engine, local, Enter, Goto, Ops, PC
    <2>8. op' \in [Threads -> Ops] /\ arg' \in [Threads -> Tasks \cup Libs \cup {None}]
      BY <1>1, <1>2 DEF Types, Dlclose, linker, chains, engine, local, Enter, Goto, Ops, PC
    <2>9. pc' \in [Threads -> PC]
      BY <1>1, <1>2 DEF Types, Dlclose, linker, chains, engine, local, Enter, Goto, Ops, PC
    <2>10. todo' \in [Threads -> SUBSET (Tasks \X Instances)]
      BY <1>1, <1>2 DEF Types, Dlclose, linker, chains, engine, local, Enter, Goto, Ops, PC
    <2>11. cur' \in [Threads -> SUBSET (Tasks \X Instances)]
      BY <1>1, <1>2 DEF Types, Dlclose, linker, chains, engine, local, Enter, Goto, Ops, PC
    <2>12. new' \in [Threads -> SUBSET Instances]
      BY <1>1, <1>2 DEF Types, Dlclose, linker, chains, engine, local, Enter, Goto, Ops, PC
    <2>13. QED
      BY <2>1, <2>2, <2>3, <2>4, <2>5, <2>6, <2>7, <2>8, <2>9, <2>10, <2>11, <2>12 DEF Types
  <1>4. CallInv'
    <2>1. \A u \in Threads : pc'[u] \in Ways(op'[u])
      <3>1. \A u \in Threads : u # t => pc'[u] = pc[u] /\ op'[u] = op[u]
        BY <1>1, <1>2 DEF Types, Dlclose, local, Enter, Goto, Ops, PC
      <3>2. pc'[t] \in Ways(op'[t])
        BY <1>1, <1>2 DEF Types, Ways, Dlclose, local, Enter, Goto, Ops, PC
      <3>3. QED
        BY <1>1, <3>1, <3>2 DEF CallInv
    <2>2. \A u \in Threads : op'[u] \in {"hook", "unhook"} => arg'[u] \in Tasks
      BY <1>1, <1>2 DEF Types, Dlclose, linker, chains, engine, local, CallInv, Enter, Goto, Ops,
         PC
    <2>3. \A u \in Threads : op'[u] \in {"open", "rawopen", "close", "rawclose"} => arg'[u] \in Libs
      BY <1>1, <1>2 DEF Types, Dlclose, linker, chains, engine, local, CallInv, Enter, Goto, Ops,
         PC
    <2>4. (Readers = {} \/ Writers = {})'
      BY <1>1, <1>2 DEF Types, Dlclose, linker, chains, engine, local, CallInv, Readers, Writers,
         Ways, CanRead, CanWrite, Enter, Goto, Ops, PC
    <2>5. QED
      BY <2>1, <2>2, <2>3, <2>4 DEF CallInv
  <1>5. PlaceInv'
    BY <1>1, <1>2 DEF Dlclose, linker, chains, engine, local, PlaceInv, Path, Tree, Goto
  <1>6. PairInv'
    <2>1. \A u \in Threads : \A j \in Tasks : \A f \in Instances : Has(u, j, f)' =>
          /\ pc'[u] = "meet" /\ elf'[f].st # "none"
          /\ Path(f) \in Match[j]
          /\ op'[u] # "open" => j = arg'[u]
      <3>1. \A u \in Threads : \A j \in Tasks : \A f \in Instances :
                /\ Has(u, j, f)' <=> Has(u, j, f)
                /\ Has(u, j, f) => pc'[u] = pc[u] /\ op'[u] = op[u] /\ arg'[u] = arg[u]
        BY ZenonT(60), <1>1, <1>2 DEF Types, Has, Dlclose, local, Enter, Goto
      <3>2. UNCHANGED elf
        BY <1>1, <1>2 DEF Dlclose
      <3>3. QED
        BY <1>1, <3>1, <3>2 DEF PairInv
    <2>2. \A u \in Threads : \A f \in new'[u] :
          op'[u] = "open" /\ pc'[u] \in {"new", "meet"} /\ elf'[f].st # "none"
      BY ZenonT(60), <1>1, <1>2 DEF Types, Dlclose, linker, chains, engine, local, PairInv, Enter, Goto, Ops,
         PC
    <2>3. \A u, v \in Threads : \A i, j \in Tasks : \A f \in Instances :
          Between(u, i, f)' /\ Between(v, j, f)' => u = v /\ i = j
      BY <1>1, <1>2 DEF Types, Dlclose, linker, chains, engine, local, PairInv, Between, Enter,
         Goto, Ops, PC
    <2>4. \A u \in Threads : \A i, j \in Tasks : \A f, g \in Instances :
          Between(u, i, f)' /\ Between(u, j, g)' => i = j /\ f = g
      BY <1>1, <1>2 DEF Types, Dlclose, linker, chains, engine, local, PairInv, Between, Enter,
         Goto, Ops, PC
    <2>5. QED
      BY <2>1, <2>2, <2>3, <2>4 DEF PairInv
  <1>7. SlotInv'
    <2>1. \A u \in Threads : \A j \in Tasks : \A f \in Instances :
             /\ Between(u, j, f)' <=> Between(u, j, f)
             /\ Between(u, j, f) => op'[u] = op[u]
      BY <1>1, <1>2 DEF Types, Between, Dlclose, local, Enter
    <2>2. UNCHANGED <<chained, enabled, got>>
      BY <1>1, <1>2 DEF Dlclose, chains
    <2>3. QED
      BY <1>1, <1>2, <2>1, <2>2 DEF SlotInv
  <1>8. QED
    BY <1>3, <1>4, <1>5, <1>6, <1>7 DEF EngineInv

\* WriteLock keeps chains, slots, locks and holders in step (EngineInv).
LEMMA WriteLockKeeps ==
    ASSUME EngineInv, ~Reuse, NEW t \in Threads, WriteLock(t)
    PROVE  EngineInv'
  <1>1. WriteLock(t) /\ Types /\ CallInv /\ PlaceInv /\ PairInv /\ SlotInv /\ ~Reuse
    BY DEF EngineInv
  <1>2. op[t] \in {"close"} /\ op[t] \in Ops
    BY <1>1 DEF Types, CallInv, Ways, Ops, WriteLock
  <1>3. \A j \in Tasks : \A f \in Instances : ~Has(t, j, f) /\ ~Between(t, j, f)
    BY <1>1, <1>2 DEF PairInv, Has, Between, WriteLock
  <1>4. Types'
    BY <1>1 DEF Types, WriteLock, vars, linker, chains, engine, local, Goto, PC, ElfTypes
  <1>5. CallInv'
    <2>1. \A u \in Threads : pc'[u] \in Ways(op'[u])
      <3>1. \A u \in Threads : u # t => pc'[u] = pc[u] /\ op'[u] = op[u]
        BY <1>1, <1>2, <1>3 DEF Types, WriteLock, local, Goto, PC
      <3>2. pc'[t] \in Ways(op'[t])
        BY <1>1, <1>2, <1>3 DEF Types, Ways, WriteLock, local, Goto, PC
      <3>3. QED
        BY <1>1, <3>1, <3>2 DEF CallInv
    <2>2. \A u \in Threads : op'[u] \in {"hook", "unhook"} => arg'[u] \in Tasks
      BY <1>1, <1>2, <1>3 DEF Types, WriteLock, linker, chains, engine, local, CallInv, Goto, PC
    <2>3. \A u \in Threads : op'[u] \in {"open", "rawopen", "close", "rawclose"} => arg'[u] \in Libs
      BY <1>1, <1>2, <1>3 DEF Types, WriteLock, linker, chains, engine, local, CallInv, Goto, PC
    <2>4. (Readers = {} \/ Writers = {})'
      BY <1>1, <1>2, <1>3 DEF Types, WriteLock, linker, chains, engine, local, CallInv, Readers,
         Writers, Ways, CanRead, CanWrite, Goto, PC
    <2>5. QED
      BY <2>1, <2>2, <2>3, <2>4 DEF CallInv
  <1>6. PlaceInv'
    BY <1>1, <1>2, <1>3 DEF WriteLock, linker, chains, engine, local, PlaceInv, Path, Tree, Goto
  <1>7. PairInv'
    <2>1. \A u \in Threads : \A j \in Tasks : \A f \in Instances : Has(u, j, f)' =>
          /\ pc'[u] = "meet" /\ elf'[f].st # "none"
          /\ Path(f) \in Match[j]
          /\ op'[u] # "open" => j = arg'[u]
      <3>1. \A u \in Threads : \A j \in Tasks : \A f \in Instances :
                /\ Has(u, j, f)' <=> Has(u, j, f)
                /\ Has(u, j, f) => pc'[u] = pc[u] /\ op'[u] = op[u] /\ arg'[u] = arg[u]
        BY <1>1, <1>2, <1>3 DEF Types, Has, WriteLock, local, Goto
      <3>2. UNCHANGED elf
        BY <1>1, <1>2, <1>3 DEF WriteLock
      <3>3. QED
        BY <1>1, <3>1, <3>2 DEF PairInv
    <2>2. \A u \in Threads : \A f \in new'[u] :
          op'[u] = "open" /\ pc'[u] \in {"new", "meet"} /\ elf'[f].st # "none"
      BY <1>1, <1>2, <1>3 DEF Types, WriteLock, linker, chains, engine, local, PairInv, Goto, PC
    <2>3. \A u, v \in Threads : \A i, j \in Tasks : \A f \in Instances :
          Between(u, i, f)' /\ Between(v, j, f)' => u = v /\ i = j
      BY <1>1, <1>2, <1>3 DEF Types, WriteLock, linker, chains, engine, local, PairInv, Between,
         Goto, PC
    <2>4. \A u \in Threads : \A i, j \in Tasks : \A f, g \in Instances :
          Between(u, i, f)' /\ Between(u, j, g)' => i = j /\ f = g
      BY <1>1, <1>2, <1>3 DEF Types, WriteLock, linker, chains, engine, local, PairInv, Between,
         Goto, PC
    <2>5. QED
      BY <2>1, <2>2, <2>3, <2>4 DEF PairInv
  <1>8. SlotInv'
    <2>1. \A u \in Threads : \A j \in Tasks : \A f \in Instances :
             /\ Between(u, j, f)' <=> Between(u, j, f)
             /\ Between(u, j, f) => op'[u] = op[u]
      BY <1>1, <1>2, <1>3 DEF Types, Between, WriteLock, local
    <2>2. UNCHANGED <<chained, enabled, got>>
      BY <1>1, <1>2, <1>3 DEF WriteLock, chains
    <2>3. QED
      BY <1>1, <1>2, <1>3, <2>1, <2>2 DEF SlotInv
  <1>9. QED
    BY <1>4, <1>5, <1>6, <1>7, <1>8 DEF EngineInv

\* Finish keeps chains, slots, locks and holders in step (EngineInv).
LEMMA FinishKeeps ==
    ASSUME EngineInv, ~Reuse, NEW t \in Threads, Finish(t)
    PROVE  EngineInv'
  <1>1. Finish(t) /\ Types /\ CallInv /\ PlaceInv /\ PairInv /\ SlotInv /\ ~Reuse
    BY DEF EngineInv
  <1>2. Types'
    <2>1. refs' \in [Libs -> Int] /\ loads' \in [Libs -> Nat]
      BY <1>1 DEF Types, Finish, linker, chains, engine, local, Return, Goto, Ops, PC
    <2>2. at' \in [Libs -> Instances \cup {None}]
      BY <1>1 DEF Types, Finish, linker, chains, engine, local, Return, Goto, Ops, PC
    <2>3. got' \in [Instances -> {"orig", "live", "dead"}]
      BY <1>1 DEF Types, Finish, linker, chains, engine, local, Return, Goto, Ops, PC
    <2>4. elf' \in [Instances -> ElfTypes]
      BY <1>1 DEF Types, Finish, linker, chains, engine, local, Return, Goto, Ops, PC
    <2>5. chained' \subseteq Instances /\ enabled' \in [Instances -> SUBSET Tasks]
      BY <1>1 DEF Types, Finish, linker, chains, engine, local, Return, Goto, Ops, PC
    <2>6. origFunc' \in [Instances -> {"orig", "dead"}]
      BY <1>1 DEF Types, Finish, linker, chains, engine, local, Return, Goto, Ops, PC
    <2>7. status' \in [Tasks -> {"new", "unfinished", "finished", "unhooking", "gone"}]
      BY <1>1 DEF Types, Finish, linker, chains, engine, local, Return, Goto, Ops, PC
    <2>8. op' \in [Threads -> Ops] /\ arg' \in [Threads -> Tasks \cup Libs \cup {None}]
      BY <1>1 DEF Types, Finish, linker, chains, engine, local, Return, Goto, Ops, PC
    <2>9. pc' \in [Threads -> PC]
      BY <1>1 DEF Types, Finish, linker, chains, engine, local, Return, Goto, Ops, PC
    <2>10. todo' \in [Threads -> SUBSET (Tasks \X Instances)]
      BY <1>1 DEF Types, Finish, linker, chains, engine, local, Return, Goto, Ops, PC
    <2>11. cur' \in [Threads -> SUBSET (Tasks \X Instances)]
      BY <1>1 DEF Types, Finish, linker, chains, engine, local, Return, Goto, Ops, PC
    <2>12. new' \in [Threads -> SUBSET Instances]
      BY <1>1 DEF Types, Finish, linker, chains, engine, local, Return, Goto, Ops, PC
    <2>13. QED
      BY <2>1, <2>2, <2>3, <2>4, <2>5, <2>6, <2>7, <2>8, <2>9, <2>10, <2>11, <2>12 DEF Types
  <1>3. CallInv'
    <2>1. \A u \in Threads : pc'[u] \in Ways(op'[u])
      <3>1. \A u \in Threads : u # t => pc'[u] = pc[u] /\ op'[u] = op[u]
        BY <1>1 DEF Types, Finish, local, Return, Goto, Ops, PC
      <3>2. pc'[t] \in Ways(op'[t])
        BY <1>1 DEF Types, Ways, Finish, local, Return, Goto, Ops, PC
      <3>3. QED
        BY <1>1, <3>1, <3>2 DEF CallInv
    <2>2. \A u \in Threads : op'[u] \in {"hook", "unhook"} => arg'[u] \in Tasks
      BY <1>1 DEF Types, Finish, linker, chains, engine, local, CallInv, Return, Goto, Ops, PC
    <2>3. \A u \in Threads : op'[u] \in {"open", "rawopen", "close", "rawclose"} => arg'[u] \in Libs
      BY <1>1 DEF Types, Finish, linker, chains, engine, local, CallInv, Return, Goto, Ops, PC
    <2>4. (Readers = {} \/ Writers = {})'
      BY <1>1 DEF Types, Finish, linker, chains, engine, local, CallInv, Readers, Writers, Ways,
         CanRead, CanWrite, Return, Goto, Ops, PC
    <2>5. QED
      BY <2>1, <2>2, <2>3, <2>4 DEF CallInv
  <1>4. PlaceInv'
    BY <1>1 DEF Finish, linker, chains, engine, local, PlaceInv, Path, Tree, Goto
  <1>5. PairInv'
    <2>1. \A u \in Threads : \A j \in Tasks : \A f \in Instances : Has(u, j, f)' =>
          /\ pc'[u] = "meet" /\ elf'[f].st # "none"
          /\ Path(f) \in Match[j]
          /\ op'[u] # "open" => j = arg'[u]
      BY <1>1 DEF Types, Finish, linker, chains, engine, local, PairInv, Has, Return, Goto, Ops, PC
    <2>2. \A u \in Threads : \A f \in new'[u] :
          op'[u] = "open" /\ pc'[u] \in {"new", "meet"} /\ elf'[f].st # "none"
      BY <1>1 DEF Types, Finish, linker, chains, engine, local, PairInv, Return, Goto, Ops, PC
    <2>3. \A u, v \in Threads : \A i, j \in Tasks : \A f \in Instances :
          Between(u, i, f)' /\ Between(v, j, f)' => u = v /\ i = j
      BY <1>1 DEF Types, Finish, linker, chains, engine, local, PairInv, Between, Return, Goto,
         Ops, PC
    <2>4. \A u \in Threads : \A i, j \in Tasks : \A f, g \in Instances :
          Between(u, i, f)' /\ Between(u, j, g)' => i = j /\ f = g
      BY <1>1 DEF Types, Finish, linker, chains, engine, local, PairInv, Between, Return, Goto,
         Ops, PC
    <2>5. QED
      BY <2>1, <2>2, <2>3, <2>4 DEF PairInv
  <1>6. SlotInv'
    <2>1. \A b \in Instances : b \in chained' <=> enabled'[b] # {}
      BY <1>1 DEF Types, Finish, linker, chains, engine, local, SlotInv, Return, Goto, Ops, PC
    <2>2. \A b \in Instances :
          \/ \E u \in Threads : \E j \in Tasks : Between(u, j, b)'
          \/ b \in chained' <=> got'[b] = "live"
      BY <1>1 DEF Types, Finish, linker, chains, engine, local, SlotInv, Between, Return, Goto,
         Ops, PC
    <2>3. \A u \in Threads : \A j \in Tasks : \A f \in Instances : Between(u, j, f)' =>
          /\ got'[f] # "live"
          /\ IF op'[u] = "unhook" THEN f \notin chained'
                                 ELSE f \in chained' /\ enabled'[f] = {j}
      BY <1>1 DEF Types, Finish, linker, chains, engine, local, SlotInv, Between, Return, Goto,
         Ops, PC
    <2>4. QED
      BY <2>1, <2>2, <2>3 DEF SlotInv
  <1>7. QED
    BY <1>2, <1>3, <1>4, <1>5, <1>6 DEF EngineInv

\* InitRefresh keeps chains, slots, locks and holders in step (EngineInv).
LEMMA InitRefreshKeeps ==
    ASSUME EngineInv, ~Reuse, NEW t \in Threads, InitRefresh(t)
    PROVE  EngineInv'
  <1>1. InitRefresh(t) /\ Types /\ CallInv /\ PlaceInv /\ PairInv /\ SlotInv /\ ~Reuse
    BY DEF EngineInv
  <1>2. op[t] \in {"hook"} /\ op[t] \in Ops
    BY <1>1 DEF Types, CallInv, Ways, Ops, InitRefresh
  <1>3. \A j \in Tasks : \A f \in Instances : ~Has(t, j, f) /\ ~Between(t, j, f)
    BY <1>1, <1>2 DEF PairInv, Has, Between, InitRefresh
  <1>4. /\ elf' \in [Instances -> ElfTypes] /\ PlaceInv'
        /\ \A f \in Instances : elf[f].st # "none" => elf'[f].st # "none"
    <2>1. CASE elf' = Refreshed("oneshot")
      BY <1>1, <1>2, <1>3, <2>1, RefreshLeaves, RefreshPlaces DEF InitRefresh, linker, chains
    <2>2. CASE elf' = elf
      BY <1>1, <1>2, <1>3, <2>2 DEF InitRefresh, linker, chains, Types, PlaceInv, Tree
    <2>3. QED
      BY <1>1, <1>2, <1>3, <2>1, <2>2 DEF InitRefresh
  <1>5. Types'
    BY <1>1, <1>2, <1>3, <1>4 DEF Types, InitRefresh, vars, linker, chains, engine, local, Goto,
       PC, ElfTypes
  <1>6. CallInv'
    <2>1. \A u \in Threads : pc'[u] \in Ways(op'[u])
      <3>1. \A u \in Threads : u # t => pc'[u] = pc[u] /\ op'[u] = op[u]
        BY <1>1, <1>2, <1>3, <1>4 DEF Types, InitRefresh, local, Goto, PC
      <3>2. pc'[t] \in Ways(op'[t])
        BY <1>1, <1>2, <1>3, <1>4 DEF Types, Ways, InitRefresh, local, Goto, PC
      <3>3. QED
        BY <1>1, <3>1, <3>2 DEF CallInv
    <2>2. \A u \in Threads : op'[u] \in {"hook", "unhook"} => arg'[u] \in Tasks
      BY <1>1, <1>2, <1>3, <1>4 DEF Types, InitRefresh, linker, chains, engine, local, CallInv,
         Goto, PC
    <2>3. \A u \in Threads : op'[u] \in {"open", "rawopen", "close", "rawclose"} => arg'[u] \in Libs
      BY <1>1, <1>2, <1>3, <1>4 DEF Types, InitRefresh, linker, chains, engine, local, CallInv,
         Goto, PC
    <2>4. (Readers = {} \/ Writers = {})'
      BY <1>1, <1>2, <1>3, <1>4 DEF Types, InitRefresh, linker, chains, engine, local, CallInv,
         Readers, Writers, Ways, CanRead, CanWrite, Goto, PC
    <2>5. QED
      BY <2>1, <2>2, <2>3, <2>4 DEF CallInv
  <1>7. PlaceInv'
    BY <1>1, <1>2, <1>3, <1>4
  <1>8. PairInv'
    <2>1. \A u \in Threads : \A j \in Tasks : \A f \in Instances : Has(u, j, f)' =>
          /\ pc'[u] = "meet" /\ elf'[f].st # "none"
          /\ Path(f) \in Match[j]
          /\ op'[u] # "open" => j = arg'[u]
      BY SMTT(40), <1>1, <1>2, <1>3, <1>4 DEF Types, InitRefresh, linker, chains, engine, local, PairInv,
         Has, Goto, PC
    <2>2. \A u \in Threads : \A f \in new'[u] :
          op'[u] = "open" /\ pc'[u] \in {"new", "meet"} /\ elf'[f].st # "none"
      BY <1>1, <1>2, <1>3, <1>4 DEF Types, InitRefresh, linker, chains, engine, local, PairInv,
         Goto, PC
    <2>3. \A u, v \in Threads : \A i, j \in Tasks : \A f \in Instances :
          Between(u, i, f)' /\ Between(v, j, f)' => u = v /\ i = j
      BY <1>1, <1>2, <1>3, <1>4 DEF Types, InitRefresh, linker, chains, engine, local, PairInv,
         Between, Goto, PC
    <2>4. \A u \in Threads : \A i, j \in Tasks : \A f, g \in Instances :
          Between(u, i, f)' /\ Between(u, j, g)' => i = j /\ f = g
      BY <1>1, <1>2, <1>3, <1>4 DEF Types, InitRefresh, linker, chains, engine, local, PairInv,
         Between, Goto, PC
    <2>5. QED
      BY <2>1, <2>2, <2>3, <2>4 DEF PairInv
  <1>9. SlotInv'
    <2>1. \A u \in Threads : \A j \in Tasks : \A f \in Instances :
             /\ Between(u, j, f)' <=> Between(u, j, f)
             /\ Between(u, j, f) => op'[u] = op[u]
      BY <1>1, <1>2, <1>3, <1>4 DEF Types, Between, InitRefresh, local
    <2>2. UNCHANGED <<chained, enabled, got>>
      BY <1>1, <1>2, <1>3, <1>4 DEF InitRefresh, chains
    <2>3. QED
      BY <1>1, <1>2, <1>3, <1>4, <2>1, <2>2 DEF SlotInv
  <1>10. QED
    BY <1>5, <1>6, <1>7, <1>8, <1>9 DEF EngineInv

\* Oneshot keeps chains, slots, locks and holders in step (EngineInv).
LEMMA OneshotKeeps ==
    ASSUME EngineInv, ~Reuse, NEW t \in Threads, Oneshot(t)
    PROVE  EngineInv'
  <1>1. Oneshot(t) /\ Types /\ CallInv /\ PlaceInv /\ PairInv /\ SlotInv /\ ~Reuse
    BY DEF EngineInv
  <1>2. op[t] \in {"hook"} /\ op[t] \in Ops
    BY <1>1 DEF Types, CallInv, Ways, Ops, Oneshot
  <1>3. \A j \in Tasks : \A f \in Instances : ~Has(t, j, f) /\ ~Between(t, j, f)
    BY <1>1, <1>2 DEF PairInv, Has, Between, Oneshot
  <1>4. /\ elf' \in [Instances -> ElfTypes] /\ PlaceInv'
        /\ \A f \in Instances : elf[f].st # "none" => elf'[f].st # "none"
    <2>1. CASE elf' = Refreshed("oneshot")
      BY <1>1, <1>2, <1>3, <2>1, RefreshLeaves, RefreshPlaces DEF Oneshot, linker, chains
    <2>2. CASE elf' = elf
      BY <1>1, <1>2, <1>3, <2>2 DEF Oneshot, linker, chains, Types, PlaceInv, Tree
    <2>3. QED
      BY <1>1, <1>2, <1>3, <2>1, <2>2 DEF Oneshot
  <1>5. arg[t] \in Tasks /\ \E es \in SUBSET Instances :
          /\ \A f \in es : Path(f) \in Match[arg[t]] /\ elf'[f].st = "tree"
          /\ \/ todo' = [todo EXCEPT ![t] = {arg[t]} \X es] /\ pc' = [pc EXCEPT ![t] = "meet"]
                /\ Writers = {}
             \/ todo' = todo /\ pc' = [pc EXCEPT ![t] = "start"]
    <2>1. arg[t] \in Tasks
      BY <1>1, <1>2, <1>3, <1>4 DEF CallInv
    <2>2. CASE oneshot = "done"
      <3>1. todo' = todo /\ pc' = [pc EXCEPT ![t] = "start"]
        BY <1>1, <1>2, <1>3, <1>4, <2>2 DEF Oneshot, Goto
      <3>2. \E es \in SUBSET Instances :
          /\ \A f \in es : Path(f) \in Match[arg[t]] /\ elf'[f].st = "tree"
          /\ \/ todo' = [todo EXCEPT ![t] = {arg[t]} \X es] /\ pc' = [pc EXCEPT ![t] = "meet"]
                /\ Writers = {}
             \/ todo' = todo /\ pc' = [pc EXCEPT ![t] = "start"]
        <4>1. {} \in SUBSET Instances
          OBVIOUS
        <4>2. WITNESS {} \in SUBSET Instances
        <4>3. QED
          BY <3>1
      <3>3. QED
        BY <2>1, <3>2
    <2>3. CASE oneshot = "no"
      <3>1. /\ \E es \in Targets(arg[t], {f \in Instances : elf'[f].st = "tree"}) :
                  todo' = [todo EXCEPT ![t] = {arg[t]} \X es]
            /\ Writers = {} /\ pc' = [pc EXCEPT ![t] = "meet"]
        BY <1>1, <2>3 DEF Oneshot, Goto, CanRead
      <3>2. PICK es \in Targets(arg[t], {f \in Instances : elf'[f].st = "tree"}) :
              todo' = [todo EXCEPT ![t] = {arg[t]} \X es]
        BY <3>1
      <3>3. es \subseteq {f \in Instances : elf'[f].st = "tree"} /\ \A f \in es : Path(f) \in Match[arg[t]]
        BY <3>2, TargetsFit
      <3>4. QED
        BY <2>1, <3>1, <3>2, <3>3
    <2>4. oneshot \in {"no", "done"}
      BY <1>1 DEF Oneshot
    <2>5. QED
      BY <2>2, <2>3, <2>4
  <1>6. Types'
    <2>1. refs' \in [Libs -> Int] /\ loads' \in [Libs -> Nat]
      BY <1>1, <1>2, <1>3, <1>4, <1>5 DEF Types, Oneshot, linker, chains, engine, local, Goto, PC
    <2>2. at' \in [Libs -> Instances \cup {None}]
      BY <1>1, <1>2, <1>3, <1>4, <1>5 DEF Types, Oneshot, linker, chains, engine, local, Goto, PC
    <2>3. got' \in [Instances -> {"orig", "live", "dead"}]
      BY <1>1, <1>2, <1>3, <1>4, <1>5 DEF Types, Oneshot, linker, chains, engine, local, Goto, PC
    <2>4. elf' \in [Instances -> ElfTypes]
      BY <1>1, <1>2, <1>3, <1>4, <1>5 DEF Types, Oneshot, linker, chains, engine, local, Goto, PC
    <2>5. chained' \subseteq Instances /\ enabled' \in [Instances -> SUBSET Tasks]
      BY <1>1, <1>2, <1>3, <1>4, <1>5 DEF Types, Oneshot, linker, chains, engine, local, Goto, PC
    <2>6. origFunc' \in [Instances -> {"orig", "dead"}]
      BY <1>1, <1>2, <1>3, <1>4, <1>5 DEF Types, Oneshot, linker, chains, engine, local, Goto, PC
    <2>7. status' \in [Tasks -> {"new", "unfinished", "finished", "unhooking", "gone"}]
      BY <1>1, <1>2, <1>3, <1>4, <1>5 DEF Types, Oneshot, linker, chains, engine, local, Goto, PC
    <2>8. op' \in [Threads -> Ops] /\ arg' \in [Threads -> Tasks \cup Libs \cup {None}]
      BY <1>1, <1>2, <1>3, <1>4, <1>5 DEF Types, Oneshot, linker, chains, engine, local, Goto, PC
    <2>9. pc' \in [Threads -> PC]
      BY <1>1, <1>2, <1>3, <1>4, <1>5 DEF Types, Oneshot, linker, chains, engine, local, Goto, PC
    <2>10. todo' \in [Threads -> SUBSET (Tasks \X Instances)]
      BY <1>1, <1>2, <1>3, <1>4, <1>5 DEF Types, Oneshot, linker, chains, engine, local, Goto, PC
    <2>11. cur' \in [Threads -> SUBSET (Tasks \X Instances)]
      BY <1>1, <1>2, <1>3, <1>4, <1>5 DEF Types, Oneshot, linker, chains, engine, local, Goto, PC
    <2>12. new' \in [Threads -> SUBSET Instances]
      BY <1>1, <1>2, <1>3, <1>4, <1>5 DEF Types, Oneshot, linker, chains, engine, local, Goto, PC
    <2>13. QED
      BY <2>1, <2>2, <2>3, <2>4, <2>5, <2>6, <2>7, <2>8, <2>9, <2>10, <2>11, <2>12 DEF Types
  <1>7. CallInv'
    <2>1. \A u \in Threads : pc'[u] \in Ways(op'[u])
      <3>1. \A u \in Threads : u # t => pc'[u] = pc[u] /\ op'[u] = op[u]
        BY <1>1, <1>2, <1>3, <1>4, <1>5 DEF Types, Oneshot, local, Goto, PC
      <3>2. pc'[t] \in Ways(op'[t])
        BY <1>1, <1>2, <1>3, <1>4, <1>5 DEF Types, Ways, Oneshot, local, Goto, PC
      <3>3. QED
        BY <1>1, <3>1, <3>2 DEF CallInv
    <2>2. \A u \in Threads : op'[u] \in {"hook", "unhook"} => arg'[u] \in Tasks
      BY <1>1, <1>2, <1>3, <1>4, <1>5 DEF Types, Oneshot, linker, chains, engine, local, CallInv,
         Goto, PC
    <2>3. \A u \in Threads : op'[u] \in {"open", "rawopen", "close", "rawclose"} => arg'[u] \in Libs
      BY <1>1, <1>2, <1>3, <1>4, <1>5 DEF Types, Oneshot, linker, chains, engine, local, CallInv,
         Goto, PC
    <2>4. (Readers = {} \/ Writers = {})'
      BY <1>1, <1>2, <1>3, <1>4, <1>5 DEF Types, Oneshot, linker, chains, engine, local, CallInv,
         Readers, Writers, Ways, CanRead, CanWrite, Goto, PC
    <2>5. QED
      BY <2>1, <2>2, <2>3, <2>4 DEF CallInv
  <1>8. PlaceInv'
    BY <1>1, <1>2, <1>3, <1>4, <1>5
  <1>9. PairInv'
    <2>1. \A u \in Threads : \A j \in Tasks : \A f \in Instances : Has(u, j, f)' =>
          /\ pc'[u] = "meet" /\ elf'[f].st # "none"
          /\ Path(f) \in Match[j]
          /\ op'[u] # "open" => j = arg'[u]
      BY <1>1, <1>2, <1>3, <1>4, <1>5 DEF Types, Oneshot, linker, chains, engine, local, PairInv,
         Has, Goto, PC
    <2>2. \A u \in Threads : \A f \in new'[u] :
          op'[u] = "open" /\ pc'[u] \in {"new", "meet"} /\ elf'[f].st # "none"
      <3>1. new[t] = {} /\ new' = new /\ \A u \in Threads : u # t => op'[u] = op[u] /\ pc'[u] = pc[u]
        BY <1>1, <1>2 DEF Oneshot, Goto, Types, PairInv
      <3>2. QED
        BY ZenonT(60), <1>1, <1>4, <3>1 DEF PairInv, Types
    <2>3. \A u, v \in Threads : \A i, j \in Tasks : \A f \in Instances :
          Between(u, i, f)' /\ Between(v, j, f)' => u = v /\ i = j
      BY <1>1, <1>2, <1>3, <1>4, <1>5 DEF Types, Oneshot, linker, chains, engine, local, PairInv,
         Between, Goto, PC
    <2>4. \A u \in Threads : \A i, j \in Tasks : \A f, g \in Instances :
          Between(u, i, f)' /\ Between(u, j, g)' => i = j /\ f = g
      BY <1>1, <1>2, <1>3, <1>4, <1>5 DEF Types, Oneshot, linker, chains, engine, local, PairInv,
         Between, Goto, PC
    <2>5. QED
      BY <2>1, <2>2, <2>3, <2>4 DEF PairInv
  <1>10. SlotInv'
    <2>1. \A u \in Threads : \A j \in Tasks : \A f \in Instances :
             /\ Between(u, j, f)' <=> Between(u, j, f)
             /\ Between(u, j, f) => op'[u] = op[u]
      BY <1>1, <1>2, <1>3, <1>4, <1>5 DEF Types, Between, Oneshot, local
    <2>2. UNCHANGED <<chained, enabled, got>>
      BY <1>1, <1>2, <1>3, <1>4, <1>5 DEF Oneshot, chains
    <2>3. QED
      BY <1>1, <1>2, <1>3, <1>4, <1>5, <2>1, <2>2 DEF SlotInv
  <1>11. QED
    BY <1>6, <1>7, <1>8, <1>9, <1>10 DEF EngineInv

\* Start keeps chains, slots, locks and holders in step (EngineInv).
LEMMA StartKeeps ==
    ASSUME EngineInv, ~Reuse, NEW t \in Threads, Start(t)
    PROVE  EngineInv'
  <1>1. Start(t) /\ Types /\ CallInv /\ PlaceInv /\ PairInv /\ SlotInv /\ ~Reuse
    BY DEF EngineInv
  <1>2. op[t] \in {"hook", "unhook"} /\ op[t] \in Ops
    BY <1>1 DEF Types, CallInv, Ways, Ops, Start
  <1>3. \A j \in Tasks : \A f \in Instances : ~Has(t, j, f) /\ ~Between(t, j, f)
    BY <1>1, <1>2 DEF PairInv, Has, Between, Start
  <1>4. arg[t] \in Tasks /\ Writers = {} /\ pc' = [pc EXCEPT ![t] = "meet"] /\ \E es \in SUBSET Instances :
          /\ \A f \in es : Path(f) \in Match[arg[t]] /\ elf[f].st = "tree"
          /\ todo' = [todo EXCEPT ![t] = {arg[t]} \X es]
    <2>1. arg[t] \in Tasks /\ Writers = {} /\ pc' = [pc EXCEPT ![t] = "meet"]
      BY <1>1, <1>2, <1>3 DEF Start, CallInv, CanRead, Goto
    <2>2. PICK es \in Targets(arg[t], Tree) :
            todo' = [todo EXCEPT ![t] = IF Finished(arg[t]) THEN {} ELSE {arg[t]} \X es]
      BY <1>1, <1>2, <1>3 DEF Start
    <2>3. es \subseteq Tree /\ \A f \in es : Path(f) \in Match[arg[t]]
      BY <2>2, TargetsFit
    <2>4. CASE Finished(arg[t])
      <3>1. todo' = [todo EXCEPT ![t] = {arg[t]} \X {}]
        BY <2>2, <2>4
      <3>2. QED
        BY <2>1, <3>1
    <2>5. CASE ~Finished(arg[t])
      BY <2>1, <2>2, <2>3, <2>5 DEF Tree
    <2>6. QED
      BY <2>4, <2>5
  <1>5. Types'
    BY <1>1, <1>2, <1>3, <1>4 DEF Types, Start, vars, linker, chains, engine, local, Goto, PC,
       Targets, Tree, ElfTypes
  <1>6. CallInv'
    <2>1. \A u \in Threads : pc'[u] \in Ways(op'[u])
      <3>1. \A u \in Threads : u # t => pc'[u] = pc[u] /\ op'[u] = op[u]
        BY <1>1, <1>2, <1>3, <1>4 DEF Types, Start, local, Goto, PC, Targets, Tree
      <3>2. pc'[t] \in Ways(op'[t])
        BY <1>1, <1>2, <1>3, <1>4 DEF Types, Ways, Start, local, Goto, PC, Targets, Tree
      <3>3. QED
        BY <1>1, <3>1, <3>2 DEF CallInv
    <2>2. \A u \in Threads : op'[u] \in {"hook", "unhook"} => arg'[u] \in Tasks
      BY <1>1, <1>2, <1>3, <1>4 DEF Types, Start, linker, chains, engine, local, CallInv, Goto, PC,
         Targets, Tree
    <2>3. \A u \in Threads : op'[u] \in {"open", "rawopen", "close", "rawclose"} => arg'[u] \in Libs
      BY <1>1, <1>2, <1>3, <1>4 DEF Types, Start, linker, chains, engine, local, CallInv, Goto, PC,
         Targets, Tree
    <2>4. (Readers = {} \/ Writers = {})'
      BY <1>1, <1>2, <1>3, <1>4 DEF Types, Start, linker, chains, engine, local, CallInv, Readers,
         Writers, Ways, CanRead, CanWrite, Goto, PC, Targets, Tree
    <2>5. QED
      BY <2>1, <2>2, <2>3, <2>4 DEF CallInv
  <1>7. PlaceInv'
    BY <1>1, <1>2, <1>3, <1>4 DEF Start, linker, chains, engine, local, PlaceInv, Path, Tree, Goto
  <1>8. PairInv'
    <2>1. \A u \in Threads : \A j \in Tasks : \A f \in Instances : Has(u, j, f)' =>
          /\ pc'[u] = "meet" /\ elf'[f].st # "none"
          /\ Path(f) \in Match[j]
          /\ op'[u] # "open" => j = arg'[u]
      BY <1>1, <1>2, <1>3, <1>4 DEF Types, Start, linker, chains, engine, local, PairInv, Has,
         Goto, PC, Targets, Tree
    <2>2. \A u \in Threads : \A f \in new'[u] :
          op'[u] = "open" /\ pc'[u] \in {"new", "meet"} /\ elf'[f].st # "none"
      BY <1>1, <1>2, <1>3, <1>4 DEF Types, Start, linker, chains, engine, local, PairInv, Goto, PC,
         Targets, Tree
    <2>3. \A u, v \in Threads : \A i, j \in Tasks : \A f \in Instances :
          Between(u, i, f)' /\ Between(v, j, f)' => u = v /\ i = j
      BY <1>1, <1>2, <1>3, <1>4 DEF Types, Start, linker, chains, engine, local, PairInv, Between,
         Goto, PC, Targets, Tree
    <2>4. \A u \in Threads : \A i, j \in Tasks : \A f, g \in Instances :
          Between(u, i, f)' /\ Between(u, j, g)' => i = j /\ f = g
      BY <1>1, <1>2, <1>3, <1>4 DEF Types, Start, linker, chains, engine, local, PairInv, Between,
         Goto, PC, Targets, Tree
    <2>5. QED
      BY <2>1, <2>2, <2>3, <2>4 DEF PairInv
  <1>9. SlotInv'
    <2>1. \A u \in Threads : \A j \in Tasks : \A f \in Instances :
             /\ Between(u, j, f)' <=> Between(u, j, f)
             /\ Between(u, j, f) => op'[u] = op[u]
      BY <1>1, <1>2, <1>3, <1>4 DEF Types, Between, Start, local
    <2>2. UNCHANGED <<chained, enabled, got>>
      BY <1>1, <1>2, <1>3, <1>4 DEF Start, chains
    <2>3. QED
      BY <1>1, <1>2, <1>3, <1>4, <2>1, <2>2 DEF SlotInv
  <1>10. QED
    BY <1>5, <1>6, <1>7, <1>8, <1>9 DEF EngineInv

\* PostDlopen keeps chains, slots, locks and holders in step (EngineInv).
LEMMA PostDlopenKeeps ==
    ASSUME EngineInv, ~Reuse, NEW t \in Threads, PostDlopen(t)
    PROVE  EngineInv'
  <1>1. PostDlopen(t) /\ Types /\ CallInv /\ PlaceInv /\ PairInv /\ SlotInv /\ ~Reuse
    BY DEF EngineInv
  <1>2. op[t] \in {"open"} /\ op[t] \in Ops
    BY <1>1 DEF Types, CallInv, Ways, Ops, PostDlopen
  <1>3. \A j \in Tasks : \A f \in Instances : ~Has(t, j, f) /\ ~Between(t, j, f)
    BY <1>1, <1>2 DEF PairInv, Has, Between, PostDlopen
  <1>4. /\ elf' \in [Instances -> ElfTypes] /\ PlaceInv' /\ Born \subseteq Instances
        /\ \A f \in Instances : elf[f].st # "none" \/ f \in Born => elf'[f].st # "none"
    BY <1>1, <1>2, <1>3, RefreshLeaves, RefreshPlaces DEF PostDlopen, linker, chains
  <1>5. Types'
    BY <1>1, <1>2, <1>3, <1>4 DEF Types, PostDlopen, vars, linker, chains, engine, local, Goto, PC,
       ElfTypes
  <1>6. CallInv'
    <2>1. \A u \in Threads : pc'[u] \in Ways(op'[u])
      <3>1. \A u \in Threads : u # t => pc'[u] = pc[u] /\ op'[u] = op[u]
        BY <1>1, <1>2, <1>3, <1>4 DEF Types, PostDlopen, local, Goto, PC
      <3>2. pc'[t] \in Ways(op'[t])
        BY <1>1, <1>2, <1>3, <1>4 DEF Types, Ways, PostDlopen, local, Goto, PC
      <3>3. QED
        BY <1>1, <3>1, <3>2 DEF CallInv
    <2>2. \A u \in Threads : op'[u] \in {"hook", "unhook"} => arg'[u] \in Tasks
      BY <1>1, <1>2, <1>3, <1>4 DEF Types, PostDlopen, linker, chains, engine, local, CallInv,
         Goto, PC
    <2>3. \A u \in Threads : op'[u] \in {"open", "rawopen", "close", "rawclose"} => arg'[u] \in Libs
      BY <1>1, <1>2, <1>3, <1>4 DEF Types, PostDlopen, linker, chains, engine, local, CallInv,
         Goto, PC
    <2>4. (Readers = {} \/ Writers = {})'
      BY <1>1, <1>2, <1>3, <1>4 DEF Types, PostDlopen, linker, chains, engine, local, CallInv,
         Readers, Writers, Ways, CanRead, CanWrite, Goto, PC
    <2>5. QED
      BY <2>1, <2>2, <2>3, <2>4 DEF CallInv
  <1>7. PlaceInv'
    BY <1>1, <1>2, <1>3, <1>4
  <1>8. PairInv'
    <2>1. \A u \in Threads : \A j \in Tasks : \A f \in Instances : Has(u, j, f)' =>
          /\ pc'[u] = "meet" /\ elf'[f].st # "none"
          /\ Path(f) \in Match[j]
          /\ op'[u] # "open" => j = arg'[u]
      <3>1. UNCHANGED <<todo, cur, op, arg>> /\ \A u \in Threads : u # t => pc'[u] = pc[u]
        BY <1>1 DEF PostDlopen, Goto, Types
      <3>2. \A u \in Threads : \A j \in Tasks : \A f \in Instances : Has(u, j, f)' <=> Has(u, j, f)
        BY <3>1 DEF Has
      <3>3. QED
        BY <1>1, <1>3, <1>4, <3>1, <3>2 DEF PairInv
    <2>2. \A u \in Threads : \A f \in new'[u] :
          op'[u] = "open" /\ pc'[u] \in {"new", "meet"} /\ elf'[f].st # "none"
      BY <1>1, <1>2, <1>3, <1>4 DEF Types, PostDlopen, linker, chains, engine, local, PairInv,
         Goto, PC
    <2>3. \A u, v \in Threads : \A i, j \in Tasks : \A f \in Instances :
          Between(u, i, f)' /\ Between(v, j, f)' => u = v /\ i = j
      BY <1>1, <1>2, <1>3, <1>4 DEF Types, PostDlopen, linker, chains, engine, local, PairInv,
         Between, Goto, PC
    <2>4. \A u \in Threads : \A i, j \in Tasks : \A f, g \in Instances :
          Between(u, i, f)' /\ Between(u, j, g)' => i = j /\ f = g
      BY <1>1, <1>2, <1>3, <1>4 DEF Types, PostDlopen, linker, chains, engine, local, PairInv,
         Between, Goto, PC
    <2>5. QED
      BY <2>1, <2>2, <2>3, <2>4 DEF PairInv
  <1>9. SlotInv'
    <2>1. \A u \in Threads : \A j \in Tasks : \A f \in Instances :
             /\ Between(u, j, f)' <=> Between(u, j, f)
             /\ Between(u, j, f) => op'[u] = op[u]
      BY <1>1, <1>2, <1>3, <1>4 DEF Types, Between, PostDlopen, local
    <2>2. UNCHANGED <<chained, enabled, got>>
      BY <1>1, <1>2, <1>3, <1>4 DEF PostDlopen, chains
    <2>3. QED
      BY <1>1, <1>2, <1>3, <1>4, <2>1, <2>2 DEF SlotInv
  <1>10. QED
    BY <1>5, <1>6, <1>7, <1>8, <1>9 DEF EngineInv

\* Clean keeps chains, slots, locks and holders in step (EngineInv).
LEMMA CleanKeeps ==
    ASSUME EngineInv, ~Reuse, NEW t \in Threads, Clean(t)
    PROVE  EngineInv'
  <1>1. Clean(t) /\ Types /\ CallInv /\ PlaceInv /\ PairInv /\ SlotInv /\ ~Reuse
    BY DEF EngineInv
  <1>2. op[t] \in {"close"} /\ op[t] \in Ops
    BY <1>1 DEF Types, CallInv, Ways, Ops, Clean
  <1>3. \A j \in Tasks : \A f \in Instances : ~Has(t, j, f) /\ ~Between(t, j, f)
    BY <1>1, <1>2 DEF PairInv, Has, Between, Clean
  <1>4. Readers = {} /\ \A u \in Threads : pc[u] \notin {"meet", "new"}
    <2>1. t \in Writers
      BY <1>1, <1>2, <1>3 DEF Clean, Writers
    <2>2. QED
      BY <1>1, <1>2, <1>3, <2>1 DEF CallInv, Readers
  <1>5. \A u \in Threads : /\ new[u] = {}
                            /\ \A j \in Tasks : \A f \in Instances : ~Has(u, j, f) /\ ~Between(u, j, f)
    BY <1>1, <1>2, <1>3, <1>4 DEF PairInv, Has, Between, Types
  <1>6. elf' \in [Instances -> ElfTypes] /\ PlaceInv'
    BY <1>1, <1>2, <1>3, <1>4, <1>5, RefreshLeaves, RefreshPlaces DEF Clean, linker, chains
  <1>7. Types'
    BY <1>1, <1>2, <1>3, <1>4, <1>5, <1>6 DEF Types, Clean, vars, linker, chains, engine, local,
       Return, Goto, Ops, PC, ElfTypes
  <1>8. CallInv'
    <2>1. \A u \in Threads : pc'[u] \in Ways(op'[u])
      <3>1. \A u \in Threads : u # t => pc'[u] = pc[u] /\ op'[u] = op[u]
        BY <1>1, <1>2, <1>3, <1>4, <1>5, <1>6 DEF Types, Clean, local, Return, Goto, Ops, PC
      <3>2. pc'[t] \in Ways(op'[t])
        BY <1>1, <1>2, <1>3, <1>4, <1>5, <1>6 DEF Types, Ways, Clean, local, Return, Goto, Ops, PC
      <3>3. QED
        BY <1>1, <3>1, <3>2 DEF CallInv
    <2>2. \A u \in Threads : op'[u] \in {"hook", "unhook"} => arg'[u] \in Tasks
      BY <1>1, <1>2, <1>3, <1>4, <1>5, <1>6 DEF Types, Clean, linker, chains, engine, local,
         CallInv, Return, Goto, Ops, PC
    <2>3. \A u \in Threads : op'[u] \in {"open", "rawopen", "close", "rawclose"} => arg'[u] \in Libs
      BY <1>1, <1>2, <1>3, <1>4, <1>5, <1>6 DEF Types, Clean, linker, chains, engine, local,
         CallInv, Return, Goto, Ops, PC
    <2>4. (Readers = {} \/ Writers = {})'
      BY <1>1, <1>2, <1>3, <1>4, <1>5, <1>6 DEF Types, Clean, linker, chains, engine, local,
         CallInv, Readers, Writers, Ways, CanRead, CanWrite, Return, Goto, Ops, PC
    <2>5. QED
      BY <2>1, <2>2, <2>3, <2>4 DEF CallInv
  <1>9. PlaceInv'
    BY <1>1, <1>2, <1>3, <1>4, <1>5, <1>6
  <1>10. PairInv'
    <2>1. \A u \in Threads : \A j \in Tasks : \A f \in Instances : Has(u, j, f)' =>
          /\ pc'[u] = "meet" /\ elf'[f].st # "none"
          /\ Path(f) \in Match[j]
          /\ op'[u] # "open" => j = arg'[u]
      BY <1>1, <1>2, <1>3, <1>4, <1>5, <1>6 DEF Types, Clean, linker, chains, engine, local,
         PairInv, Has, Return, Goto, Ops, PC
    <2>2. \A u \in Threads : \A f \in new'[u] :
          op'[u] = "open" /\ pc'[u] \in {"new", "meet"} /\ elf'[f].st # "none"
      BY <1>1, <1>2, <1>3, <1>4, <1>5, <1>6 DEF Types, Clean, linker, chains, engine, local,
         PairInv, Return, Goto, Ops, PC
    <2>3. \A u, v \in Threads : \A i, j \in Tasks : \A f \in Instances :
          Between(u, i, f)' /\ Between(v, j, f)' => u = v /\ i = j
      BY <1>1, <1>2, <1>3, <1>4, <1>5, <1>6 DEF Types, Clean, linker, chains, engine, local,
         PairInv, Between, Return, Goto, Ops, PC
    <2>4. \A u \in Threads : \A i, j \in Tasks : \A f, g \in Instances :
          Between(u, i, f)' /\ Between(u, j, g)' => i = j /\ f = g
      BY <1>1, <1>2, <1>3, <1>4, <1>5, <1>6 DEF Types, Clean, linker, chains, engine, local,
         PairInv, Between, Return, Goto, Ops, PC
    <2>5. QED
      BY <2>1, <2>2, <2>3, <2>4 DEF PairInv
  <1>11. SlotInv'
    <2>1. \A u \in Threads : \A j \in Tasks : \A f \in Instances :
             /\ Between(u, j, f)' <=> Between(u, j, f)
             /\ Between(u, j, f) => op'[u] = op[u]
      BY <1>1, <1>2, <1>3, <1>4, <1>5, <1>6 DEF Types, Between, Clean, local, Return
    <2>2. UNCHANGED <<chained, enabled, got>>
      BY <1>1, <1>2, <1>3, <1>4, <1>5, <1>6 DEF Clean, chains
    <2>3. QED
      BY <1>1, <1>2, <1>3, <1>4, <1>5, <1>6, <2>1, <2>2 DEF SlotInv
  <1>12. QED
    BY <1>7, <1>8, <1>9, <1>10, <1>11 DEF EngineInv

\* NewElf keeps chains, slots, locks and holders in step (EngineInv).
LEMMA NewElfKeeps ==
    ASSUME EngineInv, ~Reuse, NEW t \in Threads, NEW e \in Instances, NewElf(t, e)
    PROVE  EngineInv'
  <1>1. NewElf(t, e) /\ Types /\ CallInv /\ PlaceInv /\ PairInv /\ SlotInv /\ ~Reuse
    BY DEF EngineInv
  <1>2. op[t] \in {"open"} /\ op[t] \in Ops
    BY <1>1 DEF Types, CallInv, Ways, Ops, NewElf
  <1>3. \A j \in Tasks : \A f \in Instances : ~Has(t, j, f) /\ ~Between(t, j, f)
    BY <1>1, <1>2 DEF PairInv, Has, Between, NewElf
  <1>4. Types'
    <2>1. refs' \in [Libs -> Int] /\ loads' \in [Libs -> Nat]
      BY <1>1, <1>2, <1>3 DEF Types, NewElf, linker, chains, engine, local, Goto, PC
    <2>2. at' \in [Libs -> Instances \cup {None}]
      BY <1>1, <1>2, <1>3 DEF Types, NewElf, linker, chains, engine, local, Goto, PC
    <2>3. got' \in [Instances -> {"orig", "live", "dead"}]
      BY <1>1, <1>2, <1>3 DEF Types, NewElf, linker, chains, engine, local, Goto, PC
    <2>4. elf' \in [Instances -> ElfTypes]
      BY <1>1, <1>2, <1>3 DEF Types, NewElf, linker, chains, engine, local, Goto, PC
    <2>5. chained' \subseteq Instances /\ enabled' \in [Instances -> SUBSET Tasks]
      BY <1>1, <1>2, <1>3 DEF Types, NewElf, linker, chains, engine, local, Goto, PC
    <2>6. origFunc' \in [Instances -> {"orig", "dead"}]
      BY <1>1, <1>2, <1>3 DEF Types, NewElf, linker, chains, engine, local, Goto, PC
    <2>7. status' \in [Tasks -> {"new", "unfinished", "finished", "unhooking", "gone"}]
      BY <1>1, <1>2, <1>3 DEF Types, NewElf, linker, chains, engine, local, Goto, PC
    <2>8. op' \in [Threads -> Ops] /\ arg' \in [Threads -> Tasks \cup Libs \cup {None}]
      BY <1>1, <1>2, <1>3 DEF Types, NewElf, linker, chains, engine, local, Goto, PC
    <2>9. pc' \in [Threads -> PC]
      BY <1>1, <1>2, <1>3 DEF Types, NewElf, linker, chains, engine, local, Goto, PC
    <2>10. todo' \in [Threads -> SUBSET (Tasks \X Instances)]
      <3>1. todo' = [todo EXCEPT ![t] = {k \in Listed : Path(e) \in Match[k]} \X {e}]
        BY <1>1 DEF NewElf
      <3>2. {k \in Listed : Path(e) \in Match[k]} \X {e} \subseteq Tasks \X Instances
        BY DEF Listed
      <3>3. QED
        BY <1>1, <3>1, <3>2 DEF Types
    <2>11. cur' \in [Threads -> SUBSET (Tasks \X Instances)]
      BY <1>1, <1>2, <1>3 DEF Types, NewElf, linker, chains, engine, local, Goto, PC
    <2>12. new' \in [Threads -> SUBSET Instances]
      BY <1>1, <1>2, <1>3 DEF Types, NewElf, linker, chains, engine, local, Goto, PC
    <2>13. QED
      BY <2>1, <2>2, <2>3, <2>4, <2>5, <2>6, <2>7, <2>8, <2>9, <2>10, <2>11, <2>12 DEF Types
  <1>5. CallInv'
    <2>1. \A u \in Threads : pc'[u] \in Ways(op'[u])
      <3>1. \A u \in Threads : u # t => pc'[u] = pc[u] /\ op'[u] = op[u]
        BY <1>1, <1>2, <1>3 DEF Types, NewElf, local, Goto, PC
      <3>2. pc'[t] \in Ways(op'[t])
        BY <1>1, <1>2, <1>3 DEF Types, Ways, NewElf, local, Goto, PC
      <3>3. QED
        BY <1>1, <3>1, <3>2 DEF CallInv
    <2>2. \A u \in Threads : op'[u] \in {"hook", "unhook"} => arg'[u] \in Tasks
      BY <1>1, <1>2, <1>3 DEF Types, NewElf, linker, chains, engine, local, CallInv, Goto, PC
    <2>3. \A u \in Threads : op'[u] \in {"open", "rawopen", "close", "rawclose"} => arg'[u] \in Libs
      BY <1>1, <1>2, <1>3 DEF Types, NewElf, linker, chains, engine, local, CallInv, Goto, PC
    <2>4. (Readers = {} \/ Writers = {})'
      BY <1>1, <1>2, <1>3 DEF Types, NewElf, linker, chains, engine, local, CallInv, Readers,
         Writers, Ways, CanRead, CanWrite, Goto, PC
    <2>5. QED
      BY <2>1, <2>2, <2>3, <2>4 DEF CallInv
  <1>6. PlaceInv'
    BY <1>1, <1>2, <1>3 DEF NewElf, linker, chains, engine, local, PlaceInv, Path, Tree, Goto
  <1>7. PairInv'
    <2>1. \A u \in Threads : \A j \in Tasks : \A f \in Instances : Has(u, j, f)' =>
          /\ pc'[u] = "meet" /\ elf'[f].st # "none"
          /\ Path(f) \in Match[j]
          /\ op'[u] # "open" => j = arg'[u]
      BY <1>1, <1>2, <1>3 DEF Types, NewElf, linker, chains, engine, local, PairInv, Has, Goto, PC
    <2>2. \A u \in Threads : \A f \in new'[u] :
          op'[u] = "open" /\ pc'[u] \in {"new", "meet"} /\ elf'[f].st # "none"
      BY <1>1, <1>2, <1>3 DEF Types, NewElf, linker, chains, engine, local, PairInv, Goto, PC
    <2>3. \A u, v \in Threads : \A i, j \in Tasks : \A f \in Instances :
          Between(u, i, f)' /\ Between(v, j, f)' => u = v /\ i = j
      BY <1>1, <1>2, <1>3 DEF Types, NewElf, linker, chains, engine, local, PairInv, Between, Goto,
         PC
    <2>4. \A u \in Threads : \A i, j \in Tasks : \A f, g \in Instances :
          Between(u, i, f)' /\ Between(u, j, g)' => i = j /\ f = g
      BY <1>1, <1>2, <1>3 DEF Types, NewElf, linker, chains, engine, local, PairInv, Between, Goto,
         PC
    <2>5. QED
      BY <2>1, <2>2, <2>3, <2>4 DEF PairInv
  <1>8. SlotInv'
    <2>1. \A u \in Threads : \A j \in Tasks : \A f \in Instances :
             /\ Between(u, j, f)' <=> Between(u, j, f)
             /\ Between(u, j, f) => op'[u] = op[u]
      BY <1>1, <1>2, <1>3 DEF Types, Between, NewElf, local
    <2>2. UNCHANGED <<chained, enabled, got>>
      BY <1>1, <1>2, <1>3 DEF NewElf, chains
    <2>3. QED
      BY <1>1, <1>2, <1>3, <2>1, <2>2 DEF SlotInv
  <1>9. QED
    BY <1>4, <1>5, <1>6, <1>7, <1>8 DEF EngineInv

\* Load keeps chains, slots, locks and holders in step (EngineInv).
LEMMA LoadKeeps ==
    ASSUME EngineInv, ~Reuse, NEW t \in Threads, Load(t)
    PROVE  EngineInv'
  <1>1. Load(t) /\ Types /\ CallInv /\ PlaceInv /\ PairInv /\ SlotInv /\ ~Reuse
    BY DEF EngineInv
  <1>2. op[t] \in {"open", "rawopen"} /\ op[t] \in Ops
    BY <1>1 DEF Types, CallInv, Ways, Ops, Load
  <1>3. \A j \in Tasks : \A f \in Instances : ~Has(t, j, f) /\ ~Between(t, j, f)
    BY <1>1, <1>2 DEF PairInv, Has, Between, Load
  <1>4. /\ arg[t] \in Libs
        /\ refs' \in [Libs -> Int] /\ \A l \in Libs : refs'[l] = IF l = arg[t] THEN refs[l] + 1 ELSE refs[l]
        /\ UNCHANGED <<elf, chained, enabled, origFunc, status, todo, cur, new>>
    BY <1>1, <1>2, <1>3 DEF Load, CallInv, Types, chains
  <1>5. \/ arg[t] \in Loaded /\ UNCHANGED <<loads, at, got>>
        \/ /\ arg[t] \notin Loaded /\ loads[arg[t]] < MaxLoads
           /\ loads' \in [Libs -> Nat] /\ <<arg[t], loads[arg[t]] + 1>> \in Instances
           /\ \A l \in Libs : loads'[l] = IF l = arg[t] THEN loads[l] + 1 ELSE loads[l]
           /\ at' = [at EXCEPT ![arg[t]] = <<arg[t], loads[arg[t]] + 1>>]
           /\ got' = [got EXCEPT ![<<arg[t], loads[arg[t]] + 1>>] = "orig"]
    <2>1. CASE arg[t] \in Loaded
      BY <1>1, <2>1 DEF Load
    <2>2. CASE arg[t] \notin Loaded
      <3>1. /\ loads[arg[t]] < MaxLoads /\ loads' = [loads EXCEPT ![arg[t]] = @ + 1]
            /\ \E a \in Places(arg[t]) : /\ at' = [at EXCEPT ![arg[t]] = a]
                                         /\ got' = [got EXCEPT ![a] = "orig"]
        BY <1>1, <2>2 DEF Load
      <3>2. Places(arg[t]) = {<<arg[t], loads[arg[t]] + 1>>}
        BY <1>1 DEF Places
      <3>3. loads[arg[t]] \in Nat /\ MaxLoads \in Nat /\ loads[arg[t]] + 1 \in 1..MaxLoads
        BY <1>1, <3>1, <1>1, <1>2, <1>3, <1>4, BoundsType DEF Types
      <3>4. <<arg[t], loads[arg[t]] + 1>> \in Instances
        BY <1>1, <1>2, <1>3, <1>4, <3>3 DEF Instances
      <3>5. loads' \in [Libs -> Nat] /\ \A l \in Libs : loads'[l] = IF l = arg[t] THEN loads[l] + 1 ELSE loads[l]
        BY <1>1, <1>4, <3>1, <3>3 DEF Types
      <3>6. /\ at' = [at EXCEPT ![arg[t]] = <<arg[t], loads[arg[t]] + 1>>]
            /\ got' = [got EXCEPT ![<<arg[t], loads[arg[t]] + 1>>] = "orig"]
        BY <3>1, <3>2
      <3>7. QED
        BY <2>2, <3>1, <3>4, <3>5, <3>6
    <2>3. QED
      BY <2>1, <2>2
  <1>6. \A f \in Instances : /\ Path(f) \in Libs /\ f[2] \in Nat /\ loads[Path(f)] \in Nat
                             /\ refs[Path(f)] \in Int /\ f = <<Path(f), f[2]>>
    BY <1>1 DEF Instances, Path, Types
  <1>7. got' = got
    <2>1. CASE arg[t] \in Loaded
      BY <1>1, <1>2, <1>3, <1>4, <1>5, <1>6, <2>1
    <2>2. CASE arg[t] \notin Loaded
      <3>1. got[<<arg[t], loads[arg[t]] + 1>>] = "orig"
        BY <1>1, <1>2, <1>3, <1>4, <1>5, <1>6, <2>2 DEF PlaceInv, Path
      <3>2. got' = [got EXCEPT ![<<arg[t], loads[arg[t]] + 1>>] = "orig"] /\ got \in [Instances -> {"orig", "live", "dead"}]
        BY <1>1, <1>2, <1>3, <1>4, <1>5, <1>6, <2>2 DEF Types
      <3>3. QED
        BY <3>1, <3>2
    <2>3. QED
      BY <2>1, <2>2
  <1>8. Types'
    <2>1. refs' \in [Libs -> Int] /\ loads' \in [Libs -> Nat]
      BY <1>1, <1>2, <1>3, <1>4, <1>5, <1>6, <1>7 DEF Types
    <2>2. at' \in [Libs -> Instances \cup {None}]
      BY ZenonT(60), <1>1, <1>2, <1>3, <1>4, <1>5, <1>6, <1>7 DEF Types
    <2>3. got' \in [Instances -> {"orig", "live", "dead"}]
      BY <1>1, <1>2, <1>3, <1>4, <1>5, <1>6, <1>7 DEF Types, Load, linker, chains, engine, local,
         Return, Goto, Ops, PC, Places, Loaded
    <2>4. elf' \in [Instances -> ElfTypes]
      BY <1>1, <1>2, <1>3, <1>4, <1>5, <1>6, <1>7 DEF Types, Load, linker, chains, engine, local,
         Return, Goto, Ops, PC, Places, Loaded
    <2>5. chained' \subseteq Instances /\ enabled' \in [Instances -> SUBSET Tasks]
      BY <1>1, <1>2, <1>3, <1>4, <1>5, <1>6, <1>7 DEF Types, Load, linker, chains, engine, local,
         Return, Goto, Ops, PC, Places, Loaded
    <2>6. origFunc' \in [Instances -> {"orig", "dead"}]
      BY <1>1, <1>2, <1>3, <1>4, <1>5, <1>6, <1>7 DEF Types, Load, linker, chains, engine, local,
         Return, Goto, Ops, PC, Places, Loaded
    <2>7. status' \in [Tasks -> {"new", "unfinished", "finished", "unhooking", "gone"}]
      BY <1>1, <1>2, <1>3, <1>4, <1>5, <1>6, <1>7 DEF Types, Load, linker, chains, engine, local,
         Return, Goto, Ops, PC, Places, Loaded
    <2>8. op' \in [Threads -> Ops] /\ arg' \in [Threads -> Tasks \cup Libs \cup {None}]
      <3>1. op' \in {op, [op EXCEPT ![t] = "none"]} /\ arg' \in {arg, [arg EXCEPT ![t] = None]}
        BY <1>1 DEF Load, Return
      <3>2. QED
        BY <1>1, <3>1 DEF Types, Ops
    <2>9. pc' \in [Threads -> PC]
      BY <1>1, <1>2, <1>3, <1>4, <1>5, <1>6, <1>7 DEF Types, Load, linker, chains, engine, local,
         Return, Goto, Ops, PC, Places, Loaded
    <2>10. todo' \in [Threads -> SUBSET (Tasks \X Instances)]
      BY <1>1, <1>2, <1>3, <1>4, <1>5, <1>6, <1>7 DEF Types, Load, linker, chains, engine, local,
         Return, Goto, Ops, PC, Places, Loaded
    <2>11. cur' \in [Threads -> SUBSET (Tasks \X Instances)]
      BY <1>1, <1>2, <1>3, <1>4, <1>5, <1>6, <1>7 DEF Types, Load, linker, chains, engine, local,
         Return, Goto, Ops, PC, Places, Loaded
    <2>12. new' \in [Threads -> SUBSET Instances]
      BY <1>1, <1>2, <1>3, <1>4, <1>5, <1>6, <1>7 DEF Types, Load, linker, chains, engine, local,
         Return, Goto, Ops, PC, Places, Loaded
    <2>13. QED
      BY <2>1, <2>2, <2>3, <2>4, <2>5, <2>6, <2>7, <2>8, <2>9, <2>10, <2>11, <2>12 DEF Types
  <1>9. CallInv'
    <2>1. \A u \in Threads : pc'[u] \in Ways(op'[u])
      <3>1. \A u \in Threads : u # t => pc'[u] = pc[u] /\ op'[u] = op[u]
        BY <1>1, <1>2, <1>3, <1>4, <1>5, <1>6, <1>7 DEF Types, Load, local, Return, Goto, Ops, PC, Places, Loaded
      <3>2. pc'[t] \in Ways(op'[t])
        BY <1>1, <1>2, <1>3, <1>4, <1>5, <1>6, <1>7 DEF Types, Ways, Load, local, Return, Goto, Ops, PC, Places, Loaded
      <3>3. QED
        BY <1>1, <3>1, <3>2 DEF CallInv
    <2>2. \A u \in Threads : op'[u] \in {"hook", "unhook"} => arg'[u] \in Tasks
      BY <1>1, <1>2, <1>3, <1>4, <1>5, <1>6, <1>7 DEF Types, Load, linker, chains, engine, local,
         CallInv, Return, Goto, Ops, PC, Places, Loaded
    <2>3. \A u \in Threads : op'[u] \in {"open", "rawopen", "close", "rawclose"} => arg'[u] \in Libs
      BY <1>1, <1>2, <1>3, <1>4, <1>5, <1>6, <1>7 DEF Types, Load, linker, chains, engine, local,
         CallInv, Return, Goto, Ops, PC, Places, Loaded
    <2>4. (Readers = {} \/ Writers = {})'
      BY <1>1, <1>2, <1>3, <1>4, <1>5, <1>6, <1>7 DEF Types, Load, linker, chains, engine, local,
         CallInv, Readers, Writers, Ways, CanRead, CanWrite, Return, Goto, Ops, PC, Places, Loaded
    <2>5. QED
      BY <2>1, <2>2, <2>3, <2>4 DEF CallInv
  <1>10. PlaceInv'
    <2>1. \A l \in Libs : refs'[l] > 0 => loads'[l] \in 1..MaxLoads /\ at'[l] = <<l, loads'[l]>>
      <3>1. TAKE l \in Libs
      <3>2. HAVE refs'[l] > 0
      <3>3. MaxLoads \in Nat /\ loads[l] \in Nat /\ refs[l] \in Int
        BY <1>1, BoundsType DEF Types
      <3>4. CASE l # arg[t] \/ arg[t] \in Loaded
        <4>1. refs[l] > 0 /\ loads'[l] = loads[l] /\ at'[l] = at[l]
          BY <1>1, <1>4, <1>5, <3>2, <3>4 DEF Loaded, Types
        <4>2. QED
          BY <1>1, <4>1 DEF PlaceInv
      <3>5. CASE l = arg[t] /\ arg[t] \notin Loaded
        <4>1. loads'[l] = loads[l] + 1 /\ at'[l] = <<l, loads[l] + 1>> /\ loads[l] < MaxLoads
          BY <1>1, <1>4, <1>5, <3>5 DEF Types
        <4>2. QED
          BY <3>3, <4>1
      <3>6. QED
        BY <3>4, <3>5
    <2>2. \A f \in Instances : elf'[f].st # "none" => elf'[f].at = f /\ f[2] <= loads'[Path(f)]
      BY <1>1, <1>2, <1>3, <1>4, <1>5, <1>6, <1>7 DEF PlaceInv, Tree, Loaded
    <2>3. \A f \in Instances : elf'[f].st = "abandoned" => refs'[Path(f)] <= 0 \/ f[2] < loads'[Path(f)]
      <3>1. TAKE f \in Instances
      <3>2. HAVE elf'[f].st = "abandoned"
      <3>3. refs[Path(f)] <= 0 \/ f[2] < loads[Path(f)]
        BY <1>1, <1>2, <1>3, <1>4, <1>5, <1>6, <1>7, <3>2 DEF PlaceInv
      <3>4. f[2] <= loads[Path(f)]
        BY <1>1, <1>2, <1>3, <1>4, <1>5, <1>6, <1>7, <3>2 DEF PlaceInv
      <3>5. QED
        BY <1>1, <1>2, <1>3, <1>4, <1>5, <1>6, <1>7, <3>3, <3>4 DEF Loaded
    <2>4. \A f, g \in Tree' : Path(f) = Path(g) => f = g
      BY <1>1, <1>2, <1>3, <1>4, <1>5, <1>6, <1>7 DEF PlaceInv, Tree, Loaded
    <2>5. \A b \in Instances : b \in chained' => b[2] <= loads'[Path(b)]
      BY <1>1, <1>2, <1>3, <1>4, <1>5, <1>6, <1>7 DEF PlaceInv, Tree, Loaded
    <2>6. \A b \in Instances : got'[b] # "orig" => b[2] <= loads'[Path(b)]
      BY <1>1, <1>2, <1>3, <1>4, <1>5, <1>6, <1>7 DEF PlaceInv, Tree, Loaded
    <2>7. QED
      BY <2>1, <2>2, <2>3, <2>4, <2>5, <2>6 DEF PlaceInv, Tree
  <1>11. PairInv'
    <2>1. \A u \in Threads : \A j \in Tasks : \A f \in Instances : Has(u, j, f)' =>
          /\ pc'[u] = "meet" /\ elf'[f].st # "none"
          /\ Path(f) \in Match[j]
          /\ op'[u] # "open" => j = arg'[u]
      BY <1>1, <1>2, <1>3, <1>4, <1>5, <1>6, <1>7 DEF Types, Load, linker, chains, engine, local,
         PairInv, Has, Return, Goto, Ops, PC, Places, Loaded
    <2>2. \A u \in Threads : \A f \in new'[u] :
          op'[u] = "open" /\ pc'[u] \in {"new", "meet"} /\ elf'[f].st # "none"
      <3>1. \A u \in Threads : u # t => op'[u] = op[u] /\ pc'[u] = pc[u]
        BY <1>1 DEF Load, Return, Goto, Types
      <3>2. new[t] = {}
        BY <1>1 DEF PairInv, Load
      <3>3. QED
        BY <1>1, <1>2, <1>3, <1>4, <1>5, <1>6, <1>7, <3>1, <3>2 DEF PairInv
    <2>3. \A u, v \in Threads : \A i, j \in Tasks : \A f \in Instances :
          Between(u, i, f)' /\ Between(v, j, f)' => u = v /\ i = j
      BY <1>1, <1>2, <1>3, <1>4, <1>5, <1>6, <1>7 DEF Types, Load, linker, chains, engine, local,
         PairInv, Between, Return, Goto, Ops, PC, Places, Loaded
    <2>4. \A u \in Threads : \A i, j \in Tasks : \A f, g \in Instances :
          Between(u, i, f)' /\ Between(u, j, g)' => i = j /\ f = g
      BY <1>1, <1>2, <1>3, <1>4, <1>5, <1>6, <1>7 DEF Types, Load, linker, chains, engine, local,
         PairInv, Between, Return, Goto, Ops, PC, Places, Loaded
    <2>5. QED
      BY <2>1, <2>2, <2>3, <2>4 DEF PairInv
  <1>12. SlotInv'
    <2>1. \A b \in Instances : b \in chained' <=> enabled'[b] # {}
      BY <1>1, <1>2, <1>3, <1>4, <1>5, <1>6, <1>7 DEF SlotInv
    <2>2. \A b \in Instances :
          \/ \E u \in Threads : \E j \in Tasks : Between(u, j, b)'
          \/ b \in chained' <=> got'[b] = "live"
      BY <1>1, <1>2, <1>3, <1>4, <1>5, <1>6, <1>7 DEF SlotInv, Between
    <2>3. \A u \in Threads : \A j \in Tasks : \A f \in Instances : Between(u, j, f)' =>
          /\ got'[f] # "live"
          /\ IF op'[u] = "unhook" THEN f \notin chained'
                                 ELSE f \in chained' /\ enabled'[f] = {j}
      <3>1. \A u \in Threads : u # t => op'[u] = op[u]
        BY <1>1 DEF Load, Return, Types
      <3>2. QED
        BY <1>1, <1>2, <1>3, <1>4, <1>5, <1>6, <1>7, <3>1 DEF SlotInv, Between
    <2>4. QED
      BY <2>1, <2>2, <2>3 DEF SlotInv
  <1>13. QED
    BY <1>8, <1>9, <1>10, <1>11, <1>12 DEF EngineInv

\* Unload keeps chains, slots, locks and holders in step (EngineInv).
LEMMA UnloadKeeps ==
    ASSUME EngineInv, ~Reuse, NEW t \in Threads, Unload(t)
    PROVE  EngineInv'
  <1>1. Unload(t) /\ Types /\ CallInv /\ PlaceInv /\ PairInv /\ SlotInv /\ ~Reuse
    BY DEF EngineInv
  <1>2. op[t] \in {"close", "rawclose"} /\ op[t] \in Ops
    BY <1>1 DEF Types, CallInv, Ways, Ops, Unload
  <1>3. \A j \in Tasks : \A f \in Instances : ~Has(t, j, f) /\ ~Between(t, j, f)
    BY <1>1, <1>2 DEF PairInv, Has, Between, Unload
  <1>4. /\ arg[t] \in Libs
        /\ refs' \in [Libs -> Int] /\ \A l \in Libs : refs'[l] = IF l = arg[t] THEN refs[l] - 1 ELSE refs[l]
        /\ at' \in [Libs -> Instances \cup {None}]
        /\ \A l \in Libs : at'[l] = IF l = arg[t] /\ refs[l] = 1 THEN None ELSE at[l]
        /\ UNCHANGED <<loads, got, elf, chained, enabled, origFunc, status, todo, cur, new>>
    <2>1. arg[t] \in Libs
      BY <1>1, <1>2, <1>3 DEF CallInv
    <2>2. /\ refs' = [refs EXCEPT ![arg[t]] = refs[arg[t]] - 1]
          /\ at' = [at EXCEPT ![arg[t]] = IF refs[arg[t]] = 1 THEN None ELSE at[arg[t]]]
          /\ UNCHANGED <<loads, got, elf, chained, enabled, origFunc, status, todo, cur, new>>
      BY <1>1 DEF Unload, chains
    <2>3. QED
      BY <1>1, <2>1, <2>2 DEF Types
  <1>5. \A f \in Instances : /\ Path(f) \in Libs /\ f[2] \in Nat /\ loads[Path(f)] \in Nat
                             /\ refs[Path(f)] \in Int /\ f = <<Path(f), f[2]>>
    BY <1>1 DEF Instances, Path, Types
  <1>6. Types'
    <2>1. refs' \in [Libs -> Int] /\ loads' \in [Libs -> Nat]
      BY <1>1, <1>2, <1>3, <1>4, <1>5 DEF Types
    <2>2. at' \in [Libs -> Instances \cup {None}]
      BY <1>1, <1>2, <1>3, <1>4, <1>5 DEF Types
    <2>3. got' \in [Instances -> {"orig", "live", "dead"}]
      BY <1>1, <1>2, <1>3, <1>4, <1>5 DEF Types, Unload, linker, chains, engine, local, Return,
         Goto, Ops, PC
    <2>4. elf' \in [Instances -> ElfTypes]
      BY <1>1, <1>2, <1>3, <1>4, <1>5 DEF Types, Unload, linker, chains, engine, local, Return,
         Goto, Ops, PC
    <2>5. chained' \subseteq Instances /\ enabled' \in [Instances -> SUBSET Tasks]
      BY <1>1, <1>2, <1>3, <1>4, <1>5 DEF Types, Unload, linker, chains, engine, local, Return,
         Goto, Ops, PC
    <2>6. origFunc' \in [Instances -> {"orig", "dead"}]
      BY <1>1, <1>2, <1>3, <1>4, <1>5 DEF Types, Unload, linker, chains, engine, local, Return,
         Goto, Ops, PC
    <2>7. status' \in [Tasks -> {"new", "unfinished", "finished", "unhooking", "gone"}]
      BY <1>1, <1>2, <1>3, <1>4, <1>5 DEF Types, Unload, linker, chains, engine, local, Return,
         Goto, Ops, PC
    <2>8. op' \in [Threads -> Ops] /\ arg' \in [Threads -> Tasks \cup Libs \cup {None}]
      <3>1. op' \in {op, [op EXCEPT ![t] = "none"]} /\ arg' \in {arg, [arg EXCEPT ![t] = None]}
        BY <1>1 DEF Unload, Return
      <3>2. QED
        BY <1>1, <3>1 DEF Types, Ops
    <2>9. pc' \in [Threads -> PC]
      BY SMTT(40), <1>1, <1>2, <1>3, <1>4, <1>5 DEF Types, Unload, linker, chains, engine, local, Return,
         Goto, Ops, PC
    <2>10. todo' \in [Threads -> SUBSET (Tasks \X Instances)]
      BY <1>1, <1>2, <1>3, <1>4, <1>5 DEF Types, Unload, linker, chains, engine, local, Return,
         Goto, Ops, PC
    <2>11. cur' \in [Threads -> SUBSET (Tasks \X Instances)]
      BY <1>1, <1>2, <1>3, <1>4, <1>5 DEF Types, Unload, linker, chains, engine, local, Return,
         Goto, Ops, PC
    <2>12. new' \in [Threads -> SUBSET Instances]
      BY <1>1, <1>2, <1>3, <1>4, <1>5 DEF Types, Unload, linker, chains, engine, local, Return,
         Goto, Ops, PC
    <2>13. QED
      BY <2>1, <2>2, <2>3, <2>4, <2>5, <2>6, <2>7, <2>8, <2>9, <2>10, <2>11, <2>12 DEF Types
  <1>7. CallInv'
    <2>1. \A u \in Threads : pc'[u] \in Ways(op'[u])
      <3>1. \A u \in Threads : u # t => pc'[u] = pc[u] /\ op'[u] = op[u]
        BY <1>1, <1>2, <1>3, <1>4, <1>5 DEF Types, Unload, local, Return, Goto, Ops, PC
      <3>2. pc'[t] \in Ways(op'[t])
        BY <1>1, <1>2, <1>3, <1>4, <1>5 DEF Types, Ways, Unload, local, Return, Goto, Ops, PC
      <3>3. QED
        BY <1>1, <3>1, <3>2 DEF CallInv
    <2>2. \A u \in Threads : op'[u] \in {"hook", "unhook"} => arg'[u] \in Tasks
      BY <1>1, <1>2, <1>3, <1>4, <1>5 DEF Types, Unload, linker, chains, engine, local, CallInv,
         Return, Goto, Ops, PC
    <2>3. \A u \in Threads : op'[u] \in {"open", "rawopen", "close", "rawclose"} => arg'[u] \in Libs
      BY <1>1, <1>2, <1>3, <1>4, <1>5 DEF Types, Unload, linker, chains, engine, local, CallInv,
         Return, Goto, Ops, PC
    <2>4. (Readers = {} \/ Writers = {})'
      BY <1>1, <1>2, <1>3, <1>4, <1>5 DEF Types, Unload, linker, chains, engine, local, CallInv,
         Readers, Writers, Ways, CanRead, CanWrite, Return, Goto, Ops, PC
    <2>5. QED
      BY <2>1, <2>2, <2>3, <2>4 DEF CallInv
  <1>8. PlaceInv'
    <2>1. \A l \in Libs : refs'[l] > 0 => loads'[l] \in 1..MaxLoads /\ at'[l] = <<l, loads'[l]>>
      <3>1. TAKE l \in Libs
      <3>2. HAVE refs'[l] > 0
      <3>3. refs[l] \in Int /\ refs'[l] = IF l = arg[t] THEN refs[l] - 1 ELSE refs[l]
        BY <1>1, <1>4 DEF Types
      <3>4. refs[l] > 0 /\ ~(l = arg[t] /\ refs[l] = 1)
        BY <3>2, <3>3
      <3>5. QED
        BY <1>1, <1>4, <3>4 DEF PlaceInv
    <2>2. \A f \in Instances : elf'[f].st # "none" => elf'[f].at = f /\ f[2] <= loads'[Path(f)]
      BY <1>1, <1>2, <1>3, <1>4, <1>5 DEF PlaceInv, Tree, Loaded
    <2>3. \A f \in Instances : elf'[f].st = "abandoned" => refs'[Path(f)] <= 0 \/ f[2] < loads'[Path(f)]
      BY <1>1, <1>2, <1>3, <1>4, <1>5 DEF PlaceInv, Tree, Loaded
    <2>4. \A f, g \in Tree' : Path(f) = Path(g) => f = g
      BY <1>1, <1>2, <1>3, <1>4, <1>5 DEF PlaceInv, Tree, Loaded
    <2>5. \A b \in Instances : b \in chained' => b[2] <= loads'[Path(b)]
      BY <1>1, <1>2, <1>3, <1>4, <1>5 DEF PlaceInv, Tree, Loaded
    <2>6. \A b \in Instances : got'[b] # "orig" => b[2] <= loads'[Path(b)]
      BY <1>1, <1>2, <1>3, <1>4, <1>5 DEF PlaceInv, Tree, Loaded
    <2>7. QED
      BY <2>1, <2>2, <2>3, <2>4, <2>5, <2>6 DEF PlaceInv, Tree
  <1>9. PairInv'
    <2>1. \A u \in Threads : \A j \in Tasks : \A f \in Instances : Has(u, j, f)' =>
          /\ pc'[u] = "meet" /\ elf'[f].st # "none"
          /\ Path(f) \in Match[j]
          /\ op'[u] # "open" => j = arg'[u]
      <3>1. new[t] = {} /\ UNCHANGED <<todo, cur, new, elf>>
            /\ \A u \in Threads : u # t => pc'[u] = pc[u] /\ op'[u] = op[u] /\ arg'[u] = arg[u]
        BY <1>1, <1>2 DEF Unload, Return, Goto, Types, PairInv
      <3>2. QED
        BY <1>1, <1>3, <3>1 DEF PairInv, Has
    <2>2. \A u \in Threads : \A f \in new'[u] :
          op'[u] = "open" /\ pc'[u] \in {"new", "meet"} /\ elf'[f].st # "none"
      <3>1. new[t] = {} /\ UNCHANGED <<todo, cur, new, elf>>
            /\ \A u \in Threads : u # t => pc'[u] = pc[u] /\ op'[u] = op[u] /\ arg'[u] = arg[u]
        BY <1>1, <1>2 DEF Unload, Return, Goto, Types, PairInv
      <3>2. QED
        BY <1>1, <1>3, <3>1 DEF PairInv
    <2>3. \A u, v \in Threads : \A i, j \in Tasks : \A f \in Instances :
          Between(u, i, f)' /\ Between(v, j, f)' => u = v /\ i = j
      BY <1>1, <1>2, <1>3, <1>4, <1>5 DEF Types, Unload, linker, chains, engine, local, PairInv,
         Between, Return, Goto, Ops, PC
    <2>4. \A u \in Threads : \A i, j \in Tasks : \A f, g \in Instances :
          Between(u, i, f)' /\ Between(u, j, g)' => i = j /\ f = g
      BY <1>1, <1>2, <1>3, <1>4, <1>5 DEF Types, Unload, linker, chains, engine, local, PairInv,
         Between, Return, Goto, Ops, PC
    <2>5. QED
      BY <2>1, <2>2, <2>3, <2>4 DEF PairInv
  <1>10. SlotInv'
    <2>1. \A b \in Instances : b \in chained' <=> enabled'[b] # {}
      BY <1>1, <1>2, <1>3, <1>4, <1>5 DEF SlotInv
    <2>2. \A b \in Instances :
          \/ \E u \in Threads : \E j \in Tasks : Between(u, j, b)'
          \/ b \in chained' <=> got'[b] = "live"
      BY <1>1, <1>2, <1>3, <1>4, <1>5 DEF SlotInv, Between
    <2>3. \A u \in Threads : \A j \in Tasks : \A f \in Instances : Between(u, j, f)' =>
          /\ got'[f] # "live"
          /\ IF op'[u] = "unhook" THEN f \notin chained'
                                 ELSE f \in chained' /\ enabled'[f] = {j}
      BY <1>1, <1>2, <1>3, <1>4, <1>5 DEF Types, Unload, linker, chains, engine, local, SlotInv,
         Between, Return, Goto, Ops, PC
    <2>4. QED
      BY <2>1, <2>2, <2>3 DEF SlotInv
  <1>11. QED
    BY <1>6, <1>7, <1>8, <1>9, <1>10 DEF EngineInv

\* HookCfi keeps chains, slots, locks and holders in step (EngineInv).
LEMMA HookCfiKeeps ==
    ASSUME EngineInv, ~Reuse, NEW t \in Threads, NEW k \in Tasks, NEW e \in Instances, HookCfi(t, k, e)
    PROVE  EngineInv'
  <1>1. HookCfi(t, k, e) /\ Types /\ CallInv /\ PlaceInv /\ PairInv /\ SlotInv /\ ~Reuse
    BY DEF EngineInv
  <1>2. pc[t] = "meet" /\ elf[e].st # "none" /\ elf[e].at = e /\ Path(e) \in Match[k]
        /\ e[2] <= loads[Path(e)] /\ (op[t] # "open" => k = arg[t])
    BY <1>1 DEF HookCfi, Meets, PairInv, Has, PlaceInv
  <1>3. Types'
    BY SMTT(40), <1>1, <1>2 DEF Types, HookCfi, vars, linker, chains, engine, local, Meets, ElfTypes
  <1>4. CallInv'
    BY <1>1 DEF HookCfi, linker, chains, engine, local, CallInv, Ways, Readers, Writers, CanRead,
       CanWrite
  <1>5. PlaceInv'
    <2>1. \A l \in Libs : refs'[l] > 0 => loads'[l] \in 1..MaxLoads /\ at'[l] = <<l, loads'[l]>>
      BY <1>1, <1>2 DEF Types, HookCfi, linker, chains, engine, local, PlaceInv, Meets
    <2>2. \A f \in Instances : elf'[f].st # "none" => elf'[f].at = f /\ f[2] <= loads'[Path(f)]
      BY <1>1, <1>2 DEF Types, HookCfi, linker, chains, engine, local, PlaceInv, Path, Meets
    <2>3. \A f \in Instances : elf'[f].st = "abandoned" => refs'[Path(f)] <= 0 \/ f[2] < loads'[Path(f)]
      BY <1>1, <1>2 DEF Types, HookCfi, linker, chains, engine, local, PlaceInv, Path, Meets
    <2>4. \A f, g \in Tree' : Path(f) = Path(g) => f = g
      BY <1>1, <1>2 DEF Types, HookCfi, linker, chains, engine, local, PlaceInv, Tree, Path, Meets
    <2>5. \A b \in Instances : b \in chained' => b[2] <= loads'[Path(b)]
      BY <1>1, <1>2 DEF Types, HookCfi, linker, chains, engine, local, PlaceInv, Path, Meets
    <2>6. \A b \in Instances : got'[b] # "orig" => b[2] <= loads'[Path(b)]
      BY <1>1, <1>2 DEF Types, HookCfi, linker, chains, engine, local, PlaceInv, Path, Meets
    <2>7. QED
      BY <2>1, <2>2, <2>3, <2>4, <2>5, <2>6 DEF PlaceInv, Tree
  <1>6. PairInv'
    <2>1. \A u \in Threads : \A j \in Tasks : \A f \in Instances : Has(u, j, f)' =>
          /\ pc'[u] = "meet" /\ elf'[f].st # "none"
          /\ Path(f) \in Match[j]
          /\ op'[u] # "open" => j = arg'[u]
      BY <1>1, <1>2 DEF Types, HookCfi, linker, chains, engine, local, PairInv, Has, Meets
    <2>2. \A u \in Threads : \A f \in new'[u] :
          op'[u] = "open" /\ pc'[u] \in {"new", "meet"} /\ elf'[f].st # "none"
      BY <1>1, <1>2 DEF Types, HookCfi, linker, chains, engine, local, PairInv, Meets
    <2>3. \A u, v \in Threads : \A i, j \in Tasks : \A f \in Instances :
          Between(u, i, f)' /\ Between(v, j, f)' => u = v /\ i = j
      BY <1>1, <1>2 DEF Types, HookCfi, linker, chains, engine, local, PairInv, Between, Meets
    <2>4. \A u \in Threads : \A i, j \in Tasks : \A f, g \in Instances :
          Between(u, i, f)' /\ Between(u, j, g)' => i = j /\ f = g
      BY <1>1, <1>2 DEF Types, HookCfi, linker, chains, engine, local, PairInv, Between, Meets
    <2>5. QED
      BY <2>1, <2>2, <2>3, <2>4 DEF PairInv
  <1>7. SlotInv'
    <2>1. \A b \in Instances : b \in chained' <=> enabled'[b] # {}
      BY <1>1, <1>2 DEF Types, HookCfi, linker, chains, engine, local, SlotInv, Meets
    <2>2. \A b \in Instances :
          \/ \E u \in Threads : \E j \in Tasks : Between(u, j, b)'
          \/ b \in chained' <=> got'[b] = "live"
      BY <1>1, <1>2 DEF Types, HookCfi, linker, chains, engine, local, SlotInv, Between, Meets
    <2>3. \A u \in Threads : \A j \in Tasks : \A f \in Instances : Between(u, j, f)' =>
          /\ got'[f] # "live"
          /\ IF op'[u] = "unhook" THEN f \notin chained'
                                 ELSE f \in chained' /\ enabled'[f] = {j}
      BY <1>1, <1>2 DEF Types, HookCfi, linker, chains, engine, local, SlotInv, Between, Meets
    <2>4. QED
      BY <2>1, <2>2, <2>3 DEF SlotInv
  <1>8. QED
    BY <1>3, <1>4, <1>5, <1>6, <1>7 DEF EngineInv

\* Skip keeps chains, slots, locks and holders in step (EngineInv).
LEMMA SkipKeeps ==
    ASSUME EngineInv, ~Reuse, NEW t \in Threads, NEW k \in Tasks, NEW e \in Instances, Skip(t, k, e)
    PROVE  EngineInv'
  <1>1. Skip(t, k, e) /\ Types /\ CallInv /\ PlaceInv /\ PairInv /\ SlotInv /\ ~Reuse
    BY DEF EngineInv
  <1>2. pc[t] = "meet" /\ elf[e].st # "none" /\ elf[e].at = e /\ Path(e) \in Match[k]
        /\ e[2] <= loads[Path(e)] /\ (op[t] # "open" => k = arg[t])
    BY <1>1 DEF Skip, Meets, PairInv, Has, PlaceInv
  <1>3. Types'
    BY SMTT(40), <1>1, <1>2 DEF Types, Skip, vars, linker, chains, engine, local, Meets, Drop, Ended,
       ElfTypes
  <1>4. CallInv'
    BY <1>1 DEF Skip, linker, chains, engine, local, CallInv, Ways, Readers, Writers, CanRead,
       CanWrite
  <1>5. PlaceInv'
    <2>1. \A l \in Libs : refs'[l] > 0 => loads'[l] \in 1..MaxLoads /\ at'[l] = <<l, loads'[l]>>
      BY <1>1, <1>2 DEF Types, Skip, linker, chains, engine, local, PlaceInv, Meets, Drop, Ended
    <2>2. \A f \in Instances : elf'[f].st # "none" => elf'[f].at = f /\ f[2] <= loads'[Path(f)]
      BY <1>1, <1>2 DEF Types, Skip, linker, chains, engine, local, PlaceInv, Path, Meets, Drop,
         Ended
    <2>3. \A f \in Instances : elf'[f].st = "abandoned" => refs'[Path(f)] <= 0 \/ f[2] < loads'[Path(f)]
      BY <1>1, <1>2 DEF Types, Skip, linker, chains, engine, local, PlaceInv, Path, Meets, Drop,
         Ended
    <2>4. \A f, g \in Tree' : Path(f) = Path(g) => f = g
      BY <1>1, <1>2 DEF Types, Skip, linker, chains, engine, local, PlaceInv, Tree, Path, Meets,
         Drop, Ended
    <2>5. \A b \in Instances : b \in chained' => b[2] <= loads'[Path(b)]
      BY <1>1, <1>2 DEF Types, Skip, linker, chains, engine, local, PlaceInv, Path, Meets, Drop,
         Ended
    <2>6. \A b \in Instances : got'[b] # "orig" => b[2] <= loads'[Path(b)]
      BY <1>1, <1>2 DEF Types, Skip, linker, chains, engine, local, PlaceInv, Path, Meets, Drop,
         Ended
    <2>7. QED
      BY <2>1, <2>2, <2>3, <2>4, <2>5, <2>6 DEF PlaceInv, Tree
  <1>6. PairInv'
    <2>1. \A u \in Threads : \A j \in Tasks : \A f \in Instances : Has(u, j, f)' =>
          /\ pc'[u] = "meet" /\ elf'[f].st # "none"
          /\ Path(f) \in Match[j]
          /\ op'[u] # "open" => j = arg'[u]
      BY <1>1, <1>2 DEF Types, Skip, linker, chains, engine, local, PairInv, Has, Meets, Drop,
         Ended
    <2>2. \A u \in Threads : \A f \in new'[u] :
          op'[u] = "open" /\ pc'[u] \in {"new", "meet"} /\ elf'[f].st # "none"
      BY <1>1, <1>2 DEF Types, Skip, linker, chains, engine, local, PairInv, Meets, Drop, Ended
    <2>3. \A u, v \in Threads : \A i, j \in Tasks : \A f \in Instances :
          Between(u, i, f)' /\ Between(v, j, f)' => u = v /\ i = j
      BY <1>1, <1>2 DEF Types, Skip, linker, chains, engine, local, PairInv, Between, Meets, Drop,
         Ended
    <2>4. \A u \in Threads : \A i, j \in Tasks : \A f, g \in Instances :
          Between(u, i, f)' /\ Between(u, j, g)' => i = j /\ f = g
      BY <1>1, <1>2 DEF Types, Skip, linker, chains, engine, local, PairInv, Between, Meets, Drop,
         Ended
    <2>5. QED
      BY <2>1, <2>2, <2>3, <2>4 DEF PairInv
  <1>7. SlotInv'
    <2>1. \A b \in Instances : b \in chained' <=> enabled'[b] # {}
      BY <1>1, <1>2 DEF Types, Skip, linker, chains, engine, local, SlotInv, Meets, Drop, Ended
    <2>2. \A b \in Instances :
          \/ \E u \in Threads : \E j \in Tasks : Between(u, j, b)'
          \/ b \in chained' <=> got'[b] = "live"
      BY <1>1, <1>2 DEF Types, Skip, linker, chains, engine, local, SlotInv, Between, Meets, Drop,
         Ended
    <2>3. \A u \in Threads : \A j \in Tasks : \A f \in Instances : Between(u, j, f)' =>
          /\ got'[f] # "live"
          /\ IF op'[u] = "unhook" THEN f \notin chained'
                                 ELSE f \in chained' /\ enabled'[f] = {j}
      BY <1>1, <1>2 DEF Types, Skip, linker, chains, engine, local, SlotInv, Between, Meets, Drop,
         Ended
    <2>4. QED
      BY <2>1, <2>2, <2>3 DEF SlotInv
  <1>8. QED
    BY <1>3, <1>4, <1>5, <1>6, <1>7 DEF EngineInv

\* AddFunc keeps chains, slots, locks and holders in step (EngineInv).
LEMMA AddFuncKeeps ==
    ASSUME EngineInv, ~Reuse, NEW t \in Threads, NEW k \in Tasks, NEW e \in Instances, AddFunc(t, k, e)
    PROVE  EngineInv'
  <1>1. AddFunc(t, k, e) /\ Types /\ CallInv /\ PlaceInv /\ PairInv /\ SlotInv /\ ~Reuse
    BY DEF EngineInv
  <1>2. pc[t] = "meet" /\ elf[e].st # "none" /\ elf[e].at = e /\ Path(e) \in Match[k]
        /\ e[2] <= loads[Path(e)] /\ (op[t] # "open" => k = arg[t])
    BY <1>1 DEF AddFunc, Meets, PairInv, Has, PlaceInv
  <1>3. /\ cur[t] = {} /\ <<k, e>> \in todo[t]
        /\ \A u \in Threads : \A j \in Tasks : ~Between(u, j, e)
        /\ \A j \in Tasks : \A f \in Instances : ~Between(t, j, f)
    BY <1>1, <1>2 DEF AddFunc, Meets, HookLockFree, Between
  <1>4. /\ e \in chained /\ op[t] # "unhook"
        /\ enabled' \in [Instances -> SUBSET Tasks]
        /\ \A b \in Instances : enabled'[b] = IF b = e THEN enabled[b] \cup {k} ELSE enabled[b]
        /\ UNCHANGED <<chained, got, cur, op, pc, elf>>
    <2>1. enabled' = [enabled EXCEPT ![e] = @ \cup {k}] /\ e \in chained /\ op[t] # "unhook"
      BY <1>1, <1>2, <1>3 DEF AddFunc, HasChain
    <2>2. UNCHANGED <<chained, got, cur, op, pc, elf>>
      BY <1>1, <1>2, <1>3 DEF AddFunc
    <2>3. QED
      BY <1>1, <2>1, <2>2 DEF Types
  <1>5. Types'
    BY <1>1, <1>2, <1>3, <1>4 DEF Types, AddFunc, vars, linker, chains, engine, local, Meets, Drop,
       Ended, HasChain, Mapped, ElfTypes
  <1>6. CallInv'
    BY <1>1 DEF AddFunc, linker, chains, engine, local, CallInv, Ways, Readers, Writers, CanRead,
       CanWrite
  <1>7. PlaceInv'
    BY <1>1, <1>2, <1>3, <1>4 DEF AddFunc, linker, chains, engine, local, PlaceInv, Path, Tree
  <1>8. PairInv'
    <2>1. \A u \in Threads : \A j \in Tasks : \A f \in Instances : Has(u, j, f)' =>
          /\ pc'[u] = "meet" /\ elf'[f].st # "none"
          /\ Path(f) \in Match[j]
          /\ op'[u] # "open" => j = arg'[u]
      BY <1>1, <1>2, <1>3, <1>4 DEF Types, AddFunc, linker, chains, engine, local, PairInv, Has,
         Meets, Drop, Ended, HasChain, Mapped
    <2>2. \A u \in Threads : \A f \in new'[u] :
          op'[u] = "open" /\ pc'[u] \in {"new", "meet"} /\ elf'[f].st # "none"
      BY <1>1, <1>2, <1>3, <1>4 DEF Types, AddFunc, linker, chains, engine, local, PairInv, Meets,
         Drop, Ended, HasChain, Mapped
    <2>3. \A u, v \in Threads : \A i, j \in Tasks : \A f \in Instances :
          Between(u, i, f)' /\ Between(v, j, f)' => u = v /\ i = j
      BY <1>1, <1>2, <1>3, <1>4 DEF PairInv, Between
    <2>4. \A u \in Threads : \A i, j \in Tasks : \A f, g \in Instances :
          Between(u, i, f)' /\ Between(u, j, g)' => i = j /\ f = g
      BY <1>1, <1>2, <1>3, <1>4 DEF PairInv, Between
    <2>5. QED
      BY <2>1, <2>2, <2>3, <2>4 DEF PairInv
  <1>9. SlotInv'
    <2>1. \A b \in Instances : b \in chained' <=> enabled'[b] # {}
      BY <1>1, <1>2, <1>3, <1>4 DEF SlotInv
    <2>2. \A b \in Instances :
          \/ \E u \in Threads : \E j \in Tasks : Between(u, j, b)'
          \/ b \in chained' <=> got'[b] = "live"
      BY <1>1, <1>2, <1>3, <1>4 DEF SlotInv, Between
    <2>3. \A u \in Threads : \A j \in Tasks : \A f \in Instances : Between(u, j, f)' =>
          /\ got'[f] # "live"
          /\ IF op'[u] = "unhook" THEN f \notin chained'
                                 ELSE f \in chained' /\ enabled'[f] = {j}
      BY <1>1, <1>2, <1>3, <1>4 DEF SlotInv, Between
    <2>4. QED
      BY <2>1, <2>2, <2>3 DEF SlotInv
  <1>10. QED
    BY <1>5, <1>6, <1>7, <1>8, <1>9 DEF EngineInv

\* AddChain keeps chains, slots, locks and holders in step (EngineInv).
LEMMA AddChainKeeps ==
    ASSUME EngineInv, ~Reuse, NEW t \in Threads, NEW k \in Tasks, NEW e \in Instances, AddChain(t, k, e)
    PROVE  EngineInv'
  <1>1. AddChain(t, k, e) /\ Types /\ CallInv /\ PlaceInv /\ PairInv /\ SlotInv /\ ~Reuse
    BY DEF EngineInv
  <1>2. pc[t] = "meet" /\ elf[e].st # "none" /\ elf[e].at = e /\ Path(e) \in Match[k]
        /\ e[2] <= loads[Path(e)] /\ (op[t] # "open" => k = arg[t])
    BY <1>1 DEF AddChain, Meets, PairInv, Has, PlaceInv
  <1>3. /\ cur[t] = {} /\ <<k, e>> \in todo[t]
        /\ \A u \in Threads : \A j \in Tasks : ~Between(u, j, e)
        /\ \A j \in Tasks : \A f \in Instances : ~Between(t, j, f)
    BY <1>1, <1>2 DEF AddChain, Meets, HookLockFree, Between
  <1>4. /\ e \notin chained /\ op[t] # "unhook" /\ got[e] # "live"
        /\ enabled' \in [Instances -> SUBSET Tasks] /\ chained' = chained \cup {e}
        /\ \A b \in Instances : enabled'[b] = IF b = e THEN {k} ELSE enabled[b]
        /\ UNCHANGED <<got, op, pc, elf>>
        /\ \A u \in Threads : \A j \in Tasks : \A b \in Instances :
              Between(u, j, b)' <=> (u = t /\ j = k /\ b = e) \/ Between(u, j, b)
    <2>1. cur' = [cur EXCEPT ![t] = {<<k, e>>}]
      BY <1>1, <1>2, <1>3 DEF AddChain
    <2>2. \A u \in Threads : cur'[u] = IF u = t THEN {<<k, e>>} ELSE cur[u]
      BY <1>1, <1>2, <1>3, <2>1 DEF Types
    <2>3. \A u \in Threads : \A j \in Tasks : \A b \in Instances :
              Between(u, j, b)' <=> (u = t /\ j = k /\ b = e) \/ Between(u, j, b)
      BY <1>1, <1>2, <1>3, <2>2 DEF Between
    <2>4. got[e] # "live"
      BY <1>1, <1>2, <1>3 DEF AddChain, HasChain, SlotInv, Between
    <2>5. QED
      BY <1>1, <1>2, <1>3, <2>3, <2>4 DEF AddChain, HasChain, Types
  <1>5. Types'
    BY <1>1, <1>2, <1>3, <1>4 DEF Types, AddChain, vars, linker, chains, engine, local, Meets,
       Drop, HasChain, Mapped, HookLockFree, ElfTypes
  <1>6. CallInv'
    BY ZenonT(60), <1>1 DEF AddChain, linker, chains, engine, local, CallInv, Ways, Readers, Writers, CanRead,
       CanWrite
  <1>7. PlaceInv'
    <2>1. \A l \in Libs : refs'[l] > 0 => loads'[l] \in 1..MaxLoads /\ at'[l] = <<l, loads'[l]>>
      BY <1>1, <1>2, <1>3, <1>4 DEF Types, AddChain, linker, chains, engine, local, PlaceInv,
         Meets, Drop, HasChain, Mapped, HookLockFree
    <2>2. \A f \in Instances : elf'[f].st # "none" => elf'[f].at = f /\ f[2] <= loads'[Path(f)]
      BY <1>1, <1>2, <1>3, <1>4 DEF Types, AddChain, linker, chains, engine, local, PlaceInv, Path,
         Meets, Drop, HasChain, Mapped, HookLockFree
    <2>3. \A f \in Instances : elf'[f].st = "abandoned" => refs'[Path(f)] <= 0 \/ f[2] < loads'[Path(f)]
      BY <1>1, <1>2, <1>3, <1>4 DEF Types, AddChain, linker, chains, engine, local, PlaceInv, Path,
         Meets, Drop, HasChain, Mapped, HookLockFree
    <2>4. \A f, g \in Tree' : Path(f) = Path(g) => f = g
      BY <1>1, <1>2, <1>3, <1>4 DEF Types, AddChain, linker, chains, engine, local, PlaceInv, Tree,
         Path, Meets, Drop, HasChain, Mapped, HookLockFree
    <2>5. \A b \in Instances : b \in chained' => b[2] <= loads'[Path(b)]
      BY <1>1, <1>2, <1>3, <1>4 DEF Types, AddChain, linker, chains, engine, local, PlaceInv, Path,
         Meets, Drop, HasChain, Mapped, HookLockFree
    <2>6. \A b \in Instances : got'[b] # "orig" => b[2] <= loads'[Path(b)]
      BY <1>1, <1>2, <1>3, <1>4 DEF Types, AddChain, linker, chains, engine, local, PlaceInv, Path,
         Meets, Drop, HasChain, Mapped, HookLockFree
    <2>7. QED
      BY <2>1, <2>2, <2>3, <2>4, <2>5, <2>6 DEF PlaceInv, Tree
  <1>8. PairInv'
    <2>1. \A u \in Threads : \A j \in Tasks : \A f \in Instances : Has(u, j, f)' =>
          /\ pc'[u] = "meet" /\ elf'[f].st # "none"
          /\ Path(f) \in Match[j]
          /\ op'[u] # "open" => j = arg'[u]
      BY <1>1, <1>2, <1>3, <1>4 DEF Types, AddChain, linker, chains, engine, local, PairInv, Has,
         Meets, Drop, HasChain, Mapped, HookLockFree
    <2>2. \A u \in Threads : \A f \in new'[u] :
          op'[u] = "open" /\ pc'[u] \in {"new", "meet"} /\ elf'[f].st # "none"
      BY <1>1, <1>2, <1>3, <1>4 DEF Types, AddChain, linker, chains, engine, local, PairInv, Meets,
         Drop, HasChain, Mapped, HookLockFree
    <2>3. \A u, v \in Threads : \A i, j \in Tasks : \A f \in Instances :
          Between(u, i, f)' /\ Between(v, j, f)' => u = v /\ i = j
      BY <1>1, <1>2, <1>3, <1>4 DEF PairInv
    <2>4. \A u \in Threads : \A i, j \in Tasks : \A f, g \in Instances :
          Between(u, i, f)' /\ Between(u, j, g)' => i = j /\ f = g
      BY <1>1, <1>2, <1>3, <1>4 DEF PairInv
    <2>5. QED
      BY <2>1, <2>2, <2>3, <2>4 DEF PairInv
  <1>9. SlotInv'
    <2>1. \A b \in Instances : b \in chained' <=> enabled'[b] # {}
      BY <1>1, <1>4 DEF SlotInv
    <2>2. \A b \in Instances :
          \/ \E u \in Threads : \E j \in Tasks : Between(u, j, b)'
          \/ b \in chained' <=> got'[b] = "live"
      BY <1>1, <1>2, <1>3, <1>4 DEF SlotInv
    <2>3. \A u \in Threads : \A j \in Tasks : \A f \in Instances : Between(u, j, f)' =>
          /\ got'[f] # "live"
          /\ IF op'[u] = "unhook" THEN f \notin chained'
                                 ELSE f \in chained' /\ enabled'[f] = {j}
      BY <1>1, <1>2, <1>3, <1>4 DEF SlotInv, PairInv
    <2>4. QED
      BY <2>1, <2>2, <2>3 DEF SlotInv
  <1>10. QED
    BY <1>5, <1>6, <1>7, <1>8, <1>9 DEF EngineInv

\* Delete keeps chains, slots, locks and holders in step (EngineInv).
LEMMA DeleteKeeps ==
    ASSUME EngineInv, ~Reuse, NEW t \in Threads, NEW k \in Tasks, NEW e \in Instances, Delete(t, k, e)
    PROVE  EngineInv'
  <1>1. Delete(t, k, e) /\ Types /\ CallInv /\ PlaceInv /\ PairInv /\ SlotInv /\ ~Reuse
    BY DEF EngineInv
  <1>2. pc[t] = "meet" /\ elf[e].st # "none" /\ elf[e].at = e /\ Path(e) \in Match[k]
        /\ e[2] <= loads[Path(e)] /\ (op[t] # "open" => k = arg[t])
    BY <1>1 DEF Delete, Meets, PairInv, Has, PlaceInv
  <1>3. /\ cur[t] = {} /\ <<k, e>> \in todo[t]
        /\ \A u \in Threads : \A j \in Tasks : ~Between(u, j, e)
        /\ \A j \in Tasks : \A f \in Instances : ~Between(t, j, f)
    BY <1>1, <1>2 DEF Delete, Meets, HookLockFree, Between
  <1>4. /\ e \in chained /\ op[t] = "unhook"
        /\ enabled' \in [Instances -> SUBSET Tasks]
        /\ got' \in [Instances -> {"orig", "live", "dead"}]
        /\ \A b \in Instances : enabled'[b] = IF b = e THEN enabled[b] \ {k} ELSE enabled[b]
        /\ chained' = IF enabled[e] \ {k} = {} THEN chained \ {e} ELSE chained
        /\ \A b \in Instances : got'[b] = IF b = e /\ enabled[e] \ {k} = {} /\ got[b] = "live"
                                         THEN "dead" ELSE got[b]
        /\ UNCHANGED <<op, pc, elf>>
    <2>1. /\ e \in chained /\ op[t] = "unhook" /\ UNCHANGED <<op, pc, elf>>
          /\ enabled' = [enabled EXCEPT ![e] = enabled[e] \ {k}]
          /\ chained' = IF enabled[e] \ {k} = {} THEN chained \ {e} ELSE chained
          /\ got' = IF enabled[e] \ {k} = {} /\ got[e] = "live" THEN [got EXCEPT ![e] = "dead"] ELSE got
      BY <1>1, <1>2, <1>3 DEF Delete, DelFunc, HasChain
    <2>2. enabled' \in [Instances -> SUBSET Tasks] /\
          \A b \in Instances : enabled'[b] = IF b = e THEN enabled[b] \ {k} ELSE enabled[b]
      BY <1>1, <2>1 DEF Types
    <2>3. got' \in [Instances -> {"orig", "live", "dead"}] /\
          \A b \in Instances : got'[b] = IF b = e /\ enabled[e] \ {k} = {} /\ got[b] = "live"
                                         THEN "dead" ELSE got[b]
      BY <1>1, <2>1 DEF Types
    <2>4. QED
      BY <2>1, <2>2, <2>3
  <1>5. \A u \in Threads : \A j \in Tasks : \A b \in Instances :
           Between(u, j, b)' <=> (u = t /\ j = k /\ b = e /\ e \notin chained') \/ Between(u, j, b)
    <2>1. cur' = [cur EXCEPT ![t] = IF e \in chained' THEN {} ELSE {<<k, e>>}]
      BY <1>1, <1>2, <1>3, <1>4 DEF Delete
    <2>2. \A u \in Threads : cur'[u] = IF u = t THEN IF e \in chained' THEN {} ELSE {<<k, e>>} ELSE cur[u]
      BY <1>1, <1>2, <1>3, <1>4, <2>1 DEF Types
    <2>3. QED
      BY <1>1, <1>2, <1>3, <1>4, <2>2 DEF Between
  <1>6. Types'
    BY <1>1, <1>2, <1>3, <1>4, <1>5 DEF Types, Delete, vars, linker, chains, engine, local, Meets,
       Drop, HasChain, Mapped, HookLockFree, DelFunc, ElfTypes
  <1>7. CallInv'
    BY <1>1 DEF Delete, linker, chains, engine, local, CallInv, Ways, Readers, Writers, CanRead,
       CanWrite
  <1>8. PlaceInv'
    <2>1. \A l \in Libs : refs'[l] > 0 => loads'[l] \in 1..MaxLoads /\ at'[l] = <<l, loads'[l]>>
      BY <1>1, <1>2, <1>3, <1>4, <1>5 DEF Types, Delete, linker, chains, engine, local, PlaceInv,
         Meets, Drop, HasChain, Mapped, HookLockFree, DelFunc
    <2>2. \A f \in Instances : elf'[f].st # "none" => elf'[f].at = f /\ f[2] <= loads'[Path(f)]
      BY <1>1, <1>2, <1>3, <1>4, <1>5 DEF Types, Delete, linker, chains, engine, local, PlaceInv,
         Path, Meets, Drop, HasChain, Mapped, HookLockFree, DelFunc
    <2>3. \A f \in Instances : elf'[f].st = "abandoned" => refs'[Path(f)] <= 0 \/ f[2] < loads'[Path(f)]
      BY <1>1, <1>2, <1>3, <1>4, <1>5 DEF Types, Delete, linker, chains, engine, local, PlaceInv,
         Path, Meets, Drop, HasChain, Mapped, HookLockFree, DelFunc
    <2>4. \A f, g \in Tree' : Path(f) = Path(g) => f = g
      BY <1>1, <1>2, <1>3, <1>4, <1>5 DEF Types, Delete, linker, chains, engine, local, PlaceInv,
         Tree, Path, Meets, Drop, HasChain, Mapped, HookLockFree, DelFunc
    <2>5. \A b \in Instances : b \in chained' => b[2] <= loads'[Path(b)]
      BY <1>1, <1>2, <1>3, <1>4, <1>5 DEF Types, Delete, linker, chains, engine, local, PlaceInv,
         Path, Meets, Drop, HasChain, Mapped, HookLockFree, DelFunc
    <2>6. \A b \in Instances : got'[b] # "orig" => b[2] <= loads'[Path(b)]
      BY <1>1, <1>2, <1>3, <1>4, <1>5 DEF Types, Delete, linker, chains, engine, local, PlaceInv,
         Path, Meets, Drop, HasChain, Mapped, HookLockFree, DelFunc
    <2>7. QED
      BY <2>1, <2>2, <2>3, <2>4, <2>5, <2>6 DEF PlaceInv, Tree
  <1>9. PairInv'
    <2>1. \A u \in Threads : \A j \in Tasks : \A f \in Instances : Has(u, j, f)' =>
          /\ pc'[u] = "meet" /\ elf'[f].st # "none"
          /\ Path(f) \in Match[j]
          /\ op'[u] # "open" => j = arg'[u]
      BY <1>1, <1>2, <1>3, <1>4, <1>5 DEF Types, Delete, linker, chains, engine, local, PairInv,
         Has, Meets, Drop, HasChain, Mapped, HookLockFree, DelFunc
    <2>2. \A u \in Threads : \A f \in new'[u] :
          op'[u] = "open" /\ pc'[u] \in {"new", "meet"} /\ elf'[f].st # "none"
      BY <1>1, <1>2, <1>3, <1>4, <1>5 DEF Types, Delete, linker, chains, engine, local, PairInv,
         Meets, Drop, HasChain, Mapped, HookLockFree, DelFunc
    <2>3. \A u, v \in Threads : \A i, j \in Tasks : \A f \in Instances :
          Between(u, i, f)' /\ Between(v, j, f)' => u = v /\ i = j
      BY <1>1, <1>2, <1>3, <1>4, <1>5 DEF PairInv
    <2>4. \A u \in Threads : \A i, j \in Tasks : \A f, g \in Instances :
          Between(u, i, f)' /\ Between(u, j, g)' => i = j /\ f = g
      BY <1>1, <1>2, <1>3, <1>4, <1>5 DEF PairInv
    <2>5. QED
      BY <2>1, <2>2, <2>3, <2>4 DEF PairInv
  <1>10. SlotInv'
    <2>1. \A b \in Instances : b \in chained' <=> enabled'[b] # {}
      BY <1>1, <1>2, <1>3, <1>4, <1>5 DEF SlotInv
    <2>2. \A b \in Instances :
          \/ \E u \in Threads : \E j \in Tasks : Between(u, j, b)'
          \/ b \in chained' <=> got'[b] = "live"
      BY <1>1, <1>2, <1>3, <1>4, <1>5 DEF SlotInv
    <2>3. \A u \in Threads : \A j \in Tasks : \A f \in Instances : Between(u, j, f)' =>
          /\ got'[f] # "live"
          /\ IF op'[u] = "unhook" THEN f \notin chained'
                                 ELSE f \in chained' /\ enabled'[f] = {j}
      BY <1>1, <1>2, <1>3, <1>4, <1>5 DEF SlotInv, PairInv
    <2>4. QED
      BY <2>1, <2>2, <2>3 DEF SlotInv
  <1>11. QED
    BY <1>6, <1>7, <1>8, <1>9, <1>10 DEF EngineInv

\* Replace keeps chains, slots, locks and holders in step (EngineInv).
LEMMA ReplaceKeeps ==
    ASSUME EngineInv, ~Reuse, NEW t \in Threads, NEW k \in Tasks, NEW e \in Instances, Replace(t, k, e)
    PROVE  EngineInv'
  <1>1. Replace(t, k, e) /\ Types /\ CallInv /\ PlaceInv /\ PairInv /\ SlotInv /\ ~Reuse
    BY DEF EngineInv
  <1>2. pc[t] = "meet" /\ elf[e].st # "none" /\ elf[e].at = e /\ Path(e) \in Match[k]
        /\ e[2] <= loads[Path(e)] /\ (op[t] # "open" => k = arg[t])
    BY <1>1 DEF Replace, Meets, PairInv, Has, PlaceInv
  <1>3. /\ Between(t, k, e)
        /\ \A u \in Threads : \A j \in Tasks : \A b \in Instances :
              Between(u, j, b)' <=> u # t /\ Between(u, j, b)
        /\ UNCHANGED <<op, pc, elf, loads>>
    BY <1>1, <1>2 DEF Replace, Between, Types, linker
  <1>4. /\ got' \in [Instances -> {"orig", "live", "dead"}] /\ UNCHANGED <<chained, enabled>>
        /\ \A b \in Instances : got'[b] = IF b = e THEN IF op[t] = "unhook" THEN origFunc[b] ELSE "live"
                                         ELSE got[b]
        /\ origFunc[e] # "live"
    BY <1>1, <1>2, <1>3 DEF Replace, Types, chains
  <1>5. Types'
    BY <1>1, <1>2, <1>3, <1>4 DEF Types, Replace, vars, linker, chains, engine, local, Ended,
       ElfTypes
  <1>6. CallInv'
    BY <1>1 DEF Replace, linker, chains, engine, local, CallInv, Ways, Readers, Writers, CanRead,
       CanWrite
  <1>7. PlaceInv'
    <2>1. \A l \in Libs : refs'[l] > 0 => loads'[l] \in 1..MaxLoads /\ at'[l] = <<l, loads'[l]>>
      BY <1>1, <1>2, <1>3, <1>4 DEF Types, Replace, linker, chains, engine, local, PlaceInv, Ended
    <2>2. \A f \in Instances : elf'[f].st # "none" => elf'[f].at = f /\ f[2] <= loads'[Path(f)]
      BY <1>1, <1>2, <1>3, <1>4 DEF Types, Replace, linker, chains, engine, local, PlaceInv, Path,
         Ended
    <2>3. \A f \in Instances : elf'[f].st = "abandoned" => refs'[Path(f)] <= 0 \/ f[2] < loads'[Path(f)]
      BY <1>1, <1>2, <1>3, <1>4 DEF Types, Replace, linker, chains, engine, local, PlaceInv, Path,
         Ended
    <2>4. \A f, g \in Tree' : Path(f) = Path(g) => f = g
      BY <1>1, <1>2, <1>3, <1>4 DEF Types, Replace, linker, chains, engine, local, PlaceInv, Tree,
         Path, Ended
    <2>5. \A b \in Instances : b \in chained' => b[2] <= loads'[Path(b)]
      BY <1>1, <1>2, <1>3, <1>4 DEF Types, Replace, linker, chains, engine, local, PlaceInv, Path,
         Ended
    <2>6. \A b \in Instances : got'[b] # "orig" => b[2] <= loads'[Path(b)]
      BY <1>1, <1>2, <1>3, <1>4 DEF Types, Replace, linker, chains, engine, local, PlaceInv, Path,
         Ended
    <2>7. QED
      BY <2>1, <2>2, <2>3, <2>4, <2>5, <2>6 DEF PlaceInv, Tree
  <1>8. PairInv'
    <2>1. \A u \in Threads : \A j \in Tasks : \A f \in Instances : Has(u, j, f)' =>
          /\ pc'[u] = "meet" /\ elf'[f].st # "none"
          /\ Path(f) \in Match[j]
          /\ op'[u] # "open" => j = arg'[u]
      BY <1>1, <1>2, <1>3, <1>4 DEF Types, Replace, linker, chains, engine, local, PairInv, Has,
         Ended
    <2>2. \A u \in Threads : \A f \in new'[u] :
          op'[u] = "open" /\ pc'[u] \in {"new", "meet"} /\ elf'[f].st # "none"
      BY <1>1, <1>2, <1>3, <1>4 DEF Types, Replace, linker, chains, engine, local, PairInv, Ended
    <2>3. \A u, v \in Threads : \A i, j \in Tasks : \A f \in Instances :
          Between(u, i, f)' /\ Between(v, j, f)' => u = v /\ i = j
      BY <1>1, <1>2, <1>3, <1>4 DEF PairInv
    <2>4. \A u \in Threads : \A i, j \in Tasks : \A f, g \in Instances :
          Between(u, i, f)' /\ Between(u, j, g)' => i = j /\ f = g
      BY <1>1, <1>2, <1>3, <1>4 DEF PairInv
    <2>5. QED
      BY <2>1, <2>2, <2>3, <2>4 DEF PairInv
  <1>9. SlotInv'
    <2>1. \A b \in Instances : b \in chained' <=> enabled'[b] # {}
      BY <1>1, <1>2, <1>3, <1>4 DEF SlotInv
    <2>2. \A b \in Instances :
          \/ \E u \in Threads : \E j \in Tasks : Between(u, j, b)'
          \/ b \in chained' <=> got'[b] = "live"
      BY <1>1, <1>2, <1>3, <1>4 DEF SlotInv, PairInv
    <2>3. \A u \in Threads : \A j \in Tasks : \A f \in Instances : Between(u, j, f)' =>
          /\ got'[f] # "live"
          /\ IF op'[u] = "unhook" THEN f \notin chained'
                                 ELSE f \in chained' /\ enabled'[f] = {j}
      BY <1>1, <1>2, <1>3, <1>4 DEF SlotInv, PairInv
    <2>4. QED
      BY <2>1, <2>2, <2>3 DEF SlotInv
  <1>10. QED
    BY <1>5, <1>6, <1>7, <1>8, <1>9 DEF EngineInv

\* ReplaceFails keeps chains, slots, locks and holders in step (EngineInv).
LEMMA ReplaceFailsKeeps ==
    ASSUME EngineInv, ~Reuse, NEW t \in Threads, NEW k \in Tasks, NEW e \in Instances, ReplaceFails(t, k, e)
    PROVE  EngineInv'
  <1>1. ReplaceFails(t, k, e) /\ Types /\ CallInv /\ PlaceInv /\ PairInv /\ SlotInv /\ ~Reuse
    BY DEF EngineInv
  <1>2. pc[t] = "meet" /\ elf[e].st # "none" /\ elf[e].at = e /\ Path(e) \in Match[k]
        /\ e[2] <= loads[Path(e)] /\ (op[t] # "open" => k = arg[t])
    BY <1>1 DEF ReplaceFails, Meets, PairInv, Has, PlaceInv
  <1>3. /\ Between(t, k, e)
        /\ \A u \in Threads : \A j \in Tasks : \A b \in Instances :
              Between(u, j, b)' <=> u # t /\ Between(u, j, b)
        /\ UNCHANGED <<op, pc, elf, loads>>
    BY <1>1, <1>2 DEF ReplaceFails, Between, Types, linker
  <1>4. /\ enabled' \in [Instances -> SUBSET Tasks]
        /\ got' \in [Instances -> {"orig", "live", "dead"}]
        /\ IF op[t] = "unhook" THEN UNCHANGED <<chained, enabled, got>>
           ELSE /\ \A b \in Instances : enabled'[b] = IF b = e THEN {} ELSE enabled[b]
                /\ chained' = chained \ {e}
                /\ \A b \in Instances : got'[b] = IF b = e /\ got[b] = "live" THEN "dead" ELSE got[b]
    <2>1. CASE op[t] = "unhook"
      BY <1>1, <1>2, <1>3, <2>1 DEF ReplaceFails, Types
    <2>2. CASE op[t] # "unhook"
      <3>1. enabled[e] = {k}
        BY <1>1, <1>2, <1>3, <2>2 DEF SlotInv
      <3>2. DelFunc(k, e)
        BY <1>1, <1>2, <1>3, <2>2 DEF ReplaceFails
      <3>3. QED
        BY <1>1, <1>2, <1>3, <2>2, <3>1, <3>2 DEF DelFunc, Types
    <2>3. QED
      BY <2>1, <2>2
  <1>5. Types'
    <2>1. refs' \in [Libs -> Int] /\ loads' \in [Libs -> Nat]
      BY <1>1, <1>2, <1>3, <1>4 DEF Types, ReplaceFails, linker, chains, engine, local, Ended,
         DelFunc
    <2>2. at' \in [Libs -> Instances \cup {None}]
      BY <1>1, <1>2, <1>3, <1>4 DEF Types, ReplaceFails, linker, chains, engine, local, Ended,
         DelFunc
    <2>3. got' \in [Instances -> {"orig", "live", "dead"}]
      BY <1>1, <1>2, <1>3, <1>4 DEF Types, ReplaceFails, linker, chains, engine, local, Ended,
         DelFunc
    <2>4. elf' \in [Instances -> ElfTypes]
      BY <1>1, <1>2, <1>3, <1>4 DEF Types, ReplaceFails, linker, chains, engine, local, Ended,
         DelFunc
    <2>5. chained' \subseteq Instances /\ enabled' \in [Instances -> SUBSET Tasks]
      BY <1>1, <1>2, <1>3, <1>4 DEF Types, ReplaceFails, linker, chains, engine, local, Ended,
         DelFunc
    <2>6. origFunc' \in [Instances -> {"orig", "dead"}]
      BY <1>1, <1>2, <1>3, <1>4 DEF Types, ReplaceFails, linker, chains, engine, local, Ended,
         DelFunc
    <2>7. status' \in [Tasks -> {"new", "unfinished", "finished", "unhooking", "gone"}]
      BY <1>1, <1>2, <1>3, <1>4 DEF Types, ReplaceFails, linker, chains, engine, local, Ended,
         DelFunc
    <2>8. op' \in [Threads -> Ops] /\ arg' \in [Threads -> Tasks \cup Libs \cup {None}]
      BY <1>1, <1>2, <1>3, <1>4 DEF Types, ReplaceFails, linker, chains, engine, local, Ended,
         DelFunc
    <2>9. pc' \in [Threads -> PC]
      BY <1>1, <1>2, <1>3, <1>4 DEF Types, ReplaceFails, linker, chains, engine, local, Ended,
         DelFunc
    <2>10. todo' \in [Threads -> SUBSET (Tasks \X Instances)]
      BY <1>1, <1>2, <1>3, <1>4 DEF Types, ReplaceFails, linker, chains, engine, local, Ended,
         DelFunc
    <2>11. cur' \in [Threads -> SUBSET (Tasks \X Instances)]
      BY <1>1, <1>2, <1>3, <1>4 DEF Types, ReplaceFails, linker, chains, engine, local, Ended,
         DelFunc
    <2>12. new' \in [Threads -> SUBSET Instances]
      BY <1>1, <1>2, <1>3, <1>4 DEF Types, ReplaceFails, linker, chains, engine, local, Ended,
         DelFunc
    <2>13. QED
      BY <2>1, <2>2, <2>3, <2>4, <2>5, <2>6, <2>7, <2>8, <2>9, <2>10, <2>11, <2>12 DEF Types
  <1>6. CallInv'
    BY <1>1 DEF ReplaceFails, linker, chains, engine, local, CallInv, Ways, Readers, Writers,
       CanRead, CanWrite
  <1>7. PlaceInv'
    <2>1. \A l \in Libs : refs'[l] > 0 => loads'[l] \in 1..MaxLoads /\ at'[l] = <<l, loads'[l]>>
      BY <1>1, <1>2, <1>3, <1>4 DEF Types, ReplaceFails, linker, chains, engine, local, PlaceInv,
         Ended, DelFunc
    <2>2. \A f \in Instances : elf'[f].st # "none" => elf'[f].at = f /\ f[2] <= loads'[Path(f)]
      BY <1>1, <1>2, <1>3, <1>4 DEF Types, ReplaceFails, linker, chains, engine, local, PlaceInv,
         Path, Ended, DelFunc
    <2>3. \A f \in Instances : elf'[f].st = "abandoned" => refs'[Path(f)] <= 0 \/ f[2] < loads'[Path(f)]
      BY <1>1, <1>2, <1>3, <1>4 DEF Types, ReplaceFails, linker, chains, engine, local, PlaceInv,
         Path, Ended, DelFunc
    <2>4. \A f, g \in Tree' : Path(f) = Path(g) => f = g
      BY <1>1, <1>2, <1>3, <1>4 DEF Types, ReplaceFails, linker, chains, engine, local, PlaceInv,
         Tree, Path, Ended, DelFunc
    <2>5. \A b \in Instances : b \in chained' => b[2] <= loads'[Path(b)]
      BY <1>1, <1>2, <1>3, <1>4 DEF Types, ReplaceFails, linker, chains, engine, local, PlaceInv,
         Path, Ended, DelFunc
    <2>6. \A b \in Instances : got'[b] # "orig" => b[2] <= loads'[Path(b)]
      BY <1>1, <1>2, <1>3, <1>4 DEF Types, ReplaceFails, linker, chains, engine, local, PlaceInv,
         Path, Ended, DelFunc
    <2>7. QED
      BY <2>1, <2>2, <2>3, <2>4, <2>5, <2>6 DEF PlaceInv, Tree
  <1>8. PairInv'
    <2>1. \A u \in Threads : \A j \in Tasks : \A f \in Instances : Has(u, j, f)' =>
          /\ pc'[u] = "meet" /\ elf'[f].st # "none"
          /\ Path(f) \in Match[j]
          /\ op'[u] # "open" => j = arg'[u]
      BY <1>1, <1>2, <1>3, <1>4 DEF Types, ReplaceFails, linker, chains, engine, local, PairInv,
         Has, Ended, DelFunc
    <2>2. \A u \in Threads : \A f \in new'[u] :
          op'[u] = "open" /\ pc'[u] \in {"new", "meet"} /\ elf'[f].st # "none"
      BY <1>1, <1>2, <1>3, <1>4 DEF Types, ReplaceFails, linker, chains, engine, local, PairInv,
         Ended, DelFunc
    <2>3. \A u, v \in Threads : \A i, j \in Tasks : \A f \in Instances :
          Between(u, i, f)' /\ Between(v, j, f)' => u = v /\ i = j
      BY <1>1, <1>2, <1>3, <1>4 DEF PairInv
    <2>4. \A u \in Threads : \A i, j \in Tasks : \A f, g \in Instances :
          Between(u, i, f)' /\ Between(u, j, g)' => i = j /\ f = g
      BY <1>1, <1>2, <1>3, <1>4 DEF PairInv
    <2>5. QED
      BY <2>1, <2>2, <2>3, <2>4 DEF PairInv
  <1>9. SlotInv'
    <2>1. \A b \in Instances : b \in chained' <=> enabled'[b] # {}
      BY <1>1, <1>2, <1>3, <1>4 DEF SlotInv
    <2>2. \A b \in Instances :
          \/ \E u \in Threads : \E j \in Tasks : Between(u, j, b)'
          \/ b \in chained' <=> got'[b] = "live"
      BY <1>1, <1>2, <1>3, <1>4 DEF SlotInv, PairInv
    <2>3. \A u \in Threads : \A j \in Tasks : \A f \in Instances : Between(u, j, f)' =>
          /\ got'[f] # "live"
          /\ IF op'[u] = "unhook" THEN f \notin chained'
                                 ELSE f \in chained' /\ enabled'[f] = {j}
      BY <1>1, <1>2, <1>3, <1>4 DEF SlotInv, PairInv
    <2>4. QED
      BY <2>1, <2>2, <2>3 DEF SlotInv
  <1>10. QED
    BY <1>5, <1>6, <1>7, <1>8, <1>9 DEF EngineInv

-----------------------------------------------------------------------------
\* The invariant holds when nothing is loaded and nothing hooked.
LEMMA EngineStarts == Init => EngineInv
  <1>1. SUFFICES ASSUME Init PROVE EngineInv
    OBVIOUS
  <1>2. Types
    <2>1. refs \in [Libs -> Int] /\ loads \in [Libs -> Nat]
      BY <1>1 DEF Init
    <2>2. at \in [Libs -> Instances \cup {None}]
      <3>1. 1 \in 1..MaxLoads
        BY BoundsType
      <3>2. QED
        BY <1>1, <3>1 DEF Init, Instances
    <2>3. elf \in [Instances -> ElfTypes]
      BY <1>1 DEF Init, NoElf, ElfTypes
    <2>4. /\ got \in [Instances -> {"orig", "live", "dead"}]
          /\ chained \subseteq Instances /\ enabled \in [Instances -> SUBSET Tasks]
          /\ origFunc \in [Instances -> {"orig", "dead"}]
          /\ status \in [Tasks -> {"new", "unfinished", "finished", "unhooking", "gone"}]
      BY <1>1 DEF Init
    <2>5. /\ op \in [Threads -> Ops] /\ arg \in [Threads -> Tasks \cup Libs \cup {None}]
          /\ pc \in [Threads -> PC] /\ todo \in [Threads -> SUBSET (Tasks \X Instances)]
          /\ cur \in [Threads -> SUBSET (Tasks \X Instances)]
          /\ new \in [Threads -> SUBSET Instances]
      BY <1>1 DEF Init, Ops, PC
    <2>6. QED
      BY <2>1, <2>2, <2>3, <2>4, <2>5 DEF Types
  <1>3. CallInv
    BY <1>1 DEF Init, CallInv, Ways, Readers
  <1>4. PlaceInv
    <2>1. MaxLoads \in Nat /\ 1 \in 1..MaxLoads
      BY BoundsType
    <2>2. \A l \in Libs : refs[l] > 0 => loads[l] \in 1..MaxLoads /\ at[l] = <<l, loads[l]>>
      BY <1>1, <2>1 DEF Init
    <2>3. QED
      BY <1>1, <2>2 DEF Init, PlaceInv, NoElf, Tree
  <1>5. PairInv
    BY <1>1 DEF Init, PairInv, Has, Between
  <1>6. SlotInv
    BY <1>1 DEF Init, SlotInv, Between
  <1>7. QED
    BY <1>2, <1>3, <1>4, <1>5, <1>6 DEF EngineInv

\* Every step of the engine keeps the invariant.
LEMMA EngineKeeps == EngineInv /\ ~Reuse /\ [Next]_vars => EngineInv'
  <1>1. SUFFICES ASSUME EngineInv, ~Reuse, [Next]_vars PROVE EngineInv'
    OBVIOUS
  <1>2. CASE Next
    <2>1. PICK t \in Threads :
             \/ \E k \in Tasks : Hook(t, k) \/ Unhook(t, k)
             \/ \E l \in Libs : Dlopen(t, l) \/ Dlclose(t, l)
             \/ Step(t)
      BY <1>2 DEF Next
    <2>2. CASE \E k \in Tasks : Hook(t, k) \/ Unhook(t, k)
      BY <1>1, <2>2, HookKeeps, UnhookKeeps
    <2>3. CASE \E l \in Libs : Dlopen(t, l) \/ Dlclose(t, l)
      BY <1>1, <2>3, DlopenKeeps, DlcloseKeeps
    <2>4. CASE Meeting(t)
      BY <1>1, <2>4, HookCfiKeeps, SkipKeeps, AddFuncKeeps, AddChainKeeps, DeleteKeeps,
         ReplaceKeeps, ReplaceFailsKeeps DEF Meeting
    <2>5. CASE Step(t) /\ ~Meeting(t)
      BY <1>1, <2>5, TestMonitorKeeps, InitRefreshKeeps, InitOpenKeeps, InitCloseKeeps, OneshotKeeps,
         StartKeeps, FinishKeeps, LoadKeeps, LoadFailsKeeps, PostDlopenKeeps, NewElfKeeps,
         OpenedKeeps, WriteLockKeeps, UnloadKeeps, CleanKeeps DEF Step
    <2>6. QED
      BY <2>1, <2>2, <2>3, <2>4, <2>5
  <1>3. CASE UNCHANGED vars
    <2>1. UNCHANGED <<refs, loads, at, got, elf, chained, enabled, origFunc, status, op, arg, pc,
                      todo, cur, new>>
      BY <1>3 DEF vars, linker, chains, local
    <2>2. Types'
      BY <1>1, <2>1 DEF EngineInv, Types
    <2>3. CallInv'
      BY <1>1, <2>1 DEF EngineInv, CallInv, Readers, Writers
    <2>4. PlaceInv'
      BY <1>1, <2>1 DEF EngineInv, PlaceInv, Tree
    <2>5. PairInv'
      BY <1>1, <2>1 DEF EngineInv, PairInv, Has, Between
    <2>6. SlotInv'
      BY <1>1, <2>1 DEF EngineInv, SlotInv, Between
    <2>7. QED
      BY <2>2, <2>3, <2>4, <2>5, <2>6 DEF EngineInv
  <1>4. QED
    BY <1>1, <1>2, <1>3

\* Addresses, locks, chains and slots stay in order whatever calls of hook,
\* unhook, dlopen and dlclose come together (bh_hook_manager.c, bh_task_manager.c).
THEOREM EngineInvariant == ~Reuse => (Spec => []EngineInv)
  <1>1. CASE ~Reuse
    <2>1. Init => EngineInv
      BY EngineStarts
    <2>2. EngineInv /\ [Next]_vars => EngineInv'
      BY <1>1, EngineKeeps
    <2>3. QED
      BY <2>1, <2>2, PTL DEF Spec
  <1>2. QED
    BY <1>1

\* The slot of a mapped library and the hook manager's list of chains agree
\* whenever no thread is between the two (bh_hook_manager.c:309-440).
THEOREM Patched == ~Reuse => (Spec => []ChainPatched)
  <1>1. EngineInv => ChainPatched
    <2>1. SUFFICES ASSUME EngineInv, NEW l \in Loaded
                   PROVE  \/ \E t \in Threads : \E p \in cur[t] : elf[p[2]].at = at[l]
                          \/ at[l] \in chained <=> got[at[l]] = "live"
      BY DEF ChainPatched
    <2>2. Types /\ PlaceInv /\ PairInv /\ SlotInv
      BY <2>1 DEF EngineInv
    <2>3. at[l] \in Instances
      <3>1. l \in Libs /\ refs[l] > 0
        BY <2>1 DEF Loaded
      <3>2. loads[l] \in 1..MaxLoads /\ at[l] = <<l, loads[l]>>
        BY <2>2, <3>1 DEF PlaceInv
      <3>3. QED
        BY <3>1, <3>2 DEF Instances
    <2>4. ASSUME NEW t \in Threads, NEW k \in Tasks, Between(t, k, at[l])
          PROVE  \E p \in cur[t] : elf[p[2]].at = at[l]
      <3>1. elf[at[l]].at = at[l]
        BY <2>2, <2>3, <2>4 DEF PairInv, Has, Between, PlaceInv
      <3>2. <<k, at[l]>> \in cur[t] /\ <<k, at[l]>>[2] = at[l]
        BY <2>4 DEF Between
      <3>3. QED
        BY <3>1, <3>2
    <2>5. QED
      BY <2>2, <2>3, <2>4 DEF SlotInv
  <1>2. QED
    BY <1>1, EngineInvariant, PTL

-----------------------------------------------------------------------------
(***************************************************************************)
(* What an unhook and a hook have done when they are done, on top of the   *)
(* order of addresses, locks and slots.                                    *)
(*                                                                         *)
(* LeaveInv: as long as a task that leaves is still in a chain, the thread *)
(* that takes it out has the chain before it.  MeetInv: as long as a task  *)
(* is not in the chain of an ELF that it is for, some thread is going to   *)
(* bring the two together, be it the one that hooks the task or the one    *)
(* that opens the library.                                                 *)
(***************************************************************************)

\* The name of a single task's library is that of one library only: which of
\* several the task finds is left open, and an unhook may find another one.
SingleFits == \A k \in Single : \A l, m \in Match[k] : l = m

\* A single task is done for good with the first library it meets: where there
\* are such tasks, no library comes a second time.
SingleOnce == Single = {} \/ MaxLoads = 1

\* A task is put in the list by one hook and taken from it by one unhook.
OwnInv ==
    /\ \A t, u \in Threads :
          op[t] \in {"hook", "unhook"} /\ op[u] \in {"hook", "unhook"} /\ arg[t] = arg[u] => t = u
    /\ \A t \in Threads : op[t] = "hook" => arg[t] \in Listed
    /\ \A t \in Threads : op[t] = "unhook" => status[arg[t]] = "unhooking"
    /\ \A t \in Threads : \A k \in Tasks : \A e \in Instances :
          Has(t, k, e) /\ op[t] # "unhook" => k \in Listed

\* t goes to the slot at a to take task k from it.
Leaving(t, k, a) ==
    op[t] = "unhook" /\ arg[t] = k /\ (pc[t] = "start" \/ <<k, a>> \in todo[t])

LeaveInv ==
    /\ \A k \in Tasks : \A a \in Instances : k \in enabled[a] => status[k] # "new"
    /\ \A k \in Tasks : \A l \in Loaded : k \in enabled[at[l]] =>
          l \in Match[k] /\ elf[at[l]].st = "tree"
    /\ \A k \in Tasks : \A l \in Loaded :
          k \in enabled[at[l]] /\ status[k] \in {"unhooking", "gone"} =>
             \E t \in Threads : Leaving(t, k, at[l])

\* The monitor, and the first refresh.
MonitorInv ==
    /\ monitor \in {"off", "init", "open", "on"}
    /\ oneshot \in Threads \cup {"no", "done"}
    /\ \A t \in Threads : op[t] \in {"open", "close"} => monitor \in {"open", "on"}
    /\ \A t \in Threads : pc[t] \in {"initopen", "initclose"} => oneshot # "no"
    /\ oneshot = "no" => monitor \in {"off", "init"} /\ Tree = {}
    /\ oneshot = "no" => \A k \in Listed : \E t \in Threads :
          op[t] = "hook" /\ arg[t] = k /\ pc[t] \in {"monitor", "init", "oneshot"}

\* A single task is done with the one library it is for.
SingleInv ==
    \A k \in Tasks : status[k] = "finished" =>
        /\ k \in Single
        /\ \A l \in Match[k] \ Brittle :
              loads[l] = 1 /\ (refs[l] > 0 => k \in enabled[<<l, 1>>])

\* t is about to bring task k and ELF e together.
Coming(t, k, e) ==
    \/ op[t] = "hook" /\ arg[t] = k
       /\ pc[t] \in {"monitor", "init", "initopen", "initclose", "oneshot", "start"}
    \/ op[t] # "unhook" /\ <<k, e>> \in todo[t]
    \/ e \in new[t]

\* An ELF's CFI hooks fail for a reason.
CfiInv ==
    \A e \in Instances : /\ elf[e].st = "none" => elf[e].cfi = "unknown"
                         /\ elf[e].cfi = "failed" => Path(e) \in Brittle \/ ~Mapped(e)

MeetInv ==
    /\ \A l \in Libs : loads[l] <= MaxLoads
    /\ \A e \in Tree : \A k \in Listed :
          Mapped(e) /\ Path(e) \in Match[k] \ Brittle /\ elf[e].by # "close" =>
             k \in enabled[e] \/ \E t \in Threads : Coming(t, k, e)

UnhookInv == OwnInv /\ LeaveInv
HookInv == MonitorInv /\ SingleInv /\ CfiInv /\ MeetInv
-----------------------------------------------------------------------------
\* Where a mapped library is.
LEMMA MappedAt ==
    ASSUME Types, PlaceInv, NEW m \in Loaded
    PROVE  /\ m \in Libs /\ refs[m] > 0 /\ at[m] = <<m, loads[m]>> /\ at[m] \in Instances
           /\ Path(at[m]) = m
  <1>1. m \in Libs /\ refs[m] > 0
    BY DEF Loaded
  <1>2. loads[m] \in 1..MaxLoads /\ at[m] = <<m, loads[m]>>
    BY <1>1 DEF PlaceInv
  <1>3. at[m] \in Instances /\ Path(at[m]) = m
    BY <1>1, <1>2 DEF Instances, Path
  <1>4. QED
    BY <1>1, <1>2, <1>3

\* A step of t keeps the tasks where they are if t keeps its own or gives it up, gets no
\* pair of a task and an ELF, and no task leaves the list or comes back to it.
LEMMA OwnKept ==
    ASSUME OwnInv, NEW t \in Threads,
           \A u \in Threads : op[u] \in {"hook", "unhook"} => arg[u] \in Tasks,
           \A u \in Threads : u # t => op'[u] = op[u] /\ arg'[u] = arg[u],
           \/ op'[t] = op[t] /\ arg'[t] = arg[t]
           \/ op'[t] \notin {"hook", "unhook"},
           \A u \in Threads : \A j \in Tasks : \A f \in Instances :
              Has(u, j, f)' /\ op'[u] # "unhook" => Has(u, j, f) /\ op[u] # "unhook",
           Listed \subseteq Listed',
           \A j \in Tasks : status[j] = "unhooking" => status'[j] = "unhooking"
    PROVE  OwnInv'
  <1>1. \A u \in Threads : op'[u] \in {"hook", "unhook"} => op'[u] = op[u] /\ arg'[u] = arg[u]
    OBVIOUS
  <1>2. \A u, v \in Threads :
          op'[u] \in {"hook", "unhook"} /\ op'[v] \in {"hook", "unhook"} /\ arg'[u] = arg'[v] => u = v
    BY <1>1 DEF OwnInv
  <1>3. \A u \in Threads : op'[u] = "hook" => arg'[u] \in Listed'
    BY <1>1 DEF OwnInv
  <1>4. \A u \in Threads : op'[u] = "unhook" => status'[arg'[u]] = "unhooking"
    BY <1>1 DEF OwnInv
  <1>5. \A u \in Threads : \A j \in Tasks : \A f \in Instances :
          Has(u, j, f)' /\ op'[u] # "unhook" => j \in Listed'
    BY DEF OwnInv
  <1>6. QED
    BY <1>2, <1>3, <1>4, <1>5 DEF OwnInv

\* An ELF is that of the library that is mapped there, if there is one.
LEMMA ElfMapped ==
    ASSUME Types, PlaceInv, NEW e \in Instances, elf[e].st # "none"
    PROVE  /\ Mapped(e) <=> Path(e) \in Loaded /\ e = <<Path(e), loads[Path(e)]>>
           /\ Mapped(e) => elf[e].st = "tree"
           /\ \A m \in Loaded : at[m] = e => m = Path(e) /\ Mapped(e)
           /\ Path(e) \in Libs
  <1>1. elf[e].at = e /\ Path(e) \in Libs
    BY DEF PlaceInv, Instances, Path
  <1>2. Mapped(e) <=> Path(e) \in Loaded /\ e = <<Path(e), loads[Path(e)]>>
    BY <1>1, MappedAt DEF Mapped
  <1>3. \A m \in Loaded : at[m] = e => m = Path(e) /\ Mapped(e)
    BY <1>1, MappedAt DEF Mapped
  <1>4. ASSUME Mapped(e) PROVE elf[e].st = "tree"
    <2>1. refs[Path(e)] > 0 /\ e[2] = loads[Path(e)]
      BY <1>2, <1>4 DEF Loaded
    <2>2. refs[Path(e)] \in Int /\ loads[Path(e)] \in Nat
      BY <1>1 DEF Types
    <2>3. elf[e].st # "abandoned"
      BY <2>1, <2>2 DEF PlaceInv
    <2>4. elf[e].st \in {"none", "tree", "abandoned"}
      BY DEF Types, ElfTypes
    <2>5. QED
      BY <2>3, <2>4
  <1>5. QED
    BY <1>1, <1>2, <1>3, <1>4

\* A refresh keeps the ELFs of the libraries that are mapped.
LEMMA RefreshKeeps ==
    ASSUME Types, PlaceInv, NEW by \in {"oneshot", "open", "close"}, elf' = Refreshed(by)
    PROVE  \A m \in Loaded : elf[at[m]].st = "tree" => elf'[at[m]] = elf[at[m]]
  <1>1. SUFFICES ASSUME NEW m \in Loaded, elf[at[m]].st = "tree"
                 PROVE  elf'[at[m]] = elf[at[m]]
    OBVIOUS
  <1>2. at[m] \in Instances /\ refs[Path(at[m])] > 0
    BY MappedAt
  <1>3. at[m] \in Tree
    BY <1>1, <1>2 DEF Tree
  <1>4. QED
    BY <1>2, <1>3, RefreshLeaves

\* A task meets all ELFs that it is for; a single one has but one.
LEMMA AllTargets ==
    ASSUME SingleFits, NEW tree, \A f, g \in tree : Path(f) = Path(g) => f = g,
           NEW j \in Tasks, NEW es \in Targets(j, tree), NEW e \in tree, Path(e) \in Match[j]
    PROVE  e \in es
  <1> DEFINE fit == {f \in tree : Path(f) \in Match[j]}
  <1>1. e \in fit
    OBVIOUS
  <1>2. \A f \in fit : j \in Single => f = e
    BY DEF SingleFits
  <1>3. CASE j \in Single
    <2>1. PICK f \in fit : es = {f}
      BY <1>1, <1>3 DEF Targets
    <2>2. QED
      BY <1>2, <1>3, <2>1
  <1>4. CASE j \notin Single
    BY <1>1, <1>4 DEF Targets
  <1>5. QED
    BY <1>3, <1>4

\* Where a single task's one library is.
LEMMA SingleAt ==
    ASSUME Types, SingleFits, SingleOnce, NEW k \in Single, NEW e \in Instances,
           Path(e) \in Match[k], e[2] <= loads[Path(e)], loads[Path(e)] <= MaxLoads
    PROVE  \A l \in Match[k] : l = Path(e) /\ loads[l] = 1 /\ e = <<l, 1>>
  <1>1. MaxLoads = 1
    BY DEF SingleOnce
  <1>2. Path(e) \in Libs /\ e[2] = 1 /\ e = <<Path(e), 1>>
    BY <1>1 DEF Instances, Path
  <1>3. loads[Path(e)] = 1
    BY <1>1, <1>2 DEF Types
  <1>4. QED
    BY <1>2, <1>3 DEF SingleFits

\* The first mapping of a library that a task is for.
LEMMA MatchAt == \A k \in Tasks : \A l \in Match[k] : l \in Libs /\ <<l, 1>> \in Instances
  <1>1. 1 \in 1..MaxLoads
    BY BoundsType
  <1>2. \A k \in Tasks : Match[k] \subseteq Libs
    BY TasksType
  <1>3. QED
    BY <1>1, <1>2 DEF Instances

\* What is in the tree after a refresh.
LEMMA RefreshSeen ==
    ASSUME Types, PlaceInv, CfiInv, NEW by \in {"oneshot", "open", "close"}, elf' = Refreshed(by)
    PROVE  \A f \in Instances :
              /\ elf'[f].st = "tree" => \/ f \in Born /\ elf'[f].by = by /\ elf'[f].at = f
                                        \/ f \in Tree /\ elf'[f] = elf[f]
              /\ elf'[f].st = "none" => elf'[f].cfi = "unknown"
              /\ elf'[f].cfi = "failed" => elf[f].cfi = "failed" /\ elf'[f].at = elf[f].at
  <1>1. TAKE f \in Instances
  <1>2. elf[f] \in ElfTypes /\ elf'[f] \in ElfTypes
    BY RefreshLeaves DEF Types
  <1>3. elf'[f].st = "tree" => \/ f \in Born /\ elf'[f].by = by /\ elf'[f].at = f
                               \/ f \in Tree /\ elf'[f] = elf[f]
    BY RefreshLeaves
  <1>4. elf'[f].st = "none" => elf'[f].cfi = "unknown"
    <2>1. f \notin Born \/ elf'[f].st = "tree"
      BY RefreshLeaves
    <2>2. elf'[f] \in {NoElf, elf[f], [elf[f] EXCEPT !.st = "abandoned"]} \/ f \in Born
      BY DEF Refreshed
    <2>3. QED
      BY <1>2, <2>1, <2>2 DEF NoElf, CfiInv, ElfTypes
  <1>5. elf'[f].cfi = "failed" => elf[f].cfi = "failed" /\ elf'[f].at = elf[f].at
    <2>1. f \in Born => elf'[f].cfi = "unknown"
      BY RefreshLeaves
    <2>2. elf'[f] \in {NoElf, elf[f], [elf[f] EXCEPT !.st = "abandoned"]} \/ f \in Born
      BY DEF Refreshed
    <2>3. QED
      BY <1>2, <2>1, <2>2 DEF NoElf, ElfTypes
  <1>6. QED
    BY <1>3, <1>4, <1>5

\* What a step of Hook leaves in the tables, value by value.
LEMMA HookDoes ==
    ASSUME EngineInv, ~Reuse, NEW t \in Threads, NEW k \in Tasks, Hook(t, k)
    PROVE  /\ status[k] = "new"
           /\ pc[t] = "idle"
           /\ op[t] = "none"
           /\ new[t] = {}
           /\ \A j \in Tasks : \A f \in Instances : ~Has(t, j, f) /\ <<j, f>> \notin todo[t] \cup cur[t]
           /\ \A u \in Threads : u # t =>
                 /\ op'[u] = op[u] /\ arg'[u] = arg[u] /\ pc'[u] = pc[u]
                 /\ todo'[u] = todo[u] /\ cur'[u] = cur[u] /\ new'[u] = new[u]
           /\ op'[t] = "hook"
           /\ arg'[t] = k
           /\ pc'[t] = "monitor"
           /\ todo'[t] = todo[t] /\ cur'[t] = cur[t] /\ new'[t] = new[t]
           /\ \A j \in Tasks : status'[j] = IF j = k THEN "unfinished" ELSE status[j]
           /\ UNCHANGED <<refs, loads, at, elf, enabled, monitor, oneshot>>
  <1>1. Hook(t, k) /\ ~Reuse /\ Types /\ CallInv /\ PlaceInv /\ PairInv /\ SlotInv
    BY DEF EngineInv
  <1>2. /\ status[k] = "new"
        /\ pc[t] = "idle"
    BY <1>1 DEF Hook, Enter, Goto, Types, CallInv, Ways, PairInv, Has
  <1>3. op[t] = "none"
    BY <1>1 DEF Hook, Types, CallInv, Ways, Ops, Enter
  <1>4. /\ new[t] = {}
        /\ \A j \in Tasks : \A f \in Instances : ~Has(t, j, f) /\ <<j, f>> \notin todo[t] \cup cur[t]
    BY <1>1 DEF Hook, Enter, Goto, Types, CallInv, Ways, PairInv, Has
  <1>5. /\ \A u \in Threads : u # t =>
              /\ op'[u] = op[u] /\ arg'[u] = arg[u] /\ pc'[u] = pc[u]
              /\ todo'[u] = todo[u] /\ cur'[u] = cur[u] /\ new'[u] = new[u]
        /\ op'[t] = "hook"
        /\ arg'[t] = k
        /\ pc'[t] = "monitor"
        /\ todo'[t] = todo[t] /\ cur'[t] = cur[t] /\ new'[t] = new[t]
    BY <1>1 DEF Hook, Enter, Goto, Types, linker, chains, engine
  <1>6. /\ \A j \in Tasks : status'[j] = IF j = k THEN "unfinished" ELSE status[j]
        /\ UNCHANGED <<refs, loads, at, elf, enabled, monitor, oneshot>>
    BY <1>1 DEF Hook, Enter, Goto, Types, linker, chains, engine
  <1>7. QED
    BY <1>2, <1>3, <1>4, <1>5, <1>6

\* Hook keeps what UnhookComplete rests on.
LEMMA HookLeaves ==
    ASSUME EngineInv, EngineInv', ~Reuse, SingleFits, UnhookInv,
           NEW t \in Threads, NEW k \in Tasks, Hook(t, k)
    PROVE  UnhookInv'
  <1>1. /\ status[k] = "new"
        /\ pc[t] = "idle"
        /\ op[t] = "none"
        /\ new[t] = {}
        /\ \A j \in Tasks : \A f \in Instances : ~Has(t, j, f) /\ <<j, f>> \notin todo[t] \cup cur[t]
        /\ \A u \in Threads : u # t =>
              /\ op'[u] = op[u] /\ arg'[u] = arg[u] /\ pc'[u] = pc[u]
              /\ todo'[u] = todo[u] /\ cur'[u] = cur[u] /\ new'[u] = new[u]
        /\ op'[t] = "hook"
        /\ arg'[t] = k
        /\ pc'[t] = "monitor"
        /\ todo'[t] = todo[t] /\ cur'[t] = cur[t] /\ new'[t] = new[t]
        /\ \A j \in Tasks : status'[j] = IF j = k THEN "unfinished" ELSE status[j]
        /\ UNCHANGED <<refs, loads, at, elf, enabled, monitor, oneshot>>
    BY HookDoes
  <1>2. OwnInv /\ LeaveInv /\ Types /\ CallInv /\ PlaceInv /\ PairInv /\ SlotInv
    BY DEF UnhookInv, EngineInv
  <1>3. OwnInv'
    <2>1. /\ Listed \subseteq Listed' /\ k \in Listed' /\ k \notin Listed
          /\ \A j \in Tasks : j # k => status'[j] = status[j]
      BY <1>1 DEF Listed
    <2>2. /\ \A u \in Threads : op[u] \in {"hook", "unhook"} => arg[u] \in Tasks
          /\ \A u \in Threads : op[u] = "unhook" => arg[u] # k
          /\ \A u \in Threads : op[u] = "hook" => arg[u] # k
      BY <1>1, <1>2, <2>1 DEF OwnInv, CallInv
    <2>3. \A u \in Threads : u # t /\ op'[u] \in {"hook", "unhook"} => arg'[u] # k
      BY <1>1, <2>2
    <2>4. \A u, v \in Threads :
            op'[u] \in {"hook", "unhook"} /\ op'[v] \in {"hook", "unhook"} /\ arg'[u] = arg'[v] => u = v
      <3>1. SUFFICES ASSUME NEW u \in Threads, NEW v \in Threads, u # v,
                            op'[u] \in {"hook", "unhook"}, op'[v] \in {"hook", "unhook"},
                            arg'[u] = arg'[v]
                     PROVE  FALSE
        OBVIOUS
      <3>2. u # t /\ v # t
        BY <1>1, <2>3, <3>1
      <3>3. QED
        BY <1>1, <1>2, <3>1, <3>2 DEF OwnInv
    <2>5. \A u \in Threads : op'[u] = "hook" => arg'[u] \in Listed'
      BY <1>1, <1>2, <2>1 DEF OwnInv
    <2>6. \A u \in Threads : op'[u] = "unhook" => status'[arg'[u]] = "unhooking"
      BY <1>1, <1>2, <2>1, <2>2 DEF OwnInv
    <2>7. \A u \in Threads : \A j \in Tasks : \A f \in Instances :
            Has(u, j, f)' /\ op'[u] # "unhook" => j \in Listed'
      <3>1. ASSUME NEW u \in Threads, NEW j \in Tasks, NEW f \in Instances, Has(u, j, f)'
            PROVE  u # t /\ Has(u, j, f) /\ op'[u] = op[u]
        BY <1>1, <3>1 DEF Has
      <3>2. QED
        BY <1>2, <2>1, <3>1 DEF OwnInv
    <2>8. QED
      BY <2>4, <2>5, <2>6, <2>7 DEF OwnInv
  <1>4. \A j \in Tasks : \A b \in Instances : j \in enabled'[b] => status'[j] # "new"
    BY <1>1, <1>2 DEF LeaveInv, Types
  <1>5. \A j \in Tasks : \A m \in Loaded' : j \in enabled'[at'[m]] =>
          m \in Match[j] /\ elf'[at'[m]].st = "tree"
    BY <1>1, <1>2, MappedAt DEF LeaveInv, Loaded
  <1>6. \A j \in Tasks : \A m \in Loaded' :
          j \in enabled'[at'[m]] /\ status'[j] \in {"unhooking", "gone"} =>
             \E u \in Threads : Leaving(u, j, at[m])'
    <2>1. \A u \in Threads : \A j \in Tasks : \A b \in Instances : Leaving(u, j, b)' <=> Leaving(u, j, b)
      BY <1>1, <1>2 DEF Leaving
    <2>2. QED
      BY <1>1, <1>2, <2>1, MappedAt DEF LeaveInv, Loaded
  <1>7. QED
    BY <1>3, <1>4, <1>5, <1>6 DEF UnhookInv, LeaveInv

\* Hook keeps what HookedEverywhere rests on.
LEMMA HookMeets ==
    ASSUME EngineInv, EngineInv', ~Reuse, SingleFits, SingleOnce, UnhookInv, HookInv,
           NEW t \in Threads, NEW k \in Tasks, Hook(t, k)
    PROVE  HookInv'
  <1>1. /\ status[k] = "new"
        /\ pc[t] = "idle"
        /\ op[t] = "none"
        /\ new[t] = {}
        /\ \A j \in Tasks : \A f \in Instances : ~Has(t, j, f) /\ <<j, f>> \notin todo[t] \cup cur[t]
        /\ \A u \in Threads : u # t =>
              /\ op'[u] = op[u] /\ arg'[u] = arg[u] /\ pc'[u] = pc[u]
              /\ todo'[u] = todo[u] /\ cur'[u] = cur[u] /\ new'[u] = new[u]
        /\ op'[t] = "hook"
        /\ arg'[t] = k
        /\ pc'[t] = "monitor"
        /\ todo'[t] = todo[t] /\ cur'[t] = cur[t] /\ new'[t] = new[t]
        /\ \A j \in Tasks : status'[j] = IF j = k THEN "unfinished" ELSE status[j]
        /\ UNCHANGED <<refs, loads, at, elf, enabled, monitor, oneshot>>
    BY HookDoes
  <1>2. OwnInv /\ MonitorInv /\ SingleInv /\ CfiInv /\ MeetInv /\ Types /\ CallInv /\ PlaceInv /\ PairInv
    BY DEF UnhookInv, HookInv, EngineInv
  <1>3. monitor' \in {"off", "init", "open", "on"}
    BY <1>1, <1>2 DEF MonitorInv
  <1>4. oneshot' \in Threads \cup {"no", "done"}
    BY <1>1, <1>2 DEF MonitorInv
  <1>5. \A u \in Threads : op'[u] \in {"open", "close"} => monitor' \in {"open", "on"}
    BY <1>1, <1>2 DEF MonitorInv
  <1>6. \A u \in Threads : pc'[u] \in {"initopen", "initclose"} => oneshot' # "no"
    BY <1>1, <1>2 DEF MonitorInv
  <1>7. oneshot' = "no" => monitor' \in {"off", "init"} /\ Tree' = {}
    BY <1>1, <1>2 DEF MonitorInv, Tree
  <1>8. oneshot' = "no" => \A j \in Listed' : \E u \in Threads :
          op'[u] = "hook" /\ arg'[u] = j /\ pc'[u] \in {"monitor", "init", "oneshot"}
    <2>1. SUFFICES ASSUME oneshot = "no", NEW j \in Listed'
                   PROVE  \E u \in Threads : op'[u] = "hook" /\ arg'[u] = j /\ pc'[u] \in {"monitor", "init", "oneshot"}
      BY <1>1
    <2>2. CASE j = k
      BY <1>1, <2>2
    <2>3. CASE j # k
      <3>1. j \in Listed
        BY <1>1, <2>1, <2>3 DEF Listed
      <3>2. QED
        BY <1>1, <1>2, <2>1, <3>1 DEF MonitorInv
    <2>4. QED
      BY <2>2, <2>3
  <1>9. SingleInv'
    BY <1>1, <1>2 DEF SingleInv
  <1>10. CfiInv'
    BY <1>1, <1>2 DEF CfiInv, Mapped, Loaded
  <1>11. \A m \in Libs : loads'[m] <= MaxLoads
    BY <1>1, <1>2 DEF MeetInv
  <1>12. \A f \in Tree' : \A j \in Listed' :
          Mapped(f)' /\ Path(f) \in Match[j] \ Brittle /\ elf'[f].by # "close" =>
             j \in enabled'[f] \/ \E u \in Threads : Coming(u, j, f)'
    <2>1. \A u \in Threads : \A j \in Tasks : \A f \in Instances : Coming(u, j, f) => Coming(u, j, f)'
      BY <1>1 DEF Coming
    <2>2. \A f \in Instances : Coming(t, k, f)'
      BY <1>1 DEF Coming
    <2>3. \A j \in Listed' : j = k \/ j \in Listed
      BY <1>1 DEF Listed
    <2>4. QED
      BY <1>1, <1>2, <2>1, <2>2, <2>3 DEF MeetInv, Tree, Listed, Mapped, Loaded
  <1>13. QED
    BY <1>3, <1>4, <1>5, <1>6, <1>7, <1>8, <1>9, <1>10, <1>11, <1>12 DEF HookInv, MonitorInv, MeetInv

\* What a step of Unhook leaves in the tables, value by value.
LEMMA UnhookDoes ==
    ASSUME EngineInv, ~Reuse, NEW t \in Threads, NEW k \in Tasks, Unhook(t, k)
    PROVE  /\ k \in Listed
           /\ \A u \in Threads : arg[u] # k
           /\ \A u \in Threads : ~(pc[u] = "meet" /\ op[u] = "open")
           /\ pc[t] = "idle"
           /\ op[t] = "none"
           /\ new[t] = {}
           /\ \A j \in Tasks : \A f \in Instances : ~Has(t, j, f) /\ <<j, f>> \notin todo[t] \cup cur[t]
           /\ \A u \in Threads : u # t =>
                 /\ op'[u] = op[u] /\ arg'[u] = arg[u] /\ pc'[u] = pc[u]
                 /\ todo'[u] = todo[u] /\ cur'[u] = cur[u] /\ new'[u] = new[u]
           /\ op'[t] = "unhook"
           /\ arg'[t] = k
           /\ pc'[t] = "start"
           /\ todo'[t] = todo[t] /\ cur'[t] = cur[t] /\ new'[t] = new[t]
           /\ \A j \in Tasks : status'[j] = IF j = k THEN "unhooking" ELSE status[j]
           /\ UNCHANGED <<refs, loads, at, elf, enabled, monitor, oneshot>>
  <1>1. Unhook(t, k) /\ ~Reuse /\ Types /\ CallInv /\ PlaceInv /\ PairInv /\ SlotInv
    BY DEF EngineInv
  <1>2. /\ k \in Listed
        /\ \A u \in Threads : arg[u] # k
        /\ \A u \in Threads : ~(pc[u] = "meet" /\ op[u] = "open")
        /\ pc[t] = "idle"
    BY <1>1 DEF Unhook, Enter, Goto, CanChangeList, ListReaders, Types, CallInv, Ways, PairInv, Has
  <1>3. op[t] = "none"
    BY <1>1 DEF Unhook, Types, CallInv, Ways, Ops, Enter
  <1>4. /\ new[t] = {}
        /\ \A j \in Tasks : \A f \in Instances : ~Has(t, j, f) /\ <<j, f>> \notin todo[t] \cup cur[t]
    BY <1>1 DEF Unhook, Enter, Goto, CanChangeList, ListReaders, Types, CallInv, Ways, PairInv, Has
  <1>5. /\ \A u \in Threads : u # t =>
              /\ op'[u] = op[u] /\ arg'[u] = arg[u] /\ pc'[u] = pc[u]
              /\ todo'[u] = todo[u] /\ cur'[u] = cur[u] /\ new'[u] = new[u]
        /\ op'[t] = "unhook"
        /\ arg'[t] = k
        /\ pc'[t] = "start"
        /\ todo'[t] = todo[t] /\ cur'[t] = cur[t] /\ new'[t] = new[t]
    BY <1>1 DEF Unhook, Enter, Goto, CanChangeList, ListReaders, Types, linker, chains, engine
  <1>6. /\ \A j \in Tasks : status'[j] = IF j = k THEN "unhooking" ELSE status[j]
        /\ UNCHANGED <<refs, loads, at, elf, enabled, monitor, oneshot>>
    BY <1>1 DEF Unhook, Enter, Goto, CanChangeList, ListReaders, Types, linker, chains, engine
  <1>7. QED
    BY <1>2, <1>3, <1>4, <1>5, <1>6

\* Unhook keeps what UnhookComplete rests on.
LEMMA UnhookLeaves ==
    ASSUME EngineInv, EngineInv', ~Reuse, SingleFits, UnhookInv,
           NEW t \in Threads, NEW k \in Tasks, Unhook(t, k)
    PROVE  UnhookInv'
  <1>1. /\ k \in Listed
        /\ \A u \in Threads : arg[u] # k
        /\ \A u \in Threads : ~(pc[u] = "meet" /\ op[u] = "open")
        /\ pc[t] = "idle"
        /\ op[t] = "none"
        /\ new[t] = {}
        /\ \A j \in Tasks : \A f \in Instances : ~Has(t, j, f) /\ <<j, f>> \notin todo[t] \cup cur[t]
        /\ \A u \in Threads : u # t =>
              /\ op'[u] = op[u] /\ arg'[u] = arg[u] /\ pc'[u] = pc[u]
              /\ todo'[u] = todo[u] /\ cur'[u] = cur[u] /\ new'[u] = new[u]
        /\ op'[t] = "unhook"
        /\ arg'[t] = k
        /\ pc'[t] = "start"
        /\ todo'[t] = todo[t] /\ cur'[t] = cur[t] /\ new'[t] = new[t]
        /\ \A j \in Tasks : status'[j] = IF j = k THEN "unhooking" ELSE status[j]
        /\ UNCHANGED <<refs, loads, at, elf, enabled, monitor, oneshot>>
    BY UnhookDoes
  <1>2. OwnInv /\ LeaveInv /\ Types /\ CallInv /\ PlaceInv /\ PairInv /\ SlotInv
    BY DEF UnhookInv, EngineInv
  <1>3. \A u, v \in Threads :
          op'[u] \in {"hook", "unhook"} /\ op'[v] \in {"hook", "unhook"} /\ arg'[u] = arg'[v] => u = v
    BY <1>1, <1>2 DEF OwnInv, Listed, Types
  <1>4. \A u \in Threads : op'[u] = "hook" => arg'[u] \in Listed'
    BY <1>1, <1>2 DEF OwnInv, Listed, Types
  <1>5. \A u \in Threads : op'[u] = "unhook" => status'[arg'[u]] = "unhooking"
    BY <1>1, <1>2 DEF OwnInv, Listed, Types, CallInv
  <1>6. \A u \in Threads : \A j \in Tasks : \A f \in Instances :
          Has(u, j, f)' /\ op'[u] # "unhook" => j \in Listed'
    <2>1. TAKE u \in Threads
    <2>2. TAKE j \in Tasks
    <2>3. TAKE f \in Instances
    <2>4. HAVE Has(u, j, f)' /\ op'[u] # "unhook"
    <2>5. u # t /\ Has(u, j, f) /\ op[u] # "unhook"
      BY <1>1, <2>4 DEF Has
    <2>6. j \in Listed
      BY <1>2, <2>5 DEF OwnInv
    <2>7. j # k
      BY <1>1, <1>2, <2>5 DEF PairInv
    <2>8. QED
      BY <1>1, <2>6, <2>7 DEF Listed
  <1>7. \A j \in Tasks : \A b \in Instances : j \in enabled'[b] => status'[j] # "new"
    BY <1>1, <1>2 DEF LeaveInv, Types
  <1>8. \A j \in Tasks : \A m \in Loaded' : j \in enabled'[at'[m]] =>
          m \in Match[j] /\ elf'[at'[m]].st = "tree"
    BY <1>1, <1>2 DEF LeaveInv, Loaded, Types
  <1>9. \A j \in Tasks : \A m \in Loaded' :
          j \in enabled'[at'[m]] /\ status'[j] \in {"unhooking", "gone"} =>
             \E u \in Threads : Leaving(u, j, at[m])'
    <2>1. TAKE j \in Tasks
    <2>2. TAKE m \in Loaded'
    <2>3. HAVE j \in enabled'[at'[m]] /\ status'[j] \in {"unhooking", "gone"}
    <2>4. CASE j = k
      BY <1>1, <2>4 DEF Leaving
    <2>5. CASE j # k
      <3>1. PICK u \in Threads : Leaving(u, j, at[m])
        BY <1>1, <1>2, <2>3, <2>5 DEF LeaveInv, Loaded
      <3>2. u # t
        BY <1>1, <3>1 DEF Leaving
      <3>3. Leaving(u, j, at[m])'
        BY <1>1, <3>1, <3>2 DEF Leaving
      <3>4. QED
        BY <3>3
    <2>6. QED
      BY <2>4, <2>5
  <1>10. QED
    BY <1>3, <1>4, <1>5, <1>6, <1>7, <1>8, <1>9 DEF UnhookInv, OwnInv, LeaveInv

\* Unhook keeps what HookedEverywhere rests on.
LEMMA UnhookMeets ==
    ASSUME EngineInv, EngineInv', ~Reuse, SingleFits, SingleOnce, UnhookInv, HookInv,
           NEW t \in Threads, NEW k \in Tasks, Unhook(t, k)
    PROVE  HookInv'
  <1>1. /\ k \in Listed
        /\ \A u \in Threads : arg[u] # k
        /\ \A u \in Threads : ~(pc[u] = "meet" /\ op[u] = "open")
        /\ pc[t] = "idle"
        /\ op[t] = "none"
        /\ new[t] = {}
        /\ \A j \in Tasks : \A f \in Instances : ~Has(t, j, f) /\ <<j, f>> \notin todo[t] \cup cur[t]
        /\ \A u \in Threads : u # t =>
              /\ op'[u] = op[u] /\ arg'[u] = arg[u] /\ pc'[u] = pc[u]
              /\ todo'[u] = todo[u] /\ cur'[u] = cur[u] /\ new'[u] = new[u]
        /\ op'[t] = "unhook"
        /\ arg'[t] = k
        /\ pc'[t] = "start"
        /\ todo'[t] = todo[t] /\ cur'[t] = cur[t] /\ new'[t] = new[t]
        /\ \A j \in Tasks : status'[j] = IF j = k THEN "unhooking" ELSE status[j]
        /\ UNCHANGED <<refs, loads, at, elf, enabled, monitor, oneshot>>
    BY UnhookDoes
  <1>2. OwnInv /\ MonitorInv /\ SingleInv /\ CfiInv /\ MeetInv /\ Types /\ CallInv /\ PlaceInv /\ PairInv
    BY DEF UnhookInv, HookInv, EngineInv
  <1>3. MonitorInv'
    BY <1>1, <1>2 DEF MonitorInv, Tree, Listed
  <1>4. SingleInv'
    BY <1>1, <1>2 DEF SingleInv
  <1>5. CfiInv'
    BY <1>1, <1>2 DEF CfiInv, Mapped, Loaded
  <1>6. \A m \in Libs : loads'[m] <= MaxLoads
    BY <1>1, <1>2 DEF MeetInv
  <1>7. \A f \in Tree' : \A j \in Listed' :
          Mapped(f)' /\ Path(f) \in Match[j] \ Brittle /\ elf'[f].by # "close" =>
             j \in enabled'[f] \/ \E u \in Threads : Coming(u, j, f)'
    <2>1. \A u \in Threads : \A j \in Tasks : \A f \in Instances : Coming(u, j, f) => Coming(u, j, f)'
      BY <1>1, <1>2 DEF Coming
    <2>2. QED
      BY <1>1, <1>2, <2>1 DEF MeetInv, Tree, Listed, Mapped, Loaded
  <1>8. QED
    BY <1>3, <1>4, <1>5, <1>6, <1>7 DEF HookInv, MeetInv

\* What a step of TestMonitor leaves in the tables, value by value.
LEMMA TestMonitorDoes ==
    ASSUME EngineInv, ~Reuse, NEW t \in Threads, TestMonitor(t)
    PROVE  /\ op[t] = "hook"
           /\ pc[t] = "monitor"
           /\ new[t] = {}
           /\ \A j \in Tasks : \A f \in Instances : ~Has(t, j, f) /\ <<j, f>> \notin todo[t] \cup cur[t]
           /\ \A u \in Threads : u # t =>
                 /\ op'[u] = op[u] /\ arg'[u] = arg[u] /\ pc'[u] = pc[u]
                 /\ todo'[u] = todo[u] /\ cur'[u] = cur[u] /\ new'[u] = new[u]
           /\ pc'[t] \in {"init", "oneshot", "start"}
           /\ op'[t] = op[t] /\ arg'[t] = arg[t] /\ todo'[t] = todo[t] /\ cur'[t] = cur[t] /\ new'[t] = new[t]
           /\ \/ monitor = "off" /\ monitor' = "init" /\ pc'[t] = "init"
              \/ monitor \in {"init", "open"} /\ monitor' = monitor /\ pc'[t] = "oneshot"
              \/ monitor = "on" /\ monitor' = monitor /\ pc'[t] = "start"
           /\ UNCHANGED <<refs, loads, at, elf, enabled, status, oneshot>>
  <1>1. TestMonitor(t) /\ ~Reuse /\ Types /\ CallInv /\ PlaceInv /\ PairInv /\ SlotInv
    BY DEF EngineInv
  <1>2. op[t] = "hook"
    BY <1>1 DEF TestMonitor, Types, CallInv, Ways, Ops
  <1>3. /\ pc[t] = "monitor"
        /\ new[t] = {}
        /\ \A j \in Tasks : \A f \in Instances : ~Has(t, j, f) /\ <<j, f>> \notin todo[t] \cup cur[t]
    BY <1>1 DEF TestMonitor, Goto, Types, CallInv, Ways, PairInv, Has
  <1>4. /\ \A u \in Threads : u # t =>
              /\ op'[u] = op[u] /\ arg'[u] = arg[u] /\ pc'[u] = pc[u]
              /\ todo'[u] = todo[u] /\ cur'[u] = cur[u] /\ new'[u] = new[u]
        /\ pc'[t] \in {"init", "oneshot", "start"}
        /\ op'[t] = op[t] /\ arg'[t] = arg[t] /\ todo'[t] = todo[t] /\ cur'[t] = cur[t] /\ new'[t] = new[t]
    BY <1>1 DEF TestMonitor, Goto, Types, linker, chains, engine
  <1>5. \/ monitor = "off" /\ monitor' = "init" /\ pc'[t] = "init"
        \/ monitor \in {"init", "open"} /\ monitor' = monitor /\ pc'[t] = "oneshot"
        \/ monitor = "on" /\ monitor' = monitor /\ pc'[t] = "start"
    <2>1. monitor = "off" /\ monitor' = "init" /\ pc' = [pc EXCEPT ![t] = "init"] =>
            monitor = "off" /\ monitor' = "init" /\ pc'[t] = "init"
      BY <1>1 DEF Types
    <2>2. QED
      BY <1>1, <2>1 DEF TestMonitor, Goto, Types
  <1>6. UNCHANGED <<refs, loads, at, elf, enabled, status, oneshot>>
    BY <1>1 DEF TestMonitor, Goto, Types, linker, chains, engine
  <1>7. QED
    BY <1>2, <1>3, <1>4, <1>5, <1>6

\* TestMonitor keeps what UnhookComplete rests on.
LEMMA TestMonitorLeaves ==
    ASSUME EngineInv, EngineInv', ~Reuse, SingleFits, UnhookInv,
           NEW t \in Threads, TestMonitor(t)
    PROVE  UnhookInv'
  <1>1. /\ op[t] = "hook"
        /\ pc[t] = "monitor"
        /\ new[t] = {}
        /\ \A j \in Tasks : \A f \in Instances : ~Has(t, j, f) /\ <<j, f>> \notin todo[t] \cup cur[t]
        /\ \A u \in Threads : u # t =>
              /\ op'[u] = op[u] /\ arg'[u] = arg[u] /\ pc'[u] = pc[u]
              /\ todo'[u] = todo[u] /\ cur'[u] = cur[u] /\ new'[u] = new[u]
        /\ pc'[t] \in {"init", "oneshot", "start"}
        /\ op'[t] = op[t] /\ arg'[t] = arg[t] /\ todo'[t] = todo[t] /\ cur'[t] = cur[t] /\ new'[t] = new[t]
        /\ \/ monitor = "off" /\ monitor' = "init" /\ pc'[t] = "init"
           \/ monitor \in {"init", "open"} /\ monitor' = monitor /\ pc'[t] = "oneshot"
           \/ monitor = "on" /\ monitor' = monitor /\ pc'[t] = "start"
        /\ UNCHANGED <<refs, loads, at, elf, enabled, status, oneshot>>
    BY TestMonitorDoes
  <1>2. OwnInv /\ LeaveInv /\ Types /\ CallInv /\ PlaceInv /\ PairInv /\ SlotInv
    BY DEF UnhookInv, EngineInv
  <1>3. OwnInv'
    <2>1. \A u \in Threads : op[u] \in {"hook", "unhook"} => arg[u] \in Tasks
      BY <1>2 DEF CallInv
    <2>2. /\ Listed \subseteq Listed'
          /\ \A j \in Tasks : status[j] = "unhooking" => status'[j] = "unhooking"
      BY <1>1 DEF Listed
    <2>3. \A u \in Threads : \A j \in Tasks : \A f \in Instances :
            Has(u, j, f)' /\ op'[u] # "unhook" => Has(u, j, f) /\ op[u] # "unhook"
      BY <1>1 DEF Has
    <2>4. QED
      BY <1>1, <1>2, <2>1, <2>2, <2>3, OwnKept
  <1>4. \A j \in Tasks : \A b \in Instances : j \in enabled'[b] => status'[j] # "new"
    BY <1>1, <1>2 DEF LeaveInv
  <1>5. \A j \in Tasks : \A m \in Loaded' : j \in enabled'[at'[m]] =>
          m \in Match[j] /\ elf'[at'[m]].st = "tree"
    BY <1>1, <1>2, MappedAt DEF LeaveInv, Loaded
  <1>6. \A j \in Tasks : \A m \in Loaded' :
          j \in enabled'[at'[m]] /\ status'[j] \in {"unhooking", "gone"} =>
             \E u \in Threads : Leaving(u, j, at[m])'
    <2>1. \A u \in Threads : \A j \in Tasks : \A b \in Instances : Leaving(u, j, b)' <=> Leaving(u, j, b)
      BY <1>1, <1>2 DEF Leaving
    <2>2. QED
      BY <1>1, <1>2, <2>1, MappedAt DEF LeaveInv, Loaded
  <1>7. QED
    BY <1>3, <1>4, <1>5, <1>6 DEF UnhookInv, LeaveInv

\* TestMonitor keeps what HookedEverywhere rests on.
LEMMA TestMonitorMeets ==
    ASSUME EngineInv, EngineInv', ~Reuse, SingleFits, SingleOnce, UnhookInv, HookInv,
           NEW t \in Threads, TestMonitor(t)
    PROVE  HookInv'
  <1>1. /\ op[t] = "hook"
        /\ pc[t] = "monitor"
        /\ new[t] = {}
        /\ \A j \in Tasks : \A f \in Instances : ~Has(t, j, f) /\ <<j, f>> \notin todo[t] \cup cur[t]
        /\ \A u \in Threads : u # t =>
              /\ op'[u] = op[u] /\ arg'[u] = arg[u] /\ pc'[u] = pc[u]
              /\ todo'[u] = todo[u] /\ cur'[u] = cur[u] /\ new'[u] = new[u]
        /\ pc'[t] \in {"init", "oneshot", "start"}
        /\ op'[t] = op[t] /\ arg'[t] = arg[t] /\ todo'[t] = todo[t] /\ cur'[t] = cur[t] /\ new'[t] = new[t]
        /\ \/ monitor = "off" /\ monitor' = "init" /\ pc'[t] = "init"
           \/ monitor \in {"init", "open"} /\ monitor' = monitor /\ pc'[t] = "oneshot"
           \/ monitor = "on" /\ monitor' = monitor /\ pc'[t] = "start"
        /\ UNCHANGED <<refs, loads, at, elf, enabled, status, oneshot>>
    BY TestMonitorDoes
  <1>2. OwnInv /\ MonitorInv /\ SingleInv /\ CfiInv /\ MeetInv /\ Types /\ CallInv /\ PlaceInv /\ PairInv
    BY DEF UnhookInv, HookInv, EngineInv
  <1>3. MonitorInv'
    BY <1>1, <1>2 DEF MonitorInv, Tree, Listed
  <1>4. SingleInv'
    BY <1>1, <1>2 DEF SingleInv
  <1>5. CfiInv'
    BY <1>1, <1>2 DEF CfiInv, Mapped, Loaded
  <1>6. \A m \in Libs : loads'[m] <= MaxLoads
    BY <1>1, <1>2 DEF MeetInv
  <1>7. \A f \in Tree' : \A j \in Listed' :
          Mapped(f)' /\ Path(f) \in Match[j] \ Brittle /\ elf'[f].by # "close" =>
             j \in enabled'[f] \/ \E u \in Threads : Coming(u, j, f)'
    <2>1. \A u \in Threads : \A j \in Tasks : \A f \in Instances : Coming(u, j, f) => Coming(u, j, f)'
      BY <1>1, <1>2 DEF Coming
    <2>2. QED
      BY <1>1, <1>2, <2>1 DEF MeetInv, Tree, Listed, Mapped, Loaded
  <1>8. QED
    BY <1>3, <1>4, <1>5, <1>6, <1>7 DEF HookInv, MeetInv

\* What a step of InitRefresh leaves in the tables, value by value.
LEMMA InitRefreshDoes ==
    ASSUME EngineInv, ~Reuse, NEW t \in Threads, InitRefresh(t)
    PROVE  /\ op[t] = "hook"
           /\ pc[t] = "init"
           /\ new[t] = {}
           /\ \A j \in Tasks : \A f \in Instances : ~Has(t, j, f) /\ <<j, f>> \notin todo[t] \cup cur[t]
           /\ \A u \in Threads : u # t =>
                 /\ op'[u] = op[u] /\ arg'[u] = arg[u] /\ pc'[u] = pc[u]
                 /\ todo'[u] = todo[u] /\ cur'[u] = cur[u] /\ new'[u] = new[u]
           /\ pc'[t] \in {"initopen"}
           /\ op'[t] = op[t] /\ arg'[t] = arg[t] /\ todo'[t] = todo[t] /\ cur'[t] = cur[t] /\ new'[t] = new[t]
           /\ \/ oneshot = "no" /\ oneshot' = t /\ elf' = Refreshed("oneshot")
              \/ oneshot = "done" /\ oneshot' = oneshot /\ elf' = elf
           /\ UNCHANGED <<refs, loads, at, enabled, status, monitor>>
  <1>1. InitRefresh(t) /\ ~Reuse /\ Types /\ CallInv /\ PlaceInv /\ PairInv /\ SlotInv
    BY DEF EngineInv
  <1>2. op[t] = "hook"
    BY <1>1 DEF InitRefresh, Types, CallInv, Ways, Ops
  <1>3. /\ pc[t] = "init"
        /\ new[t] = {}
        /\ \A j \in Tasks : \A f \in Instances : ~Has(t, j, f) /\ <<j, f>> \notin todo[t] \cup cur[t]
    BY <1>1 DEF InitRefresh, Goto, Types, CallInv, Ways, PairInv, Has
  <1>4. /\ \A u \in Threads : u # t =>
              /\ op'[u] = op[u] /\ arg'[u] = arg[u] /\ pc'[u] = pc[u]
              /\ todo'[u] = todo[u] /\ cur'[u] = cur[u] /\ new'[u] = new[u]
        /\ pc'[t] \in {"initopen"}
        /\ op'[t] = op[t] /\ arg'[t] = arg[t] /\ todo'[t] = todo[t] /\ cur'[t] = cur[t] /\ new'[t] = new[t]
    BY <1>1 DEF InitRefresh, Goto, Types, linker, chains, engine
  <1>5. \/ oneshot = "no" /\ oneshot' = t /\ elf' = Refreshed("oneshot")
        \/ oneshot = "done" /\ oneshot' = oneshot /\ elf' = elf
    BY <1>1 DEF InitRefresh
  <1>6. UNCHANGED <<refs, loads, at, enabled, status, monitor>>
    BY <1>1 DEF InitRefresh, Goto, Types, linker, chains, engine
  <1>7. QED
    BY <1>2, <1>3, <1>4, <1>5, <1>6

\* InitRefresh keeps what UnhookComplete rests on.
LEMMA InitRefreshLeaves ==
    ASSUME EngineInv, EngineInv', ~Reuse, SingleFits, UnhookInv,
           NEW t \in Threads, InitRefresh(t)
    PROVE  UnhookInv'
  <1>1. /\ op[t] = "hook"
        /\ pc[t] = "init"
        /\ new[t] = {}
        /\ \A j \in Tasks : \A f \in Instances : ~Has(t, j, f) /\ <<j, f>> \notin todo[t] \cup cur[t]
        /\ \A u \in Threads : u # t =>
              /\ op'[u] = op[u] /\ arg'[u] = arg[u] /\ pc'[u] = pc[u]
              /\ todo'[u] = todo[u] /\ cur'[u] = cur[u] /\ new'[u] = new[u]
        /\ pc'[t] \in {"initopen"}
        /\ op'[t] = op[t] /\ arg'[t] = arg[t] /\ todo'[t] = todo[t] /\ cur'[t] = cur[t] /\ new'[t] = new[t]
        /\ \/ oneshot = "no" /\ oneshot' = t /\ elf' = Refreshed("oneshot")
           \/ oneshot = "done" /\ oneshot' = oneshot /\ elf' = elf
        /\ UNCHANGED <<refs, loads, at, enabled, status, monitor>>
    BY InitRefreshDoes
  <1>2. OwnInv /\ LeaveInv /\ Types /\ CallInv /\ PlaceInv /\ PairInv /\ SlotInv
    BY DEF UnhookInv, EngineInv
  <1>3. \A m \in Loaded : elf[at[m]].st = "tree" => elf'[at[m]].st = "tree"
    BY <1>1, <1>2, RefreshKeeps
  <1>4. \A u, v \in Threads :
          op'[u] \in {"hook", "unhook"} /\ op'[v] \in {"hook", "unhook"} /\ arg'[u] = arg'[v] => u = v
    BY <1>1, <1>2, <1>3 DEF OwnInv, Listed
  <1>5. \A u \in Threads : op'[u] = "hook" => arg'[u] \in Listed'
    BY <1>1, <1>2, <1>3 DEF OwnInv, Listed, Types
  <1>6. \A u \in Threads : op'[u] = "unhook" => status'[arg'[u]] = "unhooking"
    BY <1>1, <1>2, <1>3 DEF OwnInv, Listed, CallInv
  <1>7. \A u \in Threads : \A j \in Tasks : \A f \in Instances :
          Has(u, j, f)' /\ op'[u] # "unhook" => j \in Listed'
    BY <1>1, <1>2, <1>3 DEF OwnInv, Listed, Has
  <1>8. \A j \in Tasks : \A b \in Instances : j \in enabled'[b] => status'[j] # "new"
    BY <1>1, <1>2, <1>3 DEF LeaveInv
  <1>9. \A j \in Tasks : \A m \in Loaded' : j \in enabled'[at'[m]] =>
          m \in Match[j] /\ elf'[at'[m]].st = "tree"
    BY <1>1, <1>2, <1>3, MappedAt DEF LeaveInv, Loaded
  <1>10. \A j \in Tasks : \A m \in Loaded' :
          j \in enabled'[at'[m]] /\ status'[j] \in {"unhooking", "gone"} =>
             \E u \in Threads : Leaving(u, j, at[m])'
    <2>1. \A u \in Threads : \A j \in Tasks : \A b \in Instances : Leaving(u, j, b)' <=> Leaving(u, j, b)
      BY <1>1, <1>2, <1>3 DEF Leaving
    <2>2. QED
      BY <1>1, <1>2, <1>3, <2>1, MappedAt DEF LeaveInv, Loaded
  <1>11. QED
    BY <1>4, <1>5, <1>6, <1>7, <1>8, <1>9, <1>10 DEF UnhookInv, OwnInv, LeaveInv

\* InitRefresh keeps what HookedEverywhere rests on.
LEMMA InitRefreshMeets ==
    ASSUME EngineInv, EngineInv', ~Reuse, SingleFits, SingleOnce, UnhookInv, HookInv,
           NEW t \in Threads, InitRefresh(t)
    PROVE  HookInv'
  <1>1. /\ op[t] = "hook"
        /\ pc[t] = "init"
        /\ new[t] = {}
        /\ \A j \in Tasks : \A f \in Instances : ~Has(t, j, f) /\ <<j, f>> \notin todo[t] \cup cur[t]
        /\ \A u \in Threads : u # t =>
              /\ op'[u] = op[u] /\ arg'[u] = arg[u] /\ pc'[u] = pc[u]
              /\ todo'[u] = todo[u] /\ cur'[u] = cur[u] /\ new'[u] = new[u]
        /\ pc'[t] \in {"initopen"}
        /\ op'[t] = op[t] /\ arg'[t] = arg[t] /\ todo'[t] = todo[t] /\ cur'[t] = cur[t] /\ new'[t] = new[t]
        /\ \/ oneshot = "no" /\ oneshot' = t /\ elf' = Refreshed("oneshot")
           \/ oneshot = "done" /\ oneshot' = oneshot /\ elf' = elf
        /\ UNCHANGED <<refs, loads, at, enabled, status, monitor>>
    BY InitRefreshDoes
  <1>2. OwnInv /\ MonitorInv /\ SingleInv /\ CfiInv /\ MeetInv /\ Types /\ CallInv /\ PlaceInv /\ PairInv
    BY DEF UnhookInv, HookInv, EngineInv
  <1>3. oneshot = "no" => \A f \in Instances :
           /\ elf'[f].st = "tree" => (f \in Born /\ elf'[f].by = "oneshot" /\ elf'[f].at = f) \/ (f \in Tree /\ elf'[f] = elf[f])
           /\ elf'[f].st = "none" => elf'[f].cfi = "unknown"
           /\ elf'[f].cfi = "failed" => elf[f].cfi = "failed" /\ elf'[f].at = elf[f].at
    BY <1>1, <1>2, RefreshSeen
  <1>4. monitor' \in {"off", "init", "open", "on"}
    BY <1>1, <1>2, <1>3 DEF MonitorInv
  <1>5. oneshot' \in Threads \cup {"no", "done"}
    BY <1>1, <1>2, <1>3 DEF MonitorInv
  <1>6. \A u \in Threads : op'[u] \in {"open", "close"} => monitor' \in {"open", "on"}
    BY <1>1, <1>2, <1>3 DEF MonitorInv
  <1>7. \A u \in Threads : pc'[u] \in {"initopen", "initclose"} => oneshot' # "no"
    <2>1. oneshot' # "no"
      BY <1>1, ThreadsType
    <2>2. QED
      BY <2>1
  <1>8. oneshot' = "no" => monitor' \in {"off", "init"} /\ Tree' = {}
    <2>1. oneshot' # "no"
      BY <1>1, ThreadsType
    <2>2. QED
      BY <2>1
  <1>9. oneshot' = "no" => \A j \in Listed' : \E u \in Threads :
          op'[u] = "hook" /\ arg'[u] = j /\ pc'[u] \in {"monitor", "init", "oneshot"}
    <2>1. oneshot' # "no"
      BY <1>1, ThreadsType
    <2>2. QED
      BY <2>1
  <1>10. SingleInv'
    BY <1>1, <1>2, <1>3 DEF SingleInv
  <1>11. CfiInv'
    BY <1>1, <1>2, <1>3 DEF CfiInv, Mapped, Loaded
  <1>12. \A m \in Libs : loads'[m] <= MaxLoads
    BY <1>1, <1>2, <1>3 DEF MeetInv
  <1>13. \A f \in Tree' : \A j \in Listed' :
          Mapped(f)' /\ Path(f) \in Match[j] \ Brittle /\ elf'[f].by # "close" =>
             j \in enabled'[f] \/ \E u \in Threads : Coming(u, j, f)'
    <2>1. SUFFICES ASSUME NEW f \in Tree', NEW j \in Listed', Mapped(f)', Path(f) \in Match[j] \ Brittle,
                          elf'[f].by # "close"
                   PROVE  j \in enabled'[f] \/ \E u \in Threads : Coming(u, j, f)'
      OBVIOUS
    <2>2. j \in Listed /\ j \in Tasks /\ f \in Instances /\ elf'[f].st = "tree"
      BY <1>1, <2>1 DEF Listed, Tree
    <2>3. CASE oneshot = "no"
      <3>1. PICK u \in Threads : op[u] = "hook" /\ arg[u] = j /\ pc[u] \in {"monitor", "init", "oneshot"}
        BY <1>2, <2>2, <2>3 DEF MonitorInv
      <3>2. Coming(u, j, f)'
        BY <1>1, <3>1 DEF Coming
      <3>3. QED
        BY <3>2
    <2>4. CASE oneshot = "done"
      <3>1. f \in Tree
        BY <1>1, <2>2, <2>4, ThreadsType DEF Tree
      <3>2. Mapped(f)
        BY <1>1, <2>1, <2>4, <3>1 DEF Mapped, Loaded
      <3>3. j \in enabled[f] \/ \E u \in Threads : Coming(u, j, f)
        BY <1>1, <1>2, <2>1, <2>2, <2>4, <3>1, <3>2 DEF MeetInv
      <3>4. \A u \in Threads : Coming(u, j, f) => Coming(u, j, f)'
        BY <1>1, <2>4, <3>1 DEF Coming
      <3>5. QED
        BY <1>1, <3>3, <3>4
    <2>5. QED
      BY <1>1, <2>3, <2>4
  <1>14. QED
    BY <1>4, <1>5, <1>6, <1>7, <1>8, <1>9, <1>10, <1>11, <1>12, <1>13 DEF HookInv, MonitorInv, MeetInv

\* What a step of InitOpen leaves in the tables, value by value.
LEMMA InitOpenDoes ==
    ASSUME EngineInv, ~Reuse, NEW t \in Threads, InitOpen(t)
    PROVE  /\ op[t] = "hook"
           /\ pc[t] = "initopen"
           /\ new[t] = {}
           /\ \A j \in Tasks : \A f \in Instances : ~Has(t, j, f) /\ <<j, f>> \notin todo[t] \cup cur[t]
           /\ \A u \in Threads : u # t =>
                 /\ op'[u] = op[u] /\ arg'[u] = arg[u] /\ pc'[u] = pc[u]
                 /\ todo'[u] = todo[u] /\ cur'[u] = cur[u] /\ new'[u] = new[u]
           /\ pc'[t] \in {"initclose"}
           /\ op'[t] = op[t] /\ arg'[t] = arg[t] /\ todo'[t] = todo[t] /\ cur'[t] = cur[t] /\ new'[t] = new[t]
           /\ monitor' = "open"
           /\ oneshot' \in {"done", oneshot}
           /\ UNCHANGED <<refs, loads, at, elf, enabled, status>>
  <1>1. InitOpen(t) /\ ~Reuse /\ Types /\ CallInv /\ PlaceInv /\ PairInv /\ SlotInv
    BY DEF EngineInv
  <1>2. op[t] = "hook"
    BY <1>1 DEF InitOpen, Types, CallInv, Ways, Ops
  <1>3. /\ pc[t] = "initopen"
        /\ new[t] = {}
        /\ \A j \in Tasks : \A f \in Instances : ~Has(t, j, f) /\ <<j, f>> \notin todo[t] \cup cur[t]
    BY <1>1 DEF InitOpen, Goto, Types, CallInv, Ways, PairInv, Has
  <1>4. /\ \A u \in Threads : u # t =>
              /\ op'[u] = op[u] /\ arg'[u] = arg[u] /\ pc'[u] = pc[u]
              /\ todo'[u] = todo[u] /\ cur'[u] = cur[u] /\ new'[u] = new[u]
        /\ pc'[t] \in {"initclose"}
        /\ op'[t] = op[t] /\ arg'[t] = arg[t] /\ todo'[t] = todo[t] /\ cur'[t] = cur[t] /\ new'[t] = new[t]
    BY <1>1 DEF InitOpen, Goto, Types, linker, chains, engine
  <1>5. /\ monitor' = "open"
        /\ oneshot' \in {"done", oneshot}
        /\ UNCHANGED <<refs, loads, at, elf, enabled, status>>
    BY <1>1 DEF InitOpen, Goto, Types, linker, chains, engine
  <1>6. QED
    BY <1>2, <1>3, <1>4, <1>5

\* InitOpen keeps what UnhookComplete rests on.
LEMMA InitOpenLeaves ==
    ASSUME EngineInv, EngineInv', ~Reuse, SingleFits, UnhookInv,
           NEW t \in Threads, InitOpen(t)
    PROVE  UnhookInv'
  <1>1. /\ op[t] = "hook"
        /\ pc[t] = "initopen"
        /\ new[t] = {}
        /\ \A j \in Tasks : \A f \in Instances : ~Has(t, j, f) /\ <<j, f>> \notin todo[t] \cup cur[t]
        /\ \A u \in Threads : u # t =>
              /\ op'[u] = op[u] /\ arg'[u] = arg[u] /\ pc'[u] = pc[u]
              /\ todo'[u] = todo[u] /\ cur'[u] = cur[u] /\ new'[u] = new[u]
        /\ pc'[t] \in {"initclose"}
        /\ op'[t] = op[t] /\ arg'[t] = arg[t] /\ todo'[t] = todo[t] /\ cur'[t] = cur[t] /\ new'[t] = new[t]
        /\ monitor' = "open"
        /\ oneshot' \in {"done", oneshot}
        /\ UNCHANGED <<refs, loads, at, elf, enabled, status>>
    BY InitOpenDoes
  <1>2. OwnInv /\ LeaveInv /\ Types /\ CallInv /\ PlaceInv /\ PairInv /\ SlotInv
    BY DEF UnhookInv, EngineInv
  <1>3. OwnInv'
    <2>1. \A u \in Threads : op[u] \in {"hook", "unhook"} => arg[u] \in Tasks
      BY <1>2 DEF CallInv
    <2>2. /\ Listed \subseteq Listed'
          /\ \A j \in Tasks : status[j] = "unhooking" => status'[j] = "unhooking"
      BY <1>1 DEF Listed
    <2>3. \A u \in Threads : \A j \in Tasks : \A f \in Instances :
            Has(u, j, f)' /\ op'[u] # "unhook" => Has(u, j, f) /\ op[u] # "unhook"
      BY <1>1 DEF Has
    <2>4. QED
      BY <1>1, <1>2, <2>1, <2>2, <2>3, OwnKept
  <1>4. \A j \in Tasks : \A b \in Instances : j \in enabled'[b] => status'[j] # "new"
    BY <1>1, <1>2 DEF LeaveInv
  <1>5. \A j \in Tasks : \A m \in Loaded' : j \in enabled'[at'[m]] =>
          m \in Match[j] /\ elf'[at'[m]].st = "tree"
    BY <1>1, <1>2, MappedAt DEF LeaveInv, Loaded
  <1>6. \A j \in Tasks : \A m \in Loaded' :
          j \in enabled'[at'[m]] /\ status'[j] \in {"unhooking", "gone"} =>
             \E u \in Threads : Leaving(u, j, at[m])'
    <2>1. \A u \in Threads : \A j \in Tasks : \A b \in Instances : Leaving(u, j, b)' <=> Leaving(u, j, b)
      BY <1>1, <1>2 DEF Leaving
    <2>2. QED
      BY <1>1, <1>2, <2>1, MappedAt DEF LeaveInv, Loaded
  <1>7. QED
    BY <1>3, <1>4, <1>5, <1>6 DEF UnhookInv, LeaveInv

\* InitOpen keeps what HookedEverywhere rests on.
LEMMA InitOpenMeets ==
    ASSUME EngineInv, EngineInv', ~Reuse, SingleFits, SingleOnce, UnhookInv, HookInv,
           NEW t \in Threads, InitOpen(t)
    PROVE  HookInv'
  <1>1. /\ op[t] = "hook"
        /\ pc[t] = "initopen"
        /\ new[t] = {}
        /\ \A j \in Tasks : \A f \in Instances : ~Has(t, j, f) /\ <<j, f>> \notin todo[t] \cup cur[t]
        /\ \A u \in Threads : u # t =>
              /\ op'[u] = op[u] /\ arg'[u] = arg[u] /\ pc'[u] = pc[u]
              /\ todo'[u] = todo[u] /\ cur'[u] = cur[u] /\ new'[u] = new[u]
        /\ pc'[t] \in {"initclose"}
        /\ op'[t] = op[t] /\ arg'[t] = arg[t] /\ todo'[t] = todo[t] /\ cur'[t] = cur[t] /\ new'[t] = new[t]
        /\ monitor' = "open"
        /\ oneshot' \in {"done", oneshot}
        /\ UNCHANGED <<refs, loads, at, elf, enabled, status>>
    BY InitOpenDoes
  <1>2. OwnInv /\ MonitorInv /\ SingleInv /\ CfiInv /\ MeetInv /\ Types /\ CallInv /\ PlaceInv /\ PairInv
    BY DEF UnhookInv, HookInv, EngineInv
  <1>3. MonitorInv'
    BY <1>1, <1>2 DEF MonitorInv, Tree, Listed
  <1>4. SingleInv'
    BY <1>1, <1>2 DEF SingleInv
  <1>5. CfiInv'
    BY <1>1, <1>2 DEF CfiInv, Mapped, Loaded
  <1>6. \A m \in Libs : loads'[m] <= MaxLoads
    BY <1>1, <1>2 DEF MeetInv
  <1>7. \A f \in Tree' : \A j \in Listed' :
          Mapped(f)' /\ Path(f) \in Match[j] \ Brittle /\ elf'[f].by # "close" =>
             j \in enabled'[f] \/ \E u \in Threads : Coming(u, j, f)'
    <2>1. \A u \in Threads : \A j \in Tasks : \A f \in Instances : Coming(u, j, f) => Coming(u, j, f)'
      BY <1>1, <1>2 DEF Coming
    <2>2. QED
      BY <1>1, <1>2, <2>1 DEF MeetInv, Tree, Listed, Mapped, Loaded
  <1>8. QED
    BY <1>3, <1>4, <1>5, <1>6, <1>7 DEF HookInv, MeetInv

\* What a step of InitClose leaves in the tables, value by value.
LEMMA InitCloseDoes ==
    ASSUME EngineInv, ~Reuse, NEW t \in Threads, InitClose(t)
    PROVE  /\ op[t] = "hook"
           /\ pc[t] = "initclose"
           /\ new[t] = {}
           /\ \A j \in Tasks : \A f \in Instances : ~Has(t, j, f) /\ <<j, f>> \notin todo[t] \cup cur[t]
           /\ \A u \in Threads : u # t =>
                 /\ op'[u] = op[u] /\ arg'[u] = arg[u] /\ pc'[u] = pc[u]
                 /\ todo'[u] = todo[u] /\ cur'[u] = cur[u] /\ new'[u] = new[u]
           /\ pc'[t] \in {"start"}
           /\ op'[t] = op[t] /\ arg'[t] = arg[t] /\ todo'[t] = todo[t] /\ cur'[t] = cur[t] /\ new'[t] = new[t]
           /\ monitor' = "on"
           /\ UNCHANGED <<refs, loads, at, elf, enabled, status, oneshot>>
  <1>1. InitClose(t) /\ ~Reuse /\ Types /\ CallInv /\ PlaceInv /\ PairInv /\ SlotInv
    BY DEF EngineInv
  <1>2. op[t] = "hook"
    BY <1>1 DEF InitClose, Types, CallInv, Ways, Ops
  <1>3. /\ pc[t] = "initclose"
        /\ new[t] = {}
        /\ \A j \in Tasks : \A f \in Instances : ~Has(t, j, f) /\ <<j, f>> \notin todo[t] \cup cur[t]
    BY <1>1 DEF InitClose, Goto, Types, CallInv, Ways, PairInv, Has
  <1>4. /\ \A u \in Threads : u # t =>
              /\ op'[u] = op[u] /\ arg'[u] = arg[u] /\ pc'[u] = pc[u]
              /\ todo'[u] = todo[u] /\ cur'[u] = cur[u] /\ new'[u] = new[u]
        /\ pc'[t] \in {"start"}
        /\ op'[t] = op[t] /\ arg'[t] = arg[t] /\ todo'[t] = todo[t] /\ cur'[t] = cur[t] /\ new'[t] = new[t]
    BY <1>1 DEF InitClose, Goto, Types, linker, chains, engine
  <1>5. /\ monitor' = "on"
        /\ UNCHANGED <<refs, loads, at, elf, enabled, status, oneshot>>
    BY <1>1 DEF InitClose, Goto, Types, linker, chains, engine
  <1>6. QED
    BY <1>2, <1>3, <1>4, <1>5

\* InitClose keeps what UnhookComplete rests on.
LEMMA InitCloseLeaves ==
    ASSUME EngineInv, EngineInv', ~Reuse, SingleFits, UnhookInv,
           NEW t \in Threads, InitClose(t)
    PROVE  UnhookInv'
  <1>1. /\ op[t] = "hook"
        /\ pc[t] = "initclose"
        /\ new[t] = {}
        /\ \A j \in Tasks : \A f \in Instances : ~Has(t, j, f) /\ <<j, f>> \notin todo[t] \cup cur[t]
        /\ \A u \in Threads : u # t =>
              /\ op'[u] = op[u] /\ arg'[u] = arg[u] /\ pc'[u] = pc[u]
              /\ todo'[u] = todo[u] /\ cur'[u] = cur[u] /\ new'[u] = new[u]
        /\ pc'[t] \in {"start"}
        /\ op'[t] = op[t] /\ arg'[t] = arg[t] /\ todo'[t] = todo[t] /\ cur'[t] = cur[t] /\ new'[t] = new[t]
        /\ monitor' = "on"
        /\ UNCHANGED <<refs, loads, at, elf, enabled, status, oneshot>>
    BY InitCloseDoes
  <1>2. OwnInv /\ LeaveInv /\ Types /\ CallInv /\ PlaceInv /\ PairInv /\ SlotInv
    BY DEF UnhookInv, EngineInv
  <1>3. OwnInv'
    <2>1. \A u \in Threads : op[u] \in {"hook", "unhook"} => arg[u] \in Tasks
      BY <1>2 DEF CallInv
    <2>2. /\ Listed \subseteq Listed'
          /\ \A j \in Tasks : status[j] = "unhooking" => status'[j] = "unhooking"
      BY <1>1 DEF Listed
    <2>3. \A u \in Threads : \A j \in Tasks : \A f \in Instances :
            Has(u, j, f)' /\ op'[u] # "unhook" => Has(u, j, f) /\ op[u] # "unhook"
      BY <1>1 DEF Has
    <2>4. QED
      BY <1>1, <1>2, <2>1, <2>2, <2>3, OwnKept
  <1>4. \A j \in Tasks : \A b \in Instances : j \in enabled'[b] => status'[j] # "new"
    BY <1>1, <1>2 DEF LeaveInv
  <1>5. \A j \in Tasks : \A m \in Loaded' : j \in enabled'[at'[m]] =>
          m \in Match[j] /\ elf'[at'[m]].st = "tree"
    BY <1>1, <1>2, MappedAt DEF LeaveInv, Loaded
  <1>6. \A j \in Tasks : \A m \in Loaded' :
          j \in enabled'[at'[m]] /\ status'[j] \in {"unhooking", "gone"} =>
             \E u \in Threads : Leaving(u, j, at[m])'
    <2>1. \A u \in Threads : \A j \in Tasks : \A b \in Instances : Leaving(u, j, b)' <=> Leaving(u, j, b)
      BY <1>1, <1>2 DEF Leaving
    <2>2. QED
      BY <1>1, <1>2, <2>1, MappedAt DEF LeaveInv, Loaded
  <1>7. QED
    BY <1>3, <1>4, <1>5, <1>6 DEF UnhookInv, LeaveInv

\* InitClose keeps what HookedEverywhere rests on.
LEMMA InitCloseMeets ==
    ASSUME EngineInv, EngineInv', ~Reuse, SingleFits, SingleOnce, UnhookInv, HookInv,
           NEW t \in Threads, InitClose(t)
    PROVE  HookInv'
  <1>1. /\ op[t] = "hook"
        /\ pc[t] = "initclose"
        /\ new[t] = {}
        /\ \A j \in Tasks : \A f \in Instances : ~Has(t, j, f) /\ <<j, f>> \notin todo[t] \cup cur[t]
        /\ \A u \in Threads : u # t =>
              /\ op'[u] = op[u] /\ arg'[u] = arg[u] /\ pc'[u] = pc[u]
              /\ todo'[u] = todo[u] /\ cur'[u] = cur[u] /\ new'[u] = new[u]
        /\ pc'[t] \in {"start"}
        /\ op'[t] = op[t] /\ arg'[t] = arg[t] /\ todo'[t] = todo[t] /\ cur'[t] = cur[t] /\ new'[t] = new[t]
        /\ monitor' = "on"
        /\ UNCHANGED <<refs, loads, at, elf, enabled, status, oneshot>>
    BY InitCloseDoes
  <1>2. OwnInv /\ MonitorInv /\ SingleInv /\ CfiInv /\ MeetInv /\ Types /\ CallInv /\ PlaceInv /\ PairInv
    BY DEF UnhookInv, HookInv, EngineInv
  <1>3. MonitorInv'
    BY <1>1, <1>2 DEF MonitorInv, Tree, Listed
  <1>4. SingleInv'
    BY <1>1, <1>2 DEF SingleInv
  <1>5. CfiInv'
    BY <1>1, <1>2 DEF CfiInv, Mapped, Loaded
  <1>6. \A m \in Libs : loads'[m] <= MaxLoads
    BY <1>1, <1>2 DEF MeetInv
  <1>7. \A f \in Tree' : \A j \in Listed' :
          Mapped(f)' /\ Path(f) \in Match[j] \ Brittle /\ elf'[f].by # "close" =>
             j \in enabled'[f] \/ \E u \in Threads : Coming(u, j, f)'
    <2>1. \A u \in Threads : \A j \in Tasks : \A f \in Instances : Coming(u, j, f) => Coming(u, j, f)'
      BY <1>1, <1>2 DEF Coming
    <2>2. QED
      BY <1>1, <1>2, <2>1 DEF MeetInv, Tree, Listed, Mapped, Loaded
  <1>8. QED
    BY <1>3, <1>4, <1>5, <1>6, <1>7 DEF HookInv, MeetInv

\* What a step of Oneshot leaves in the tables, value by value.
LEMMA OneshotDoes ==
    ASSUME EngineInv, ~Reuse, NEW t \in Threads, Oneshot(t)
    PROVE  /\ op[t] = "hook"
           /\ pc[t] = "oneshot"
           /\ new[t] = {}
           /\ \A j \in Tasks : \A f \in Instances : ~Has(t, j, f) /\ <<j, f>> \notin todo[t] \cup cur[t]
           /\ \A u \in Threads : u # t =>
                 /\ op'[u] = op[u] /\ arg'[u] = arg[u] /\ pc'[u] = pc[u]
                 /\ todo'[u] = todo[u] /\ cur'[u] = cur[u] /\ new'[u] = new[u]
           /\ pc'[t] \in {"meet", "start"}
           /\ op'[t] = op[t] /\ arg'[t] = arg[t] /\ cur'[t] = cur[t] /\ new'[t] = new[t]
           /\ \/ /\ oneshot = "no" /\ oneshot' = t /\ elf' = Refreshed("oneshot") /\ pc'[t] = "meet"
                 /\ \E es \in Targets(arg[t], {f \in Instances : elf'[f].st = "tree"}) : todo'[t] = {arg[t]} \X es
              \/ oneshot = "done" /\ oneshot' = oneshot /\ elf' = elf /\ todo' = todo /\ pc'[t] = "start"
           /\ UNCHANGED <<refs, loads, at, enabled, status, monitor>>
  <1>1. Oneshot(t) /\ ~Reuse /\ Types /\ CallInv /\ PlaceInv /\ PairInv /\ SlotInv
    BY DEF EngineInv
  <1>2. op[t] = "hook"
    BY <1>1 DEF Oneshot, Types, CallInv, Ways, Ops
  <1>3. /\ pc[t] = "oneshot"
        /\ new[t] = {}
        /\ \A j \in Tasks : \A f \in Instances : ~Has(t, j, f) /\ <<j, f>> \notin todo[t] \cup cur[t]
    BY <1>1 DEF Oneshot, Goto, Types, CallInv, Ways, PairInv, Has
  <1>4. /\ \A u \in Threads : u # t =>
              /\ op'[u] = op[u] /\ arg'[u] = arg[u] /\ pc'[u] = pc[u]
              /\ todo'[u] = todo[u] /\ cur'[u] = cur[u] /\ new'[u] = new[u]
        /\ pc'[t] \in {"meet", "start"}
        /\ op'[t] = op[t] /\ arg'[t] = arg[t] /\ cur'[t] = cur[t] /\ new'[t] = new[t]
    BY <1>1 DEF Oneshot, Goto, Types, linker, chains, engine
  <1>5. \/ /\ oneshot = "no" /\ oneshot' = t /\ elf' = Refreshed("oneshot") /\ pc'[t] = "meet"
           /\ \E es \in Targets(arg[t], {f \in Instances : elf'[f].st = "tree"}) : todo'[t] = {arg[t]} \X es
        \/ oneshot = "done" /\ oneshot' = oneshot /\ elf' = elf /\ todo' = todo /\ pc'[t] = "start"
    <2>1. CASE oneshot = "no"
      <3>1. /\ oneshot' = t /\ elf' = Refreshed("oneshot") /\ pc' = [pc EXCEPT ![t] = "meet"]
            /\ \E es \in Targets(arg[t], {f \in Instances : elf'[f].st = "tree"}) :
                  todo' = [todo EXCEPT ![t] = {arg[t]} \X es]
        BY <1>1, <2>1 DEF Oneshot, Goto
      <3>2. pc'[t] = "meet"
        BY <1>1, <3>1 DEF Types
      <3>3. \E es \in Targets(arg[t], {f \in Instances : elf'[f].st = "tree"}) : todo'[t] = {arg[t]} \X es
        BY <1>1, <3>1 DEF Types
      <3>4. QED
        BY <2>1, <3>1, <3>2, <3>3
    <2>2. CASE oneshot = "done"
      <3>1. UNCHANGED <<oneshot, elf, todo>> /\ pc' = [pc EXCEPT ![t] = "start"]
        BY <1>1, <2>2 DEF Oneshot, Goto
      <3>2. pc'[t] = "start"
        BY <1>1, <3>1 DEF Types
      <3>3. QED
        BY <2>2, <3>1, <3>2
    <2>3. QED
      BY <1>1, <2>1, <2>2 DEF Oneshot
  <1>6. UNCHANGED <<refs, loads, at, enabled, status, monitor>>
    BY <1>1 DEF Oneshot, Goto, Types, linker, chains, engine
  <1>7. QED
    BY <1>2, <1>3, <1>4, <1>5, <1>6

\* Oneshot keeps what UnhookComplete rests on.
LEMMA OneshotLeaves ==
    ASSUME EngineInv, EngineInv', ~Reuse, SingleFits, UnhookInv,
           NEW t \in Threads, Oneshot(t)
    PROVE  UnhookInv'
  <1>1. /\ op[t] = "hook"
        /\ pc[t] = "oneshot"
        /\ new[t] = {}
        /\ \A j \in Tasks : \A f \in Instances : ~Has(t, j, f) /\ <<j, f>> \notin todo[t] \cup cur[t]
        /\ \A u \in Threads : u # t =>
              /\ op'[u] = op[u] /\ arg'[u] = arg[u] /\ pc'[u] = pc[u]
              /\ todo'[u] = todo[u] /\ cur'[u] = cur[u] /\ new'[u] = new[u]
        /\ pc'[t] \in {"meet", "start"}
        /\ op'[t] = op[t] /\ arg'[t] = arg[t] /\ cur'[t] = cur[t] /\ new'[t] = new[t]
        /\ \/ /\ oneshot = "no" /\ oneshot' = t /\ elf' = Refreshed("oneshot") /\ pc'[t] = "meet"
              /\ \E es \in Targets(arg[t], {f \in Instances : elf'[f].st = "tree"}) : todo'[t] = {arg[t]} \X es
           \/ oneshot = "done" /\ oneshot' = oneshot /\ elf' = elf /\ todo' = todo /\ pc'[t] = "start"
        /\ UNCHANGED <<refs, loads, at, enabled, status, monitor>>
    BY OneshotDoes
  <1>2. OwnInv /\ LeaveInv /\ Types /\ CallInv /\ PlaceInv /\ PairInv /\ SlotInv
    BY DEF UnhookInv, EngineInv
  <1>3. \A m \in Loaded : elf[at[m]].st = "tree" => elf'[at[m]].st = "tree"
    BY <1>1, <1>2, RefreshKeeps
  <1>4. \A u, v \in Threads :
          op'[u] \in {"hook", "unhook"} /\ op'[v] \in {"hook", "unhook"} /\ arg'[u] = arg'[v] => u = v
    BY <1>1, <1>2, <1>3 DEF OwnInv, Listed
  <1>5. \A u \in Threads : op'[u] = "hook" => arg'[u] \in Listed'
    BY <1>1, <1>2, <1>3 DEF OwnInv, Listed, Types
  <1>6. \A u \in Threads : op'[u] = "unhook" => status'[arg'[u]] = "unhooking"
    BY <1>1, <1>2, <1>3 DEF OwnInv, Listed, CallInv
  <1>7. \A u \in Threads : \A j \in Tasks : \A f \in Instances :
          Has(u, j, f)' /\ op'[u] # "unhook" => j \in Listed'
    <2>1. arg[t] \in Listed
      BY <1>1, <1>2 DEF OwnInv
    <2>2. \A j \in Tasks : \A f \in Instances : Has(t, j, f)' => j = arg[t]
      <3>1. \A j \in Tasks : \A f \in Instances : <<j, f>> \notin cur'[t] /\ <<j, f>> \notin todo[t]
        BY <1>1
      <3>2. CASE todo' = todo
        BY <3>1, <3>2 DEF Has
      <3>3. CASE \E es \in Targets(arg[t], {f \in Instances : elf'[f].st = "tree"}) : todo'[t] = {arg[t]} \X es
        BY <3>1, <3>3 DEF Has
      <3>4. QED
        BY <1>1, <3>2, <3>3
    <2>3. \A u \in Threads : \A j \in Tasks : \A f \in Instances : u # t => (Has(u, j, f)' <=> Has(u, j, f))
      BY <1>1 DEF Has
    <2>4. QED
      BY <1>1, <1>2, <2>1, <2>2, <2>3 DEF OwnInv, Listed
  <1>8. \A j \in Tasks : \A b \in Instances : j \in enabled'[b] => status'[j] # "new"
    BY <1>1, <1>2, <1>3 DEF LeaveInv
  <1>9. \A j \in Tasks : \A m \in Loaded' : j \in enabled'[at'[m]] =>
          m \in Match[j] /\ elf'[at'[m]].st = "tree"
    BY <1>1, <1>2, <1>3, MappedAt DEF LeaveInv, Loaded
  <1>10. \A j \in Tasks : \A m \in Loaded' :
          j \in enabled'[at'[m]] /\ status'[j] \in {"unhooking", "gone"} =>
             \E u \in Threads : Leaving(u, j, at[m])'
    <2>1. \A u \in Threads : \A j \in Tasks : \A b \in Instances : Leaving(u, j, b)' <=> Leaving(u, j, b)
      BY <1>1, <1>2, <1>3 DEF Leaving
    <2>2. QED
      BY <1>1, <1>2, <1>3, <2>1, MappedAt DEF LeaveInv, Loaded
  <1>11. QED
    BY <1>4, <1>5, <1>6, <1>7, <1>8, <1>9, <1>10 DEF UnhookInv, OwnInv, LeaveInv

\* Oneshot keeps what HookedEverywhere rests on.
LEMMA OneshotMeets ==
    ASSUME EngineInv, EngineInv', ~Reuse, SingleFits, SingleOnce, UnhookInv, HookInv,
           NEW t \in Threads, Oneshot(t)
    PROVE  HookInv'
  <1>1. /\ op[t] = "hook"
        /\ pc[t] = "oneshot"
        /\ new[t] = {}
        /\ \A j \in Tasks : \A f \in Instances : ~Has(t, j, f) /\ <<j, f>> \notin todo[t] \cup cur[t]
        /\ \A u \in Threads : u # t =>
              /\ op'[u] = op[u] /\ arg'[u] = arg[u] /\ pc'[u] = pc[u]
              /\ todo'[u] = todo[u] /\ cur'[u] = cur[u] /\ new'[u] = new[u]
        /\ pc'[t] \in {"meet", "start"}
        /\ op'[t] = op[t] /\ arg'[t] = arg[t] /\ cur'[t] = cur[t] /\ new'[t] = new[t]
        /\ \/ /\ oneshot = "no" /\ oneshot' = t /\ elf' = Refreshed("oneshot") /\ pc'[t] = "meet"
              /\ \E es \in Targets(arg[t], {f \in Instances : elf'[f].st = "tree"}) : todo'[t] = {arg[t]} \X es
           \/ oneshot = "done" /\ oneshot' = oneshot /\ elf' = elf /\ todo' = todo /\ pc'[t] = "start"
        /\ UNCHANGED <<refs, loads, at, enabled, status, monitor>>
    BY OneshotDoes
  <1>2. OwnInv /\ MonitorInv /\ SingleInv /\ CfiInv /\ MeetInv /\ Types /\ CallInv /\ PlaceInv /\ PairInv
    BY DEF UnhookInv, HookInv, EngineInv
  <1>3. oneshot = "no" => \A f \in Instances :
           /\ elf'[f].st = "tree" => (f \in Born /\ elf'[f].by = "oneshot" /\ elf'[f].at = f) \/ (f \in Tree /\ elf'[f] = elf[f])
           /\ elf'[f].st = "none" => elf'[f].cfi = "unknown"
           /\ elf'[f].cfi = "failed" => elf[f].cfi = "failed" /\ elf'[f].at = elf[f].at
    BY <1>1, <1>2, RefreshSeen
  <1>4. monitor' \in {"off", "init", "open", "on"}
    BY <1>1, <1>2, <1>3 DEF MonitorInv
  <1>5. oneshot' \in Threads \cup {"no", "done"}
    BY <1>1, <1>2, <1>3 DEF MonitorInv
  <1>6. \A u \in Threads : op'[u] \in {"open", "close"} => monitor' \in {"open", "on"}
    BY <1>1, <1>2, <1>3 DEF MonitorInv
  <1>7. \A u \in Threads : pc'[u] \in {"initopen", "initclose"} => oneshot' # "no"
    <2>1. oneshot' # "no"
      BY <1>1, ThreadsType
    <2>2. QED
      BY <2>1
  <1>8. oneshot' = "no" => monitor' \in {"off", "init"} /\ Tree' = {}
    <2>1. oneshot' # "no"
      BY <1>1, ThreadsType
    <2>2. QED
      BY <2>1
  <1>9. oneshot' = "no" => \A j \in Listed' : \E u \in Threads :
          op'[u] = "hook" /\ arg'[u] = j /\ pc'[u] \in {"monitor", "init", "oneshot"}
    <2>1. oneshot' # "no"
      BY <1>1, ThreadsType
    <2>2. QED
      BY <2>1
  <1>10. SingleInv'
    BY <1>1, <1>2, <1>3 DEF SingleInv
  <1>11. CfiInv'
    BY <1>1, <1>2, <1>3 DEF CfiInv, Mapped, Loaded
  <1>12. \A m \in Libs : loads'[m] <= MaxLoads
    BY <1>1, <1>2, <1>3 DEF MeetInv
  <1>13. \A f \in Tree' : \A j \in Listed' :
          Mapped(f)' /\ Path(f) \in Match[j] \ Brittle /\ elf'[f].by # "close" =>
             j \in enabled'[f] \/ \E u \in Threads : Coming(u, j, f)'
    <2>1. SUFFICES ASSUME NEW f \in Tree', NEW j \in Listed', Mapped(f)', Path(f) \in Match[j] \ Brittle,
                          elf'[f].by # "close"
                   PROVE  j \in enabled'[f] \/ \E u \in Threads : Coming(u, j, f)'
      OBVIOUS
    <2>2. j \in Listed /\ j \in Tasks /\ f \in Instances /\ elf'[f].st = "tree"
      BY <1>1, <2>1 DEF Listed, Tree
    <2>3. CASE oneshot = "no"
      <3>1. PICK u \in Threads : op[u] = "hook" /\ arg[u] = j /\ pc[u] \in {"monitor", "init", "oneshot"}
        BY <1>2, <2>2, <2>3 DEF MonitorInv
      <3>2. CASE u # t
        <4>1. Coming(u, j, f)'
          BY <1>1, <3>1, <3>2 DEF Coming
        <4>2. QED
          BY <4>1
      <3>3. CASE u = t
        <4>1. PICK es \in Targets(j, {g \in Instances : elf'[g].st = "tree"}) : todo'[t] = {j} \X es
          BY <1>1, <2>3, <3>1, <3>3
        <4>2. \A g, h \in {g \in Instances : elf'[g].st = "tree"} : Path(g) = Path(h) => g = h
          BY DEF EngineInv, PlaceInv, Tree
        <4>3. f \in es
          BY <2>1, <2>2, <4>1, <4>2, AllTargets
        <4>4. Coming(t, j, f)'
          BY <1>1, <4>1, <4>3 DEF Coming
        <4>5. QED
          BY <4>4
      <3>4. QED
        BY <3>2, <3>3
    <2>4. CASE oneshot = "done"
      <3>1. f \in Tree
        BY <1>1, <2>2, <2>4, ThreadsType DEF Tree
      <3>2. Mapped(f)
        BY <1>1, <2>1, <2>4, <3>1 DEF Mapped, Loaded
      <3>3. j \in enabled[f] \/ \E u \in Threads : Coming(u, j, f)
        BY <1>1, <1>2, <2>1, <2>2, <2>4, <3>1, <3>2 DEF MeetInv
      <3>4. \A u \in Threads : Coming(u, j, f) => Coming(u, j, f)'
        BY <1>1, <2>4, <3>1 DEF Coming
      <3>5. QED
        BY <1>1, <3>3, <3>4
    <2>5. QED
      BY <1>1, <2>3, <2>4
  <1>14. QED
    BY <1>4, <1>5, <1>6, <1>7, <1>8, <1>9, <1>10, <1>11, <1>12, <1>13 DEF HookInv, MonitorInv, MeetInv

\* What a step of Start leaves in the tables, value by value.
LEMMA StartDoes ==
    ASSUME EngineInv, ~Reuse, NEW t \in Threads, Start(t)
    PROVE  /\ op[t] \in {"hook", "unhook"}
           /\ pc[t] = "start"
           /\ new[t] = {}
           /\ \A j \in Tasks : \A f \in Instances : ~Has(t, j, f) /\ <<j, f>> \notin todo[t] \cup cur[t]
           /\ \A u \in Threads : u # t =>
                 /\ op'[u] = op[u] /\ arg'[u] = arg[u] /\ pc'[u] = pc[u]
                 /\ todo'[u] = todo[u] /\ cur'[u] = cur[u] /\ new'[u] = new[u]
           /\ pc'[t] \in {"meet"}
           /\ \E es \in Targets(arg[t], Tree) :
                 todo'[t] = IF Finished(arg[t]) THEN {} ELSE {arg[t]} \X es
           /\ op'[t] = op[t] /\ arg'[t] = arg[t] /\ cur'[t] = cur[t] /\ new'[t] = new[t]
           /\ UNCHANGED <<refs, loads, at, elf, enabled, status, monitor, oneshot>>
  <1>1. Start(t) /\ ~Reuse /\ Types /\ CallInv /\ PlaceInv /\ PairInv /\ SlotInv
    BY DEF EngineInv
  <1>2. op[t] \in {"hook", "unhook"}
    BY <1>1 DEF Start, Types, CallInv, Ways, Ops
  <1>3. /\ pc[t] = "start"
        /\ new[t] = {}
        /\ \A j \in Tasks : \A f \in Instances : ~Has(t, j, f) /\ <<j, f>> \notin todo[t] \cup cur[t]
    BY <1>1 DEF Start, Goto, Types, CallInv, Ways, PairInv, Has
  <1>4. /\ \A u \in Threads : u # t =>
              /\ op'[u] = op[u] /\ arg'[u] = arg[u] /\ pc'[u] = pc[u]
              /\ todo'[u] = todo[u] /\ cur'[u] = cur[u] /\ new'[u] = new[u]
        /\ pc'[t] \in {"meet"}
        /\ \E es \in Targets(arg[t], Tree) :
              todo'[t] = IF Finished(arg[t]) THEN {} ELSE {arg[t]} \X es
        /\ op'[t] = op[t] /\ arg'[t] = arg[t] /\ cur'[t] = cur[t] /\ new'[t] = new[t]
    BY <1>1 DEF Start, Goto, Types, linker, chains, engine
  <1>5. UNCHANGED <<refs, loads, at, elf, enabled, status, monitor, oneshot>>
    BY <1>1 DEF Start, Goto, Types, linker, chains, engine
  <1>6. QED
    BY <1>2, <1>3, <1>4, <1>5

\* Start keeps what UnhookComplete rests on.
LEMMA StartLeaves ==
    ASSUME EngineInv, EngineInv', ~Reuse, SingleFits, UnhookInv,
           NEW t \in Threads, Start(t)
    PROVE  UnhookInv'
  <1>1. /\ op[t] \in {"hook", "unhook"}
        /\ pc[t] = "start"
        /\ new[t] = {}
        /\ \A j \in Tasks : \A f \in Instances : ~Has(t, j, f) /\ <<j, f>> \notin todo[t] \cup cur[t]
        /\ \A u \in Threads : u # t =>
              /\ op'[u] = op[u] /\ arg'[u] = arg[u] /\ pc'[u] = pc[u]
              /\ todo'[u] = todo[u] /\ cur'[u] = cur[u] /\ new'[u] = new[u]
        /\ pc'[t] \in {"meet"}
        /\ \E es \in Targets(arg[t], Tree) :
              todo'[t] = IF Finished(arg[t]) THEN {} ELSE {arg[t]} \X es
        /\ op'[t] = op[t] /\ arg'[t] = arg[t] /\ cur'[t] = cur[t] /\ new'[t] = new[t]
        /\ UNCHANGED <<refs, loads, at, elf, enabled, status, monitor, oneshot>>
    BY StartDoes
  <1>2. OwnInv /\ LeaveInv /\ Types /\ CallInv /\ PlaceInv /\ PairInv /\ SlotInv
    BY DEF UnhookInv, EngineInv
  <1>3. \A u, v \in Threads :
          op'[u] \in {"hook", "unhook"} /\ op'[v] \in {"hook", "unhook"} /\ arg'[u] = arg'[v] => u = v
    BY <1>1, <1>2 DEF OwnInv, Listed
  <1>4. \A u \in Threads : op'[u] = "hook" => arg'[u] \in Listed'
    BY <1>1, <1>2 DEF OwnInv, Listed, Types
  <1>5. \A u \in Threads : op'[u] = "unhook" => status'[arg'[u]] = "unhooking"
    BY <1>1, <1>2 DEF OwnInv, Listed, CallInv
  <1>6. \A u \in Threads : \A j \in Tasks : \A f \in Instances :
          Has(u, j, f)' /\ op'[u] # "unhook" => j \in Listed'
    BY <1>1, <1>2 DEF OwnInv, Listed, Has
  <1>7. \A j \in Tasks : \A b \in Instances : j \in enabled'[b] => status'[j] # "new"
    BY <1>1, <1>2 DEF LeaveInv
  <1>8. \A j \in Tasks : \A m \in Loaded' : j \in enabled'[at'[m]] =>
          m \in Match[j] /\ elf'[at'[m]].st = "tree"
    BY <1>1, <1>2 DEF LeaveInv, Loaded
  <1>9. \A j \in Tasks : \A m \in Loaded' :
          j \in enabled'[at'[m]] /\ status'[j] \in {"unhooking", "gone"} =>
             \E u \in Threads : Leaving(u, j, at[m])'
    <2>1. TAKE j \in Tasks
    <2>2. TAKE m \in Loaded'
    <2>3. HAVE j \in enabled'[at'[m]] /\ status'[j] \in {"unhooking", "gone"}
    <2>4. PICK u \in Threads : Leaving(u, j, at[m])
      BY <1>1, <1>2, <2>3 DEF LeaveInv, Loaded
    <2>5. CASE u # t
      <3>1. Leaving(u, j, at[m])'
        BY <1>1, <2>4, <2>5 DEF Leaving
      <3>2. QED
        BY <3>1
    <2>6. CASE u = t
      <3>1. op[t] = "unhook" /\ arg[t] = j /\ ~Finished(j)
        BY <1>2, <2>4, <2>6 DEF Leaving, OwnInv, Finished
      <3>2. PICK es \in Targets(j, Tree) : todo'[t] = {j} \X es
        BY <1>1, <3>1
      <3>3. m \in Loaded
        BY <1>1 DEF Loaded
      <3>4. at[m] \in Tree /\ Path(at[m]) \in Match[j]
        BY <1>1, <1>2, <2>3, <3>3, MappedAt DEF LeaveInv, Tree
      <3>5. at[m] \in es
        BY <1>2, <3>2, <3>4, AllTargets DEF PlaceInv
      <3>6. Leaving(t, j, at[m])'
        BY <1>1, <3>1, <3>2, <3>5 DEF Leaving
      <3>7. QED
        BY <3>6
    <2>7. QED
      BY <2>5, <2>6
  <1>10. QED
    BY <1>3, <1>4, <1>5, <1>6, <1>7, <1>8, <1>9 DEF UnhookInv, OwnInv, LeaveInv

\* Start keeps what HookedEverywhere rests on.
LEMMA StartMeets ==
    ASSUME EngineInv, EngineInv', ~Reuse, SingleFits, SingleOnce, UnhookInv, HookInv,
           NEW t \in Threads, Start(t)
    PROVE  HookInv'
  <1>1. /\ op[t] \in {"hook", "unhook"}
        /\ pc[t] = "start"
        /\ new[t] = {}
        /\ \A j \in Tasks : \A f \in Instances : ~Has(t, j, f) /\ <<j, f>> \notin todo[t] \cup cur[t]
        /\ \A u \in Threads : u # t =>
              /\ op'[u] = op[u] /\ arg'[u] = arg[u] /\ pc'[u] = pc[u]
              /\ todo'[u] = todo[u] /\ cur'[u] = cur[u] /\ new'[u] = new[u]
        /\ pc'[t] \in {"meet"}
        /\ \E es \in Targets(arg[t], Tree) :
              todo'[t] = IF Finished(arg[t]) THEN {} ELSE {arg[t]} \X es
        /\ op'[t] = op[t] /\ arg'[t] = arg[t] /\ cur'[t] = cur[t] /\ new'[t] = new[t]
        /\ UNCHANGED <<refs, loads, at, elf, enabled, status, monitor, oneshot>>
    BY StartDoes
  <1>2. OwnInv /\ MonitorInv /\ SingleInv /\ CfiInv /\ MeetInv /\ Types /\ CallInv /\ PlaceInv /\ PairInv
    BY DEF UnhookInv, HookInv, EngineInv
  <1>3. MonitorInv'
    BY <1>1, <1>2 DEF MonitorInv, Tree, Listed
  <1>4. SingleInv'
    BY <1>1, <1>2 DEF SingleInv
  <1>5. CfiInv'
    BY <1>1, <1>2 DEF CfiInv, Mapped, Loaded
  <1>6. \A m \in Libs : loads'[m] <= MaxLoads
    BY <1>1, <1>2 DEF MeetInv
  <1>7. \A f \in Tree' : \A j \in Listed' :
          Mapped(f)' /\ Path(f) \in Match[j] \ Brittle /\ elf'[f].by # "close" =>
             j \in enabled'[f] \/ \E u \in Threads : Coming(u, j, f)'
    <2>1. SUFFICES ASSUME NEW f \in Tree', NEW j \in Listed', Mapped(f)', Path(f) \in Match[j] \ Brittle,
                          elf'[f].by # "close"
                   PROVE  j \in enabled'[f] \/ \E u \in Threads : Coming(u, j, f)'
      OBVIOUS
    <2>2. j \in Listed /\ j \in Tasks /\ f \in Instances /\ elf'[f].st = "tree"
      BY <1>1, <2>1 DEF Listed, Tree
    <2>3. Mapped(f) /\ f \in Tree
      BY <1>1, <2>1 DEF Mapped, Loaded, Tree
    <2>4. CASE j \in enabled[f]
      BY <1>1, <2>4
    <2>5. CASE \E u \in Threads : u # t /\ Coming(u, j, f)
      <3>1. PICK u \in Threads : u # t /\ Coming(u, j, f)
        BY <2>5
      <3>2. Coming(u, j, f)'
        BY <1>1, <3>1 DEF Coming
      <3>3. QED
        BY <3>2
    <2>6. CASE Coming(t, j, f)
      <3>1. op[t] = "hook" /\ arg[t] = j
        BY <1>1, <2>2, <2>6 DEF Coming
      <3>2. CASE Finished(j)
        <4>1. /\ Path(f) \in Libs /\ f = <<Path(f), f[2]>> /\ f[2] \in 1..MaxLoads
              /\ j \in Single /\ refs[Path(f)] > 0
          BY <1>2, <2>2, <2>3, <3>2 DEF SingleInv, Finished, Instances, Path, Mapped, Loaded
        <4>2. f = <<Path(f), 1>>
          BY <4>1 DEF SingleOnce
        <4>3. j \in enabled[<<Path(f), 1>>]
          BY <1>2, <2>1, <2>2, <3>2, <4>1 DEF SingleInv, Finished
        <4>4. QED
          BY <1>1, <4>2, <4>3
      <3>3. CASE ~Finished(j)
        <4>1. PICK es \in Targets(j, Tree) : todo'[t] = {j} \X es
          BY <1>1, <3>1, <3>3
        <4>2. f \in es
          BY <1>2, <2>1, <2>2, <2>3, <4>1, AllTargets DEF PlaceInv
        <4>3. Coming(t, j, f)'
          BY <1>1, <3>1, <4>1, <4>2 DEF Coming
        <4>4. QED
          BY <4>3
      <3>4. QED
        BY <3>2, <3>3
    <2>7. j \in enabled[f] \/ \E u \in Threads : Coming(u, j, f)
      BY <1>1, <1>2, <2>1, <2>2, <2>3 DEF MeetInv
    <2>8. QED
      BY <2>4, <2>5, <2>6, <2>7
  <1>8. QED
    BY <1>3, <1>4, <1>5, <1>6, <1>7 DEF HookInv, MeetInv

\* What a step of Dlopen leaves in the tables, value by value.
LEMMA DlopenDoes ==
    ASSUME EngineInv, ~Reuse, NEW t \in Threads, NEW l \in Libs, Dlopen(t, l)
    PROVE  /\ pc[t] = "idle"
           /\ op[t] = "none"
           /\ new[t] = {}
           /\ \A j \in Tasks : \A f \in Instances : ~Has(t, j, f) /\ <<j, f>> \notin todo[t] \cup cur[t]
           /\ \A u \in Threads : u # t =>
                 /\ op'[u] = op[u] /\ arg'[u] = arg[u] /\ pc'[u] = pc[u]
                 /\ todo'[u] = todo[u] /\ cur'[u] = cur[u] /\ new'[u] = new[u]
           /\ op'[t] \in {"open", "rawopen"} /\ (op'[t] = "open" => monitor \in {"open", "on"})
           /\ arg'[t] = l
           /\ pc'[t] = "call"
           /\ todo'[t] = todo[t] /\ cur'[t] = cur[t] /\ new'[t] = new[t]
           /\ UNCHANGED <<refs, loads, at, elf, enabled, status, monitor, oneshot>>
  <1>1. Dlopen(t, l) /\ ~Reuse /\ Types /\ CallInv /\ PlaceInv /\ PairInv /\ SlotInv
    BY DEF EngineInv
  <1>2. pc[t] = "idle"
    BY <1>1 DEF Dlopen, Enter, Goto, Types, CallInv, Ways, PairInv, Has
  <1>3. op[t] = "none"
    BY <1>1 DEF Dlopen, Types, CallInv, Ways, Ops, Enter
  <1>4. /\ new[t] = {}
        /\ \A j \in Tasks : \A f \in Instances : ~Has(t, j, f) /\ <<j, f>> \notin todo[t] \cup cur[t]
    BY <1>1 DEF Dlopen, Enter, Goto, Types, CallInv, Ways, PairInv, Has
  <1>5. /\ \A u \in Threads : u # t =>
              /\ op'[u] = op[u] /\ arg'[u] = arg[u] /\ pc'[u] = pc[u]
              /\ todo'[u] = todo[u] /\ cur'[u] = cur[u] /\ new'[u] = new[u]
        /\ op'[t] \in {"open", "rawopen"} /\ (op'[t] = "open" => monitor \in {"open", "on"})
        /\ arg'[t] = l
        /\ pc'[t] = "call"
        /\ todo'[t] = todo[t] /\ cur'[t] = cur[t] /\ new'[t] = new[t]
    BY <1>1 DEF Dlopen, Enter, Goto, Types, linker, chains, engine
  <1>6. UNCHANGED <<refs, loads, at, elf, enabled, status, monitor, oneshot>>
    BY <1>1 DEF Dlopen, Enter, Goto, Types, linker, chains, engine
  <1>7. QED
    BY <1>2, <1>3, <1>4, <1>5, <1>6

\* Dlopen keeps what UnhookComplete rests on.
LEMMA DlopenLeaves ==
    ASSUME EngineInv, EngineInv', ~Reuse, SingleFits, UnhookInv,
           NEW t \in Threads, NEW l \in Libs, Dlopen(t, l)
    PROVE  UnhookInv'
  <1>1. /\ pc[t] = "idle"
        /\ op[t] = "none"
        /\ new[t] = {}
        /\ \A j \in Tasks : \A f \in Instances : ~Has(t, j, f) /\ <<j, f>> \notin todo[t] \cup cur[t]
        /\ \A u \in Threads : u # t =>
              /\ op'[u] = op[u] /\ arg'[u] = arg[u] /\ pc'[u] = pc[u]
              /\ todo'[u] = todo[u] /\ cur'[u] = cur[u] /\ new'[u] = new[u]
        /\ op'[t] \in {"open", "rawopen"} /\ (op'[t] = "open" => monitor \in {"open", "on"})
        /\ arg'[t] = l
        /\ pc'[t] = "call"
        /\ todo'[t] = todo[t] /\ cur'[t] = cur[t] /\ new'[t] = new[t]
        /\ UNCHANGED <<refs, loads, at, elf, enabled, status, monitor, oneshot>>
    BY DlopenDoes
  <1>2. OwnInv /\ LeaveInv /\ Types /\ CallInv /\ PlaceInv /\ PairInv /\ SlotInv
    BY DEF UnhookInv, EngineInv
  <1>3. OwnInv'
    <2>1. \A u \in Threads : op[u] \in {"hook", "unhook"} => arg[u] \in Tasks
      BY <1>2 DEF CallInv
    <2>2. /\ Listed \subseteq Listed'
          /\ \A j \in Tasks : status[j] = "unhooking" => status'[j] = "unhooking"
      BY <1>1 DEF Listed
    <2>3. \A u \in Threads : \A j \in Tasks : \A f \in Instances :
            Has(u, j, f)' /\ op'[u] # "unhook" => Has(u, j, f) /\ op[u] # "unhook"
      BY <1>1 DEF Has
    <2>4. QED
      BY <1>1, <1>2, <2>1, <2>2, <2>3, OwnKept
  <1>4. \A j \in Tasks : \A b \in Instances : j \in enabled'[b] => status'[j] # "new"
    BY <1>1, <1>2 DEF LeaveInv
  <1>5. \A j \in Tasks : \A m \in Loaded' : j \in enabled'[at'[m]] =>
          m \in Match[j] /\ elf'[at'[m]].st = "tree"
    BY <1>1, <1>2, MappedAt DEF LeaveInv, Loaded
  <1>6. \A j \in Tasks : \A m \in Loaded' :
          j \in enabled'[at'[m]] /\ status'[j] \in {"unhooking", "gone"} =>
             \E u \in Threads : Leaving(u, j, at[m])'
    <2>1. \A u \in Threads : \A j \in Tasks : \A b \in Instances : Leaving(u, j, b)' <=> Leaving(u, j, b)
      BY <1>1, <1>2 DEF Leaving
    <2>2. QED
      BY <1>1, <1>2, <2>1, MappedAt DEF LeaveInv, Loaded
  <1>7. QED
    BY <1>3, <1>4, <1>5, <1>6 DEF UnhookInv, LeaveInv

\* Dlopen keeps what HookedEverywhere rests on.
LEMMA DlopenMeets ==
    ASSUME EngineInv, EngineInv', ~Reuse, SingleFits, SingleOnce, UnhookInv, HookInv,
           NEW t \in Threads, NEW l \in Libs, Dlopen(t, l)
    PROVE  HookInv'
  <1>1. /\ pc[t] = "idle"
        /\ op[t] = "none"
        /\ new[t] = {}
        /\ \A j \in Tasks : \A f \in Instances : ~Has(t, j, f) /\ <<j, f>> \notin todo[t] \cup cur[t]
        /\ \A u \in Threads : u # t =>
              /\ op'[u] = op[u] /\ arg'[u] = arg[u] /\ pc'[u] = pc[u]
              /\ todo'[u] = todo[u] /\ cur'[u] = cur[u] /\ new'[u] = new[u]
        /\ op'[t] \in {"open", "rawopen"} /\ (op'[t] = "open" => monitor \in {"open", "on"})
        /\ arg'[t] = l
        /\ pc'[t] = "call"
        /\ todo'[t] = todo[t] /\ cur'[t] = cur[t] /\ new'[t] = new[t]
        /\ UNCHANGED <<refs, loads, at, elf, enabled, status, monitor, oneshot>>
    BY DlopenDoes
  <1>2. OwnInv /\ MonitorInv /\ SingleInv /\ CfiInv /\ MeetInv /\ Types /\ CallInv /\ PlaceInv /\ PairInv
    BY DEF UnhookInv, HookInv, EngineInv
  <1>3. MonitorInv'
    BY <1>1, <1>2 DEF MonitorInv, Tree, Listed
  <1>4. SingleInv'
    BY <1>1, <1>2 DEF SingleInv
  <1>5. CfiInv'
    BY <1>1, <1>2 DEF CfiInv, Mapped, Loaded
  <1>6. \A m \in Libs : loads'[m] <= MaxLoads
    BY <1>1, <1>2 DEF MeetInv
  <1>7. \A f \in Tree' : \A j \in Listed' :
          Mapped(f)' /\ Path(f) \in Match[j] \ Brittle /\ elf'[f].by # "close" =>
             j \in enabled'[f] \/ \E u \in Threads : Coming(u, j, f)'
    <2>1. \A u \in Threads : \A j \in Tasks : \A f \in Instances : Coming(u, j, f) => Coming(u, j, f)'
      BY <1>1, <1>2 DEF Coming
    <2>2. QED
      BY <1>1, <1>2, <2>1 DEF MeetInv, Tree, Listed, Mapped, Loaded
  <1>8. QED
    BY <1>3, <1>4, <1>5, <1>6, <1>7 DEF HookInv, MeetInv

\* What a step of Dlclose leaves in the tables, value by value.
LEMMA DlcloseDoes ==
    ASSUME EngineInv, ~Reuse, NEW t \in Threads, NEW l \in Libs, Dlclose(t, l)
    PROVE  /\ pc[t] = "idle"
           /\ op[t] = "none"
           /\ new[t] = {}
           /\ \A j \in Tasks : \A f \in Instances : ~Has(t, j, f) /\ <<j, f>> \notin todo[t] \cup cur[t]
           /\ \A u \in Threads : u # t =>
                 /\ op'[u] = op[u] /\ arg'[u] = arg[u] /\ pc'[u] = pc[u]
                 /\ todo'[u] = todo[u] /\ cur'[u] = cur[u] /\ new'[u] = new[u]
           /\ op'[t] \in {"close", "rawclose"} /\ (op'[t] = "close" => monitor = "on")
           /\ arg'[t] = l
           /\ pc'[t] \in {"wrlock", "unload"}
           /\ todo'[t] = todo[t] /\ cur'[t] = cur[t] /\ new'[t] = new[t]
           /\ UNCHANGED <<refs, loads, at, elf, enabled, status, monitor, oneshot>>
  <1>1. Dlclose(t, l) /\ ~Reuse /\ Types /\ CallInv /\ PlaceInv /\ PairInv /\ SlotInv
    BY DEF EngineInv
  <1>2. pc[t] = "idle"
    BY <1>1 DEF Dlclose, Enter, Goto, Types, CallInv, Ways, PairInv, Has
  <1>3. op[t] = "none"
    BY <1>1 DEF Dlclose, Types, CallInv, Ways, Ops, Enter
  <1>4. /\ new[t] = {}
        /\ \A j \in Tasks : \A f \in Instances : ~Has(t, j, f) /\ <<j, f>> \notin todo[t] \cup cur[t]
    BY SMTT(40), <1>1 DEF Dlclose, Enter, Goto, Types, CallInv, Ways, PairInv, Has
  <1>5. /\ \A u \in Threads : u # t =>
              /\ op'[u] = op[u] /\ arg'[u] = arg[u] /\ pc'[u] = pc[u]
              /\ todo'[u] = todo[u] /\ cur'[u] = cur[u] /\ new'[u] = new[u]
        /\ op'[t] \in {"close", "rawclose"} /\ (op'[t] = "close" => monitor = "on")
        /\ arg'[t] = l
        /\ pc'[t] \in {"wrlock", "unload"}
        /\ todo'[t] = todo[t] /\ cur'[t] = cur[t] /\ new'[t] = new[t]
    BY <1>1 DEF Dlclose, Enter, Goto, Types, linker, chains, engine
  <1>6. UNCHANGED <<refs, loads, at, elf, enabled, status, monitor, oneshot>>
    BY <1>1 DEF Dlclose, Enter, Goto, Types, linker, chains, engine
  <1>7. QED
    BY <1>2, <1>3, <1>4, <1>5, <1>6

\* Dlclose keeps what UnhookComplete rests on.
LEMMA DlcloseLeaves ==
    ASSUME EngineInv, EngineInv', ~Reuse, SingleFits, UnhookInv,
           NEW t \in Threads, NEW l \in Libs, Dlclose(t, l)
    PROVE  UnhookInv'
  <1>1. /\ pc[t] = "idle"
        /\ op[t] = "none"
        /\ new[t] = {}
        /\ \A j \in Tasks : \A f \in Instances : ~Has(t, j, f) /\ <<j, f>> \notin todo[t] \cup cur[t]
        /\ \A u \in Threads : u # t =>
              /\ op'[u] = op[u] /\ arg'[u] = arg[u] /\ pc'[u] = pc[u]
              /\ todo'[u] = todo[u] /\ cur'[u] = cur[u] /\ new'[u] = new[u]
        /\ op'[t] \in {"close", "rawclose"} /\ (op'[t] = "close" => monitor = "on")
        /\ arg'[t] = l
        /\ pc'[t] \in {"wrlock", "unload"}
        /\ todo'[t] = todo[t] /\ cur'[t] = cur[t] /\ new'[t] = new[t]
        /\ UNCHANGED <<refs, loads, at, elf, enabled, status, monitor, oneshot>>
    BY DlcloseDoes
  <1>2. OwnInv /\ LeaveInv /\ Types /\ CallInv /\ PlaceInv /\ PairInv /\ SlotInv
    BY DEF UnhookInv, EngineInv
  <1>3. \A u, v \in Threads :
          op'[u] \in {"hook", "unhook"} /\ op'[v] \in {"hook", "unhook"} /\ arg'[u] = arg'[v] => u = v
    BY <1>1, <1>2 DEF OwnInv, Listed
  <1>4. \A u \in Threads : op'[u] = "hook" => arg'[u] \in Listed'
    BY <1>1, <1>2 DEF OwnInv, Listed, Types
  <1>5. \A u \in Threads : op'[u] = "unhook" => status'[arg'[u]] = "unhooking"
    BY <1>1, <1>2 DEF OwnInv, Listed, CallInv
  <1>6. \A u \in Threads : \A j \in Tasks : \A f \in Instances :
          Has(u, j, f)' /\ op'[u] # "unhook" => j \in Listed'
    BY <1>1, <1>2 DEF OwnInv, Listed, Has
  <1>7. \A j \in Tasks : \A b \in Instances : j \in enabled'[b] => status'[j] # "new"
    BY <1>1, <1>2 DEF LeaveInv
  <1>8. \A j \in Tasks : \A m \in Loaded' : j \in enabled'[at'[m]] =>
          m \in Match[j] /\ elf'[at'[m]].st = "tree"
    BY <1>1, <1>2, MappedAt DEF LeaveInv, Loaded
  <1>9. \A j \in Tasks : \A m \in Loaded' :
          j \in enabled'[at'[m]] /\ status'[j] \in {"unhooking", "gone"} =>
             \E u \in Threads : Leaving(u, j, at[m])'
    <2>1. \A u \in Threads : \A j \in Tasks : \A b \in Instances : Leaving(u, j, b)' <=> Leaving(u, j, b)
      BY <1>1, <1>2 DEF Leaving
    <2>2. QED
      BY <1>1, <1>2, <2>1, MappedAt DEF LeaveInv, Loaded
  <1>10. QED
    BY <1>3, <1>4, <1>5, <1>6, <1>7, <1>8, <1>9 DEF UnhookInv, OwnInv, LeaveInv

\* Dlclose keeps what HookedEverywhere rests on.
LEMMA DlcloseMeets ==
    ASSUME EngineInv, EngineInv', ~Reuse, SingleFits, SingleOnce, UnhookInv, HookInv,
           NEW t \in Threads, NEW l \in Libs, Dlclose(t, l)
    PROVE  HookInv'
  <1>1. /\ pc[t] = "idle"
        /\ op[t] = "none"
        /\ new[t] = {}
        /\ \A j \in Tasks : \A f \in Instances : ~Has(t, j, f) /\ <<j, f>> \notin todo[t] \cup cur[t]
        /\ \A u \in Threads : u # t =>
              /\ op'[u] = op[u] /\ arg'[u] = arg[u] /\ pc'[u] = pc[u]
              /\ todo'[u] = todo[u] /\ cur'[u] = cur[u] /\ new'[u] = new[u]
        /\ op'[t] \in {"close", "rawclose"} /\ (op'[t] = "close" => monitor = "on")
        /\ arg'[t] = l
        /\ pc'[t] \in {"wrlock", "unload"}
        /\ todo'[t] = todo[t] /\ cur'[t] = cur[t] /\ new'[t] = new[t]
        /\ UNCHANGED <<refs, loads, at, elf, enabled, status, monitor, oneshot>>
    BY DlcloseDoes
  <1>2. OwnInv /\ MonitorInv /\ SingleInv /\ CfiInv /\ MeetInv /\ Types /\ CallInv /\ PlaceInv /\ PairInv
    BY DEF UnhookInv, HookInv, EngineInv
  <1>3. MonitorInv'
    BY <1>1, <1>2 DEF MonitorInv, Tree, Listed
  <1>4. SingleInv'
    BY <1>1, <1>2 DEF SingleInv
  <1>5. CfiInv'
    BY <1>1, <1>2 DEF CfiInv, Mapped, Loaded
  <1>6. \A m \in Libs : loads'[m] <= MaxLoads
    BY <1>1, <1>2 DEF MeetInv
  <1>7. \A f \in Tree' : \A j \in Listed' :
          Mapped(f)' /\ Path(f) \in Match[j] \ Brittle /\ elf'[f].by # "close" =>
             j \in enabled'[f] \/ \E u \in Threads : Coming(u, j, f)'
    <2>1. \A u \in Threads : \A j \in Tasks : \A f \in Instances : Coming(u, j, f) => Coming(u, j, f)'
      BY <1>1, <1>2 DEF Coming
    <2>2. QED
      BY <1>1, <1>2, <2>1 DEF MeetInv, Tree, Listed, Mapped, Loaded
  <1>8. QED
    BY <1>3, <1>4, <1>5, <1>6, <1>7 DEF HookInv, MeetInv

\* What a step of WriteLock leaves in the tables, value by value.
LEMMA WriteLockDoes ==
    ASSUME EngineInv, ~Reuse, NEW t \in Threads, WriteLock(t)
    PROVE  /\ op[t] = "close"
           /\ pc[t] = "wrlock"
           /\ new[t] = {}
           /\ \A j \in Tasks : \A f \in Instances : ~Has(t, j, f) /\ <<j, f>> \notin todo[t] \cup cur[t]
           /\ \A u \in Threads : u # t =>
                 /\ op'[u] = op[u] /\ arg'[u] = arg[u] /\ pc'[u] = pc[u]
                 /\ todo'[u] = todo[u] /\ cur'[u] = cur[u] /\ new'[u] = new[u]
           /\ pc'[t] \in {"unload"}
           /\ op'[t] = op[t] /\ arg'[t] = arg[t] /\ todo'[t] = todo[t] /\ cur'[t] = cur[t] /\ new'[t] = new[t]
           /\ UNCHANGED <<refs, loads, at, elf, enabled, status, monitor, oneshot>>
  <1>1. WriteLock(t) /\ ~Reuse /\ Types /\ CallInv /\ PlaceInv /\ PairInv /\ SlotInv
    BY DEF EngineInv
  <1>2. op[t] = "close"
    BY <1>1 DEF WriteLock, Types, CallInv, Ways, Ops
  <1>3. /\ pc[t] = "wrlock"
        /\ new[t] = {}
        /\ \A j \in Tasks : \A f \in Instances : ~Has(t, j, f) /\ <<j, f>> \notin todo[t] \cup cur[t]
    BY <1>1 DEF WriteLock, Goto, Types, CallInv, Ways, PairInv, Has
  <1>4. /\ \A u \in Threads : u # t =>
              /\ op'[u] = op[u] /\ arg'[u] = arg[u] /\ pc'[u] = pc[u]
              /\ todo'[u] = todo[u] /\ cur'[u] = cur[u] /\ new'[u] = new[u]
        /\ pc'[t] \in {"unload"}
        /\ op'[t] = op[t] /\ arg'[t] = arg[t] /\ todo'[t] = todo[t] /\ cur'[t] = cur[t] /\ new'[t] = new[t]
    BY <1>1 DEF WriteLock, Goto, Types, linker, chains, engine
  <1>5. UNCHANGED <<refs, loads, at, elf, enabled, status, monitor, oneshot>>
    BY <1>1 DEF WriteLock, Goto, Types, linker, chains, engine
  <1>6. QED
    BY <1>2, <1>3, <1>4, <1>5

\* WriteLock keeps what UnhookComplete rests on.
LEMMA WriteLockLeaves ==
    ASSUME EngineInv, EngineInv', ~Reuse, SingleFits, UnhookInv,
           NEW t \in Threads, WriteLock(t)
    PROVE  UnhookInv'
  <1>1. /\ op[t] = "close"
        /\ pc[t] = "wrlock"
        /\ new[t] = {}
        /\ \A j \in Tasks : \A f \in Instances : ~Has(t, j, f) /\ <<j, f>> \notin todo[t] \cup cur[t]
        /\ \A u \in Threads : u # t =>
              /\ op'[u] = op[u] /\ arg'[u] = arg[u] /\ pc'[u] = pc[u]
              /\ todo'[u] = todo[u] /\ cur'[u] = cur[u] /\ new'[u] = new[u]
        /\ pc'[t] \in {"unload"}
        /\ op'[t] = op[t] /\ arg'[t] = arg[t] /\ todo'[t] = todo[t] /\ cur'[t] = cur[t] /\ new'[t] = new[t]
        /\ UNCHANGED <<refs, loads, at, elf, enabled, status, monitor, oneshot>>
    BY WriteLockDoes
  <1>2. OwnInv /\ LeaveInv /\ Types /\ CallInv /\ PlaceInv /\ PairInv /\ SlotInv
    BY DEF UnhookInv, EngineInv
  <1>3. OwnInv'
    <2>1. \A u \in Threads : op[u] \in {"hook", "unhook"} => arg[u] \in Tasks
      BY <1>2 DEF CallInv
    <2>2. /\ Listed \subseteq Listed'
          /\ \A j \in Tasks : status[j] = "unhooking" => status'[j] = "unhooking"
      BY <1>1 DEF Listed
    <2>3. \A u \in Threads : \A j \in Tasks : \A f \in Instances :
            Has(u, j, f)' /\ op'[u] # "unhook" => Has(u, j, f) /\ op[u] # "unhook"
      BY <1>1 DEF Has
    <2>4. QED
      BY <1>1, <1>2, <2>1, <2>2, <2>3, OwnKept
  <1>4. \A j \in Tasks : \A b \in Instances : j \in enabled'[b] => status'[j] # "new"
    BY <1>1, <1>2 DEF LeaveInv
  <1>5. \A j \in Tasks : \A m \in Loaded' : j \in enabled'[at'[m]] =>
          m \in Match[j] /\ elf'[at'[m]].st = "tree"
    BY <1>1, <1>2, MappedAt DEF LeaveInv, Loaded
  <1>6. \A j \in Tasks : \A m \in Loaded' :
          j \in enabled'[at'[m]] /\ status'[j] \in {"unhooking", "gone"} =>
             \E u \in Threads : Leaving(u, j, at[m])'
    <2>1. \A u \in Threads : \A j \in Tasks : \A b \in Instances : Leaving(u, j, b)' <=> Leaving(u, j, b)
      BY <1>1, <1>2 DEF Leaving
    <2>2. QED
      BY <1>1, <1>2, <2>1, MappedAt DEF LeaveInv, Loaded
  <1>7. QED
    BY <1>3, <1>4, <1>5, <1>6 DEF UnhookInv, LeaveInv

\* WriteLock keeps what HookedEverywhere rests on.
LEMMA WriteLockMeets ==
    ASSUME EngineInv, EngineInv', ~Reuse, SingleFits, SingleOnce, UnhookInv, HookInv,
           NEW t \in Threads, WriteLock(t)
    PROVE  HookInv'
  <1>1. /\ op[t] = "close"
        /\ pc[t] = "wrlock"
        /\ new[t] = {}
        /\ \A j \in Tasks : \A f \in Instances : ~Has(t, j, f) /\ <<j, f>> \notin todo[t] \cup cur[t]
        /\ \A u \in Threads : u # t =>
              /\ op'[u] = op[u] /\ arg'[u] = arg[u] /\ pc'[u] = pc[u]
              /\ todo'[u] = todo[u] /\ cur'[u] = cur[u] /\ new'[u] = new[u]
        /\ pc'[t] \in {"unload"}
        /\ op'[t] = op[t] /\ arg'[t] = arg[t] /\ todo'[t] = todo[t] /\ cur'[t] = cur[t] /\ new'[t] = new[t]
        /\ UNCHANGED <<refs, loads, at, elf, enabled, status, monitor, oneshot>>
    BY WriteLockDoes
  <1>2. OwnInv /\ MonitorInv /\ SingleInv /\ CfiInv /\ MeetInv /\ Types /\ CallInv /\ PlaceInv /\ PairInv
    BY DEF UnhookInv, HookInv, EngineInv
  <1>3. MonitorInv'
    BY <1>1, <1>2 DEF MonitorInv, Tree, Listed
  <1>4. SingleInv'
    BY <1>1, <1>2 DEF SingleInv
  <1>5. CfiInv'
    BY <1>1, <1>2 DEF CfiInv, Mapped, Loaded
  <1>6. \A m \in Libs : loads'[m] <= MaxLoads
    BY <1>1, <1>2 DEF MeetInv
  <1>7. \A f \in Tree' : \A j \in Listed' :
          Mapped(f)' /\ Path(f) \in Match[j] \ Brittle /\ elf'[f].by # "close" =>
             j \in enabled'[f] \/ \E u \in Threads : Coming(u, j, f)'
    <2>1. \A u \in Threads : \A j \in Tasks : \A f \in Instances : Coming(u, j, f) => Coming(u, j, f)'
      BY <1>1, <1>2 DEF Coming
    <2>2. QED
      BY <1>1, <1>2, <2>1 DEF MeetInv, Tree, Listed, Mapped, Loaded
  <1>8. QED
    BY <1>3, <1>4, <1>5, <1>6, <1>7 DEF HookInv, MeetInv

\* What a step of LoadFails leaves in the tables, value by value.
LEMMA LoadFailsDoes ==
    ASSUME EngineInv, ~Reuse, NEW t \in Threads, LoadFails(t)
    PROVE  /\ op[t] \in {"open", "rawopen"}
           /\ pc[t] = "call"
           /\ new[t] = {}
           /\ \A j \in Tasks : \A f \in Instances : ~Has(t, j, f) /\ <<j, f>> \notin todo[t] \cup cur[t]
           /\ \A u \in Threads : u # t =>
                 /\ op'[u] = op[u] /\ arg'[u] = arg[u] /\ pc'[u] = pc[u]
                 /\ todo'[u] = todo[u] /\ cur'[u] = cur[u] /\ new'[u] = new[u]
           /\ op'[t] = "none"
           /\ arg'[t] = None
           /\ pc'[t] = "idle"
           /\ todo'[t] = todo[t] /\ cur'[t] = cur[t] /\ new'[t] = new[t]
           /\ UNCHANGED <<refs, loads, at, elf, enabled, status, monitor, oneshot>>
  <1>1. LoadFails(t) /\ ~Reuse /\ Types /\ CallInv /\ PlaceInv /\ PairInv /\ SlotInv
    BY DEF EngineInv
  <1>2. op[t] \in {"open", "rawopen"}
    BY <1>1 DEF LoadFails, Types, CallInv, Ways, Ops
  <1>3. /\ pc[t] = "call"
        /\ new[t] = {}
        /\ \A j \in Tasks : \A f \in Instances : ~Has(t, j, f) /\ <<j, f>> \notin todo[t] \cup cur[t]
    BY <1>1 DEF LoadFails, Return, Goto, Types, CallInv, Ways, PairInv, Has
  <1>4. /\ \A u \in Threads : u # t =>
              /\ op'[u] = op[u] /\ arg'[u] = arg[u] /\ pc'[u] = pc[u]
              /\ todo'[u] = todo[u] /\ cur'[u] = cur[u] /\ new'[u] = new[u]
        /\ op'[t] = "none"
        /\ arg'[t] = None
        /\ pc'[t] = "idle"
        /\ todo'[t] = todo[t] /\ cur'[t] = cur[t] /\ new'[t] = new[t]
    BY <1>1 DEF LoadFails, Return, Goto, Types, linker, chains, engine
  <1>5. UNCHANGED <<refs, loads, at, elf, enabled, status, monitor, oneshot>>
    BY <1>1 DEF LoadFails, Return, Goto, Types, linker, chains, engine
  <1>6. QED
    BY <1>2, <1>3, <1>4, <1>5

\* LoadFails keeps what UnhookComplete rests on.
LEMMA LoadFailsLeaves ==
    ASSUME EngineInv, EngineInv', ~Reuse, SingleFits, UnhookInv,
           NEW t \in Threads, LoadFails(t)
    PROVE  UnhookInv'
  <1>1. /\ op[t] \in {"open", "rawopen"}
        /\ pc[t] = "call"
        /\ new[t] = {}
        /\ \A j \in Tasks : \A f \in Instances : ~Has(t, j, f) /\ <<j, f>> \notin todo[t] \cup cur[t]
        /\ \A u \in Threads : u # t =>
              /\ op'[u] = op[u] /\ arg'[u] = arg[u] /\ pc'[u] = pc[u]
              /\ todo'[u] = todo[u] /\ cur'[u] = cur[u] /\ new'[u] = new[u]
        /\ op'[t] = "none"
        /\ arg'[t] = None
        /\ pc'[t] = "idle"
        /\ todo'[t] = todo[t] /\ cur'[t] = cur[t] /\ new'[t] = new[t]
        /\ UNCHANGED <<refs, loads, at, elf, enabled, status, monitor, oneshot>>
    BY LoadFailsDoes
  <1>2. OwnInv /\ LeaveInv /\ Types /\ CallInv /\ PlaceInv /\ PairInv /\ SlotInv
    BY DEF UnhookInv, EngineInv
  <1>3. OwnInv'
    <2>1. \A u \in Threads : op[u] \in {"hook", "unhook"} => arg[u] \in Tasks
      BY <1>2 DEF CallInv
    <2>2. /\ Listed \subseteq Listed'
          /\ \A j \in Tasks : status[j] = "unhooking" => status'[j] = "unhooking"
      BY <1>1 DEF Listed
    <2>3. \A u \in Threads : \A j \in Tasks : \A f \in Instances :
            Has(u, j, f)' /\ op'[u] # "unhook" => Has(u, j, f) /\ op[u] # "unhook"
      BY <1>1 DEF Has
    <2>4. QED
      BY <1>1, <1>2, <2>1, <2>2, <2>3, OwnKept
  <1>4. \A j \in Tasks : \A b \in Instances : j \in enabled'[b] => status'[j] # "new"
    BY <1>1, <1>2 DEF LeaveInv
  <1>5. \A j \in Tasks : \A m \in Loaded' : j \in enabled'[at'[m]] =>
          m \in Match[j] /\ elf'[at'[m]].st = "tree"
    BY <1>1, <1>2, MappedAt DEF LeaveInv, Loaded
  <1>6. \A j \in Tasks : \A m \in Loaded' :
          j \in enabled'[at'[m]] /\ status'[j] \in {"unhooking", "gone"} =>
             \E u \in Threads : Leaving(u, j, at[m])'
    <2>1. \A u \in Threads : \A j \in Tasks : \A b \in Instances : Leaving(u, j, b)' <=> Leaving(u, j, b)
      BY <1>1, <1>2 DEF Leaving
    <2>2. QED
      BY <1>1, <1>2, <2>1, MappedAt DEF LeaveInv, Loaded
  <1>7. QED
    BY <1>3, <1>4, <1>5, <1>6 DEF UnhookInv, LeaveInv

\* LoadFails keeps what HookedEverywhere rests on.
LEMMA LoadFailsMeets ==
    ASSUME EngineInv, EngineInv', ~Reuse, SingleFits, SingleOnce, UnhookInv, HookInv,
           NEW t \in Threads, LoadFails(t)
    PROVE  HookInv'
  <1>1. /\ op[t] \in {"open", "rawopen"}
        /\ pc[t] = "call"
        /\ new[t] = {}
        /\ \A j \in Tasks : \A f \in Instances : ~Has(t, j, f) /\ <<j, f>> \notin todo[t] \cup cur[t]
        /\ \A u \in Threads : u # t =>
              /\ op'[u] = op[u] /\ arg'[u] = arg[u] /\ pc'[u] = pc[u]
              /\ todo'[u] = todo[u] /\ cur'[u] = cur[u] /\ new'[u] = new[u]
        /\ op'[t] = "none"
        /\ arg'[t] = None
        /\ pc'[t] = "idle"
        /\ todo'[t] = todo[t] /\ cur'[t] = cur[t] /\ new'[t] = new[t]
        /\ UNCHANGED <<refs, loads, at, elf, enabled, status, monitor, oneshot>>
    BY LoadFailsDoes
  <1>2. OwnInv /\ MonitorInv /\ SingleInv /\ CfiInv /\ MeetInv /\ Types /\ CallInv /\ PlaceInv /\ PairInv
    BY DEF UnhookInv, HookInv, EngineInv
  <1>3. MonitorInv'
    BY <1>1, <1>2 DEF MonitorInv, Tree, Listed
  <1>4. SingleInv'
    BY <1>1, <1>2 DEF SingleInv
  <1>5. CfiInv'
    BY <1>1, <1>2 DEF CfiInv, Mapped, Loaded
  <1>6. \A m \in Libs : loads'[m] <= MaxLoads
    BY <1>1, <1>2 DEF MeetInv
  <1>7. \A f \in Tree' : \A j \in Listed' :
          Mapped(f)' /\ Path(f) \in Match[j] \ Brittle /\ elf'[f].by # "close" =>
             j \in enabled'[f] \/ \E u \in Threads : Coming(u, j, f)'
    <2>1. \A u \in Threads : \A j \in Tasks : \A f \in Instances : Coming(u, j, f) => Coming(u, j, f)'
      BY <1>1, <1>2 DEF Coming
    <2>2. QED
      BY <1>1, <1>2, <2>1 DEF MeetInv, Tree, Listed, Mapped, Loaded
  <1>8. QED
    BY <1>3, <1>4, <1>5, <1>6, <1>7 DEF HookInv, MeetInv

\* What a step of Opened leaves in the tables, value by value.
LEMMA OpenedDoes ==
    ASSUME EngineInv, ~Reuse, NEW t \in Threads, Opened(t)
    PROVE  /\ op[t] = "open"
           /\ pc[t] = "new"
           /\ new[t] = {}
           /\ \A j \in Tasks : \A f \in Instances : ~Has(t, j, f) /\ <<j, f>> \notin todo[t] \cup cur[t]
           /\ \A u \in Threads : u # t =>
                 /\ op'[u] = op[u] /\ arg'[u] = arg[u] /\ pc'[u] = pc[u]
                 /\ todo'[u] = todo[u] /\ cur'[u] = cur[u] /\ new'[u] = new[u]
           /\ op'[t] = "none"
           /\ arg'[t] = None
           /\ pc'[t] = "idle"
           /\ todo'[t] = todo[t] /\ cur'[t] = cur[t] /\ new'[t] = new[t]
           /\ UNCHANGED <<refs, loads, at, elf, enabled, status, monitor, oneshot>>
  <1>1. Opened(t) /\ ~Reuse /\ Types /\ CallInv /\ PlaceInv /\ PairInv /\ SlotInv
    BY DEF EngineInv
  <1>2. op[t] = "open"
    BY <1>1 DEF Opened, Types, CallInv, Ways, Ops
  <1>3. /\ pc[t] = "new"
        /\ new[t] = {}
        /\ \A j \in Tasks : \A f \in Instances : ~Has(t, j, f) /\ <<j, f>> \notin todo[t] \cup cur[t]
    BY <1>1 DEF Opened, Return, Goto, Types, CallInv, Ways, PairInv, Has
  <1>4. /\ \A u \in Threads : u # t =>
              /\ op'[u] = op[u] /\ arg'[u] = arg[u] /\ pc'[u] = pc[u]
              /\ todo'[u] = todo[u] /\ cur'[u] = cur[u] /\ new'[u] = new[u]
        /\ op'[t] = "none"
        /\ arg'[t] = None
        /\ pc'[t] = "idle"
        /\ todo'[t] = todo[t] /\ cur'[t] = cur[t] /\ new'[t] = new[t]
    BY <1>1 DEF Opened, Return, Goto, Types, linker, chains, engine
  <1>5. UNCHANGED <<refs, loads, at, elf, enabled, status, monitor, oneshot>>
    BY <1>1 DEF Opened, Return, Goto, Types, linker, chains, engine
  <1>6. QED
    BY <1>2, <1>3, <1>4, <1>5

\* Opened keeps what UnhookComplete rests on.
LEMMA OpenedLeaves ==
    ASSUME EngineInv, EngineInv', ~Reuse, SingleFits, UnhookInv,
           NEW t \in Threads, Opened(t)
    PROVE  UnhookInv'
  <1>1. /\ op[t] = "open"
        /\ pc[t] = "new"
        /\ new[t] = {}
        /\ \A j \in Tasks : \A f \in Instances : ~Has(t, j, f) /\ <<j, f>> \notin todo[t] \cup cur[t]
        /\ \A u \in Threads : u # t =>
              /\ op'[u] = op[u] /\ arg'[u] = arg[u] /\ pc'[u] = pc[u]
              /\ todo'[u] = todo[u] /\ cur'[u] = cur[u] /\ new'[u] = new[u]
        /\ op'[t] = "none"
        /\ arg'[t] = None
        /\ pc'[t] = "idle"
        /\ todo'[t] = todo[t] /\ cur'[t] = cur[t] /\ new'[t] = new[t]
        /\ UNCHANGED <<refs, loads, at, elf, enabled, status, monitor, oneshot>>
    BY OpenedDoes
  <1>2. OwnInv /\ LeaveInv /\ Types /\ CallInv /\ PlaceInv /\ PairInv /\ SlotInv
    BY DEF UnhookInv, EngineInv
  <1>3. OwnInv'
    <2>1. \A u \in Threads : op[u] \in {"hook", "unhook"} => arg[u] \in Tasks
      BY <1>2 DEF CallInv
    <2>2. /\ Listed \subseteq Listed'
          /\ \A j \in Tasks : status[j] = "unhooking" => status'[j] = "unhooking"
      BY <1>1 DEF Listed
    <2>3. \A u \in Threads : \A j \in Tasks : \A f \in Instances :
            Has(u, j, f)' /\ op'[u] # "unhook" => Has(u, j, f) /\ op[u] # "unhook"
      BY <1>1 DEF Has
    <2>4. QED
      BY <1>1, <1>2, <2>1, <2>2, <2>3, OwnKept
  <1>4. \A j \in Tasks : \A b \in Instances : j \in enabled'[b] => status'[j] # "new"
    BY <1>1, <1>2 DEF LeaveInv
  <1>5. \A j \in Tasks : \A m \in Loaded' : j \in enabled'[at'[m]] =>
          m \in Match[j] /\ elf'[at'[m]].st = "tree"
    BY <1>1, <1>2, MappedAt DEF LeaveInv, Loaded
  <1>6. \A j \in Tasks : \A m \in Loaded' :
          j \in enabled'[at'[m]] /\ status'[j] \in {"unhooking", "gone"} =>
             \E u \in Threads : Leaving(u, j, at[m])'
    <2>1. \A u \in Threads : \A j \in Tasks : \A b \in Instances : Leaving(u, j, b)' <=> Leaving(u, j, b)
      BY <1>1, <1>2 DEF Leaving
    <2>2. QED
      BY <1>1, <1>2, <2>1, MappedAt DEF LeaveInv, Loaded
  <1>7. QED
    BY <1>3, <1>4, <1>5, <1>6 DEF UnhookInv, LeaveInv

\* Opened keeps what HookedEverywhere rests on.
LEMMA OpenedMeets ==
    ASSUME EngineInv, EngineInv', ~Reuse, SingleFits, SingleOnce, UnhookInv, HookInv,
           NEW t \in Threads, Opened(t)
    PROVE  HookInv'
  <1>1. /\ op[t] = "open"
        /\ pc[t] = "new"
        /\ new[t] = {}
        /\ \A j \in Tasks : \A f \in Instances : ~Has(t, j, f) /\ <<j, f>> \notin todo[t] \cup cur[t]
        /\ \A u \in Threads : u # t =>
              /\ op'[u] = op[u] /\ arg'[u] = arg[u] /\ pc'[u] = pc[u]
              /\ todo'[u] = todo[u] /\ cur'[u] = cur[u] /\ new'[u] = new[u]
        /\ op'[t] = "none"
        /\ arg'[t] = None
        /\ pc'[t] = "idle"
        /\ todo'[t] = todo[t] /\ cur'[t] = cur[t] /\ new'[t] = new[t]
        /\ UNCHANGED <<refs, loads, at, elf, enabled, status, monitor, oneshot>>
    BY OpenedDoes
  <1>2. OwnInv /\ MonitorInv /\ SingleInv /\ CfiInv /\ MeetInv /\ Types /\ CallInv /\ PlaceInv /\ PairInv
    BY DEF UnhookInv, HookInv, EngineInv
  <1>3. MonitorInv'
    BY <1>1, <1>2 DEF MonitorInv, Tree, Listed
  <1>4. SingleInv'
    BY <1>1, <1>2 DEF SingleInv
  <1>5. CfiInv'
    BY <1>1, <1>2 DEF CfiInv, Mapped, Loaded
  <1>6. \A m \in Libs : loads'[m] <= MaxLoads
    BY <1>1, <1>2 DEF MeetInv
  <1>7. \A f \in Tree' : \A j \in Listed' :
          Mapped(f)' /\ Path(f) \in Match[j] \ Brittle /\ elf'[f].by # "close" =>
             j \in enabled'[f] \/ \E u \in Threads : Coming(u, j, f)'
    <2>1. \A u \in Threads : \A j \in Tasks : \A f \in Instances : Coming(u, j, f) => Coming(u, j, f)'
      BY <1>1, <1>2 DEF Coming
    <2>2. QED
      BY <1>1, <1>2, <2>1 DEF MeetInv, Tree, Listed, Mapped, Loaded
  <1>8. QED
    BY <1>3, <1>4, <1>5, <1>6, <1>7 DEF HookInv, MeetInv

\* What a step of PostDlopen leaves in the tables, value by value.
LEMMA PostDlopenDoes ==
    ASSUME EngineInv, ~Reuse, NEW t \in Threads, PostDlopen(t)
    PROVE  /\ op[t] = "open"
           /\ pc[t] = "post"
           /\ new[t] = {}
           /\ \A j \in Tasks : \A f \in Instances : ~Has(t, j, f) /\ <<j, f>> \notin todo[t] \cup cur[t]
           /\ \A u \in Threads : u # t =>
                 /\ op'[u] = op[u] /\ arg'[u] = arg[u] /\ pc'[u] = pc[u]
                 /\ todo'[u] = todo[u] /\ cur'[u] = cur[u] /\ new'[u] = new[u]
           /\ pc'[t] \in {"new"}
           /\ new'[t] = Born
           /\ op'[t] = op[t] /\ arg'[t] = arg[t] /\ todo'[t] = todo[t] /\ cur'[t] = cur[t]
           /\ elf' = Refreshed("open")
           /\ UNCHANGED <<refs, loads, at, enabled, status, monitor, oneshot>>
  <1>1. PostDlopen(t) /\ ~Reuse /\ Types /\ CallInv /\ PlaceInv /\ PairInv /\ SlotInv
    BY DEF EngineInv
  <1>2. op[t] = "open"
    BY <1>1 DEF PostDlopen, Types, CallInv, Ways, Ops
  <1>3. /\ pc[t] = "post"
        /\ new[t] = {}
        /\ \A j \in Tasks : \A f \in Instances : ~Has(t, j, f) /\ <<j, f>> \notin todo[t] \cup cur[t]
    BY <1>1 DEF PostDlopen, Goto, Types, CallInv, Ways, PairInv, Has
  <1>4. /\ \A u \in Threads : u # t =>
              /\ op'[u] = op[u] /\ arg'[u] = arg[u] /\ pc'[u] = pc[u]
              /\ todo'[u] = todo[u] /\ cur'[u] = cur[u] /\ new'[u] = new[u]
        /\ pc'[t] \in {"new"}
        /\ new'[t] = Born
        /\ op'[t] = op[t] /\ arg'[t] = arg[t] /\ todo'[t] = todo[t] /\ cur'[t] = cur[t]
    BY <1>1 DEF PostDlopen, Goto, Types, linker, chains, engine
  <1>5. /\ elf' = Refreshed("open")
        /\ UNCHANGED <<refs, loads, at, enabled, status, monitor, oneshot>>
    BY <1>1 DEF PostDlopen, Goto, Types, linker, chains, engine
  <1>6. QED
    BY <1>2, <1>3, <1>4, <1>5

\* PostDlopen keeps what UnhookComplete rests on.
LEMMA PostDlopenLeaves ==
    ASSUME EngineInv, EngineInv', ~Reuse, SingleFits, UnhookInv,
           NEW t \in Threads, PostDlopen(t)
    PROVE  UnhookInv'
  <1>1. /\ op[t] = "open"
        /\ pc[t] = "post"
        /\ new[t] = {}
        /\ \A j \in Tasks : \A f \in Instances : ~Has(t, j, f) /\ <<j, f>> \notin todo[t] \cup cur[t]
        /\ \A u \in Threads : u # t =>
              /\ op'[u] = op[u] /\ arg'[u] = arg[u] /\ pc'[u] = pc[u]
              /\ todo'[u] = todo[u] /\ cur'[u] = cur[u] /\ new'[u] = new[u]
        /\ pc'[t] \in {"new"}
        /\ new'[t] = Born
        /\ op'[t] = op[t] /\ arg'[t] = arg[t] /\ todo'[t] = todo[t] /\ cur'[t] = cur[t]
        /\ elf' = Refreshed("open")
        /\ UNCHANGED <<refs, loads, at, enabled, status, monitor, oneshot>>
    BY PostDlopenDoes
  <1>2. OwnInv /\ LeaveInv /\ Types /\ CallInv /\ PlaceInv /\ PairInv /\ SlotInv
    BY DEF UnhookInv, EngineInv
  <1>3. \A m \in Loaded : elf[at[m]].st = "tree" => elf'[at[m]].st = "tree"
    BY <1>1, <1>2, RefreshKeeps
  <1>4. \A u, v \in Threads :
          op'[u] \in {"hook", "unhook"} /\ op'[v] \in {"hook", "unhook"} /\ arg'[u] = arg'[v] => u = v
    BY <1>1, <1>2, <1>3 DEF OwnInv, Listed
  <1>5. \A u \in Threads : op'[u] = "hook" => arg'[u] \in Listed'
    BY <1>1, <1>2, <1>3 DEF OwnInv, Listed, Types
  <1>6. \A u \in Threads : op'[u] = "unhook" => status'[arg'[u]] = "unhooking"
    BY <1>1, <1>2, <1>3 DEF OwnInv, Listed, CallInv
  <1>7. \A u \in Threads : \A j \in Tasks : \A f \in Instances :
          Has(u, j, f)' /\ op'[u] # "unhook" => j \in Listed'
    BY <1>1, <1>2, <1>3 DEF OwnInv, Listed, Has
  <1>8. \A j \in Tasks : \A b \in Instances : j \in enabled'[b] => status'[j] # "new"
    BY <1>1, <1>2, <1>3 DEF LeaveInv
  <1>9. \A j \in Tasks : \A m \in Loaded' : j \in enabled'[at'[m]] =>
          m \in Match[j] /\ elf'[at'[m]].st = "tree"
    BY <1>1, <1>2, <1>3, MappedAt DEF LeaveInv, Loaded
  <1>10. \A j \in Tasks : \A m \in Loaded' :
          j \in enabled'[at'[m]] /\ status'[j] \in {"unhooking", "gone"} =>
             \E u \in Threads : Leaving(u, j, at[m])'
    <2>1. \A u \in Threads : \A j \in Tasks : \A b \in Instances : Leaving(u, j, b)' <=> Leaving(u, j, b)
      BY <1>1, <1>2, <1>3 DEF Leaving
    <2>2. QED
      BY <1>1, <1>2, <1>3, <2>1, MappedAt DEF LeaveInv, Loaded
  <1>11. QED
    BY <1>4, <1>5, <1>6, <1>7, <1>8, <1>9, <1>10 DEF UnhookInv, OwnInv, LeaveInv

\* PostDlopen keeps what HookedEverywhere rests on.
LEMMA PostDlopenMeets ==
    ASSUME EngineInv, EngineInv', ~Reuse, SingleFits, SingleOnce, UnhookInv, HookInv,
           NEW t \in Threads, PostDlopen(t)
    PROVE  HookInv'
  <1>1. /\ op[t] = "open"
        /\ pc[t] = "post"
        /\ new[t] = {}
        /\ \A j \in Tasks : \A f \in Instances : ~Has(t, j, f) /\ <<j, f>> \notin todo[t] \cup cur[t]
        /\ \A u \in Threads : u # t =>
              /\ op'[u] = op[u] /\ arg'[u] = arg[u] /\ pc'[u] = pc[u]
              /\ todo'[u] = todo[u] /\ cur'[u] = cur[u] /\ new'[u] = new[u]
        /\ pc'[t] \in {"new"}
        /\ new'[t] = Born
        /\ op'[t] = op[t] /\ arg'[t] = arg[t] /\ todo'[t] = todo[t] /\ cur'[t] = cur[t]
        /\ elf' = Refreshed("open")
        /\ UNCHANGED <<refs, loads, at, enabled, status, monitor, oneshot>>
    BY PostDlopenDoes
  <1>2. OwnInv /\ MonitorInv /\ SingleInv /\ CfiInv /\ MeetInv /\ Types /\ CallInv /\ PlaceInv /\ PairInv
    BY DEF UnhookInv, HookInv, EngineInv
  <1>3. \A f \in Instances :
           /\ elf'[f].st = "tree" => (f \in Born /\ elf'[f].by = "open" /\ elf'[f].at = f) \/ (f \in Tree /\ elf'[f] = elf[f])
           /\ elf'[f].st = "none" => elf'[f].cfi = "unknown"
           /\ elf'[f].cfi = "failed" => elf[f].cfi = "failed" /\ elf'[f].at = elf[f].at
    BY <1>1, <1>2, RefreshSeen
  <1>4. monitor' \in {"off", "init", "open", "on"}
    BY <1>1, <1>2, <1>3 DEF MonitorInv
  <1>5. oneshot' \in Threads \cup {"no", "done"}
    BY <1>1, <1>2, <1>3 DEF MonitorInv
  <1>6. \A u \in Threads : op'[u] \in {"open", "close"} => monitor' \in {"open", "on"}
    BY <1>1, <1>2, <1>3 DEF MonitorInv
  <1>7. \A u \in Threads : pc'[u] \in {"initopen", "initclose"} => oneshot' # "no"
    BY <1>1, <1>2, <1>3 DEF MonitorInv
  <1>8. oneshot' = "no" => monitor' \in {"off", "init"} /\ Tree' = {}
    BY <1>1, <1>2 DEF MonitorInv
  <1>9. oneshot' = "no" => \A j \in Listed' : \E u \in Threads :
          op'[u] = "hook" /\ arg'[u] = j /\ pc'[u] \in {"monitor", "init", "oneshot"}
    BY <1>1, <1>2, <1>3 DEF MonitorInv, Listed
  <1>10. SingleInv'
    BY <1>1, <1>2, <1>3 DEF SingleInv
  <1>11. CfiInv'
    BY <1>1, <1>2, <1>3 DEF CfiInv, Mapped, Loaded
  <1>12. \A m \in Libs : loads'[m] <= MaxLoads
    BY <1>1, <1>2, <1>3 DEF MeetInv
  <1>13. \A f \in Tree' : \A j \in Listed' :
          Mapped(f)' /\ Path(f) \in Match[j] \ Brittle /\ elf'[f].by # "close" =>
             j \in enabled'[f] \/ \E u \in Threads : Coming(u, j, f)'
    <2>1. SUFFICES ASSUME NEW f \in Tree', NEW j \in Listed', Mapped(f)', Path(f) \in Match[j] \ Brittle,
                          elf'[f].by # "close"
                   PROVE  j \in enabled'[f] \/ \E u \in Threads : Coming(u, j, f)'
      OBVIOUS
    <2>2. j \in Listed /\ j \in Tasks /\ f \in Instances /\ elf'[f].st = "tree"
      BY <1>1, <2>1 DEF Listed, Tree
    <2>3. CASE f \in Born
      BY <1>1, <2>3 DEF Coming
    <2>4. CASE f \in Tree /\ elf'[f] = elf[f]
      <3>1. Mapped(f)
        BY <1>1, <2>1, <2>4 DEF Mapped, Loaded
      <3>2. j \in enabled[f] \/ \E u \in Threads : Coming(u, j, f)
        BY <1>1, <1>2, <2>1, <2>2, <2>4, <3>1 DEF MeetInv
      <3>3. \A u \in Threads : Coming(u, j, f) => Coming(u, j, f)'
        BY <1>1, <2>4 DEF Coming
      <3>4. QED
        BY <1>1, <3>2, <3>3
    <2>5. QED
      BY <1>3, <2>2, <2>3, <2>4
  <1>14. QED
    BY <1>4, <1>5, <1>6, <1>7, <1>8, <1>9, <1>10, <1>11, <1>12, <1>13 DEF HookInv, MonitorInv, MeetInv

\* What a step of Clean leaves in the tables, value by value.
LEMMA CleanDoes ==
    ASSUME EngineInv, ~Reuse, NEW t \in Threads, Clean(t)
    PROVE  /\ op[t] = "close"
           /\ pc[t] = "clean"
           /\ new[t] = {}
           /\ \A j \in Tasks : \A f \in Instances : ~Has(t, j, f) /\ <<j, f>> \notin todo[t] \cup cur[t]
           /\ \A u \in Threads : u # t =>
                 /\ op'[u] = op[u] /\ arg'[u] = arg[u] /\ pc'[u] = pc[u]
                 /\ todo'[u] = todo[u] /\ cur'[u] = cur[u] /\ new'[u] = new[u]
           /\ op'[t] = "none"
           /\ arg'[t] = None
           /\ pc'[t] = "idle"
           /\ todo'[t] = todo[t] /\ cur'[t] = cur[t] /\ new'[t] = new[t]
           /\ elf' = Refreshed("close")
           /\ UNCHANGED <<refs, loads, at, enabled, status, monitor, oneshot>>
  <1>1. Clean(t) /\ ~Reuse /\ Types /\ CallInv /\ PlaceInv /\ PairInv /\ SlotInv
    BY DEF EngineInv
  <1>2. op[t] = "close"
    BY <1>1 DEF Clean, Types, CallInv, Ways, Ops
  <1>3. /\ pc[t] = "clean"
        /\ new[t] = {}
        /\ \A j \in Tasks : \A f \in Instances : ~Has(t, j, f) /\ <<j, f>> \notin todo[t] \cup cur[t]
    BY <1>1 DEF Clean, Return, Goto, Types, CallInv, Ways, PairInv, Has
  <1>4. /\ \A u \in Threads : u # t =>
              /\ op'[u] = op[u] /\ arg'[u] = arg[u] /\ pc'[u] = pc[u]
              /\ todo'[u] = todo[u] /\ cur'[u] = cur[u] /\ new'[u] = new[u]
        /\ op'[t] = "none"
        /\ arg'[t] = None
        /\ pc'[t] = "idle"
        /\ todo'[t] = todo[t] /\ cur'[t] = cur[t] /\ new'[t] = new[t]
    BY <1>1 DEF Clean, Return, Goto, Types, linker, chains, engine
  <1>5. /\ elf' = Refreshed("close")
        /\ UNCHANGED <<refs, loads, at, enabled, status, monitor, oneshot>>
    BY <1>1 DEF Clean, Return, Goto, Types, linker, chains, engine
  <1>6. QED
    BY <1>2, <1>3, <1>4, <1>5

\* Clean keeps what UnhookComplete rests on.
LEMMA CleanLeaves ==
    ASSUME EngineInv, EngineInv', ~Reuse, SingleFits, UnhookInv,
           NEW t \in Threads, Clean(t)
    PROVE  UnhookInv'
  <1>1. /\ op[t] = "close"
        /\ pc[t] = "clean"
        /\ new[t] = {}
        /\ \A j \in Tasks : \A f \in Instances : ~Has(t, j, f) /\ <<j, f>> \notin todo[t] \cup cur[t]
        /\ \A u \in Threads : u # t =>
              /\ op'[u] = op[u] /\ arg'[u] = arg[u] /\ pc'[u] = pc[u]
              /\ todo'[u] = todo[u] /\ cur'[u] = cur[u] /\ new'[u] = new[u]
        /\ op'[t] = "none"
        /\ arg'[t] = None
        /\ pc'[t] = "idle"
        /\ todo'[t] = todo[t] /\ cur'[t] = cur[t] /\ new'[t] = new[t]
        /\ elf' = Refreshed("close")
        /\ UNCHANGED <<refs, loads, at, enabled, status, monitor, oneshot>>
    BY CleanDoes
  <1>2. OwnInv /\ LeaveInv /\ Types /\ CallInv /\ PlaceInv /\ PairInv /\ SlotInv
    BY DEF UnhookInv, EngineInv
  <1>3. \A m \in Loaded : elf[at[m]].st = "tree" => elf'[at[m]].st = "tree"
    BY <1>1, <1>2, RefreshKeeps
  <1>4. \A u, v \in Threads :
          op'[u] \in {"hook", "unhook"} /\ op'[v] \in {"hook", "unhook"} /\ arg'[u] = arg'[v] => u = v
    BY <1>1, <1>2, <1>3 DEF OwnInv, Listed
  <1>5. \A u \in Threads : op'[u] = "hook" => arg'[u] \in Listed'
    BY SMTT(40), <1>1, <1>2, <1>3 DEF OwnInv, Listed, Types
  <1>6. \A u \in Threads : op'[u] = "unhook" => status'[arg'[u]] = "unhooking"
    BY <1>1, <1>2, <1>3 DEF OwnInv, Listed, CallInv
  <1>7. \A u \in Threads : \A j \in Tasks : \A f \in Instances :
          Has(u, j, f)' /\ op'[u] # "unhook" => j \in Listed'
    BY <1>1, <1>2, <1>3 DEF OwnInv, Listed, Has
  <1>8. \A j \in Tasks : \A b \in Instances : j \in enabled'[b] => status'[j] # "new"
    BY <1>1, <1>2, <1>3 DEF LeaveInv
  <1>9. \A j \in Tasks : \A m \in Loaded' : j \in enabled'[at'[m]] =>
          m \in Match[j] /\ elf'[at'[m]].st = "tree"
    BY <1>1, <1>2, <1>3, MappedAt DEF LeaveInv, Loaded
  <1>10. \A j \in Tasks : \A m \in Loaded' :
          j \in enabled'[at'[m]] /\ status'[j] \in {"unhooking", "gone"} =>
             \E u \in Threads : Leaving(u, j, at[m])'
    <2>1. \A u \in Threads : \A j \in Tasks : \A b \in Instances : Leaving(u, j, b)' <=> Leaving(u, j, b)
      BY <1>1, <1>2, <1>3 DEF Leaving
    <2>2. QED
      BY <1>1, <1>2, <1>3, <2>1, MappedAt DEF LeaveInv, Loaded
  <1>11. QED
    BY <1>4, <1>5, <1>6, <1>7, <1>8, <1>9, <1>10 DEF UnhookInv, OwnInv, LeaveInv

\* Clean keeps what HookedEverywhere rests on.
LEMMA CleanMeets ==
    ASSUME EngineInv, EngineInv', ~Reuse, SingleFits, SingleOnce, UnhookInv, HookInv,
           NEW t \in Threads, Clean(t)
    PROVE  HookInv'
  <1>1. /\ op[t] = "close"
        /\ pc[t] = "clean"
        /\ new[t] = {}
        /\ \A j \in Tasks : \A f \in Instances : ~Has(t, j, f) /\ <<j, f>> \notin todo[t] \cup cur[t]
        /\ \A u \in Threads : u # t =>
              /\ op'[u] = op[u] /\ arg'[u] = arg[u] /\ pc'[u] = pc[u]
              /\ todo'[u] = todo[u] /\ cur'[u] = cur[u] /\ new'[u] = new[u]
        /\ op'[t] = "none"
        /\ arg'[t] = None
        /\ pc'[t] = "idle"
        /\ todo'[t] = todo[t] /\ cur'[t] = cur[t] /\ new'[t] = new[t]
        /\ elf' = Refreshed("close")
        /\ UNCHANGED <<refs, loads, at, enabled, status, monitor, oneshot>>
    BY CleanDoes
  <1>2. OwnInv /\ MonitorInv /\ SingleInv /\ CfiInv /\ MeetInv /\ Types /\ CallInv /\ PlaceInv /\ PairInv
    BY DEF UnhookInv, HookInv, EngineInv
  <1>3. \A f \in Instances :
           /\ elf'[f].st = "tree" => (f \in Born /\ elf'[f].by = "close" /\ elf'[f].at = f) \/ (f \in Tree /\ elf'[f] = elf[f])
           /\ elf'[f].st = "none" => elf'[f].cfi = "unknown"
           /\ elf'[f].cfi = "failed" => elf[f].cfi = "failed" /\ elf'[f].at = elf[f].at
    BY <1>1, <1>2, RefreshSeen
  <1>4. monitor' \in {"off", "init", "open", "on"}
    BY <1>1, <1>2, <1>3 DEF MonitorInv
  <1>5. oneshot' \in Threads \cup {"no", "done"}
    BY <1>1, <1>2, <1>3 DEF MonitorInv
  <1>6. \A u \in Threads : op'[u] \in {"open", "close"} => monitor' \in {"open", "on"}
    BY <1>1, <1>2, <1>3 DEF MonitorInv
  <1>7. \A u \in Threads : pc'[u] \in {"initopen", "initclose"} => oneshot' # "no"
    BY <1>1, <1>2, <1>3 DEF MonitorInv
  <1>8. oneshot' = "no" => monitor' \in {"off", "init"} /\ Tree' = {}
    BY <1>1, <1>2 DEF MonitorInv
  <1>9. oneshot' = "no" => \A j \in Listed' : \E u \in Threads :
          op'[u] = "hook" /\ arg'[u] = j /\ pc'[u] \in {"monitor", "init", "oneshot"}
    BY <1>1, <1>2, <1>3 DEF MonitorInv, Listed
  <1>10. SingleInv'
    BY <1>1, <1>2, <1>3 DEF SingleInv
  <1>11. CfiInv'
    BY <1>1, <1>2, <1>3 DEF CfiInv, Mapped, Loaded
  <1>12. \A m \in Libs : loads'[m] <= MaxLoads
    BY <1>1, <1>2, <1>3 DEF MeetInv
  <1>13. \A f \in Tree' : \A j \in Listed' :
          Mapped(f)' /\ Path(f) \in Match[j] \ Brittle /\ elf'[f].by # "close" =>
             j \in enabled'[f] \/ \E u \in Threads : Coming(u, j, f)'
    <2>1. SUFFICES ASSUME NEW f \in Tree', NEW j \in Listed', Mapped(f)', Path(f) \in Match[j] \ Brittle,
                          elf'[f].by # "close"
                   PROVE  j \in enabled'[f] \/ \E u \in Threads : Coming(u, j, f)'
      OBVIOUS
    <2>2. j \in Listed /\ j \in Tasks /\ f \in Instances /\ elf'[f].st = "tree"
      BY <1>1, <2>1 DEF Listed, Tree
    <2>3. f \in Tree /\ elf'[f] = elf[f]
      BY <1>3, <2>1, <2>2
    <2>4. Mapped(f)
      BY <1>1, <2>1, <2>3 DEF Mapped, Loaded
    <2>5. j \in enabled[f] \/ \E u \in Threads : Coming(u, j, f)
      BY <1>1, <1>2, <2>1, <2>2, <2>3, <2>4 DEF MeetInv
    <2>6. \A u \in Threads : Coming(u, j, f) => Coming(u, j, f)'
      BY <1>1, <2>3 DEF Coming
    <2>7. QED
      BY <1>1, <2>5, <2>6
  <1>14. QED
    BY <1>4, <1>5, <1>6, <1>7, <1>8, <1>9, <1>10, <1>11, <1>12, <1>13 DEF HookInv, MonitorInv, MeetInv

\* What a step of NewElf leaves in the tables, value by value.
LEMMA NewElfDoes ==
    ASSUME EngineInv, ~Reuse, NEW t \in Threads, NEW e \in Instances, NewElf(t, e)
    PROVE  /\ op[t] = "open"
           /\ pc[t] = "new"
           /\ \A j \in Tasks : \A f \in Instances : ~Has(t, j, f) /\ <<j, f>> \notin todo[t] \cup cur[t]
           /\ e \in new[t]
           /\ \A u \in Threads : u # t =>
                 /\ op'[u] = op[u] /\ arg'[u] = arg[u] /\ pc'[u] = pc[u]
                 /\ todo'[u] = todo[u] /\ cur'[u] = cur[u] /\ new'[u] = new[u]
           /\ pc'[t] \in {"meet"}
           /\ new'[t] = new[t] \ {e}
           /\ todo'[t] = {k \in Listed : Path(e) \in Match[k]} \X {e}
           /\ op'[t] = op[t] /\ arg'[t] = arg[t] /\ cur'[t] = cur[t]
           /\ UNCHANGED <<refs, loads, at, elf, enabled, status, monitor, oneshot>>
  <1>1. NewElf(t, e) /\ ~Reuse /\ Types /\ CallInv /\ PlaceInv /\ PairInv /\ SlotInv
    BY DEF EngineInv
  <1>2. op[t] = "open"
    BY <1>1 DEF NewElf, Types, CallInv, Ways, Ops
  <1>3. /\ pc[t] = "new"
        /\ \A j \in Tasks : \A f \in Instances : ~Has(t, j, f) /\ <<j, f>> \notin todo[t] \cup cur[t]
        /\ e \in new[t]
    BY <1>1 DEF NewElf, Goto, Types, CallInv, Ways, PairInv, Has
  <1>4. /\ \A u \in Threads : u # t =>
              /\ op'[u] = op[u] /\ arg'[u] = arg[u] /\ pc'[u] = pc[u]
              /\ todo'[u] = todo[u] /\ cur'[u] = cur[u] /\ new'[u] = new[u]
        /\ pc'[t] \in {"meet"}
        /\ new'[t] = new[t] \ {e}
        /\ todo'[t] = {k \in Listed : Path(e) \in Match[k]} \X {e}
        /\ op'[t] = op[t] /\ arg'[t] = arg[t] /\ cur'[t] = cur[t]
    BY <1>1 DEF NewElf, Goto, Types, linker, chains, engine
  <1>5. UNCHANGED <<refs, loads, at, elf, enabled, status, monitor, oneshot>>
    BY <1>1 DEF NewElf, Goto, Types, linker, chains, engine
  <1>6. QED
    BY <1>2, <1>3, <1>4, <1>5

\* NewElf keeps what UnhookComplete rests on.
LEMMA NewElfLeaves ==
    ASSUME EngineInv, EngineInv', ~Reuse, SingleFits, UnhookInv,
           NEW t \in Threads, NEW e \in Instances, NewElf(t, e)
    PROVE  UnhookInv'
  <1>1. /\ op[t] = "open"
        /\ pc[t] = "new"
        /\ \A j \in Tasks : \A f \in Instances : ~Has(t, j, f) /\ <<j, f>> \notin todo[t] \cup cur[t]
        /\ e \in new[t]
        /\ \A u \in Threads : u # t =>
              /\ op'[u] = op[u] /\ arg'[u] = arg[u] /\ pc'[u] = pc[u]
              /\ todo'[u] = todo[u] /\ cur'[u] = cur[u] /\ new'[u] = new[u]
        /\ pc'[t] \in {"meet"}
        /\ new'[t] = new[t] \ {e}
        /\ todo'[t] = {k \in Listed : Path(e) \in Match[k]} \X {e}
        /\ op'[t] = op[t] /\ arg'[t] = arg[t] /\ cur'[t] = cur[t]
        /\ UNCHANGED <<refs, loads, at, elf, enabled, status, monitor, oneshot>>
    BY NewElfDoes
  <1>2. OwnInv /\ LeaveInv /\ Types /\ CallInv /\ PlaceInv /\ PairInv /\ SlotInv
    BY DEF UnhookInv, EngineInv
  <1>3. \A u, v \in Threads :
          op'[u] \in {"hook", "unhook"} /\ op'[v] \in {"hook", "unhook"} /\ arg'[u] = arg'[v] => u = v
    BY <1>1, <1>2 DEF OwnInv, Listed
  <1>4. \A u \in Threads : op'[u] = "hook" => arg'[u] \in Listed'
    BY SMTT(40), <1>1, <1>2 DEF OwnInv, Listed, Types
  <1>5. \A u \in Threads : op'[u] = "unhook" => status'[arg'[u]] = "unhooking"
    BY <1>1, <1>2 DEF OwnInv, Listed, CallInv
  <1>6. \A u \in Threads : \A j \in Tasks : \A f \in Instances :
          Has(u, j, f)' /\ op'[u] # "unhook" => j \in Listed'
    BY <1>1, <1>2 DEF OwnInv, Listed, Has
  <1>7. \A j \in Tasks : \A b \in Instances : j \in enabled'[b] => status'[j] # "new"
    BY <1>1, <1>2 DEF LeaveInv
  <1>8. \A j \in Tasks : \A m \in Loaded' : j \in enabled'[at'[m]] =>
          m \in Match[j] /\ elf'[at'[m]].st = "tree"
    BY <1>1, <1>2, MappedAt DEF LeaveInv, Loaded
  <1>9. \A j \in Tasks : \A m \in Loaded' :
          j \in enabled'[at'[m]] /\ status'[j] \in {"unhooking", "gone"} =>
             \E u \in Threads : Leaving(u, j, at[m])'
    <2>1. \A u \in Threads : \A j \in Tasks : \A b \in Instances : Leaving(u, j, b)' <=> Leaving(u, j, b)
      BY <1>1, <1>2 DEF Leaving
    <2>2. QED
      BY <1>1, <1>2, <2>1, MappedAt DEF LeaveInv, Loaded
  <1>10. QED
    BY <1>3, <1>4, <1>5, <1>6, <1>7, <1>8, <1>9 DEF UnhookInv, OwnInv, LeaveInv

\* NewElf keeps what HookedEverywhere rests on.
LEMMA NewElfMeets ==
    ASSUME EngineInv, EngineInv', ~Reuse, SingleFits, SingleOnce, UnhookInv, HookInv,
           NEW t \in Threads, NEW e \in Instances, NewElf(t, e)
    PROVE  HookInv'
  <1>1. /\ op[t] = "open"
        /\ pc[t] = "new"
        /\ \A j \in Tasks : \A f \in Instances : ~Has(t, j, f) /\ <<j, f>> \notin todo[t] \cup cur[t]
        /\ e \in new[t]
        /\ \A u \in Threads : u # t =>
              /\ op'[u] = op[u] /\ arg'[u] = arg[u] /\ pc'[u] = pc[u]
              /\ todo'[u] = todo[u] /\ cur'[u] = cur[u] /\ new'[u] = new[u]
        /\ pc'[t] \in {"meet"}
        /\ new'[t] = new[t] \ {e}
        /\ todo'[t] = {k \in Listed : Path(e) \in Match[k]} \X {e}
        /\ op'[t] = op[t] /\ arg'[t] = arg[t] /\ cur'[t] = cur[t]
        /\ UNCHANGED <<refs, loads, at, elf, enabled, status, monitor, oneshot>>
    BY NewElfDoes
  <1>2. OwnInv /\ MonitorInv /\ SingleInv /\ CfiInv /\ MeetInv /\ Types /\ CallInv /\ PlaceInv /\ PairInv
    BY DEF UnhookInv, HookInv, EngineInv
  <1>3. MonitorInv'
    BY <1>1, <1>2 DEF MonitorInv, Tree, Listed
  <1>4. SingleInv'
    BY <1>1, <1>2 DEF SingleInv
  <1>5. CfiInv'
    BY <1>1, <1>2 DEF CfiInv, Mapped, Loaded
  <1>6. \A m \in Libs : loads'[m] <= MaxLoads
    BY <1>1, <1>2 DEF MeetInv
  <1>7. \A f \in Tree' : \A j \in Listed' :
          Mapped(f)' /\ Path(f) \in Match[j] \ Brittle /\ elf'[f].by # "close" =>
             j \in enabled'[f] \/ \E u \in Threads : Coming(u, j, f)'
    <2>1. SUFFICES ASSUME NEW f \in Tree', NEW j \in Listed', Mapped(f)', Path(f) \in Match[j] \ Brittle,
                          elf'[f].by # "close"
                   PROVE  j \in enabled'[f] \/ \E u \in Threads : Coming(u, j, f)'
      OBVIOUS
    <2>2. j \in Listed /\ j \in Tasks /\ f \in Instances /\ elf'[f].st = "tree"
      BY <1>1, <2>1 DEF Listed, Tree
    <2>3. Mapped(f) /\ f \in Tree /\ elf[f].by # "close"
      BY <1>1, <2>1, <2>2 DEF Mapped, Loaded, Tree
    <2>4. CASE j \in enabled[f]
      BY <1>1, <2>1, <2>2, <2>4
    <2>5. CASE \E u \in Threads : Coming(u, j, f)
      <3>1. PICK u \in Threads : Coming(u, j, f)
        BY <2>5
      <3>2. CASE u # t
        <4>1. Coming(u, j, f)'
          BY <1>1, <3>1, <3>2 DEF Coming
        <4>2. QED
          BY <4>1
      <3>3. CASE u = t
        <4>1. Coming(t, j, f)'
          <5>1. CASE f = e
            <6>1. <<j, f>> \in todo'[t]
              BY <1>1, <2>1, <2>2, <5>1
            <6>2. QED
              BY <1>1, <6>1 DEF Coming
          <5>2. CASE f # e
            <6>1. f \in new[t]
              BY <1>1, <2>2, <3>1, <3>3 DEF Coming
            <6>2. QED
              BY <1>1, <5>2, <6>1 DEF Coming
          <5>3. QED
            BY <5>1, <5>2
        <4>2. QED
          BY <4>1
      <3>4. QED
        BY <3>2, <3>3
    <2>6. QED
      BY <1>2, <2>1, <2>2, <2>3, <2>4, <2>5 DEF MeetInv
  <1>8. QED
    BY <1>3, <1>4, <1>5, <1>6, <1>7 DEF HookInv, MeetInv

\* What a step of Load leaves in the tables, value by value.
LEMMA LoadDoes ==
    ASSUME EngineInv, ~Reuse, NEW t \in Threads, Load(t)
    PROVE  /\ op[t] \in {"open", "rawopen"}
           /\ pc[t] = "call"
           /\ new[t] = {}
           /\ \A j \in Tasks : \A f \in Instances : ~Has(t, j, f) /\ <<j, f>> \notin todo[t] \cup cur[t]
           /\ \A u \in Threads : u # t =>
                 /\ op'[u] = op[u] /\ arg'[u] = arg[u] /\ pc'[u] = pc[u]
                 /\ todo'[u] = todo[u] /\ cur'[u] = cur[u] /\ new'[u] = new[u]
           /\ op'[t] \in {op[t], "none"}
           /\ arg'[t] \in {arg[t], None}
           /\ pc'[t] \in {"post", "idle"}
           /\ todo'[t] = todo[t] /\ cur'[t] = cur[t] /\ new'[t] = new[t]
           /\ arg[t] \in Libs /\
              \A l \in Libs : refs'[l] = IF l = arg[t] THEN refs[l] + 1 ELSE refs[l]
           /\ \/ refs[arg[t]] > 0 /\ loads' = loads /\ at' = at
              \/ /\ ~(refs[arg[t]] > 0) /\ loads[arg[t]] < MaxLoads
                 /\ <<arg[t], loads[arg[t]] + 1>> \in Instances
                 /\ \A l \in Libs : /\ loads'[l] = IF l = arg[t] THEN loads[l] + 1 ELSE loads[l]
                                   /\ at'[l] = IF l = arg[t] THEN <<l, loads[l] + 1>> ELSE at[l]
           /\ UNCHANGED <<elf, enabled, status, monitor, oneshot>>
  <1>1. Load(t) /\ ~Reuse /\ Types /\ CallInv /\ PlaceInv /\ PairInv /\ SlotInv
    BY DEF EngineInv
  <1>2. op[t] \in {"open", "rawopen"}
    BY <1>1 DEF Load, Types, CallInv, Ways, Ops
  <1>3. /\ pc[t] = "call"
        /\ new[t] = {}
        /\ \A j \in Tasks : \A f \in Instances : ~Has(t, j, f) /\ <<j, f>> \notin todo[t] \cup cur[t]
    BY <1>1 DEF Load, Return, Goto, Loaded, Types, CallInv, Ways, PairInv, Has
  <1>4. /\ \A u \in Threads : u # t =>
              /\ op'[u] = op[u] /\ arg'[u] = arg[u] /\ pc'[u] = pc[u]
              /\ todo'[u] = todo[u] /\ cur'[u] = cur[u] /\ new'[u] = new[u]
        /\ op'[t] \in {op[t], "none"}
        /\ arg'[t] \in {arg[t], None}
        /\ pc'[t] \in {"post", "idle"}
        /\ todo'[t] = todo[t] /\ cur'[t] = cur[t] /\ new'[t] = new[t]
    BY <1>1 DEF Load, Return, Goto, Loaded, Types, linker, chains, engine
  <1>5. arg[t] \in Libs /\
        \A l \in Libs : refs'[l] = IF l = arg[t] THEN refs[l] + 1 ELSE refs[l]
    BY <1>1, <1>2, <1>3, <1>4 DEF Load, CallInv, Types
  <1>6. \/ refs[arg[t]] > 0 /\ loads' = loads /\ at' = at
        \/ /\ ~(refs[arg[t]] > 0) /\ loads[arg[t]] < MaxLoads
           /\ <<arg[t], loads[arg[t]] + 1>> \in Instances
           /\ \A l \in Libs : /\ loads'[l] = IF l = arg[t] THEN loads[l] + 1 ELSE loads[l]
                             /\ at'[l] = IF l = arg[t] THEN <<l, loads[l] + 1>> ELSE at[l]
    <2>1. CASE arg[t] \in Loaded
      <3>1. loads' = loads /\ at' = at
        BY <1>1, <2>1 DEF Load
      <3>2. QED
        BY <2>1, <3>1 DEF Loaded
    <2>2. CASE arg[t] \notin Loaded
      <3>1. /\ loads[arg[t]] < MaxLoads /\ loads' = [loads EXCEPT ![arg[t]] = @ + 1]
            /\ \E a \in Places(arg[t]) : at' = [at EXCEPT ![arg[t]] = a]
        BY <1>1, <2>2 DEF Load
      <3>2. Places(arg[t]) = {<<arg[t], loads[arg[t]] + 1>>}
        BY <1>1 DEF Places
      <3>3. arg[t] \in Libs /\ loads[arg[t]] \in Nat /\ MaxLoads \in Nat
        BY <1>1, <1>2, <1>3, <1>4, <1>5, BoundsType DEF Types
      <3>4. <<arg[t], loads[arg[t]] + 1>> \in Instances
        BY <3>1, <3>3 DEF Instances
      <3>5. ~(refs[arg[t]] > 0)
        BY <2>2, <3>3 DEF Loaded
      <3>6. \A l \in Libs : loads'[l] = IF l = arg[t] THEN loads[l] + 1 ELSE loads[l]
        BY <1>1, <3>1, <3>3 DEF Types
      <3>7. \A l \in Libs : at'[l] = IF l = arg[t] THEN <<l, loads[l] + 1>> ELSE at[l]
        BY <1>1, <3>1, <3>2, <3>3 DEF Types
      <3>8. QED
        BY <3>1, <3>4, <3>5, <3>6, <3>7
    <2>3. QED
      BY <2>1, <2>2
  <1>7. UNCHANGED <<elf, enabled, status, monitor, oneshot>>
    BY <1>1 DEF Load, Return, Goto, Loaded, Types, linker, chains, engine
  <1>8. QED
    BY <1>2, <1>3, <1>4, <1>5, <1>6, <1>7

\* Load keeps what UnhookComplete rests on.
LEMMA LoadLeaves ==
    ASSUME EngineInv, EngineInv', ~Reuse, SingleFits, UnhookInv,
           NEW t \in Threads, Load(t)
    PROVE  UnhookInv'
  <1>1. /\ op[t] \in {"open", "rawopen"}
        /\ pc[t] = "call"
        /\ new[t] = {}
        /\ \A j \in Tasks : \A f \in Instances : ~Has(t, j, f) /\ <<j, f>> \notin todo[t] \cup cur[t]
        /\ \A u \in Threads : u # t =>
              /\ op'[u] = op[u] /\ arg'[u] = arg[u] /\ pc'[u] = pc[u]
              /\ todo'[u] = todo[u] /\ cur'[u] = cur[u] /\ new'[u] = new[u]
        /\ op'[t] \in {op[t], "none"}
        /\ arg'[t] \in {arg[t], None}
        /\ pc'[t] \in {"post", "idle"}
        /\ todo'[t] = todo[t] /\ cur'[t] = cur[t] /\ new'[t] = new[t]
        /\ arg[t] \in Libs /\
           \A l \in Libs : refs'[l] = IF l = arg[t] THEN refs[l] + 1 ELSE refs[l]
        /\ \/ refs[arg[t]] > 0 /\ loads' = loads /\ at' = at
           \/ /\ ~(refs[arg[t]] > 0) /\ loads[arg[t]] < MaxLoads
              /\ <<arg[t], loads[arg[t]] + 1>> \in Instances
              /\ \A l \in Libs : /\ loads'[l] = IF l = arg[t] THEN loads[l] + 1 ELSE loads[l]
                                /\ at'[l] = IF l = arg[t] THEN <<l, loads[l] + 1>> ELSE at[l]
        /\ UNCHANGED <<elf, enabled, status, monitor, oneshot>>
    BY LoadDoes
  <1>2. OwnInv /\ LeaveInv /\ Types /\ CallInv /\ PlaceInv /\ PairInv /\ SlotInv
    BY DEF UnhookInv, EngineInv
  <1>3. \A u, v \in Threads :
          op'[u] \in {"hook", "unhook"} /\ op'[v] \in {"hook", "unhook"} /\ arg'[u] = arg'[v] => u = v
    BY <1>1, <1>2 DEF OwnInv, Listed
  <1>4. \A u \in Threads : op'[u] = "hook" => arg'[u] \in Listed'
    BY <1>1, <1>2 DEF OwnInv, Listed, Types
  <1>5. \A u \in Threads : op'[u] = "unhook" => status'[arg'[u]] = "unhooking"
    BY <1>1, <1>2 DEF OwnInv, Listed, CallInv
  <1>6. \A u \in Threads : \A j \in Tasks : \A f \in Instances :
          Has(u, j, f)' /\ op'[u] # "unhook" => j \in Listed'
    BY <1>1, <1>2 DEF OwnInv, Listed, Has
  <1>7. \A j \in Tasks : \A b \in Instances : j \in enabled'[b] => status'[j] # "new"
    BY <1>1, <1>2 DEF LeaveInv
  <1>8. \A j \in Tasks : \A m \in Loaded' : j \in enabled'[at'[m]] =>
          m \in Match[j] /\ elf'[at'[m]].st = "tree"
    <2>1. TAKE j \in Tasks
    <2>2. TAKE m \in Loaded'
    <2>3. HAVE j \in enabled'[at'[m]]
    <2>4. m \in Libs /\ refs'[m] > 0 /\ arg[t] \in Libs /\ refs[m] \in Int /\ loads[m] \in Nat
      BY <1>1, <1>2 DEF Loaded, Types
    <2>5. CASE ~(refs[m] > 0)
      <3>1. m = arg[t] /\ at'[m] = <<m, loads[m] + 1>> /\ at'[m] \in Instances
        BY <1>1, <2>4, <2>5
      <3>2. at'[m] \in chained
        BY <1>1, <1>2, <2>3, <3>1 DEF SlotInv
      <3>3. loads[m] + 1 <= loads[m]
        BY <1>2, <3>1, <3>2 DEF PlaceInv, Path
      <3>4. QED
        BY <2>4, <3>3
    <2>6. CASE refs[m] > 0
      <3>1. m \in Loaded /\ at'[m] = at[m]
        BY <1>1, <2>4, <2>6 DEF Loaded
      <3>2. QED
        BY <1>1, <1>2, <2>3, <3>1 DEF LeaveInv
    <2>7. QED
      BY <2>5, <2>6
  <1>9. \A j \in Tasks : \A m \in Loaded' :
          j \in enabled'[at'[m]] /\ status'[j] \in {"unhooking", "gone"} =>
             \E u \in Threads : Leaving(u, j, at[m])'
    <2>1. TAKE j \in Tasks
    <2>2. TAKE m \in Loaded'
    <2>3. HAVE j \in enabled'[at'[m]] /\ status'[j] \in {"unhooking", "gone"}
    <2>4. m \in Libs /\ refs'[m] > 0 /\ arg[t] \in Libs /\ refs[m] \in Int /\ loads[m] \in Nat
      BY <1>1, <1>2 DEF Loaded, Types
    <2>5. CASE ~(refs[m] > 0)
      <3>1. m = arg[t] /\ at'[m] = <<m, loads[m] + 1>> /\ at'[m] \in Instances
        BY <1>1, <2>4, <2>5
      <3>2. at'[m] \in chained
        BY <1>1, <1>2, <2>3, <3>1 DEF SlotInv
      <3>3. loads[m] + 1 <= loads[m]
        BY <1>2, <3>1, <3>2 DEF PlaceInv, Path
      <3>4. QED
        BY <2>4, <3>3
    <2>6. CASE refs[m] > 0
      <3>1. m \in Loaded /\ at'[m] = at[m]
        BY <1>1, <2>4, <2>6 DEF Loaded
      <3>2. PICK u \in Threads : Leaving(u, j, at[m])
        BY <1>1, <1>2, <2>3, <3>1 DEF LeaveInv
      <3>3. Leaving(u, j, at[m])'
        BY <1>1, <3>1, <3>2 DEF Leaving
      <3>4. QED
        BY <3>1, <3>3
    <2>7. QED
      BY <2>5, <2>6
  <1>10. QED
    BY <1>3, <1>4, <1>5, <1>6, <1>7, <1>8, <1>9 DEF UnhookInv, OwnInv, LeaveInv

\* Load keeps what HookedEverywhere rests on.
LEMMA LoadMeets ==
    ASSUME EngineInv, EngineInv', ~Reuse, SingleFits, SingleOnce, UnhookInv, HookInv,
           NEW t \in Threads, Load(t)
    PROVE  HookInv'
  <1>1. /\ op[t] \in {"open", "rawopen"}
        /\ pc[t] = "call"
        /\ new[t] = {}
        /\ \A j \in Tasks : \A f \in Instances : ~Has(t, j, f) /\ <<j, f>> \notin todo[t] \cup cur[t]
        /\ \A u \in Threads : u # t =>
              /\ op'[u] = op[u] /\ arg'[u] = arg[u] /\ pc'[u] = pc[u]
              /\ todo'[u] = todo[u] /\ cur'[u] = cur[u] /\ new'[u] = new[u]
        /\ op'[t] \in {op[t], "none"}
        /\ arg'[t] \in {arg[t], None}
        /\ pc'[t] \in {"post", "idle"}
        /\ todo'[t] = todo[t] /\ cur'[t] = cur[t] /\ new'[t] = new[t]
        /\ arg[t] \in Libs /\
           \A l \in Libs : refs'[l] = IF l = arg[t] THEN refs[l] + 1 ELSE refs[l]
        /\ \/ refs[arg[t]] > 0 /\ loads' = loads /\ at' = at
           \/ /\ ~(refs[arg[t]] > 0) /\ loads[arg[t]] < MaxLoads
              /\ <<arg[t], loads[arg[t]] + 1>> \in Instances
              /\ \A l \in Libs : /\ loads'[l] = IF l = arg[t] THEN loads[l] + 1 ELSE loads[l]
                                /\ at'[l] = IF l = arg[t] THEN <<l, loads[l] + 1>> ELSE at[l]
        /\ UNCHANGED <<elf, enabled, status, monitor, oneshot>>
    BY LoadDoes
  <1>2. OwnInv /\ MonitorInv /\ SingleInv /\ CfiInv /\ MeetInv /\ Types /\ CallInv /\ PlaceInv /\ PairInv
    BY DEF UnhookInv, HookInv, EngineInv
  <1>3. \A f \in Instances : elf[f].st # "none" /\ Mapped(f)' => Mapped(f)
    <2>1. SUFFICES ASSUME NEW f \in Instances, elf[f].st # "none", Mapped(f)' PROVE Mapped(f)
      OBVIOUS
    <2>2. elf[f].at = f /\ f[2] <= loads[Path(f)] /\ Path(f) \in Libs /\ f = <<Path(f), f[2]>>
      BY <1>2, <2>1 DEF PlaceInv, Instances, Path
    <2>3. refs'[Path(f)] > 0 /\ at'[Path(f)] = f /\ refs[Path(f)] \in Int /\ loads[Path(f)] \in Nat
      BY <1>1, <1>2, <2>1, <2>2 DEF Mapped, Loaded, Types
    <2>4. CASE Path(f) = arg[t] /\ ~(refs[arg[t]] > 0)
      <3>1. f = <<Path(f), loads[Path(f)] + 1>>
        BY <1>1, <2>2, <2>3, <2>4
      <3>2. f[2] = loads[Path(f)] + 1
        BY <3>1
      <3>3. QED
        BY <2>2, <2>3, <3>2
    <2>5. CASE ~(Path(f) = arg[t] /\ ~(refs[arg[t]] > 0))
      <3>1. refs[Path(f)] > 0 /\ at[Path(f)] = f
        BY <1>1, <2>2, <2>3, <2>5
      <3>2. QED
        BY <2>2, <3>1 DEF Mapped, Loaded
    <2>6. QED
      BY <2>4, <2>5
  <1>4. MonitorInv'
    BY <1>1, <1>2, <1>3 DEF MonitorInv, Tree, Listed
  <1>5. SingleInv'
    <2>1. SUFFICES ASSUME NEW j \in Tasks, status'[j] = "finished", NEW l \in Match[j] \ Brittle
                   PROVE  j \in Single /\ loads'[l] = 1 /\ (refs'[l] > 0 => j \in enabled'[<<l, 1>>])
      BY <1>1, <1>2 DEF SingleInv
    <2>2. j \in Single /\ loads[l] = 1 /\ (refs[l] > 0 => j \in enabled[<<l, 1>>]) /\ l \in Libs
      BY <1>1, <1>2, <2>1, MatchAt DEF SingleInv
    <2>3. MaxLoads = 1
      BY <2>2 DEF SingleOnce
    <2>4. CASE l = arg[t]
      <3>1. refs[l] > 0 /\ loads' = loads
        BY <1>1, <2>2, <2>3, <2>4
      <3>2. QED
        BY <1>1, <2>2, <3>1
    <2>5. CASE l # arg[t]
      <3>1. refs'[l] = refs[l] /\ loads'[l] = loads[l]
        BY <1>1, <2>2, <2>5
      <3>2. QED
        BY <1>1, <2>2, <3>1
    <2>6. QED
      BY <2>4, <2>5
  <1>6. CfiInv'
    BY <1>1, <1>2, <1>3 DEF CfiInv
  <1>7. \A m \in Libs : loads'[m] <= MaxLoads
    <2>1. TAKE m \in Libs
    <2>2. loads[m] <= MaxLoads /\ loads[m] \in Nat /\ MaxLoads \in Nat
      BY <1>2, BoundsType DEF MeetInv, Types
    <2>3. loads'[m] = loads[m] \/ (m = arg[t] /\ loads[m] < MaxLoads /\ loads'[m] = loads[m] + 1)
      BY <1>1
    <2>4. QED
      BY <2>2, <2>3
  <1>8. \A f \in Tree' : \A j \in Listed' :
          Mapped(f)' /\ Path(f) \in Match[j] \ Brittle /\ elf'[f].by # "close" =>
             j \in enabled'[f] \/ \E u \in Threads : Coming(u, j, f)'
    <2>1. \A u \in Threads : \A j \in Tasks : \A f \in Instances : Coming(u, j, f) => Coming(u, j, f)'
      BY <1>1 DEF Coming
    <2>2. QED
      BY <1>1, <1>2, <1>3, <2>1 DEF MeetInv, Tree, Listed
  <1>9. QED
    BY <1>4, <1>5, <1>6, <1>7, <1>8 DEF HookInv, MeetInv

\* What a step of Unload leaves in the tables, value by value.
LEMMA UnloadDoes ==
    ASSUME EngineInv, ~Reuse, NEW t \in Threads, Unload(t)
    PROVE  /\ op[t] \in {"close", "rawclose"}
           /\ pc[t] = "unload"
           /\ new[t] = {}
           /\ \A j \in Tasks : \A f \in Instances : ~Has(t, j, f) /\ <<j, f>> \notin todo[t] \cup cur[t]
           /\ \A u \in Threads : u # t =>
                 /\ op'[u] = op[u] /\ arg'[u] = arg[u] /\ pc'[u] = pc[u]
                 /\ todo'[u] = todo[u] /\ cur'[u] = cur[u] /\ new'[u] = new[u]
           /\ op'[t] \in {op[t], "none"}
           /\ arg'[t] \in {arg[t], None}
           /\ pc'[t] \in {"clean", "idle"}
           /\ todo'[t] = todo[t] /\ cur'[t] = cur[t] /\ new'[t] = new[t]
           /\ arg[t] \in Libs /\
              \A l \in Libs : refs'[l] = IF l = arg[t] THEN refs[l] - 1 ELSE refs[l]
           /\ \A l \in Libs : at'[l] = IF l = arg[t] /\ refs[l] = 1 THEN None ELSE at[l]
           /\ UNCHANGED <<loads, elf, enabled, status, monitor, oneshot>>
  <1>1. Unload(t) /\ ~Reuse /\ Types /\ CallInv /\ PlaceInv /\ PairInv /\ SlotInv
    BY DEF EngineInv
  <1>2. op[t] \in {"close", "rawclose"}
    BY <1>1 DEF Unload, Types, CallInv, Ways, Ops
  <1>3. /\ pc[t] = "unload"
        /\ new[t] = {}
        /\ \A j \in Tasks : \A f \in Instances : ~Has(t, j, f) /\ <<j, f>> \notin todo[t] \cup cur[t]
    BY <1>1 DEF Unload, Return, Goto, Types, CallInv, Ways, PairInv, Has
  <1>4. /\ \A u \in Threads : u # t =>
              /\ op'[u] = op[u] /\ arg'[u] = arg[u] /\ pc'[u] = pc[u]
              /\ todo'[u] = todo[u] /\ cur'[u] = cur[u] /\ new'[u] = new[u]
        /\ op'[t] \in {op[t], "none"}
        /\ arg'[t] \in {arg[t], None}
        /\ pc'[t] \in {"clean", "idle"}
        /\ todo'[t] = todo[t] /\ cur'[t] = cur[t] /\ new'[t] = new[t]
    BY <1>1 DEF Unload, Return, Goto, Types, linker, chains, engine
  <1>5. arg[t] \in Libs /\
        \A l \in Libs : refs'[l] = IF l = arg[t] THEN refs[l] - 1 ELSE refs[l]
    BY <1>1, <1>2, <1>3, <1>4 DEF Unload, CallInv, Types
  <1>6. /\ \A l \in Libs : at'[l] = IF l = arg[t] /\ refs[l] = 1 THEN None ELSE at[l]
        /\ UNCHANGED <<loads, elf, enabled, status, monitor, oneshot>>
    BY <1>1 DEF Unload, Return, Goto, Types, linker, chains, engine
  <1>7. QED
    BY <1>2, <1>3, <1>4, <1>5, <1>6

\* Unload keeps what UnhookComplete rests on.
LEMMA UnloadLeaves ==
    ASSUME EngineInv, EngineInv', ~Reuse, SingleFits, UnhookInv,
           NEW t \in Threads, Unload(t)
    PROVE  UnhookInv'
  <1>1. /\ op[t] \in {"close", "rawclose"}
        /\ pc[t] = "unload"
        /\ new[t] = {}
        /\ \A j \in Tasks : \A f \in Instances : ~Has(t, j, f) /\ <<j, f>> \notin todo[t] \cup cur[t]
        /\ \A u \in Threads : u # t =>
              /\ op'[u] = op[u] /\ arg'[u] = arg[u] /\ pc'[u] = pc[u]
              /\ todo'[u] = todo[u] /\ cur'[u] = cur[u] /\ new'[u] = new[u]
        /\ op'[t] \in {op[t], "none"}
        /\ arg'[t] \in {arg[t], None}
        /\ pc'[t] \in {"clean", "idle"}
        /\ todo'[t] = todo[t] /\ cur'[t] = cur[t] /\ new'[t] = new[t]
        /\ arg[t] \in Libs /\
           \A l \in Libs : refs'[l] = IF l = arg[t] THEN refs[l] - 1 ELSE refs[l]
        /\ \A l \in Libs : at'[l] = IF l = arg[t] /\ refs[l] = 1 THEN None ELSE at[l]
        /\ UNCHANGED <<loads, elf, enabled, status, monitor, oneshot>>
    BY UnloadDoes
  <1>2. OwnInv /\ LeaveInv /\ Types /\ CallInv /\ PlaceInv /\ PairInv /\ SlotInv
    BY DEF UnhookInv, EngineInv
  <1>3. OwnInv'
    <2>1. \A u \in Threads : op[u] \in {"hook", "unhook"} => arg[u] \in Tasks
      BY <1>2 DEF CallInv
    <2>2. /\ Listed \subseteq Listed'
          /\ \A j \in Tasks : status[j] = "unhooking" => status'[j] = "unhooking"
      BY <1>1 DEF Listed
    <2>3. \A u \in Threads : \A j \in Tasks : \A f \in Instances :
            Has(u, j, f)' /\ op'[u] # "unhook" => Has(u, j, f) /\ op[u] # "unhook"
      BY <1>1 DEF Has
    <2>4. QED
      BY <1>1, <1>2, <2>1, <2>2, <2>3, OwnKept
  <1>4. \A j \in Tasks : \A b \in Instances : j \in enabled'[b] => status'[j] # "new"
    BY <1>1, <1>2 DEF LeaveInv
  <1>5. \A j \in Tasks : \A m \in Loaded' : j \in enabled'[at'[m]] =>
          m \in Match[j] /\ elf'[at'[m]].st = "tree"
    <2>1. TAKE j \in Tasks
    <2>2. TAKE m \in Loaded'
    <2>3. HAVE j \in enabled'[at'[m]]
    <2>4. m \in Libs /\ refs'[m] > 0 /\ arg[t] \in Libs /\ refs[m] \in Int
      BY <1>1, <1>2 DEF Loaded, Types
    <2>5. refs[m] > 0 /\ at'[m] = at[m]
      BY <1>1, <2>4
    <2>6. m \in Loaded /\ at'[m] = at[m]
      BY <2>4, <2>5 DEF Loaded
    <2>7. QED
      BY <1>1, <1>2, <2>3, <2>6 DEF LeaveInv
  <1>6. \A j \in Tasks : \A m \in Loaded' :
          j \in enabled'[at'[m]] /\ status'[j] \in {"unhooking", "gone"} =>
             \E u \in Threads : Leaving(u, j, at[m])'
    <2>1. TAKE j \in Tasks
    <2>2. TAKE m \in Loaded'
    <2>3. HAVE j \in enabled'[at'[m]] /\ status'[j] \in {"unhooking", "gone"}
    <2>4. m \in Libs /\ refs'[m] > 0 /\ arg[t] \in Libs /\ refs[m] \in Int
      BY <1>1, <1>2 DEF Loaded, Types
    <2>5. refs[m] > 0 /\ at'[m] = at[m]
      BY <1>1, <2>4
    <2>6. m \in Loaded /\ at'[m] = at[m]
      BY <2>4, <2>5 DEF Loaded
    <2>7. PICK u \in Threads : Leaving(u, j, at[m])
      BY <1>1, <1>2, <2>3, <2>6 DEF LeaveInv
    <2>8. Leaving(u, j, at[m])'
      BY <1>1, <2>6, <2>7 DEF Leaving
    <2>9. QED
      BY <2>6, <2>8
  <1>7. QED
    BY <1>3, <1>4, <1>5, <1>6 DEF UnhookInv, LeaveInv

\* Unload keeps what HookedEverywhere rests on.
LEMMA UnloadMeets ==
    ASSUME EngineInv, EngineInv', ~Reuse, SingleFits, SingleOnce, UnhookInv, HookInv,
           NEW t \in Threads, Unload(t)
    PROVE  HookInv'
  <1>1. /\ op[t] \in {"close", "rawclose"}
        /\ pc[t] = "unload"
        /\ new[t] = {}
        /\ \A j \in Tasks : \A f \in Instances : ~Has(t, j, f) /\ <<j, f>> \notin todo[t] \cup cur[t]
        /\ \A u \in Threads : u # t =>
              /\ op'[u] = op[u] /\ arg'[u] = arg[u] /\ pc'[u] = pc[u]
              /\ todo'[u] = todo[u] /\ cur'[u] = cur[u] /\ new'[u] = new[u]
        /\ op'[t] \in {op[t], "none"}
        /\ arg'[t] \in {arg[t], None}
        /\ pc'[t] \in {"clean", "idle"}
        /\ todo'[t] = todo[t] /\ cur'[t] = cur[t] /\ new'[t] = new[t]
        /\ arg[t] \in Libs /\
           \A l \in Libs : refs'[l] = IF l = arg[t] THEN refs[l] - 1 ELSE refs[l]
        /\ \A l \in Libs : at'[l] = IF l = arg[t] /\ refs[l] = 1 THEN None ELSE at[l]
        /\ UNCHANGED <<loads, elf, enabled, status, monitor, oneshot>>
    BY UnloadDoes
  <1>2. OwnInv /\ MonitorInv /\ SingleInv /\ CfiInv /\ MeetInv /\ Types /\ CallInv /\ PlaceInv /\ PairInv
    BY DEF UnhookInv, HookInv, EngineInv
  <1>3. \A f \in Instances : elf[f].st # "none" /\ Mapped(f)' => Mapped(f)
    <2>1. SUFFICES ASSUME NEW f \in Instances, elf[f].st # "none", Mapped(f)' PROVE Mapped(f)
      OBVIOUS
    <2>2. elf[f].at = f /\ f[2] <= loads[Path(f)] /\ Path(f) \in Libs /\ f = <<Path(f), f[2]>>
      BY <1>2, <2>1 DEF PlaceInv, Instances, Path
    <2>3. refs'[Path(f)] > 0 /\ at'[Path(f)] = f /\ refs[Path(f)] \in Int /\ loads[Path(f)] \in Nat
      BY <1>1, <1>2, <2>1, <2>2 DEF Mapped, Loaded, Types
    <2>4. refs[Path(f)] > 0 /\ at[Path(f)] = f
      <3>1. ~(Path(f) = arg[t] /\ refs[Path(f)] = 1)
        BY <1>1, <2>2, <2>3
      <3>2. QED
        BY <1>1, <2>2, <2>3, <3>1
    <2>5. QED
      BY <2>2, <2>4 DEF Mapped, Loaded
  <1>4. MonitorInv'
    BY <1>1, <1>2, <1>3 DEF MonitorInv, Tree, Listed
  <1>5. SingleInv'
    <2>1. SUFFICES ASSUME NEW j \in Tasks, status'[j] = "finished", NEW l \in Match[j] \ Brittle
                   PROVE  j \in Single /\ loads'[l] = 1 /\ (refs'[l] > 0 => j \in enabled'[<<l, 1>>])
      BY <1>1, <1>2 DEF SingleInv
    <2>2. j \in Single /\ loads[l] = 1 /\ (refs[l] > 0 => j \in enabled[<<l, 1>>]) /\ l \in Libs
      BY <1>1, <1>2, <2>1, MatchAt DEF SingleInv
    <2>3. refs'[l] > 0 => refs[l] > 0
      BY <1>1, <1>2, <2>2 DEF Types
    <2>4. QED
      BY <1>1, <2>2, <2>3
  <1>6. CfiInv'
    BY <1>1, <1>2, <1>3 DEF CfiInv
  <1>7. \A m \in Libs : loads'[m] <= MaxLoads
    BY <1>1, <1>2, <1>3 DEF MeetInv
  <1>8. \A f \in Tree' : \A j \in Listed' :
          Mapped(f)' /\ Path(f) \in Match[j] \ Brittle /\ elf'[f].by # "close" =>
             j \in enabled'[f] \/ \E u \in Threads : Coming(u, j, f)'
    <2>1. \A u \in Threads : \A j \in Tasks : \A f \in Instances : Coming(u, j, f) => Coming(u, j, f)'
      BY <1>1 DEF Coming
    <2>2. QED
      BY <1>1, <1>2, <1>3, <2>1 DEF MeetInv, Tree, Listed
  <1>9. QED
    BY <1>4, <1>5, <1>6, <1>7, <1>8 DEF HookInv, MeetInv

\* What a step of Finish leaves in the tables, value by value.
LEMMA FinishDoes ==
    ASSUME EngineInv, ~Reuse, NEW t \in Threads, Finish(t)
    PROVE  /\ pc[t] = "meet"
           /\ op[t] \in {"hook", "unhook", "open"}
           /\ (op[t] # "open" => new[t] = {})
           /\ \A j \in Tasks : \A f \in Instances : ~Has(t, j, f) /\ <<j, f>> \notin todo[t] \cup cur[t]
           /\ \A u \in Threads : u # t =>
                 /\ op'[u] = op[u] /\ arg'[u] = arg[u] /\ pc'[u] = pc[u]
                 /\ todo'[u] = todo[u] /\ cur'[u] = cur[u] /\ new'[u] = new[u]
           /\ IF op[t] = "open" THEN op'[t] = op[t] /\ arg'[t] = arg[t] /\ pc'[t] = "new"
              ELSE op'[t] = "none" /\ arg'[t] = None /\ pc'[t] = "idle"
           /\ todo'[t] = todo[t] /\ cur'[t] = cur[t] /\ new'[t] = new[t]
           /\ \A j \in Tasks : status'[j] = IF op[t] = "unhook" /\ j = arg[t] THEN "gone" ELSE status[j]
           /\ oneshot' \in {"done", oneshot}
           /\ UNCHANGED <<refs, loads, at, elf, enabled, monitor>>
  <1>1. Finish(t) /\ ~Reuse /\ Types /\ CallInv /\ PlaceInv /\ PairInv /\ SlotInv
    BY DEF EngineInv
  <1>2. pc[t] = "meet"
    BY <1>1 DEF Finish, Return, Goto, Types, CallInv, Ways, PairInv, Has
  <1>3. op[t] \in {"hook", "unhook", "open"}
    BY <1>1 DEF Finish, Types, CallInv, Ways, Ops
  <1>4. /\ (op[t] # "open" => new[t] = {})
        /\ \A j \in Tasks : \A f \in Instances : ~Has(t, j, f) /\ <<j, f>> \notin todo[t] \cup cur[t]
    BY <1>1 DEF Finish, Return, Goto, Types, CallInv, Ways, PairInv, Has
  <1>5. /\ \A u \in Threads : u # t =>
              /\ op'[u] = op[u] /\ arg'[u] = arg[u] /\ pc'[u] = pc[u]
              /\ todo'[u] = todo[u] /\ cur'[u] = cur[u] /\ new'[u] = new[u]
        /\ IF op[t] = "open" THEN op'[t] = op[t] /\ arg'[t] = arg[t] /\ pc'[t] = "new"
           ELSE op'[t] = "none" /\ arg'[t] = None /\ pc'[t] = "idle"
        /\ todo'[t] = todo[t] /\ cur'[t] = cur[t] /\ new'[t] = new[t]
    BY <1>1 DEF Finish, Return, Goto, Types, linker, chains, engine
  <1>6. /\ \A j \in Tasks : status'[j] = IF op[t] = "unhook" /\ j = arg[t] THEN "gone" ELSE status[j]
        /\ oneshot' \in {"done", oneshot}
        /\ UNCHANGED <<refs, loads, at, elf, enabled, monitor>>
    BY <1>1 DEF Finish, Return, Goto, Types, linker, chains, engine
  <1>7. QED
    BY <1>2, <1>3, <1>4, <1>5, <1>6

\* Finish keeps what UnhookComplete rests on.
LEMMA FinishLeaves ==
    ASSUME EngineInv, EngineInv', ~Reuse, SingleFits, UnhookInv,
           NEW t \in Threads, Finish(t)
    PROVE  UnhookInv'
  <1>1. /\ pc[t] = "meet"
        /\ op[t] \in {"hook", "unhook", "open"}
        /\ (op[t] # "open" => new[t] = {})
        /\ \A j \in Tasks : \A f \in Instances : ~Has(t, j, f) /\ <<j, f>> \notin todo[t] \cup cur[t]
        /\ \A u \in Threads : u # t =>
              /\ op'[u] = op[u] /\ arg'[u] = arg[u] /\ pc'[u] = pc[u]
              /\ todo'[u] = todo[u] /\ cur'[u] = cur[u] /\ new'[u] = new[u]
        /\ IF op[t] = "open" THEN op'[t] = op[t] /\ arg'[t] = arg[t] /\ pc'[t] = "new"
           ELSE op'[t] = "none" /\ arg'[t] = None /\ pc'[t] = "idle"
        /\ todo'[t] = todo[t] /\ cur'[t] = cur[t] /\ new'[t] = new[t]
        /\ \A j \in Tasks : status'[j] = IF op[t] = "unhook" /\ j = arg[t] THEN "gone" ELSE status[j]
        /\ oneshot' \in {"done", oneshot}
        /\ UNCHANGED <<refs, loads, at, elf, enabled, monitor>>
    BY FinishDoes
  <1>2. OwnInv /\ LeaveInv /\ Types /\ CallInv /\ PlaceInv /\ PairInv /\ SlotInv
    BY DEF UnhookInv, EngineInv
  <1>3. \A u, v \in Threads :
          op'[u] \in {"hook", "unhook"} /\ op'[v] \in {"hook", "unhook"} /\ arg'[u] = arg'[v] => u = v
    BY <1>1, <1>2 DEF OwnInv, Listed, Types
  <1>4. \A u \in Threads : op'[u] = "hook" => arg'[u] \in Listed'
    BY <1>1, <1>2 DEF OwnInv, Listed, Types
  <1>5. \A u \in Threads : op'[u] = "unhook" => status'[arg'[u]] = "unhooking"
    BY <1>1, <1>2 DEF OwnInv, Listed, Types, CallInv
  <1>6. \A u \in Threads : \A j \in Tasks : \A f \in Instances :
          Has(u, j, f)' /\ op'[u] # "unhook" => j \in Listed'
    BY <1>1, <1>2 DEF OwnInv, Listed, Has, Types
  <1>7. \A j \in Tasks : \A b \in Instances : j \in enabled'[b] => status'[j] # "new"
    BY <1>1, <1>2 DEF LeaveInv, Types
  <1>8. \A j \in Tasks : \A m \in Loaded' : j \in enabled'[at'[m]] =>
          m \in Match[j] /\ elf'[at'[m]].st = "tree"
    BY <1>1, <1>2 DEF LeaveInv, Loaded, Types
  <1>9. \A j \in Tasks : \A m \in Loaded' :
          j \in enabled'[at'[m]] /\ status'[j] \in {"unhooking", "gone"} =>
             \E u \in Threads : Leaving(u, j, at[m])'
    <2>1. TAKE j \in Tasks
    <2>2. TAKE m \in Loaded'
    <2>3. HAVE j \in enabled'[at'[m]] /\ status'[j] \in {"unhooking", "gone"}
    <2>4. m \in Loaded /\ at'[m] = at[m] /\ at[m] \in Instances
      BY <1>1, <1>2, MappedAt DEF Loaded
    <2>5. status[j] \in {"unhooking", "gone"} /\ j \in enabled[at[m]]
      <3>1. status[j] \in {"unhooking", "gone"}
        BY <1>1, <1>2, <2>3 DEF OwnInv
      <3>2. QED
        BY <1>1, <2>3, <2>4, <3>1
    <2>6. PICK u \in Threads : Leaving(u, j, at[m])
      BY <1>2, <2>4, <2>5 DEF LeaveInv
    <2>7. u # t
      BY <1>1, <2>4, <2>6 DEF Leaving
    <2>8. Leaving(u, j, at[m])'
      BY <1>1, <2>6, <2>7 DEF Leaving
    <2>9. QED
      BY <2>4, <2>8
  <1>10. QED
    BY <1>3, <1>4, <1>5, <1>6, <1>7, <1>8, <1>9 DEF UnhookInv, OwnInv, LeaveInv

\* Finish keeps what HookedEverywhere rests on.
LEMMA FinishMeets ==
    ASSUME EngineInv, EngineInv', ~Reuse, SingleFits, SingleOnce, UnhookInv, HookInv,
           NEW t \in Threads, Finish(t)
    PROVE  HookInv'
  <1>1. /\ pc[t] = "meet"
        /\ op[t] \in {"hook", "unhook", "open"}
        /\ (op[t] # "open" => new[t] = {})
        /\ \A j \in Tasks : \A f \in Instances : ~Has(t, j, f) /\ <<j, f>> \notin todo[t] \cup cur[t]
        /\ \A u \in Threads : u # t =>
              /\ op'[u] = op[u] /\ arg'[u] = arg[u] /\ pc'[u] = pc[u]
              /\ todo'[u] = todo[u] /\ cur'[u] = cur[u] /\ new'[u] = new[u]
        /\ IF op[t] = "open" THEN op'[t] = op[t] /\ arg'[t] = arg[t] /\ pc'[t] = "new"
           ELSE op'[t] = "none" /\ arg'[t] = None /\ pc'[t] = "idle"
        /\ todo'[t] = todo[t] /\ cur'[t] = cur[t] /\ new'[t] = new[t]
        /\ \A j \in Tasks : status'[j] = IF op[t] = "unhook" /\ j = arg[t] THEN "gone" ELSE status[j]
        /\ oneshot' \in {"done", oneshot}
        /\ UNCHANGED <<refs, loads, at, elf, enabled, monitor>>
    BY FinishDoes
  <1>2. OwnInv /\ MonitorInv /\ SingleInv /\ CfiInv /\ MeetInv /\ Types /\ CallInv /\ PlaceInv /\ PairInv
    BY DEF UnhookInv, HookInv, EngineInv
  <1>3. MonitorInv'
    BY <1>1, <1>2 DEF MonitorInv, Tree, Listed
  <1>4. SingleInv'
    BY <1>1, <1>2 DEF SingleInv
  <1>5. CfiInv'
    BY <1>1, <1>2 DEF CfiInv, Mapped, Loaded
  <1>6. \A m \in Libs : loads'[m] <= MaxLoads
    BY <1>1, <1>2 DEF MeetInv
  <1>7. \A f \in Tree' : \A j \in Listed' :
          Mapped(f)' /\ Path(f) \in Match[j] \ Brittle /\ elf'[f].by # "close" =>
             j \in enabled'[f] \/ \E u \in Threads : Coming(u, j, f)'
    <2>1. \A u \in Threads : \A j \in Tasks : \A f \in Instances : Coming(u, j, f) => Coming(u, j, f)'
      BY <1>1, <1>2 DEF Coming
    <2>2. QED
      BY <1>1, <1>2, <2>1 DEF MeetInv, Tree, Listed, Mapped, Loaded
  <1>8. QED
    BY <1>3, <1>4, <1>5, <1>6, <1>7 DEF HookInv, MeetInv

\* What a step of HookCfi leaves in the tables, value by value.
LEMMA HookCfiDoes ==
    ASSUME EngineInv, ~Reuse, NEW t \in Threads, NEW k \in Tasks, NEW e \in Instances, HookCfi(t, k, e)
    PROVE  /\ pc[t] = "meet" /\ Path(e) \in Match[k] /\ (op[t] # "open" => k = arg[t])
           /\ elf[e].st # "none" /\ elf[e].at = e /\ e[2] <= loads[Path(e)]
           /\ <<k, e>> \in todo[t] /\ op[t] # "unhook" /\ Mapped(e)
           /\ \A u \in Threads : u # t =>
                 /\ op'[u] = op[u] /\ arg'[u] = arg[u] /\ pc'[u] = pc[u]
                 /\ todo'[u] = todo[u] /\ cur'[u] = cur[u] /\ new'[u] = new[u]
           /\ op'[t] = op[t] /\ arg'[t] = arg[t] /\ pc'[t] = pc[t] /\ todo'[t] = todo[t] /\ cur'[t] = cur[t] /\ new'[t] = new[t]
           /\ /\ elf' \in [Instances -> ElfTypes]
              /\ \A f \in Instances : /\ elf'[f].st = elf[f].st /\ elf'[f].at = elf[f].at /\ elf'[f].by = elf[f].by
                                      /\ f # e => elf'[f] = elf[f]
              /\ elf'[e].cfi = "failed" => Path(e) \in Brittle
           /\ UNCHANGED <<refs, loads, at, enabled, status, monitor, oneshot>>
  <1>1. HookCfi(t, k, e) /\ ~Reuse /\ Types /\ CallInv /\ PlaceInv /\ PairInv /\ SlotInv
    BY DEF EngineInv
  <1>2. /\ pc[t] = "meet" /\ Path(e) \in Match[k] /\ (op[t] # "open" => k = arg[t])
        /\ elf[e].st # "none" /\ elf[e].at = e /\ e[2] <= loads[Path(e)]
        /\ <<k, e>> \in todo[t] /\ op[t] # "unhook" /\ Mapped(e)
    BY <1>1 DEF HookCfi, Meets, Types, CallInv, Ways, PairInv, Has, PlaceInv
  <1>3. \A u \in Threads : u # t =>
           /\ op'[u] = op[u] /\ arg'[u] = arg[u] /\ pc'[u] = pc[u]
           /\ todo'[u] = todo[u] /\ cur'[u] = cur[u] /\ new'[u] = new[u]
    BY <1>1 DEF HookCfi, local
  <1>4. op'[t] = op[t] /\ arg'[t] = arg[t] /\ pc'[t] = pc[t] /\ todo'[t] = todo[t] /\ cur'[t] = cur[t] /\ new'[t] = new[t]
    BY <1>1 DEF HookCfi, local
  <1>5. /\ elf' \in [Instances -> ElfTypes]
        /\ \A f \in Instances : /\ elf'[f].st = elf[f].st /\ elf'[f].at = elf[f].at /\ elf'[f].by = elf[f].by
                                /\ f # e => elf'[f] = elf[f]
        /\ elf'[e].cfi = "failed" => Path(e) \in Brittle
    <2>1. PICK c \in {"unknown", "ok", "failed"} : elf' = [elf EXCEPT ![e] = [elf[e] EXCEPT !.cfi = c]] /\ (c = "failed" => Path(e) \in Brittle)
      <3>1. elf[e].cfi \in {"unknown", "ok", "failed"}
        BY <1>1 DEF Types, ElfTypes
      <3>2. QED
        BY <1>1, <3>1 DEF HookCfi
    <2>2. elf[e] \in ElfTypes /\ elf \in [Instances -> ElfTypes]
      BY <1>1 DEF Types
    <2>3. [elf[e] EXCEPT !.cfi = c] \in ElfTypes
      BY <2>2 DEF ElfTypes
    <2>4. /\ [elf[e] EXCEPT !.cfi = c].st = elf[e].st /\ [elf[e] EXCEPT !.cfi = c].at = elf[e].at
          /\ [elf[e] EXCEPT !.cfi = c].by = elf[e].by /\ [elf[e] EXCEPT !.cfi = c].cfi = c
      BY <2>2 DEF ElfTypes
    <2>5. elf'[e] = [elf[e] EXCEPT !.cfi = c] /\ \A f \in Instances : f # e => elf'[f] = elf[f]
      BY <2>1, <2>2
    <2>6. elf' \in [Instances -> ElfTypes]
      BY <2>1, <2>2, <2>3
    <2>7. \A f \in Instances : /\ elf'[f].st = elf[f].st /\ elf'[f].at = elf[f].at /\ elf'[f].by = elf[f].by
                               /\ f # e => elf'[f] = elf[f]
      BY <2>4, <2>5
    <2>8. QED
      BY <2>1, <2>4, <2>5, <2>6, <2>7
  <1>6. UNCHANGED <<refs, loads, at, enabled, status, monitor, oneshot>>
    BY <1>1 DEF HookCfi, Meets, Types, linker, chains, engine
  <1>7. QED
    BY <1>2, <1>3, <1>4, <1>5, <1>6

\* HookCfi keeps what UnhookComplete rests on.
LEMMA HookCfiLeaves ==
    ASSUME EngineInv, EngineInv', ~Reuse, SingleFits, UnhookInv,
           NEW t \in Threads, NEW k \in Tasks, NEW e \in Instances, HookCfi(t, k, e)
    PROVE  UnhookInv'
  <1>1. /\ pc[t] = "meet" /\ Path(e) \in Match[k] /\ (op[t] # "open" => k = arg[t])
        /\ elf[e].st # "none" /\ elf[e].at = e /\ e[2] <= loads[Path(e)]
        /\ <<k, e>> \in todo[t] /\ op[t] # "unhook" /\ Mapped(e)
        /\ \A u \in Threads : u # t =>
              /\ op'[u] = op[u] /\ arg'[u] = arg[u] /\ pc'[u] = pc[u]
              /\ todo'[u] = todo[u] /\ cur'[u] = cur[u] /\ new'[u] = new[u]
        /\ op'[t] = op[t] /\ arg'[t] = arg[t] /\ pc'[t] = pc[t] /\ todo'[t] = todo[t] /\ cur'[t] = cur[t] /\ new'[t] = new[t]
        /\ /\ elf' \in [Instances -> ElfTypes]
           /\ \A f \in Instances : /\ elf'[f].st = elf[f].st /\ elf'[f].at = elf[f].at /\ elf'[f].by = elf[f].by
                                   /\ f # e => elf'[f] = elf[f]
           /\ elf'[e].cfi = "failed" => Path(e) \in Brittle
        /\ UNCHANGED <<refs, loads, at, enabled, status, monitor, oneshot>>
    BY HookCfiDoes
  <1>2. OwnInv /\ LeaveInv /\ Types /\ CallInv /\ PlaceInv /\ PairInv /\ SlotInv
    BY DEF UnhookInv, EngineInv
  <1>3. \A u, v \in Threads :
          op'[u] \in {"hook", "unhook"} /\ op'[v] \in {"hook", "unhook"} /\ arg'[u] = arg'[v] => u = v
    BY <1>1, <1>2 DEF OwnInv, Listed
  <1>4. \A u \in Threads : op'[u] = "hook" => arg'[u] \in Listed'
    BY SMTT(40), <1>1, <1>2 DEF OwnInv, Listed, Types
  <1>5. \A u \in Threads : op'[u] = "unhook" => status'[arg'[u]] = "unhooking"
    BY <1>1, <1>2 DEF OwnInv, Listed, CallInv
  <1>6. \A u \in Threads : \A j \in Tasks : \A f \in Instances :
          Has(u, j, f)' /\ op'[u] # "unhook" => j \in Listed'
    BY <1>1, <1>2 DEF OwnInv, Listed, Has
  <1>7. \A j \in Tasks : \A b \in Instances : j \in enabled'[b] => status'[j] # "new"
    BY <1>1, <1>2 DEF LeaveInv
  <1>8. \A j \in Tasks : \A m \in Loaded' : j \in enabled'[at'[m]] =>
          m \in Match[j] /\ elf'[at'[m]].st = "tree"
    BY <1>1, <1>2, MappedAt DEF LeaveInv, Loaded
  <1>9. \A j \in Tasks : \A m \in Loaded' :
          j \in enabled'[at'[m]] /\ status'[j] \in {"unhooking", "gone"} =>
             \E u \in Threads : Leaving(u, j, at[m])'
    <2>1. \A u \in Threads : \A j \in Tasks : \A b \in Instances : Leaving(u, j, b)' <=> Leaving(u, j, b)
      BY <1>1, <1>2 DEF Leaving
    <2>2. QED
      BY <1>1, <1>2, <2>1, MappedAt DEF LeaveInv, Loaded
  <1>10. QED
    BY <1>3, <1>4, <1>5, <1>6, <1>7, <1>8, <1>9 DEF UnhookInv, OwnInv, LeaveInv

\* HookCfi keeps what HookedEverywhere rests on.
LEMMA HookCfiMeets ==
    ASSUME EngineInv, EngineInv', ~Reuse, SingleFits, SingleOnce, UnhookInv, HookInv,
           NEW t \in Threads, NEW k \in Tasks, NEW e \in Instances, HookCfi(t, k, e)
    PROVE  HookInv'
  <1>1. /\ pc[t] = "meet" /\ Path(e) \in Match[k] /\ (op[t] # "open" => k = arg[t])
        /\ elf[e].st # "none" /\ elf[e].at = e /\ e[2] <= loads[Path(e)]
        /\ <<k, e>> \in todo[t] /\ op[t] # "unhook" /\ Mapped(e)
        /\ \A u \in Threads : u # t =>
              /\ op'[u] = op[u] /\ arg'[u] = arg[u] /\ pc'[u] = pc[u]
              /\ todo'[u] = todo[u] /\ cur'[u] = cur[u] /\ new'[u] = new[u]
        /\ op'[t] = op[t] /\ arg'[t] = arg[t] /\ pc'[t] = pc[t] /\ todo'[t] = todo[t] /\ cur'[t] = cur[t] /\ new'[t] = new[t]
        /\ /\ elf' \in [Instances -> ElfTypes]
           /\ \A f \in Instances : /\ elf'[f].st = elf[f].st /\ elf'[f].at = elf[f].at /\ elf'[f].by = elf[f].by
                                   /\ f # e => elf'[f] = elf[f]
           /\ elf'[e].cfi = "failed" => Path(e) \in Brittle
        /\ UNCHANGED <<refs, loads, at, enabled, status, monitor, oneshot>>
    BY HookCfiDoes
  <1>2. OwnInv /\ MonitorInv /\ SingleInv /\ CfiInv /\ MeetInv /\ Types /\ CallInv /\ PlaceInv /\ PairInv
    BY DEF UnhookInv, HookInv, EngineInv
  <1>3. MonitorInv'
    BY <1>1, <1>2 DEF MonitorInv, Tree, Listed
  <1>4. SingleInv'
    BY <1>1, <1>2 DEF SingleInv
  <1>5. CfiInv'
    BY <1>1, <1>2 DEF CfiInv, Mapped, Loaded
  <1>6. \A m \in Libs : loads'[m] <= MaxLoads
    BY <1>1, <1>2 DEF MeetInv
  <1>7. \A f \in Tree' : \A j \in Listed' :
          Mapped(f)' /\ Path(f) \in Match[j] \ Brittle /\ elf'[f].by # "close" =>
             j \in enabled'[f] \/ \E u \in Threads : Coming(u, j, f)'
    <2>1. \A u \in Threads : \A j \in Tasks : \A f \in Instances : Coming(u, j, f) => Coming(u, j, f)'
      BY <1>1, <1>2 DEF Coming
    <2>2. QED
      BY <1>1, <1>2, <2>1 DEF MeetInv, Tree, Listed, Mapped, Loaded
  <1>8. QED
    BY <1>3, <1>4, <1>5, <1>6, <1>7 DEF HookInv, MeetInv

\* What a step of Skip leaves in the tables, value by value.
LEMMA SkipDoes ==
    ASSUME EngineInv, ~Reuse, NEW t \in Threads, NEW k \in Tasks, NEW e \in Instances, Skip(t, k, e)
    PROVE  /\ pc[t] = "meet" /\ Path(e) \in Match[k] /\ (op[t] # "open" => k = arg[t])
           /\ elf[e].st # "none" /\ elf[e].at = e /\ e[2] <= loads[Path(e)]
           /\ /\ <<k, e>> \in todo[t]
              /\ \/ op[t] # "unhook" /\ (Finished(k) \/ elf[e].cfi = "failed")
                 \/ op[t] = "unhook" /\ e \notin chained
                 \/ ~Mapped(e)
           /\ \A u \in Threads : u # t =>
                 /\ op'[u] = op[u] /\ arg'[u] = arg[u] /\ pc'[u] = pc[u]
                 /\ todo'[u] = todo[u] /\ cur'[u] = cur[u] /\ new'[u] = new[u]
           /\ todo'[t] = todo[t] \ {<<k, e>>}
           /\ op'[t] = op[t] /\ arg'[t] = arg[t] /\ pc'[t] = pc[t] /\ cur'[t] = cur[t] /\ new'[t] = new[t]
           /\ \A j \in Tasks : status'[j] = IF op[t] # "unhook" /\ k \in Single /\ j = k /\ status[j] = "unfinished" THEN "finished" ELSE status[j]
           /\ /\ elf' \in [Instances -> ElfTypes]
              /\ \A f \in Instances : /\ elf'[f].st = elf[f].st /\ elf'[f].at = elf[f].at /\ elf'[f].by = elf[f].by
                                      /\ f # e => elf'[f] = elf[f]
              /\ Mapped(e) => elf' = elf
           /\ UNCHANGED <<refs, loads, at, enabled, monitor, oneshot>>
  <1>1. Skip(t, k, e) /\ ~Reuse /\ Types /\ CallInv /\ PlaceInv /\ PairInv /\ SlotInv
    BY DEF EngineInv
  <1>2. /\ pc[t] = "meet" /\ Path(e) \in Match[k] /\ (op[t] # "open" => k = arg[t])
        /\ elf[e].st # "none" /\ elf[e].at = e /\ e[2] <= loads[Path(e)]
    BY <1>1 DEF Skip, Meets, Drop, Ended, HasChain, Types, CallInv, Ways, PairInv, Has, PlaceInv
  <1>3. /\ <<k, e>> \in todo[t]
        /\ \/ op[t] # "unhook" /\ (Finished(k) \/ elf[e].cfi = "failed")
           \/ op[t] = "unhook" /\ e \notin chained
           \/ ~Mapped(e)
    BY <1>1, <1>2 DEF Skip, Meets, HasChain
  <1>4. /\ \A u \in Threads : u # t =>
              /\ op'[u] = op[u] /\ arg'[u] = arg[u] /\ pc'[u] = pc[u]
              /\ todo'[u] = todo[u] /\ cur'[u] = cur[u] /\ new'[u] = new[u]
        /\ todo'[t] = todo[t] \ {<<k, e>>}
        /\ op'[t] = op[t] /\ arg'[t] = arg[t] /\ pc'[t] = pc[t] /\ cur'[t] = cur[t] /\ new'[t] = new[t]
    BY <1>1 DEF Skip, Meets, Drop, Ended, HasChain, Types, linker, chains, engine
  <1>5. \A j \in Tasks : status'[j] = IF op[t] # "unhook" /\ k \in Single /\ j = k /\ status[j] = "unfinished" THEN "finished" ELSE status[j]
    BY <1>1 DEF Skip, Meets, Drop, Ended, HasChain, Types, linker, chains, engine
  <1>6. /\ elf' \in [Instances -> ElfTypes]
        /\ \A f \in Instances : /\ elf'[f].st = elf[f].st /\ elf'[f].at = elf[f].at /\ elf'[f].by = elf[f].by
                                /\ f # e => elf'[f] = elf[f]
        /\ Mapped(e) => elf' = elf
    <2>1. PICK c \in {"unknown", "ok", "failed"} :
            elf' = [elf EXCEPT ![e] = [elf[e] EXCEPT !.cfi = c]] /\ (Mapped(e) => c = elf[e].cfi)
      <3>1. elf[e].cfi \in {"unknown", "ok", "failed"}
        BY <1>1 DEF Types, ElfTypes
      <3>2. elf' = [elf EXCEPT ![e] = [elf[e] EXCEPT !.cfi = IF Mapped(e) THEN elf[e].cfi ELSE "failed"]]
        BY <1>1 DEF Skip
      <3>3. QED
        BY <3>1, <3>2
    <2>2. elf[e] \in ElfTypes /\ elf \in [Instances -> ElfTypes]
      BY <1>1 DEF Types
    <2>3. [elf[e] EXCEPT !.cfi = c] \in ElfTypes
      BY <2>2 DEF ElfTypes
    <2>4. /\ [elf[e] EXCEPT !.cfi = c].st = elf[e].st /\ [elf[e] EXCEPT !.cfi = c].at = elf[e].at
          /\ [elf[e] EXCEPT !.cfi = c].by = elf[e].by /\ [elf[e] EXCEPT !.cfi = c].cfi = c
      BY <2>2 DEF ElfTypes
    <2>5. elf'[e] = [elf[e] EXCEPT !.cfi = c] /\ \A f \in Instances : f # e => elf'[f] = elf[f]
      BY <2>1, <2>2
    <2>6. elf' \in [Instances -> ElfTypes]
      BY <2>1, <2>2, <2>3
    <2>7. \A f \in Instances : /\ elf'[f].st = elf[f].st /\ elf'[f].at = elf[f].at /\ elf'[f].by = elf[f].by
                               /\ f # e => elf'[f] = elf[f]
      BY <2>4, <2>5
    <2>8. Mapped(e) => elf' = elf
      <3>1. SUFFICES ASSUME Mapped(e) PROVE elf' = elf
        OBVIOUS
      <3>2. [elf[e] EXCEPT !.cfi = c] = elf[e]
        BY <2>1, <2>2, <3>1 DEF ElfTypes
      <3>3. QED
        BY <2>1, <2>2, <3>2
    <2>9. QED
      BY <2>6, <2>7, <2>8
  <1>7. UNCHANGED <<refs, loads, at, enabled, monitor, oneshot>>
    BY <1>1 DEF Skip, Meets, Drop, Ended, HasChain, Types, linker, chains, engine
  <1>8. QED
    BY <1>2, <1>3, <1>4, <1>5, <1>6, <1>7

\* Skip keeps what UnhookComplete rests on.
LEMMA SkipLeaves ==
    ASSUME EngineInv, EngineInv', ~Reuse, SingleFits, UnhookInv,
           NEW t \in Threads, NEW k \in Tasks, NEW e \in Instances, Skip(t, k, e)
    PROVE  UnhookInv'
  <1>1. /\ pc[t] = "meet" /\ Path(e) \in Match[k] /\ (op[t] # "open" => k = arg[t])
        /\ elf[e].st # "none" /\ elf[e].at = e /\ e[2] <= loads[Path(e)]
        /\ /\ <<k, e>> \in todo[t]
           /\ \/ op[t] # "unhook" /\ (Finished(k) \/ elf[e].cfi = "failed")
              \/ op[t] = "unhook" /\ e \notin chained
              \/ ~Mapped(e)
        /\ \A u \in Threads : u # t =>
              /\ op'[u] = op[u] /\ arg'[u] = arg[u] /\ pc'[u] = pc[u]
              /\ todo'[u] = todo[u] /\ cur'[u] = cur[u] /\ new'[u] = new[u]
        /\ todo'[t] = todo[t] \ {<<k, e>>}
        /\ op'[t] = op[t] /\ arg'[t] = arg[t] /\ pc'[t] = pc[t] /\ cur'[t] = cur[t] /\ new'[t] = new[t]
        /\ \A j \in Tasks : status'[j] = IF op[t] # "unhook" /\ k \in Single /\ j = k /\ status[j] = "unfinished" THEN "finished" ELSE status[j]
        /\ /\ elf' \in [Instances -> ElfTypes]
           /\ \A f \in Instances : /\ elf'[f].st = elf[f].st /\ elf'[f].at = elf[f].at /\ elf'[f].by = elf[f].by
                                   /\ f # e => elf'[f] = elf[f]
           /\ Mapped(e) => elf' = elf
        /\ UNCHANGED <<refs, loads, at, enabled, monitor, oneshot>>
    BY SkipDoes
  <1>2. OwnInv /\ LeaveInv /\ Types /\ CallInv /\ PlaceInv /\ PairInv /\ SlotInv
    BY DEF UnhookInv, EngineInv
  <1>3. \A u, v \in Threads :
          op'[u] \in {"hook", "unhook"} /\ op'[v] \in {"hook", "unhook"} /\ arg'[u] = arg'[v] => u = v
    BY <1>1, <1>2 DEF OwnInv, Listed, Types
  <1>4. \A u \in Threads : op'[u] = "hook" => arg'[u] \in Listed'
    BY <1>1, <1>2 DEF OwnInv, Listed, Types
  <1>5. \A u \in Threads : op'[u] = "unhook" => status'[arg'[u]] = "unhooking"
    BY SMTT(40), <1>1, <1>2 DEF OwnInv, Listed, Types, CallInv
  <1>6. \A u \in Threads : \A j \in Tasks : \A f \in Instances :
          Has(u, j, f)' /\ op'[u] # "unhook" => j \in Listed'
    BY <1>1, <1>2 DEF OwnInv, Listed, Has, Types
  <1>7. \A j \in Tasks : \A b \in Instances : j \in enabled'[b] => status'[j] # "new"
    BY <1>1, <1>2 DEF LeaveInv, Types
  <1>8. \A j \in Tasks : \A m \in Loaded' : j \in enabled'[at'[m]] =>
          m \in Match[j] /\ elf'[at'[m]].st = "tree"
    <2>1. TAKE j \in Tasks
    <2>2. TAKE m \in Loaded'
    <2>3. HAVE j \in enabled'[at'[m]]
    <2>4. m \in Loaded /\ at'[m] = at[m] /\ at[m] \in Instances
      BY <1>1, <1>2, MappedAt DEF Loaded
    <2>5. j \in enabled[at[m]]
      BY <1>1, <2>3, <2>4
    <2>6. QED
      <3>1. m \in Match[j] /\ elf[at[m]].st = "tree"
        BY <1>2, <2>4, <2>5 DEF LeaveInv
      <3>2. QED
        BY <1>1, <2>4, <3>1
  <1>9. \A j \in Tasks : \A m \in Loaded' :
          j \in enabled'[at'[m]] /\ status'[j] \in {"unhooking", "gone"} =>
             \E u \in Threads : Leaving(u, j, at[m])'
    <2>1. TAKE j \in Tasks
    <2>2. TAKE m \in Loaded'
    <2>3. HAVE j \in enabled'[at'[m]] /\ status'[j] \in {"unhooking", "gone"}
    <2>4. m \in Loaded /\ at'[m] = at[m] /\ at[m] \in Instances
      BY <1>1, <1>2, MappedAt DEF Loaded
    <2>5. status[j] \in {"unhooking", "gone"} /\ j \in enabled[at[m]]
      BY <1>1, <2>3, <2>4
    <2>6. PICK u \in Threads : Leaving(u, j, at[m])
      BY <1>2, <2>4, <2>5 DEF LeaveInv
    <2>7. Leaving(u, j, at[m])'
      <3>1. CASE u # t \/ <<j, at[m]>> # <<k, e>>
        BY <1>1, <2>6, <3>1 DEF Leaving
      <3>2. CASE u = t /\ j = k /\ at[m] = e
        <4>1. op[t] = "unhook"
          BY <2>6, <3>2 DEF Leaving
        <4>2. e \in chained
          BY <1>2, <2>4, <2>5, <3>2 DEF SlotInv
        <4>3. Mapped(e)
          BY <1>1, <1>2, <2>4, <3>2, ElfMapped
        <4>4. QED
          BY <1>1, <4>1, <4>2, <4>3
      <3>3. QED
        BY <3>1, <3>2
    <2>8. QED
      BY <2>4, <2>7
  <1>10. QED
    BY <1>3, <1>4, <1>5, <1>6, <1>7, <1>8, <1>9 DEF UnhookInv, OwnInv, LeaveInv

\* Skip keeps what HookedEverywhere rests on.
LEMMA SkipMeets ==
    ASSUME EngineInv, EngineInv', ~Reuse, SingleFits, SingleOnce, UnhookInv, HookInv,
           NEW t \in Threads, NEW k \in Tasks, NEW e \in Instances, Skip(t, k, e)
    PROVE  HookInv'
  <1>1. /\ pc[t] = "meet" /\ Path(e) \in Match[k] /\ (op[t] # "open" => k = arg[t])
        /\ elf[e].st # "none" /\ elf[e].at = e /\ e[2] <= loads[Path(e)]
        /\ /\ <<k, e>> \in todo[t]
           /\ \/ op[t] # "unhook" /\ (Finished(k) \/ elf[e].cfi = "failed")
              \/ op[t] = "unhook" /\ e \notin chained
              \/ ~Mapped(e)
        /\ \A u \in Threads : u # t =>
              /\ op'[u] = op[u] /\ arg'[u] = arg[u] /\ pc'[u] = pc[u]
              /\ todo'[u] = todo[u] /\ cur'[u] = cur[u] /\ new'[u] = new[u]
        /\ todo'[t] = todo[t] \ {<<k, e>>}
        /\ op'[t] = op[t] /\ arg'[t] = arg[t] /\ pc'[t] = pc[t] /\ cur'[t] = cur[t] /\ new'[t] = new[t]
        /\ \A j \in Tasks : status'[j] = IF op[t] # "unhook" /\ k \in Single /\ j = k /\ status[j] = "unfinished" THEN "finished" ELSE status[j]
        /\ /\ elf' \in [Instances -> ElfTypes]
           /\ \A f \in Instances : /\ elf'[f].st = elf[f].st /\ elf'[f].at = elf[f].at /\ elf'[f].by = elf[f].by
                                   /\ f # e => elf'[f] = elf[f]
           /\ Mapped(e) => elf' = elf
        /\ UNCHANGED <<refs, loads, at, enabled, monitor, oneshot>>
    BY SkipDoes
  <1>2. OwnInv /\ MonitorInv /\ SingleInv /\ CfiInv /\ MeetInv /\ Types /\ CallInv /\ PlaceInv /\ PairInv
    BY DEF UnhookInv, HookInv, EngineInv
  <1>3. k \in Single => \A l \in Match[k] : l = Path(e) /\ loads[l] = 1 /\ e = <<l, 1>>
    <2>1. Path(e) \in Libs
      BY DEF Path, Instances
    <2>2. QED
      BY <1>1, <1>2, <2>1, SingleAt DEF MeetInv
  <1>4. MonitorInv'
    BY <1>1, <1>2, <1>3 DEF MonitorInv, Tree, Listed
  <1>5. SingleInv'
    <2>1. SUFFICES ASSUME NEW j \in Tasks, status'[j] = "finished"
                   PROVE  j \in Single /\ \A l \in Match[j] \ Brittle :
                            loads'[l] = 1 /\ (refs'[l] > 0 => j \in enabled'[<<l, 1>>])
      BY DEF SingleInv
    <2>2. CASE status[j] = "finished"
      BY <1>1, <1>2, <2>2 DEF SingleInv
    <2>3. CASE status[j] # "finished"
      <3>1. j = k /\ k \in Single /\ op[t] # "unhook" /\ status[k] = "unfinished"
        BY <1>1, <2>1, <2>3
      <3>2. ASSUME NEW l \in Match[k] \ Brittle, refs[l] > 0 PROVE FALSE
        <4>1. l = Path(e) /\ e = <<l, 1>> /\ loads[l] = 1
          BY <1>3, <3>1
        <4>2. l \in Loaded
          BY <3>2, <4>1 DEF Loaded, Instances, Path
        <4>3. Mapped(e)
          BY <1>1, <1>2, <4>1, <4>2, ElfMapped
        <4>4. elf[e].cfi = "failed"
          BY <1>1, <3>1, <4>3 DEF Finished
        <4>5. QED
          BY <1>2, <3>2, <4>1, <4>3, <4>4 DEF CfiInv
      <3>3. QED
        BY <1>1, <1>3, <3>1, <3>2
    <2>4. QED
      BY <2>2, <2>3
  <1>6. CfiInv'
    BY <1>1, <1>2, <1>3 DEF CfiInv, Mapped, Loaded
  <1>7. \A m \in Libs : loads'[m] <= MaxLoads
    BY <1>1, <1>2, <1>3 DEF MeetInv
  <1>8. \A f \in Tree' : \A j \in Listed' :
          Mapped(f)' /\ Path(f) \in Match[j] \ Brittle /\ elf'[f].by # "close" =>
             j \in enabled'[f] \/ \E u \in Threads : Coming(u, j, f)'
    <2>1. SUFFICES ASSUME NEW f \in Tree', NEW j \in Listed', Mapped(f)', Path(f) \in Match[j] \ Brittle,
                          elf'[f].by # "close"
                   PROVE  j \in enabled'[f] \/ \E u \in Threads : Coming(u, j, f)'
      OBVIOUS
    <2>2. j \in Listed /\ j \in Tasks /\ f \in Instances /\ elf'[f].st = "tree"
      BY <1>1, <2>1 DEF Listed, Tree
    <2>3. Mapped(f) /\ f \in Tree /\ elf[f].by # "close"
      BY <1>1, <2>1, <2>2 DEF Mapped, Loaded, Tree
    <2>4. CASE j \in enabled[f]
      BY <1>1, <2>1, <2>2, <2>4
    <2>5. CASE \E u \in Threads : Coming(u, j, f)
      <3>1. PICK u \in Threads : Coming(u, j, f)
        BY <2>5
      <3>2. CASE u # t
        <4>1. Coming(u, j, f)'
          BY <1>1, <3>1, <3>2 DEF Coming
        <4>2. QED
          BY <4>1
      <3>3. CASE u = t
        <4>1. CASE <<j, f>> # <<k, e>> \/ op[t] = "unhook"
          <5>1. Coming(t, j, f)'
            BY <1>1, <3>1, <3>3, <4>1 DEF Coming
          <5>2. QED
            BY <5>1
        <4>2. CASE j = k /\ f = e /\ op[t] # "unhook"
          <5>1. elf[e].cfi # "failed"
            BY <1>2, <2>1, <2>3, <4>2 DEF CfiInv
          <5>2. status[k] = "finished"
            BY <1>1, <2>3, <4>2, <5>1 DEF Finished
          <5>3. k \in Single /\ refs[Path(e)] > 0
            BY <1>2, <2>3, <4>2, <5>2 DEF SingleInv, Mapped, Loaded
          <5>4. e = <<Path(e), 1>>
            BY <1>1, <1>3, <5>3
          <5>5. k \in enabled[<<Path(e), 1>>]
            BY <1>2, <2>1, <4>2, <5>2, <5>3 DEF SingleInv
          <5>6. QED
            BY <1>1, <4>2, <5>4, <5>5
        <4>3. QED
          BY <4>1, <4>2
      <3>4. QED
        BY <3>2, <3>3
    <2>6. QED
      BY <1>2, <2>1, <2>2, <2>3, <2>4, <2>5 DEF MeetInv
  <1>9. QED
    BY <1>4, <1>5, <1>6, <1>7, <1>8 DEF HookInv, MeetInv

\* What a step of AddFunc leaves in the tables, value by value.
LEMMA AddFuncDoes ==
    ASSUME EngineInv, ~Reuse, NEW t \in Threads, NEW k \in Tasks, NEW e \in Instances, AddFunc(t, k, e)
    PROVE  /\ pc[t] = "meet" /\ Path(e) \in Match[k] /\ (op[t] # "open" => k = arg[t])
           /\ elf[e].st # "none" /\ elf[e].at = e /\ e[2] <= loads[Path(e)]
           /\ <<k, e>> \in todo[t] /\ op[t] # "unhook" /\ Mapped(e)
           /\ \A u \in Threads : u # t =>
                 /\ op'[u] = op[u] /\ arg'[u] = arg[u] /\ pc'[u] = pc[u]
                 /\ todo'[u] = todo[u] /\ cur'[u] = cur[u] /\ new'[u] = new[u]
           /\ todo'[t] = todo[t] \ {<<k, e>>}
           /\ op'[t] = op[t] /\ arg'[t] = arg[t] /\ pc'[t] = pc[t] /\ cur'[t] = cur[t] /\ new'[t] = new[t]
           /\ \A b \in Instances : enabled'[b] = IF b = e THEN enabled[b] \cup {k} ELSE enabled[b]
           /\ \A j \in Tasks : status'[j] = IF k \in Single /\ j = k /\ status[j] = "unfinished" THEN "finished" ELSE status[j]
           /\ UNCHANGED <<refs, loads, at, elf, monitor, oneshot>>
  <1>1. AddFunc(t, k, e) /\ ~Reuse /\ Types /\ CallInv /\ PlaceInv /\ PairInv /\ SlotInv
    BY DEF EngineInv
  <1>2. /\ pc[t] = "meet" /\ Path(e) \in Match[k] /\ (op[t] # "open" => k = arg[t])
        /\ elf[e].st # "none" /\ elf[e].at = e /\ e[2] <= loads[Path(e)]
        /\ <<k, e>> \in todo[t] /\ op[t] # "unhook" /\ Mapped(e)
    BY <1>1 DEF AddFunc, Meets, Drop, Ended, Types, CallInv, Ways, PairInv, Has, PlaceInv
  <1>3. /\ \A u \in Threads : u # t =>
              /\ op'[u] = op[u] /\ arg'[u] = arg[u] /\ pc'[u] = pc[u]
              /\ todo'[u] = todo[u] /\ cur'[u] = cur[u] /\ new'[u] = new[u]
        /\ todo'[t] = todo[t] \ {<<k, e>>}
        /\ op'[t] = op[t] /\ arg'[t] = arg[t] /\ pc'[t] = pc[t] /\ cur'[t] = cur[t] /\ new'[t] = new[t]
    BY <1>1 DEF AddFunc, Meets, Drop, Ended, Types, linker, chains, engine
  <1>4. \A b \in Instances : enabled'[b] = IF b = e THEN enabled[b] \cup {k} ELSE enabled[b]
    <2>1. enabled' = [enabled EXCEPT ![e] = enabled[e] \cup {k}]
      BY <1>1, <1>2, <1>3 DEF AddFunc
    <2>2. QED
      BY <1>1, <2>1 DEF Types
  <1>5. /\ \A j \in Tasks : status'[j] = IF k \in Single /\ j = k /\ status[j] = "unfinished" THEN "finished" ELSE status[j]
        /\ UNCHANGED <<refs, loads, at, elf, monitor, oneshot>>
    BY <1>1 DEF AddFunc, Meets, Drop, Ended, Types, linker, chains, engine
  <1>6. QED
    BY <1>2, <1>3, <1>4, <1>5

\* AddFunc keeps what UnhookComplete rests on.
LEMMA AddFuncLeaves ==
    ASSUME EngineInv, EngineInv', ~Reuse, SingleFits, UnhookInv,
           NEW t \in Threads, NEW k \in Tasks, NEW e \in Instances, AddFunc(t, k, e)
    PROVE  UnhookInv'
  <1>1. /\ pc[t] = "meet" /\ Path(e) \in Match[k] /\ (op[t] # "open" => k = arg[t])
        /\ elf[e].st # "none" /\ elf[e].at = e /\ e[2] <= loads[Path(e)]
        /\ <<k, e>> \in todo[t] /\ op[t] # "unhook" /\ Mapped(e)
        /\ \A u \in Threads : u # t =>
              /\ op'[u] = op[u] /\ arg'[u] = arg[u] /\ pc'[u] = pc[u]
              /\ todo'[u] = todo[u] /\ cur'[u] = cur[u] /\ new'[u] = new[u]
        /\ todo'[t] = todo[t] \ {<<k, e>>}
        /\ op'[t] = op[t] /\ arg'[t] = arg[t] /\ pc'[t] = pc[t] /\ cur'[t] = cur[t] /\ new'[t] = new[t]
        /\ \A b \in Instances : enabled'[b] = IF b = e THEN enabled[b] \cup {k} ELSE enabled[b]
        /\ \A j \in Tasks : status'[j] = IF k \in Single /\ j = k /\ status[j] = "unfinished" THEN "finished" ELSE status[j]
        /\ UNCHANGED <<refs, loads, at, elf, monitor, oneshot>>
    BY AddFuncDoes
  <1>2. OwnInv /\ LeaveInv /\ Types /\ CallInv /\ PlaceInv /\ PairInv /\ SlotInv
    BY DEF UnhookInv, EngineInv
  <1>3. \A u, v \in Threads :
          op'[u] \in {"hook", "unhook"} /\ op'[v] \in {"hook", "unhook"} /\ arg'[u] = arg'[v] => u = v
    BY <1>1, <1>2 DEF OwnInv, Listed, Types
  <1>4. \A u \in Threads : op'[u] = "hook" => arg'[u] \in Listed'
    BY SMTT(40), <1>1, <1>2 DEF OwnInv, Listed, Types
  <1>5. \A u \in Threads : op'[u] = "unhook" => status'[arg'[u]] = "unhooking"
    BY SMTT(40), <1>1, <1>2 DEF OwnInv, Listed, Types, CallInv
  <1>6. \A u \in Threads : \A j \in Tasks : \A f \in Instances :
          Has(u, j, f)' /\ op'[u] # "unhook" => j \in Listed'
    BY <1>1, <1>2 DEF OwnInv, Listed, Has, Types
  <1>7. \A j \in Tasks : \A b \in Instances : j \in enabled'[b] => status'[j] # "new"
    <2>1. k \in Listed
      BY <1>1, <1>2 DEF OwnInv, Has
    <2>2. \A b \in Instances : enabled'[b] \subseteq enabled[b] \cup {k}
      BY <1>1
    <2>3. \A j \in Tasks : \A b \in Instances : j \in enabled[b] => status'[j] # "new"
      BY <1>1, <1>2 DEF LeaveInv
    <2>4. status'[k] # "new"
      BY <1>1, <2>1 DEF Listed
    <2>5. QED
      BY <2>2, <2>3, <2>4
  <1>8. \A j \in Tasks : \A m \in Loaded' : j \in enabled'[at'[m]] =>
          m \in Match[j] /\ elf'[at'[m]].st = "tree"
    <2>1. TAKE j \in Tasks
    <2>2. TAKE m \in Loaded'
    <2>3. HAVE j \in enabled'[at'[m]]
    <2>4. m \in Loaded /\ at'[m] = at[m] /\ at[m] \in Instances
      BY <1>1, <1>2, MappedAt DEF Loaded
    <2>5. CASE at[m] = e /\ j = k
      BY <1>1, <1>2, <2>4, <2>5, ElfMapped
    <2>6. CASE ~(at[m] = e /\ j = k)
      <3>1. j \in enabled[at[m]]
        <4>1. enabled'[at[m]] \subseteq enabled[at[m]] \cup {k} /\ (at[m] # e => enabled'[at[m]] = enabled[at[m]])
          BY <1>1, <2>4
        <4>2. QED
          BY <2>3, <2>4, <2>6, <4>1
      <3>2. QED
        BY <1>1, <1>2, <2>4, <3>1 DEF LeaveInv
    <2>7. QED
      BY <2>5, <2>6
  <1>9. \A j \in Tasks : \A m \in Loaded' :
          j \in enabled'[at'[m]] /\ status'[j] \in {"unhooking", "gone"} =>
             \E u \in Threads : Leaving(u, j, at[m])'
    <2>1. TAKE j \in Tasks
    <2>2. TAKE m \in Loaded'
    <2>3. HAVE j \in enabled'[at'[m]] /\ status'[j] \in {"unhooking", "gone"}
    <2>4. m \in Loaded /\ at'[m] = at[m] /\ at[m] \in Instances
      BY <1>1, <1>2, MappedAt DEF Loaded
    <2>5. k \in Listed
      BY <1>1, <1>2 DEF OwnInv, Has
    <2>6. status[j] \in {"unhooking", "gone"} /\ j # k
      BY <1>1, <2>3, <2>5 DEF Listed
    <2>7. j \in enabled[at[m]]
      BY ZenonT(60), <1>1, <2>3, <2>4, <2>6
    <2>8. PICK u \in Threads : Leaving(u, j, at[m])
      BY <1>2, <2>4, <2>6, <2>7 DEF LeaveInv
    <2>9. Leaving(u, j, at[m])'
      BY <1>1, <2>4, <2>8 DEF Leaving
    <2>10. QED
      BY <2>4, <2>9
  <1>10. QED
    BY <1>3, <1>4, <1>5, <1>6, <1>7, <1>8, <1>9 DEF UnhookInv, OwnInv, LeaveInv

\* AddFunc keeps what HookedEverywhere rests on.
LEMMA AddFuncMeets ==
    ASSUME EngineInv, EngineInv', ~Reuse, SingleFits, SingleOnce, UnhookInv, HookInv,
           NEW t \in Threads, NEW k \in Tasks, NEW e \in Instances, AddFunc(t, k, e)
    PROVE  HookInv'
  <1>1. /\ pc[t] = "meet" /\ Path(e) \in Match[k] /\ (op[t] # "open" => k = arg[t])
        /\ elf[e].st # "none" /\ elf[e].at = e /\ e[2] <= loads[Path(e)]
        /\ <<k, e>> \in todo[t] /\ op[t] # "unhook" /\ Mapped(e)
        /\ \A u \in Threads : u # t =>
              /\ op'[u] = op[u] /\ arg'[u] = arg[u] /\ pc'[u] = pc[u]
              /\ todo'[u] = todo[u] /\ cur'[u] = cur[u] /\ new'[u] = new[u]
        /\ todo'[t] = todo[t] \ {<<k, e>>}
        /\ op'[t] = op[t] /\ arg'[t] = arg[t] /\ pc'[t] = pc[t] /\ cur'[t] = cur[t] /\ new'[t] = new[t]
        /\ \A b \in Instances : enabled'[b] = IF b = e THEN enabled[b] \cup {k} ELSE enabled[b]
        /\ \A j \in Tasks : status'[j] = IF k \in Single /\ j = k /\ status[j] = "unfinished" THEN "finished" ELSE status[j]
        /\ UNCHANGED <<refs, loads, at, elf, monitor, oneshot>>
    BY AddFuncDoes
  <1>2. OwnInv /\ MonitorInv /\ SingleInv /\ CfiInv /\ MeetInv /\ Types /\ CallInv /\ PlaceInv /\ PairInv
    BY DEF UnhookInv, HookInv, EngineInv
  <1>3. k \in Single => \A l \in Match[k] : l = Path(e) /\ loads[l] = 1 /\ e = <<l, 1>>
    <2>1. Path(e) \in Libs
      BY DEF Path, Instances
    <2>2. QED
      BY <1>1, <1>2, <2>1, SingleAt DEF MeetInv
  <1>4. MonitorInv'
    BY <1>1, <1>2, <1>3 DEF MonitorInv, Tree, Listed
  <1>5. SingleInv'
    <2>1. SUFFICES ASSUME NEW j \in Tasks, status'[j] = "finished"
                   PROVE  j \in Single /\ \A l \in Match[j] \ Brittle :
                            loads'[l] = 1 /\ (refs'[l] > 0 => j \in enabled'[<<l, 1>>])
      BY DEF SingleInv
    <2>2. CASE status[j] = "finished"
      <3>1. \A b \in Instances : enabled[b] \subseteq enabled'[b]
        BY <1>1
      <3>2. \A l \in Match[j] : <<l, 1>> \in Instances
        BY MatchAt
      <3>3. QED
        BY <1>1, <1>2, <2>2, <3>1, <3>2 DEF SingleInv
    <2>3. CASE status[j] # "finished"
      <3>1. j = k /\ k \in Single /\ status[k] = "unfinished"
        BY <1>1, <2>1, <2>3
      <3>2. k \in enabled'[e]
        BY <1>1
      <3>3. QED
        BY <1>1, <1>3, <3>1, <3>2
    <2>4. QED
      BY <2>2, <2>3
  <1>6. CfiInv'
    BY <1>1, <1>2, <1>3 DEF CfiInv, Mapped, Loaded
  <1>7. \A m \in Libs : loads'[m] <= MaxLoads
    BY <1>1, <1>2, <1>3 DEF MeetInv
  <1>8. \A f \in Tree' : \A j \in Listed' :
          Mapped(f)' /\ Path(f) \in Match[j] \ Brittle /\ elf'[f].by # "close" =>
             j \in enabled'[f] \/ \E u \in Threads : Coming(u, j, f)'
    <2>1. SUFFICES ASSUME NEW f \in Tree', NEW j \in Listed', Mapped(f)', Path(f) \in Match[j] \ Brittle,
                          elf'[f].by # "close"
                   PROVE  j \in enabled'[f] \/ \E u \in Threads : Coming(u, j, f)'
      OBVIOUS
    <2>2. j \in Listed /\ j \in Tasks /\ f \in Instances /\ elf'[f].st = "tree"
      BY <1>1, <2>1 DEF Listed, Tree
    <2>3. Mapped(f) /\ f \in Tree /\ elf[f].by # "close"
      BY <1>1, <2>1, <2>2 DEF Mapped, Loaded, Tree
    <2>4. CASE j \in enabled[f]
      BY <1>1, <2>1, <2>2, <2>4
    <2>5. CASE \E u \in Threads : Coming(u, j, f)
      <3>1. PICK u \in Threads : Coming(u, j, f)
        BY <2>5
      <3>2. CASE u # t
        <4>1. Coming(u, j, f)'
          BY <1>1, <3>1, <3>2 DEF Coming
        <4>2. QED
          BY <4>1
      <3>3. CASE u = t
        <4>1. CASE <<j, f>> # <<k, e>> \/ op[t] = "unhook"
          <5>1. Coming(t, j, f)'
            BY <1>1, <3>1, <3>3, <4>1 DEF Coming
          <5>2. QED
            BY <5>1
        <4>2. CASE j = k /\ f = e /\ op[t] # "unhook"
          BY <1>1, <4>2
        <4>3. QED
          BY <4>1, <4>2
      <3>4. QED
        BY <3>2, <3>3
    <2>6. QED
      BY <1>2, <2>1, <2>2, <2>3, <2>4, <2>5 DEF MeetInv
  <1>9. QED
    BY <1>4, <1>5, <1>6, <1>7, <1>8 DEF HookInv, MeetInv

\* What a step of AddChain leaves in the tables, value by value.
LEMMA AddChainDoes ==
    ASSUME EngineInv, ~Reuse, NEW t \in Threads, NEW k \in Tasks, NEW e \in Instances, AddChain(t, k, e)
    PROVE  /\ pc[t] = "meet" /\ Path(e) \in Match[k] /\ (op[t] # "open" => k = arg[t])
           /\ elf[e].st # "none" /\ elf[e].at = e /\ e[2] <= loads[Path(e)]
           /\ <<k, e>> \in todo[t] /\ op[t] # "unhook" /\ Mapped(e) /\ enabled[e] = {}
           /\ \A u \in Threads : u # t =>
                 /\ op'[u] = op[u] /\ arg'[u] = arg[u] /\ pc'[u] = pc[u]
                 /\ todo'[u] = todo[u] /\ cur'[u] = cur[u] /\ new'[u] = new[u]
           /\ todo'[t] = todo[t] \ {<<k, e>>}
           /\ cur'[t] = {<<k, e>>}
           /\ op'[t] = op[t] /\ arg'[t] = arg[t] /\ pc'[t] = pc[t] /\ new'[t] = new[t]
           /\ \A b \in Instances : enabled'[b] = IF b = e THEN {k} ELSE enabled[b]
           /\ UNCHANGED <<refs, loads, at, elf, status, monitor, oneshot>>
  <1>1. AddChain(t, k, e) /\ ~Reuse /\ Types /\ CallInv /\ PlaceInv /\ PairInv /\ SlotInv
    BY DEF EngineInv
  <1>2. /\ pc[t] = "meet" /\ Path(e) \in Match[k] /\ (op[t] # "open" => k = arg[t])
        /\ elf[e].st # "none" /\ elf[e].at = e /\ e[2] <= loads[Path(e)]
    BY <1>1 DEF AddChain, Meets, Drop, HasChain, Types, CallInv, Ways, PairInv, Has, PlaceInv
  <1>3. <<k, e>> \in todo[t] /\ op[t] # "unhook" /\ Mapped(e) /\ enabled[e] = {}
    BY <1>1, <1>2 DEF AddChain, Meets, HasChain, SlotInv
  <1>4. /\ \A u \in Threads : u # t =>
              /\ op'[u] = op[u] /\ arg'[u] = arg[u] /\ pc'[u] = pc[u]
              /\ todo'[u] = todo[u] /\ cur'[u] = cur[u] /\ new'[u] = new[u]
        /\ todo'[t] = todo[t] \ {<<k, e>>}
        /\ cur'[t] = {<<k, e>>}
        /\ op'[t] = op[t] /\ arg'[t] = arg[t] /\ pc'[t] = pc[t] /\ new'[t] = new[t]
    BY <1>1 DEF AddChain, Meets, Drop, HasChain, Types, linker, chains, engine
  <1>5. \A b \in Instances : enabled'[b] = IF b = e THEN {k} ELSE enabled[b]
    BY <1>1, <1>2, <1>3, <1>4 DEF AddChain, Types
  <1>6. UNCHANGED <<refs, loads, at, elf, status, monitor, oneshot>>
    BY <1>1 DEF AddChain, Meets, Drop, HasChain, Types, linker, chains, engine
  <1>7. QED
    BY <1>2, <1>3, <1>4, <1>5, <1>6

\* AddChain keeps what UnhookComplete rests on.
LEMMA AddChainLeaves ==
    ASSUME EngineInv, EngineInv', ~Reuse, SingleFits, UnhookInv,
           NEW t \in Threads, NEW k \in Tasks, NEW e \in Instances, AddChain(t, k, e)
    PROVE  UnhookInv'
  <1>1. /\ pc[t] = "meet" /\ Path(e) \in Match[k] /\ (op[t] # "open" => k = arg[t])
        /\ elf[e].st # "none" /\ elf[e].at = e /\ e[2] <= loads[Path(e)]
        /\ <<k, e>> \in todo[t] /\ op[t] # "unhook" /\ Mapped(e) /\ enabled[e] = {}
        /\ \A u \in Threads : u # t =>
              /\ op'[u] = op[u] /\ arg'[u] = arg[u] /\ pc'[u] = pc[u]
              /\ todo'[u] = todo[u] /\ cur'[u] = cur[u] /\ new'[u] = new[u]
        /\ todo'[t] = todo[t] \ {<<k, e>>}
        /\ cur'[t] = {<<k, e>>}
        /\ op'[t] = op[t] /\ arg'[t] = arg[t] /\ pc'[t] = pc[t] /\ new'[t] = new[t]
        /\ \A b \in Instances : enabled'[b] = IF b = e THEN {k} ELSE enabled[b]
        /\ UNCHANGED <<refs, loads, at, elf, status, monitor, oneshot>>
    BY AddChainDoes
  <1>2. OwnInv /\ LeaveInv /\ Types /\ CallInv /\ PlaceInv /\ PairInv /\ SlotInv
    BY DEF UnhookInv, EngineInv
  <1>3. \A u, v \in Threads :
          op'[u] \in {"hook", "unhook"} /\ op'[v] \in {"hook", "unhook"} /\ arg'[u] = arg'[v] => u = v
    BY <1>1, <1>2 DEF OwnInv, Listed
  <1>4. \A u \in Threads : op'[u] = "hook" => arg'[u] \in Listed'
    BY <1>1, <1>2 DEF OwnInv, Listed, Types
  <1>5. \A u \in Threads : op'[u] = "unhook" => status'[arg'[u]] = "unhooking"
    BY <1>1, <1>2 DEF OwnInv, Listed, CallInv
  <1>6. \A u \in Threads : \A j \in Tasks : \A f \in Instances :
          Has(u, j, f)' /\ op'[u] # "unhook" => j \in Listed'
    BY <1>1, <1>2 DEF OwnInv, Listed, Has
  <1>7. \A j \in Tasks : \A b \in Instances : j \in enabled'[b] => status'[j] # "new"
    <2>1. k \in Listed
      BY <1>1, <1>2 DEF OwnInv, Has
    <2>2. QED
      BY <1>1, <1>2, <2>1 DEF LeaveInv, Listed
  <1>8. \A j \in Tasks : \A m \in Loaded' : j \in enabled'[at'[m]] =>
          m \in Match[j] /\ elf'[at'[m]].st = "tree"
    <2>1. TAKE j \in Tasks
    <2>2. TAKE m \in Loaded'
    <2>3. HAVE j \in enabled'[at'[m]]
    <2>4. m \in Loaded /\ at'[m] = at[m] /\ at[m] \in Instances
      BY <1>1, <1>2, MappedAt DEF Loaded
    <2>5. CASE at[m] = e /\ j = k
      BY <1>1, <1>2, <2>4, <2>5, ElfMapped
    <2>6. CASE ~(at[m] = e /\ j = k)
      <3>1. j \in enabled[at[m]]
        BY <1>1, <2>3, <2>4, <2>6
      <3>2. QED
        BY <1>1, <1>2, <2>4, <3>1 DEF LeaveInv
    <2>7. QED
      BY <2>5, <2>6
  <1>9. \A j \in Tasks : \A m \in Loaded' :
          j \in enabled'[at'[m]] /\ status'[j] \in {"unhooking", "gone"} =>
             \E u \in Threads : Leaving(u, j, at[m])'
    <2>1. TAKE j \in Tasks
    <2>2. TAKE m \in Loaded'
    <2>3. HAVE j \in enabled'[at'[m]] /\ status'[j] \in {"unhooking", "gone"}
    <2>4. m \in Loaded /\ at'[m] = at[m] /\ at[m] \in Instances
      BY <1>1, <1>2, MappedAt DEF Loaded
    <2>5. k \in Listed
      BY <1>1, <1>2 DEF OwnInv, Has
    <2>6. status[j] \in {"unhooking", "gone"} /\ j # k
      BY <1>1, <2>3, <2>5 DEF Listed
    <2>7. j \in enabled[at[m]]
      BY <1>1, <2>3, <2>4, <2>6
    <2>8. PICK u \in Threads : Leaving(u, j, at[m])
      BY <1>2, <2>4, <2>6, <2>7 DEF LeaveInv
    <2>9. Leaving(u, j, at[m])'
      BY <1>1, <2>4, <2>8 DEF Leaving
    <2>10. QED
      BY <2>4, <2>9
  <1>10. QED
    BY <1>3, <1>4, <1>5, <1>6, <1>7, <1>8, <1>9 DEF UnhookInv, OwnInv, LeaveInv

\* AddChain keeps what HookedEverywhere rests on.
LEMMA AddChainMeets ==
    ASSUME EngineInv, EngineInv', ~Reuse, SingleFits, SingleOnce, UnhookInv, HookInv,
           NEW t \in Threads, NEW k \in Tasks, NEW e \in Instances, AddChain(t, k, e)
    PROVE  HookInv'
  <1>1. /\ pc[t] = "meet" /\ Path(e) \in Match[k] /\ (op[t] # "open" => k = arg[t])
        /\ elf[e].st # "none" /\ elf[e].at = e /\ e[2] <= loads[Path(e)]
        /\ <<k, e>> \in todo[t] /\ op[t] # "unhook" /\ Mapped(e) /\ enabled[e] = {}
        /\ \A u \in Threads : u # t =>
              /\ op'[u] = op[u] /\ arg'[u] = arg[u] /\ pc'[u] = pc[u]
              /\ todo'[u] = todo[u] /\ cur'[u] = cur[u] /\ new'[u] = new[u]
        /\ todo'[t] = todo[t] \ {<<k, e>>}
        /\ cur'[t] = {<<k, e>>}
        /\ op'[t] = op[t] /\ arg'[t] = arg[t] /\ pc'[t] = pc[t] /\ new'[t] = new[t]
        /\ \A b \in Instances : enabled'[b] = IF b = e THEN {k} ELSE enabled[b]
        /\ UNCHANGED <<refs, loads, at, elf, status, monitor, oneshot>>
    BY AddChainDoes
  <1>2. OwnInv /\ MonitorInv /\ SingleInv /\ CfiInv /\ MeetInv /\ Types /\ CallInv /\ PlaceInv /\ PairInv
    BY DEF UnhookInv, HookInv, EngineInv
  <1>3. MonitorInv'
    BY <1>1, <1>2 DEF MonitorInv, Tree, Listed
  <1>4. SingleInv'
    <2>1. \A b \in Instances : enabled[b] \subseteq enabled'[b]
      BY <1>1
    <2>2. \A j \in Tasks : \A l \in Match[j] : <<l, 1>> \in Instances
      BY MatchAt
    <2>3. QED
      BY <1>1, <1>2, <2>1, <2>2 DEF SingleInv
  <1>5. CfiInv'
    BY <1>1, <1>2 DEF CfiInv, Mapped, Loaded
  <1>6. \A m \in Libs : loads'[m] <= MaxLoads
    BY <1>1, <1>2 DEF MeetInv
  <1>7. \A f \in Tree' : \A j \in Listed' :
          Mapped(f)' /\ Path(f) \in Match[j] \ Brittle /\ elf'[f].by # "close" =>
             j \in enabled'[f] \/ \E u \in Threads : Coming(u, j, f)'
    <2>1. SUFFICES ASSUME NEW f \in Tree', NEW j \in Listed', Mapped(f)', Path(f) \in Match[j] \ Brittle,
                          elf'[f].by # "close"
                   PROVE  j \in enabled'[f] \/ \E u \in Threads : Coming(u, j, f)'
      OBVIOUS
    <2>2. j \in Listed /\ j \in Tasks /\ f \in Instances /\ elf'[f].st = "tree"
      BY <1>1, <2>1 DEF Listed, Tree
    <2>3. Mapped(f) /\ f \in Tree /\ elf[f].by # "close"
      BY <1>1, <2>1, <2>2 DEF Mapped, Loaded, Tree
    <2>4. CASE j \in enabled[f]
      BY <1>1, <2>1, <2>2, <2>4
    <2>5. CASE \E u \in Threads : Coming(u, j, f)
      <3>1. PICK u \in Threads : Coming(u, j, f)
        BY <2>5
      <3>2. CASE u # t
        <4>1. Coming(u, j, f)'
          BY <1>1, <3>1, <3>2 DEF Coming
        <4>2. QED
          BY <4>1
      <3>3. CASE u = t
        <4>1. CASE <<j, f>> # <<k, e>> \/ op[t] = "unhook"
          <5>1. Coming(t, j, f)'
            BY <1>1, <3>1, <3>3, <4>1 DEF Coming
          <5>2. QED
            BY <5>1
        <4>2. CASE j = k /\ f = e /\ op[t] # "unhook"
          BY <1>1, <4>2
        <4>3. QED
          BY <4>1, <4>2
      <3>4. QED
        BY <3>2, <3>3
    <2>6. QED
      BY <1>2, <2>1, <2>2, <2>3, <2>4, <2>5 DEF MeetInv
  <1>8. QED
    BY <1>3, <1>4, <1>5, <1>6, <1>7 DEF HookInv, MeetInv

\* What a step of Delete leaves in the tables, value by value.
LEMMA DeleteDoes ==
    ASSUME EngineInv, ~Reuse, NEW t \in Threads, NEW k \in Tasks, NEW e \in Instances, Delete(t, k, e)
    PROVE  /\ pc[t] = "meet" /\ Path(e) \in Match[k] /\ (op[t] # "open" => k = arg[t])
           /\ elf[e].st # "none" /\ elf[e].at = e /\ e[2] <= loads[Path(e)]
           /\ <<k, e>> \in todo[t] /\ op[t] = "unhook" /\ Mapped(e)
           /\ \A u \in Threads : u # t =>
                 /\ op'[u] = op[u] /\ arg'[u] = arg[u] /\ pc'[u] = pc[u]
                 /\ todo'[u] = todo[u] /\ cur'[u] = cur[u] /\ new'[u] = new[u]
           /\ todo'[t] = todo[t] \ {<<k, e>>}
           /\ cur'[t] \subseteq {<<k, e>>}
           /\ op'[t] = op[t] /\ arg'[t] = arg[t] /\ pc'[t] = pc[t] /\ new'[t] = new[t]
           /\ \A b \in Instances : enabled'[b] = IF b = e THEN enabled[b] \ {k} ELSE enabled[b]
           /\ UNCHANGED <<refs, loads, at, elf, status, monitor, oneshot>>
  <1>1. Delete(t, k, e) /\ ~Reuse /\ Types /\ CallInv /\ PlaceInv /\ PairInv /\ SlotInv
    BY DEF EngineInv
  <1>2. /\ pc[t] = "meet" /\ Path(e) \in Match[k] /\ (op[t] # "open" => k = arg[t])
        /\ elf[e].st # "none" /\ elf[e].at = e /\ e[2] <= loads[Path(e)]
        /\ <<k, e>> \in todo[t] /\ op[t] = "unhook" /\ Mapped(e)
    BY <1>1 DEF Delete, Meets, Drop, DelFunc, Types, CallInv, Ways, PairInv, Has, PlaceInv
  <1>3. /\ \A u \in Threads : u # t =>
              /\ op'[u] = op[u] /\ arg'[u] = arg[u] /\ pc'[u] = pc[u]
              /\ todo'[u] = todo[u] /\ cur'[u] = cur[u] /\ new'[u] = new[u]
        /\ todo'[t] = todo[t] \ {<<k, e>>}
        /\ cur'[t] \subseteq {<<k, e>>}
        /\ op'[t] = op[t] /\ arg'[t] = arg[t] /\ pc'[t] = pc[t] /\ new'[t] = new[t]
    BY <1>1 DEF Delete, Meets, Drop, DelFunc, Types, linker, chains, engine
  <1>4. \A b \in Instances : enabled'[b] = IF b = e THEN enabled[b] \ {k} ELSE enabled[b]
    <2>1. enabled' = [enabled EXCEPT ![e] = enabled[e] \ {k}]
      BY <1>1, <1>2, <1>3 DEF Delete, DelFunc
    <2>2. QED
      BY <1>1, <2>1 DEF Types
  <1>5. UNCHANGED <<refs, loads, at, elf, status, monitor, oneshot>>
    BY <1>1 DEF Delete, Meets, Drop, DelFunc, Types, linker, chains, engine
  <1>6. QED
    BY <1>2, <1>3, <1>4, <1>5

\* Delete keeps what UnhookComplete rests on.
LEMMA DeleteLeaves ==
    ASSUME EngineInv, EngineInv', ~Reuse, SingleFits, UnhookInv,
           NEW t \in Threads, NEW k \in Tasks, NEW e \in Instances, Delete(t, k, e)
    PROVE  UnhookInv'
  <1>1. /\ pc[t] = "meet" /\ Path(e) \in Match[k] /\ (op[t] # "open" => k = arg[t])
        /\ elf[e].st # "none" /\ elf[e].at = e /\ e[2] <= loads[Path(e)]
        /\ <<k, e>> \in todo[t] /\ op[t] = "unhook" /\ Mapped(e)
        /\ \A u \in Threads : u # t =>
              /\ op'[u] = op[u] /\ arg'[u] = arg[u] /\ pc'[u] = pc[u]
              /\ todo'[u] = todo[u] /\ cur'[u] = cur[u] /\ new'[u] = new[u]
        /\ todo'[t] = todo[t] \ {<<k, e>>}
        /\ cur'[t] \subseteq {<<k, e>>}
        /\ op'[t] = op[t] /\ arg'[t] = arg[t] /\ pc'[t] = pc[t] /\ new'[t] = new[t]
        /\ \A b \in Instances : enabled'[b] = IF b = e THEN enabled[b] \ {k} ELSE enabled[b]
        /\ UNCHANGED <<refs, loads, at, elf, status, monitor, oneshot>>
    BY DeleteDoes
  <1>2. OwnInv /\ LeaveInv /\ Types /\ CallInv /\ PlaceInv /\ PairInv /\ SlotInv
    BY DEF UnhookInv, EngineInv
  <1>3. \A u, v \in Threads :
          op'[u] \in {"hook", "unhook"} /\ op'[v] \in {"hook", "unhook"} /\ arg'[u] = arg'[v] => u = v
    BY <1>1, <1>2 DEF OwnInv, Listed
  <1>4. \A u \in Threads : op'[u] = "hook" => arg'[u] \in Listed'
    BY SMTT(40), <1>1, <1>2 DEF OwnInv, Listed, Types
  <1>5. \A u \in Threads : op'[u] = "unhook" => status'[arg'[u]] = "unhooking"
    BY <1>1, <1>2 DEF OwnInv, Listed, CallInv
  <1>6. \A u \in Threads : \A j \in Tasks : \A f \in Instances :
          Has(u, j, f)' /\ op'[u] # "unhook" => j \in Listed'
    BY <1>1, <1>2 DEF OwnInv, Listed, Has
  <1>7. \A j \in Tasks : \A b \in Instances : j \in enabled'[b] => status'[j] # "new"
    BY <1>1, <1>2 DEF LeaveInv
  <1>8. \A j \in Tasks : \A m \in Loaded' : j \in enabled'[at'[m]] =>
          m \in Match[j] /\ elf'[at'[m]].st = "tree"
    <2>1. TAKE j \in Tasks
    <2>2. TAKE m \in Loaded'
    <2>3. HAVE j \in enabled'[at'[m]]
    <2>4. m \in Loaded /\ at'[m] = at[m] /\ at[m] \in Instances
      BY <1>1, <1>2, MappedAt DEF Loaded
    <2>5. j \in enabled[at[m]]
      BY <1>1, <2>3, <2>4
    <2>6. QED
      BY <1>1, <1>2, <2>4, <2>5 DEF LeaveInv
  <1>9. \A j \in Tasks : \A m \in Loaded' :
          j \in enabled'[at'[m]] /\ status'[j] \in {"unhooking", "gone"} =>
             \E u \in Threads : Leaving(u, j, at[m])'
    <2>1. TAKE j \in Tasks
    <2>2. TAKE m \in Loaded'
    <2>3. HAVE j \in enabled'[at'[m]] /\ status'[j] \in {"unhooking", "gone"}
    <2>4. m \in Loaded /\ at'[m] = at[m] /\ at[m] \in Instances
      BY <1>1, <1>2, MappedAt DEF Loaded
    <2>5. status[j] \in {"unhooking", "gone"} /\ j \in enabled[at[m]]
      BY <1>1, <2>3, <2>4
    <2>6. PICK u \in Threads : Leaving(u, j, at[m])
      BY <1>2, <2>4, <2>5 DEF LeaveInv
    <2>7. Leaving(u, j, at[m])'
      <3>1. CASE u # t \/ <<j, at[m]>> # <<k, e>>
        BY <1>1, <2>6, <3>1 DEF Leaving
      <3>2. CASE u = t /\ j = k /\ at[m] = e
        BY <1>1, <2>3, <2>4, <3>2
      <3>3. QED
        BY <3>1, <3>2
    <2>8. QED
      BY <2>4, <2>7
  <1>10. QED
    BY <1>3, <1>4, <1>5, <1>6, <1>7, <1>8, <1>9 DEF UnhookInv, OwnInv, LeaveInv

\* Delete keeps what HookedEverywhere rests on.
LEMMA DeleteMeets ==
    ASSUME EngineInv, EngineInv', ~Reuse, SingleFits, SingleOnce, UnhookInv, HookInv,
           NEW t \in Threads, NEW k \in Tasks, NEW e \in Instances, Delete(t, k, e)
    PROVE  HookInv'
  <1>1. /\ pc[t] = "meet" /\ Path(e) \in Match[k] /\ (op[t] # "open" => k = arg[t])
        /\ elf[e].st # "none" /\ elf[e].at = e /\ e[2] <= loads[Path(e)]
        /\ <<k, e>> \in todo[t] /\ op[t] = "unhook" /\ Mapped(e)
        /\ \A u \in Threads : u # t =>
              /\ op'[u] = op[u] /\ arg'[u] = arg[u] /\ pc'[u] = pc[u]
              /\ todo'[u] = todo[u] /\ cur'[u] = cur[u] /\ new'[u] = new[u]
        /\ todo'[t] = todo[t] \ {<<k, e>>}
        /\ cur'[t] \subseteq {<<k, e>>}
        /\ op'[t] = op[t] /\ arg'[t] = arg[t] /\ pc'[t] = pc[t] /\ new'[t] = new[t]
        /\ \A b \in Instances : enabled'[b] = IF b = e THEN enabled[b] \ {k} ELSE enabled[b]
        /\ UNCHANGED <<refs, loads, at, elf, status, monitor, oneshot>>
    BY DeleteDoes
  <1>2. OwnInv /\ MonitorInv /\ SingleInv /\ CfiInv /\ MeetInv /\ Types /\ CallInv /\ PlaceInv /\ PairInv
    BY DEF UnhookInv, HookInv, EngineInv
  <1>3. MonitorInv'
    BY <1>1, <1>2 DEF MonitorInv, Tree, Listed
  <1>4. SingleInv'
    <2>1. \A b \in Instances : \A j \in Tasks : j # k /\ j \in enabled[b] => j \in enabled'[b]
      BY <1>1
    <2>2. \A j \in Tasks : \A l \in Match[j] : <<l, 1>> \in Instances
      BY MatchAt
    <2>3. status[k] # "finished"
      BY <1>1, <1>2 DEF OwnInv
    <2>4. QED
      BY <1>1, <1>2, <2>1, <2>2, <2>3 DEF SingleInv
  <1>5. CfiInv'
    BY <1>1, <1>2 DEF CfiInv, Mapped, Loaded
  <1>6. \A m \in Libs : loads'[m] <= MaxLoads
    BY <1>1, <1>2 DEF MeetInv
  <1>7. \A f \in Tree' : \A j \in Listed' :
          Mapped(f)' /\ Path(f) \in Match[j] \ Brittle /\ elf'[f].by # "close" =>
             j \in enabled'[f] \/ \E u \in Threads : Coming(u, j, f)'
    <2>1. \A u \in Threads : \A j \in Tasks : \A f \in Instances : Coming(u, j, f) => Coming(u, j, f)'
      BY <1>1 DEF Coming
    <2>2. k \notin Listed
      BY <1>1, <1>2 DEF OwnInv, Listed
    <2>3. \A f \in Instances : \A j \in Tasks : j # k /\ j \in enabled[f] => j \in enabled'[f]
      BY <1>1
    <2>4. QED
      BY <1>1, <1>2, <2>1, <2>2, <2>3 DEF MeetInv, Tree, Listed, Mapped, Loaded
  <1>8. QED
    BY <1>3, <1>4, <1>5, <1>6, <1>7 DEF HookInv, MeetInv

\* What a step of Replace leaves in the tables, value by value.
LEMMA ReplaceDoes ==
    ASSUME EngineInv, ~Reuse, NEW t \in Threads, NEW k \in Tasks, NEW e \in Instances, Replace(t, k, e)
    PROVE  /\ pc[t] = "meet" /\ Path(e) \in Match[k] /\ (op[t] # "open" => k = arg[t])
           /\ elf[e].st # "none" /\ elf[e].at = e /\ e[2] <= loads[Path(e)]
           /\ <<k, e>> \in cur[t]
           /\ (op[t] # "unhook" => k \in enabled[e])
           /\ \A u \in Threads : u # t =>
                 /\ op'[u] = op[u] /\ arg'[u] = arg[u] /\ pc'[u] = pc[u]
                 /\ todo'[u] = todo[u] /\ cur'[u] = cur[u] /\ new'[u] = new[u]
           /\ cur'[t] = {}
           /\ op'[t] = op[t] /\ arg'[t] = arg[t] /\ pc'[t] = pc[t] /\ todo'[t] = todo[t] /\ new'[t] = new[t]
           /\ \A j \in Tasks : status'[j] = IF op[t] # "unhook" /\ k \in Single /\ j = k /\ status[j] = "unfinished" THEN "finished" ELSE status[j]
           /\ UNCHANGED <<refs, loads, at, elf, enabled, monitor, oneshot>>
  <1>1. Replace(t, k, e) /\ ~Reuse /\ Types /\ CallInv /\ PlaceInv /\ PairInv /\ SlotInv
    BY DEF EngineInv
  <1>2. /\ pc[t] = "meet" /\ Path(e) \in Match[k] /\ (op[t] # "open" => k = arg[t])
        /\ elf[e].st # "none" /\ elf[e].at = e /\ e[2] <= loads[Path(e)]
        /\ <<k, e>> \in cur[t]
        /\ (op[t] # "unhook" => k \in enabled[e])
    BY <1>1 DEF Replace, Ended, Types, CallInv, Ways, PairInv, Has, PlaceInv, SlotInv, Between
  <1>3. /\ \A u \in Threads : u # t =>
              /\ op'[u] = op[u] /\ arg'[u] = arg[u] /\ pc'[u] = pc[u]
              /\ todo'[u] = todo[u] /\ cur'[u] = cur[u] /\ new'[u] = new[u]
        /\ cur'[t] = {}
        /\ op'[t] = op[t] /\ arg'[t] = arg[t] /\ pc'[t] = pc[t] /\ todo'[t] = todo[t] /\ new'[t] = new[t]
    BY <1>1 DEF Replace, Ended, Types, linker, chains, engine
  <1>4. /\ \A j \in Tasks : status'[j] = IF op[t] # "unhook" /\ k \in Single /\ j = k /\ status[j] = "unfinished" THEN "finished" ELSE status[j]
        /\ UNCHANGED <<refs, loads, at, elf, enabled, monitor, oneshot>>
    BY <1>1 DEF Replace, Ended, Types, linker, chains, engine
  <1>5. QED
    BY <1>2, <1>3, <1>4

\* Replace keeps what UnhookComplete rests on.
LEMMA ReplaceLeaves ==
    ASSUME EngineInv, EngineInv', ~Reuse, SingleFits, UnhookInv,
           NEW t \in Threads, NEW k \in Tasks, NEW e \in Instances, Replace(t, k, e)
    PROVE  UnhookInv'
  <1>1. /\ pc[t] = "meet" /\ Path(e) \in Match[k] /\ (op[t] # "open" => k = arg[t])
        /\ elf[e].st # "none" /\ elf[e].at = e /\ e[2] <= loads[Path(e)]
        /\ <<k, e>> \in cur[t]
        /\ (op[t] # "unhook" => k \in enabled[e])
        /\ \A u \in Threads : u # t =>
              /\ op'[u] = op[u] /\ arg'[u] = arg[u] /\ pc'[u] = pc[u]
              /\ todo'[u] = todo[u] /\ cur'[u] = cur[u] /\ new'[u] = new[u]
        /\ cur'[t] = {}
        /\ op'[t] = op[t] /\ arg'[t] = arg[t] /\ pc'[t] = pc[t] /\ todo'[t] = todo[t] /\ new'[t] = new[t]
        /\ \A j \in Tasks : status'[j] = IF op[t] # "unhook" /\ k \in Single /\ j = k /\ status[j] = "unfinished" THEN "finished" ELSE status[j]
        /\ UNCHANGED <<refs, loads, at, elf, enabled, monitor, oneshot>>
    BY ReplaceDoes
  <1>2. OwnInv /\ LeaveInv /\ Types /\ CallInv /\ PlaceInv /\ PairInv /\ SlotInv
    BY DEF UnhookInv, EngineInv
  <1>3. OwnInv'
    <2>1. \A u \in Threads : op[u] \in {"hook", "unhook"} => arg[u] \in Tasks
      BY <1>2 DEF CallInv
    <2>2. /\ Listed \subseteq Listed'
          /\ \A j \in Tasks : status[j] = "unhooking" => status'[j] = "unhooking"
      BY <1>1 DEF Listed
    <2>3. \A u \in Threads : \A j \in Tasks : \A f \in Instances :
            Has(u, j, f)' /\ op'[u] # "unhook" => Has(u, j, f) /\ op[u] # "unhook"
      BY <1>1 DEF Has
    <2>4. QED
      BY <1>1, <1>2, <2>1, <2>2, <2>3, OwnKept
  <1>4. \A j \in Tasks : \A b \in Instances : j \in enabled'[b] => status'[j] # "new"
    BY <1>1, <1>2 DEF LeaveInv, Types
  <1>5. \A j \in Tasks : \A m \in Loaded' : j \in enabled'[at'[m]] =>
          m \in Match[j] /\ elf'[at'[m]].st = "tree"
    BY <1>1, <1>2, MappedAt DEF LeaveInv, Loaded
  <1>6. \A j \in Tasks : \A m \in Loaded' :
          j \in enabled'[at'[m]] /\ status'[j] \in {"unhooking", "gone"} =>
             \E u \in Threads : Leaving(u, j, at[m])'
    <2>1. \A u \in Threads : \A j \in Tasks : \A b \in Instances : Leaving(u, j, b)' <=> Leaving(u, j, b)
      BY <1>1, <1>2 DEF Leaving
    <2>2. QED
      BY <1>1, <1>2, <2>1, MappedAt DEF LeaveInv, Loaded
  <1>7. QED
    BY <1>3, <1>4, <1>5, <1>6 DEF UnhookInv, LeaveInv

\* Replace keeps what HookedEverywhere rests on.
LEMMA ReplaceMeets ==
    ASSUME EngineInv, EngineInv', ~Reuse, SingleFits, SingleOnce, UnhookInv, HookInv,
           NEW t \in Threads, NEW k \in Tasks, NEW e \in Instances, Replace(t, k, e)
    PROVE  HookInv'
  <1>1. /\ pc[t] = "meet" /\ Path(e) \in Match[k] /\ (op[t] # "open" => k = arg[t])
        /\ elf[e].st # "none" /\ elf[e].at = e /\ e[2] <= loads[Path(e)]
        /\ <<k, e>> \in cur[t]
        /\ (op[t] # "unhook" => k \in enabled[e])
        /\ \A u \in Threads : u # t =>
              /\ op'[u] = op[u] /\ arg'[u] = arg[u] /\ pc'[u] = pc[u]
              /\ todo'[u] = todo[u] /\ cur'[u] = cur[u] /\ new'[u] = new[u]
        /\ cur'[t] = {}
        /\ op'[t] = op[t] /\ arg'[t] = arg[t] /\ pc'[t] = pc[t] /\ todo'[t] = todo[t] /\ new'[t] = new[t]
        /\ \A j \in Tasks : status'[j] = IF op[t] # "unhook" /\ k \in Single /\ j = k /\ status[j] = "unfinished" THEN "finished" ELSE status[j]
        /\ UNCHANGED <<refs, loads, at, elf, enabled, monitor, oneshot>>
    BY ReplaceDoes
  <1>2. OwnInv /\ MonitorInv /\ SingleInv /\ CfiInv /\ MeetInv /\ Types /\ CallInv /\ PlaceInv /\ PairInv
    BY DEF UnhookInv, HookInv, EngineInv
  <1>3. k \in Single => \A l \in Match[k] : l = Path(e) /\ loads[l] = 1 /\ e = <<l, 1>>
    <2>1. Path(e) \in Libs
      BY DEF Path, Instances
    <2>2. QED
      BY <1>1, <1>2, <2>1, SingleAt DEF MeetInv
  <1>4. MonitorInv'
    BY <1>1, <1>2, <1>3 DEF MonitorInv, Tree, Listed
  <1>5. SingleInv'
    <2>1. SUFFICES ASSUME NEW j \in Tasks, status'[j] = "finished"
                   PROVE  j \in Single /\ \A l \in Match[j] \ Brittle :
                            loads'[l] = 1 /\ (refs'[l] > 0 => j \in enabled'[<<l, 1>>])
      BY DEF SingleInv
    <2>2. CASE status[j] = "finished"
      BY <1>1, <1>2, <2>2 DEF SingleInv
    <2>3. CASE status[j] # "finished"
      <3>1. j = k /\ k \in Single /\ op[t] # "unhook" /\ status[k] = "unfinished"
        BY <1>1, <2>1, <2>3
      <3>2. QED
        BY <1>1, <1>3, <3>1
    <2>4. QED
      BY <2>2, <2>3
  <1>6. CfiInv'
    BY <1>1, <1>2, <1>3 DEF CfiInv, Mapped, Loaded
  <1>7. \A m \in Libs : loads'[m] <= MaxLoads
    BY <1>1, <1>2, <1>3 DEF MeetInv
  <1>8. \A f \in Tree' : \A j \in Listed' :
          Mapped(f)' /\ Path(f) \in Match[j] \ Brittle /\ elf'[f].by # "close" =>
             j \in enabled'[f] \/ \E u \in Threads : Coming(u, j, f)'
    <2>1. \A u \in Threads : \A j \in Tasks : \A f \in Instances : Coming(u, j, f) => Coming(u, j, f)'
      BY <1>1, <1>2, <1>3 DEF Coming
    <2>2. QED
      BY <1>1, <1>2, <1>3, <2>1 DEF MeetInv, Tree, Listed, Mapped, Loaded
  <1>9. QED
    BY <1>4, <1>5, <1>6, <1>7, <1>8 DEF HookInv, MeetInv

\* What a step of ReplaceFails leaves in the tables, value by value.
LEMMA ReplaceFailsDoes ==
    ASSUME EngineInv, ~Reuse, NEW t \in Threads, NEW k \in Tasks, NEW e \in Instances, ReplaceFails(t, k, e)
    PROVE  /\ pc[t] = "meet" /\ Path(e) \in Match[k] /\ (op[t] # "open" => k = arg[t])
           /\ elf[e].st # "none" /\ elf[e].at = e /\ e[2] <= loads[Path(e)]
           /\ <<k, e>> \in cur[t] /\ Path(e) \in Brittle
           /\ \A u \in Threads : u # t =>
                 /\ op'[u] = op[u] /\ arg'[u] = arg[u] /\ pc'[u] = pc[u]
                 /\ todo'[u] = todo[u] /\ cur'[u] = cur[u] /\ new'[u] = new[u]
           /\ cur'[t] = {}
           /\ op'[t] = op[t] /\ arg'[t] = arg[t] /\ pc'[t] = pc[t] /\ todo'[t] = todo[t] /\ new'[t] = new[t]
           /\ \A j \in Tasks : status'[j] = IF op[t] # "unhook" /\ k \in Single /\ j = k /\ status[j] = "unfinished" THEN "finished" ELSE status[j]
           /\ \A b \in Instances :
                 enabled'[b] = IF b = e /\ op[t] # "unhook" THEN enabled[b] \ {k} ELSE enabled[b]
           /\ UNCHANGED <<refs, loads, at, elf, monitor, oneshot>>
  <1>1. ReplaceFails(t, k, e) /\ ~Reuse /\ Types /\ CallInv /\ PlaceInv /\ PairInv /\ SlotInv
    BY DEF EngineInv
  <1>2. /\ pc[t] = "meet" /\ Path(e) \in Match[k] /\ (op[t] # "open" => k = arg[t])
        /\ elf[e].st # "none" /\ elf[e].at = e /\ e[2] <= loads[Path(e)]
        /\ <<k, e>> \in cur[t] /\ Path(e) \in Brittle
    BY <1>1 DEF ReplaceFails, Ended, DelFunc, Types, CallInv, Ways, PairInv, Has, PlaceInv
  <1>3. /\ \A u \in Threads : u # t =>
              /\ op'[u] = op[u] /\ arg'[u] = arg[u] /\ pc'[u] = pc[u]
              /\ todo'[u] = todo[u] /\ cur'[u] = cur[u] /\ new'[u] = new[u]
        /\ cur'[t] = {}
        /\ op'[t] = op[t] /\ arg'[t] = arg[t] /\ pc'[t] = pc[t] /\ todo'[t] = todo[t] /\ new'[t] = new[t]
    BY <1>1 DEF ReplaceFails, Ended, DelFunc, Types, linker, chains, engine
  <1>4. \A j \in Tasks : status'[j] = IF op[t] # "unhook" /\ k \in Single /\ j = k /\ status[j] = "unfinished" THEN "finished" ELSE status[j]
    BY <1>1 DEF ReplaceFails, Ended, DelFunc, Types, linker, chains, engine
  <1>5. \A b \in Instances :
           enabled'[b] = IF b = e /\ op[t] # "unhook" THEN enabled[b] \ {k} ELSE enabled[b]
    <2>1. enabled' = IF op[t] = "unhook" THEN enabled ELSE [enabled EXCEPT ![e] = enabled[e] \ {k}]
      BY <1>1, <1>2, <1>3, <1>4 DEF ReplaceFails, DelFunc
    <2>2. QED
      BY <1>1, <2>1 DEF Types
  <1>6. UNCHANGED <<refs, loads, at, elf, monitor, oneshot>>
    BY <1>1 DEF ReplaceFails, Ended, DelFunc, Types, linker, chains, engine
  <1>7. QED
    BY <1>2, <1>3, <1>4, <1>5, <1>6

\* ReplaceFails keeps what UnhookComplete rests on.
LEMMA ReplaceFailsLeaves ==
    ASSUME EngineInv, EngineInv', ~Reuse, SingleFits, UnhookInv,
           NEW t \in Threads, NEW k \in Tasks, NEW e \in Instances, ReplaceFails(t, k, e)
    PROVE  UnhookInv'
  <1>1. /\ pc[t] = "meet" /\ Path(e) \in Match[k] /\ (op[t] # "open" => k = arg[t])
        /\ elf[e].st # "none" /\ elf[e].at = e /\ e[2] <= loads[Path(e)]
        /\ <<k, e>> \in cur[t] /\ Path(e) \in Brittle
        /\ \A u \in Threads : u # t =>
              /\ op'[u] = op[u] /\ arg'[u] = arg[u] /\ pc'[u] = pc[u]
              /\ todo'[u] = todo[u] /\ cur'[u] = cur[u] /\ new'[u] = new[u]
        /\ cur'[t] = {}
        /\ op'[t] = op[t] /\ arg'[t] = arg[t] /\ pc'[t] = pc[t] /\ todo'[t] = todo[t] /\ new'[t] = new[t]
        /\ \A j \in Tasks : status'[j] = IF op[t] # "unhook" /\ k \in Single /\ j = k /\ status[j] = "unfinished" THEN "finished" ELSE status[j]
        /\ \A b \in Instances :
              enabled'[b] = IF b = e /\ op[t] # "unhook" THEN enabled[b] \ {k} ELSE enabled[b]
        /\ UNCHANGED <<refs, loads, at, elf, monitor, oneshot>>
    BY ReplaceFailsDoes
  <1>2. OwnInv /\ LeaveInv /\ Types /\ CallInv /\ PlaceInv /\ PairInv /\ SlotInv
    BY DEF UnhookInv, EngineInv
  <1>3. \A u, v \in Threads :
          op'[u] \in {"hook", "unhook"} /\ op'[v] \in {"hook", "unhook"} /\ arg'[u] = arg'[v] => u = v
    BY <1>1, <1>2 DEF OwnInv, Listed, Types
  <1>4. \A u \in Threads : op'[u] = "hook" => arg'[u] \in Listed'
    BY <1>1, <1>2 DEF OwnInv, Listed, Types
  <1>5. \A u \in Threads : op'[u] = "unhook" => status'[arg'[u]] = "unhooking"
    BY <1>1, <1>2 DEF OwnInv, Listed, Types, CallInv
  <1>6. \A u \in Threads : \A j \in Tasks : \A f \in Instances :
          Has(u, j, f)' /\ op'[u] # "unhook" => j \in Listed'
    BY <1>1, <1>2 DEF OwnInv, Listed, Has, Types
  <1>7. \A j \in Tasks : \A b \in Instances : j \in enabled'[b] => status'[j] # "new"
    <2>1. \A b \in Instances : enabled'[b] \subseteq enabled[b]
      BY <1>1
    <2>2. QED
      BY <1>1, <1>2, <2>1 DEF LeaveInv
  <1>8. \A j \in Tasks : \A m \in Loaded' : j \in enabled'[at'[m]] =>
          m \in Match[j] /\ elf'[at'[m]].st = "tree"
    <2>1. TAKE j \in Tasks
    <2>2. TAKE m \in Loaded'
    <2>3. HAVE j \in enabled'[at'[m]]
    <2>4. m \in Loaded /\ at'[m] = at[m] /\ at[m] \in Instances
      BY <1>1, <1>2, MappedAt DEF Loaded
    <2>5. j \in enabled[at[m]]
      BY <1>1, <2>3, <2>4
    <2>6. QED
      BY <1>1, <1>2, <2>4, <2>5 DEF LeaveInv
  <1>9. \A j \in Tasks : \A m \in Loaded' :
          j \in enabled'[at'[m]] /\ status'[j] \in {"unhooking", "gone"} =>
             \E u \in Threads : Leaving(u, j, at[m])'
    <2>1. TAKE j \in Tasks
    <2>2. TAKE m \in Loaded'
    <2>3. HAVE j \in enabled'[at'[m]] /\ status'[j] \in {"unhooking", "gone"}
    <2>4. m \in Loaded /\ at'[m] = at[m] /\ at[m] \in Instances
      BY <1>1, <1>2, MappedAt DEF Loaded
    <2>5. status[j] \in {"unhooking", "gone"} /\ j \in enabled[at[m]]
      BY <1>1, <2>3, <2>4
    <2>6. PICK u \in Threads : Leaving(u, j, at[m])
      BY <1>2, <2>4, <2>5 DEF LeaveInv
    <2>7. Leaving(u, j, at[m])'
      BY <1>1, <2>6 DEF Leaving
    <2>8. QED
      BY <2>4, <2>7
  <1>10. QED
    BY <1>3, <1>4, <1>5, <1>6, <1>7, <1>8, <1>9 DEF UnhookInv, OwnInv, LeaveInv

\* ReplaceFails keeps what HookedEverywhere rests on.
LEMMA ReplaceFailsMeets ==
    ASSUME EngineInv, EngineInv', ~Reuse, SingleFits, SingleOnce, UnhookInv, HookInv,
           NEW t \in Threads, NEW k \in Tasks, NEW e \in Instances, ReplaceFails(t, k, e)
    PROVE  HookInv'
  <1>1. /\ pc[t] = "meet" /\ Path(e) \in Match[k] /\ (op[t] # "open" => k = arg[t])
        /\ elf[e].st # "none" /\ elf[e].at = e /\ e[2] <= loads[Path(e)]
        /\ <<k, e>> \in cur[t] /\ Path(e) \in Brittle
        /\ \A u \in Threads : u # t =>
              /\ op'[u] = op[u] /\ arg'[u] = arg[u] /\ pc'[u] = pc[u]
              /\ todo'[u] = todo[u] /\ cur'[u] = cur[u] /\ new'[u] = new[u]
        /\ cur'[t] = {}
        /\ op'[t] = op[t] /\ arg'[t] = arg[t] /\ pc'[t] = pc[t] /\ todo'[t] = todo[t] /\ new'[t] = new[t]
        /\ \A j \in Tasks : status'[j] = IF op[t] # "unhook" /\ k \in Single /\ j = k /\ status[j] = "unfinished" THEN "finished" ELSE status[j]
        /\ \A b \in Instances :
              enabled'[b] = IF b = e /\ op[t] # "unhook" THEN enabled[b] \ {k} ELSE enabled[b]
        /\ UNCHANGED <<refs, loads, at, elf, monitor, oneshot>>
    BY ReplaceFailsDoes
  <1>2. OwnInv /\ MonitorInv /\ SingleInv /\ CfiInv /\ MeetInv /\ Types /\ CallInv /\ PlaceInv /\ PairInv
    BY DEF UnhookInv, HookInv, EngineInv
  <1>3. k \in Single => \A l \in Match[k] : l = Path(e) /\ loads[l] = 1 /\ e = <<l, 1>>
    <2>1. Path(e) \in Libs
      BY DEF Path, Instances
    <2>2. QED
      BY <1>1, <1>2, <2>1, SingleAt DEF MeetInv
  <1>4. MonitorInv'
    BY <1>1, <1>2, <1>3 DEF MonitorInv, Tree, Listed
  <1>5. SingleInv'
    <2>1. SUFFICES ASSUME NEW j \in Tasks, status'[j] = "finished"
                   PROVE  j \in Single /\ \A l \in Match[j] \ Brittle :
                            loads'[l] = 1 /\ (refs'[l] > 0 => j \in enabled'[<<l, 1>>])
      BY DEF SingleInv
    <2>2. CASE status[j] = "finished"
      <3>1. \A l \in Match[j] \ Brittle : <<l, 1>> \in Instances /\ <<l, 1>> # e
        <4>1. TAKE l \in Match[j] \ Brittle
        <4>2. <<l, 1>> \in Instances
          BY <2>1, MatchAt
        <4>3. Path(e) # l /\ Path(<<l, 1>>) = l
          BY <1>1 DEF Path
        <4>4. QED
          BY <4>2, <4>3
      <3>2. \A l \in Match[j] \ Brittle : enabled'[<<l, 1>>] = enabled[<<l, 1>>]
        BY <1>1, <3>1
      <3>3. QED
        BY <1>1, <1>2, <2>2, <3>2 DEF SingleInv
    <2>3. CASE status[j] # "finished"
      <3>1. j = k /\ k \in Single /\ op[t] # "unhook" /\ status[k] = "unfinished"
        BY <1>1, <2>1, <2>3
      <3>2. Match[k] \ Brittle = {}
        BY <1>1, <1>3, <3>1
      <3>3. QED
        BY <3>1, <3>2
    <2>4. QED
      BY <2>2, <2>3
  <1>6. CfiInv'
    BY <1>1, <1>2, <1>3 DEF CfiInv, Mapped, Loaded
  <1>7. \A m \in Libs : loads'[m] <= MaxLoads
    BY <1>1, <1>2, <1>3 DEF MeetInv
  <1>8. \A f \in Tree' : \A j \in Listed' :
          Mapped(f)' /\ Path(f) \in Match[j] \ Brittle /\ elf'[f].by # "close" =>
             j \in enabled'[f] \/ \E u \in Threads : Coming(u, j, f)'
    <2>1. \A u \in Threads : \A j \in Tasks : \A f \in Instances : Coming(u, j, f) => Coming(u, j, f)'
      BY <1>1, <1>2, <1>3 DEF Coming
    <2>2. QED
      BY <1>1, <1>2, <1>3, <2>1 DEF MeetInv, Tree, Listed, Mapped, Loaded
  <1>9. QED
    BY <1>4, <1>5, <1>6, <1>7, <1>8 DEF HookInv, MeetInv

-----------------------------------------------------------------------------
\* What UnhookComplete rests on holds at first.
LEMMA UnhookStarts == Init => UnhookInv
  <1>1. SUFFICES ASSUME Init PROVE UnhookInv
    OBVIOUS
  <1>2. OwnInv
    BY <1>1 DEF Init, OwnInv, Has, Listed
  <1>3. \A m \in Loaded : m \in Initial /\ at[m] = <<m, 1>>
    BY <1>1 DEF Init, Loaded
  <1>4. LeaveInv
    <2>1. 1 \in 1..MaxLoads
      BY BoundsType
    <2>2. \A m \in Loaded : at[m] \in Instances
      BY <1>3, <2>1, LibsType DEF Instances
    <2>3. QED
      BY <1>1, <2>2 DEF Init, LeaveInv
  <1>5. QED
    BY <1>2, <1>4 DEF UnhookInv

\* What HookedEverywhere rests on holds at first.
LEMMA HookStarts == Init => HookInv
  <1>1. SUFFICES ASSUME Init PROVE HookInv
    OBVIOUS
  <1>2. MonitorInv
    BY <1>1 DEF Init, MonitorInv, Tree, NoElf, Listed
  <1>3. SingleInv
    BY <1>1 DEF Init, SingleInv
  <1>4. CfiInv
    BY <1>1 DEF Init, CfiInv, NoElf
  <1>5. MeetInv
    BY <1>1, BoundsType DEF Init, MeetInv, Tree, NoElf
  <1>6. QED
    BY <1>2, <1>3, <1>4, <1>5 DEF HookInv

\* Every step keeps what UnhookComplete rests on.
LEMMA UnhookKeepsOn ==
    EngineInv /\ EngineInv' /\ ~Reuse /\ SingleFits /\ UnhookInv /\ [Next]_vars => UnhookInv'
  <1>1. SUFFICES ASSUME EngineInv, EngineInv', ~Reuse, SingleFits, UnhookInv, [Next]_vars
                 PROVE  UnhookInv'
    OBVIOUS
  <1>2. CASE Next
    <2>1. PICK t \in Threads :
             \/ \E k \in Tasks : Hook(t, k) \/ Unhook(t, k)
             \/ \E l \in Libs : Dlopen(t, l) \/ Dlclose(t, l)
             \/ Step(t)
      BY <1>2 DEF Next
    <2>2. CASE \E k \in Tasks : Hook(t, k) \/ Unhook(t, k)
      BY <1>1, <2>2, HookLeaves, UnhookLeaves
    <2>3. CASE \E l \in Libs : Dlopen(t, l) \/ Dlclose(t, l)
      BY <1>1, <2>3, DlopenLeaves, DlcloseLeaves
    <2>4. CASE Meeting(t)
      BY <1>1, <2>4, HookCfiLeaves, SkipLeaves, AddFuncLeaves, AddChainLeaves, DeleteLeaves,
         ReplaceLeaves, ReplaceFailsLeaves DEF Meeting
    <2>5. CASE Step(t) /\ ~Meeting(t)
      BY <1>1, <2>5, TestMonitorLeaves, InitRefreshLeaves, InitOpenLeaves, InitCloseLeaves,
         OneshotLeaves, StartLeaves, FinishLeaves, LoadLeaves, LoadFailsLeaves, PostDlopenLeaves,
         NewElfLeaves, OpenedLeaves, WriteLockLeaves, UnloadLeaves, CleanLeaves DEF Step
    <2>6. QED
      BY <2>1, <2>2, <2>3, <2>4, <2>5
  <1>3. CASE UNCHANGED vars
    <2>1. UNCHANGED <<refs, loads, at, elf, enabled, status, op, arg, pc, todo, cur, new>>
      BY <1>3 DEF vars, linker, chains, local
    <2>2. OwnInv'
      BY <1>1, <2>1 DEF UnhookInv, OwnInv, Listed, Has
    <2>3. LeaveInv'
      BY <1>1, <2>1 DEF UnhookInv, LeaveInv, Loaded, Leaving
    <2>4. QED
      BY <2>2, <2>3 DEF UnhookInv
  <1>4. QED
    BY <1>1, <1>2, <1>3

\* Every step keeps what HookedEverywhere rests on.
LEMMA HookKeepsOn ==
    EngineInv /\ EngineInv' /\ ~Reuse /\ SingleFits /\ SingleOnce /\ UnhookInv /\ HookInv /\ [Next]_vars
      => HookInv'
  <1>1. SUFFICES ASSUME EngineInv, EngineInv', ~Reuse, SingleFits, SingleOnce, UnhookInv, HookInv,
                        [Next]_vars
                 PROVE  HookInv'
    OBVIOUS
  <1>2. CASE Next
    <2>1. PICK t \in Threads :
             \/ \E k \in Tasks : Hook(t, k) \/ Unhook(t, k)
             \/ \E l \in Libs : Dlopen(t, l) \/ Dlclose(t, l)
             \/ Step(t)
      BY <1>2 DEF Next
    <2>2. CASE \E k \in Tasks : Hook(t, k) \/ Unhook(t, k)
      BY <1>1, <2>2, HookMeets, UnhookMeets
    <2>3. CASE \E l \in Libs : Dlopen(t, l) \/ Dlclose(t, l)
      BY <1>1, <2>3, DlopenMeets, DlcloseMeets
    <2>4. CASE Meeting(t)
      BY <1>1, <2>4, HookCfiMeets, SkipMeets, AddFuncMeets, AddChainMeets, DeleteMeets,
         ReplaceMeets, ReplaceFailsMeets DEF Meeting
    <2>5. CASE Step(t) /\ ~Meeting(t)
      BY <1>1, <2>5, TestMonitorMeets, InitRefreshMeets, InitOpenMeets, InitCloseMeets,
         OneshotMeets, StartMeets, FinishMeets, LoadMeets, LoadFailsMeets, PostDlopenMeets,
         NewElfMeets, OpenedMeets, WriteLockMeets, UnloadMeets, CleanMeets DEF Step
    <2>6. QED
      BY <2>1, <2>2, <2>3, <2>4, <2>5
  <1>3. CASE UNCHANGED vars
    <2>1. UNCHANGED <<refs, loads, at, elf, enabled, status, monitor, oneshot, op, arg, pc, todo,
                      cur, new>>
      BY <1>3 DEF vars, linker, chains, engine, local
    <2>2. MonitorInv'
      BY <1>1, <2>1 DEF HookInv, MonitorInv, Tree, Listed
    <2>3. SingleInv'
      BY <1>1, <2>1 DEF HookInv, SingleInv
    <2>4. CfiInv'
      BY <1>1, <2>1 DEF HookInv, CfiInv, Mapped, Loaded
    <2>5. MeetInv'
      BY <1>1, <2>1 DEF HookInv, MeetInv, Tree, Listed, Mapped, Loaded, Coming
    <2>6. QED
      BY <2>2, <2>3, <2>4, <2>5 DEF HookInv
  <1>4. QED
    BY <1>1, <1>2, <1>3

\* A task that was unhooked is in no mapped library, whatever hooks and dlopens
\* were under way meanwhile (bh_core.c:178-189).
THEOREM UnhookDone == ~Reuse /\ SingleFits => (Spec => []UnhookComplete)
  <1>1. CASE ~Reuse /\ SingleFits
    <2>1. Init => EngineInv /\ UnhookInv
      BY EngineStarts, UnhookStarts
    <2>2. EngineInv /\ UnhookInv /\ [Next]_vars => EngineInv' /\ UnhookInv'
      BY <1>1, EngineKeeps, UnhookKeepsOn
    <2>3. UnhookInv => UnhookComplete
      <3>1. SUFFICES ASSUME UnhookInv, NEW k \in Tasks, NEW l \in Loaded, status[k] = "gone",
                            k \in enabled[at[l]]
                     PROVE  FALSE
        BY DEF UnhookComplete
      <3>2. PICK t \in Threads : Leaving(t, k, at[l])
        BY <3>1 DEF UnhookInv, LeaveInv
      <3>3. status[k] = "unhooking"
        BY <3>1, <3>2 DEF UnhookInv, OwnInv, Leaving
      <3>4. QED
        BY <3>1, <3>3
    <2>4. QED
      BY <2>1, <2>2, <2>3, PTL DEF Spec
  <1>2. QED
    BY <1>1

\* When no call is under way, each task is in all libraries that it is for and
\* the ELF manager knows of: the hook of a task and a dlopen at the same time
\* do not miss each other (bh_core.c:132-133, bh_elf_manager.c:166-172).
THEOREM HookDone == ~Reuse /\ SingleFits /\ SingleOnce => (Spec => []HookedEverywhere)
  <1>1. CASE ~Reuse /\ SingleFits /\ SingleOnce
    <2>1. Init => EngineInv /\ UnhookInv /\ HookInv
      BY EngineStarts, UnhookStarts, HookStarts
    <2>2. EngineInv /\ UnhookInv /\ HookInv /\ [Next]_vars => EngineInv' /\ UnhookInv' /\ HookInv'
      BY <1>1, EngineKeeps, UnhookKeepsOn, HookKeepsOn
    <2>3. EngineInv /\ HookInv => HookedEverywhere
      <3>1. SUFFICES ASSUME EngineInv, HookInv, Quiet, NEW e \in Tree, NEW k \in Listed,
                            Mapped(e), Path(e) \in Match[k] \ Brittle, elf[e].by # "close"
                     PROVE  Installed(k, e)
        BY DEF HookedEverywhere
      <3>2. Types /\ PlaceInv /\ PairInv /\ SlotInv /\ e \in Instances /\ k \in Tasks
        BY <3>1 DEF EngineInv, Tree, Listed
      <3>3. \A t \in Threads : ~Coming(t, k, e)
        BY <3>1, <3>2 DEF Quiet, Coming, PairInv, Has
      <3>4. k \in enabled[e]
        BY <3>1, <3>3 DEF HookInv, MeetInv
      <3>5. elf[e].at = e
        BY <3>1, <3>2 DEF PlaceInv, Tree
      <3>6. \A t \in Threads : \A j \in Tasks : ~Between(t, j, e)
        BY <3>1, <3>2 DEF Quiet, PairInv, Has, Between
      <3>7. e \in chained /\ got[e] = "live"
        BY <3>2, <3>4, <3>6 DEF SlotInv
      <3>8. QED
        BY <3>4, <3>5, <3>7 DEF Installed
    <2>4. QED
      BY <2>1, <2>2, <2>3, PTL DEF Spec
  <1>2. QED
    BY <1>1

-----------------------------------------------------------------------------
(***************************************************************************)
(* Who waits for whom, also when addresses come again.                     *)
(***************************************************************************)

\* A thread that has the lock of an ELF is at a GOT slot, and the one that does the
\* refresh of the first hook is where it ends.
WaitInv ==
    /\ pc \in [Threads -> PC] /\ cur \in [Threads -> SUBSET (Tasks \X Instances)]
    /\ \A t \in Threads : cur[t] # {} => pc[t] = "meet"
    /\ oneshot \in Threads \cup {"no", "done"}
    /\ \A t \in Threads : oneshot = t => pc[t] \in {"initopen", "meet"}

LEMMA WaitStarts == Init => WaitInv
  BY ThreadsType DEF Init, WaitInv, PC

\* A thread that does not refresh for the first hook goes elsewhere.
LEMMA WaitGoes ==
    ASSUME WaitInv, NEW t \in Threads, NEW w \in PC, pc' = [pc EXCEPT ![t] = w],
           pc[t] \notin {"initopen", "meet"}, UNCHANGED cur,
           oneshot' = oneshot \/ (oneshot' = t /\ w \in {"initopen", "meet"} /\ oneshot = "no")
    PROVE  WaitInv'
  BY ThreadsType DEF WaitInv

LEMMA WaitKeeps == WaitInv /\ [Next]_vars => WaitInv'
  <1>1. SUFFICES ASSUME WaitInv, [Next]_vars PROVE WaitInv'
    OBVIOUS
  <1>2. CASE UNCHANGED vars
    BY <1>1, <1>2 DEF vars, engine, local, WaitInv
  <1>3. ASSUME NEW t \in Threads, NEW k \in Tasks, Hook(t, k) \/ Unhook(t, k)
        PROVE  WaitInv'
    BY <1>1, <1>3, WaitGoes DEF Hook, Unhook, Enter, Goto, engine, PC
  <1>4. ASSUME NEW t \in Threads, NEW l \in Libs, Dlopen(t, l) \/ Dlclose(t, l)
        PROVE  WaitInv'
    BY <1>1, <1>4, WaitGoes DEF Dlopen, Dlclose, Enter, Goto, engine, PC
  <1>5. ASSUME NEW t \in Threads, TestMonitor(t) \/ InitRefresh(t) \/ InitClose(t) \/ Start(t)
        PROVE  WaitInv'
    BY <1>1, <1>5, WaitGoes DEF TestMonitor, InitRefresh, InitClose, Start, Goto, engine, PC
  <1>6. ASSUME NEW t \in Threads, Oneshot(t)
        PROVE  WaitInv'
    BY <1>1, <1>6, WaitGoes DEF Oneshot, Goto, PC
  <1>7. ASSUME NEW t \in Threads, Load(t) \/ LoadFails(t) \/ PostDlopen(t) \/ Opened(t) \/ WriteLock(t)
                                  \/ Unload(t) \/ Clean(t)
        PROVE  WaitInv'
    BY <1>1, <1>7, WaitGoes
       DEF Load, LoadFails, PostDlopen, Opened, WriteLock, Unload, Clean, Return, Goto, engine, PC
  <1>8. ASSUME NEW t \in Threads, NEW e \in Instances, NewElf(t, e)
        PROVE  WaitInv'
    BY <1>1, <1>8, WaitGoes DEF NewElf, Goto, engine, PC
  <1>9. ASSUME NEW t \in Threads, InitOpen(t)
        PROVE  WaitInv'
    <2>1. /\ pc' = [pc EXCEPT ![t] = "initclose"] /\ pc[t] = "initopen" /\ UNCHANGED cur
          /\ oneshot' = IF oneshot = t THEN "done" ELSE oneshot
      BY <1>9 DEF InitOpen, Goto
    <2>2. QED
      BY <1>1, <2>1, ThreadsType DEF WaitInv, PC
  <1>10. ASSUME NEW t \in Threads, Finish(t)
         PROVE  WaitInv'
    <2>1. PICK w \in {"new", "idle"} : pc' = [pc EXCEPT ![t] = w]
      BY <1>10 DEF Finish, Return, Goto
    <2>2. /\ pc[t] = "meet" /\ cur[t] = {} /\ UNCHANGED cur
          /\ oneshot' = IF oneshot = t THEN "done" ELSE oneshot
      BY <1>10 DEF Finish
    <2>3. QED
      BY <1>1, <2>1, <2>2, ThreadsType DEF WaitInv, PC
  <1>11. ASSUME NEW t \in Threads, NEW k \in Tasks, NEW e \in Instances,
                \/ HookCfi(t, k, e) \/ Skip(t, k, e) \/ AddFunc(t, k, e) \/ AddChain(t, k, e)
                \/ Delete(t, k, e) \/ Replace(t, k, e) \/ ReplaceFails(t, k, e)
         PROVE  WaitInv'
    <2>1. UNCHANGED <<pc, oneshot>> /\ pc[t] = "meet"
      BY <1>1, <1>11 DEF HookCfi, Skip, AddFunc, AddChain, Delete, Replace, ReplaceFails, Meets, local,
         engine, WaitInv
    <2>2. \/ UNCHANGED cur
          \/ \E c \in {{}, {<<k, e>>}} : cur' = [cur EXCEPT ![t] = c]
      BY <1>11 DEF HookCfi, Skip, AddFunc, AddChain, Delete, Replace, ReplaceFails, local
    <2>3. QED
      BY <1>1, <2>1, <2>2 DEF WaitInv
  <1>12. CASE Next
    BY <1>3, <1>4, <1>5, <1>6, <1>7, <1>8, <1>9, <1>10, <1>11, <1>12 DEF Next, Step, Meeting
  <1>13. QED
    BY <1>1, <1>2, <1>12

\* When some calls are under way, one of them has what it waits for: a thread at a
\* GOT slot waits for nothing; without one all hook locks are free, so no thread that
\* goes through ELFs waits; without these the lock of dlclose and the refresh are free.
LEMMA SomeReady == WaitInv => Quiet \/ \E t \in Threads : pc[t] # "idle" /\ Ready(t)
  <1>1. SUFFICES ASSUME WaitInv, ~Quiet, \A t \in Threads : pc[t] # "idle" => ~Ready(t)
                 PROVE  FALSE
    OBVIOUS
  <1>2. \A t \in Threads : cur[t] = {}
    BY <1>1 DEF WaitInv, Ready
  <1>3. \A e : HookLockFree(e)
    BY <1>2 DEF HookLockFree
  <1>4. \A t \in Threads : pc[t] \notin {"meet", "new", "unload", "clean", "initopen"}
    <2>1. SUFFICES ASSUME NEW t \in Threads, pc[t] \in {"meet", "new", "unload", "clean", "initopen"}
                   PROVE  Ready(t)
      BY <1>1
    <2>2. todo[t] # {} => \E p \in todo[t] : HookLockFree(p[2])
      BY <1>3
    <2>3. QED
      BY <2>1, <2>2 DEF Ready
  <1>5. CanRead /\ CanWrite
    BY <1>4 DEF CanRead, CanWrite, Readers, Writers
  <1>6. oneshot \in {"no", "done"}
    BY <1>1, <1>4 DEF WaitInv
  <1>7. PICK t \in Threads : pc[t] # "idle"
    BY <1>1 DEF Quiet
  <1>8. Ready(t)
    BY <1>4, <1>5, <1>6 DEF Ready
  <1>9. QED
    BY <1>1, <1>7, <1>8

LEMMA WaitsHold == Spec => []WaitInv
  <1>1. Init => WaitInv
    BY WaitStarts
  <1>2. WaitInv /\ [Next]_vars => WaitInv'
    BY WaitKeeps
  <1>3. QED
    BY <1>1, <1>2, PTL DEF Spec

\* While hooks, unhooks, dlopens and dlcloses are under way, one of them has all that
\* it waits for: the lock around dlclose, the lock of an ELF, the refresh of the first
\* hook (bh_core.c:132, bh_dl_monitor.c:410, bh_elf_manager.c:166).
THEOREM SomeoneReady == Spec => [](Quiet \/ \E t \in Threads : pc[t] # "idle" /\ Ready(t))
  <1>1. WaitInv => Quiet \/ \E t \in Threads : pc[t] # "idle" /\ Ready(t)
    BY SomeReady
  <1>2. QED
    BY <1>1, WaitsHold, PTL

\* They do not wait for each other in a circle, if a call that has what it waits for
\* goes on.
THEOREM WaitsEnd == Spec /\ []ReadyGoesOn => []NoDeadlock
  <1>1. WaitInv /\ ReadyGoesOn => NoDeadlock
    BY SomeReady DEF NoDeadlock, ReadyGoesOn
  <1>2. QED
    BY <1>1, WaitsHold, PTL
=============================================================================
