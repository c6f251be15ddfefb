------------------------------- MODULE GotHook -------------------------------
(***************************************************************************)
(* Hook tasks in the GOT of one ELF (bh_hook_manager.c, bh_elf.c, and the  *)
(* original functions of manual mode in bh_task.c).                        *)
(*                                                                         *)
(* A task looks for the slots of its symbol, by name in the tables of the  *)
(* ELF or, when it names its callee, by what the slots hold.  The first    *)
(* lookup parses the ELF's dynamic section.  Then, with the lock of the    *)
(* ELF, its proxy is added to the chain of each slot, and a slot without a *)
(* chain is verified, made writable, replaced and made read-only again.    *)
(* An unhook does the reverse.  HookEngine has the ELFs that a task meets; *)
(* this module is about a meeting, of tasks that are for one ELF (single). *)
(***************************************************************************)
EXTENDS ElfTables

CONSTANTS
    Threads,    \* threads that hook and unhook
    Tasks,      \* tasks, each with a proxy of its own
    SymName,    \* SymName[k]: the symbol of a task
    Callee,     \* tasks that were created with callee_path_name
    Visible,    \* tasks whose proxy is an exported function
    Exporter,   \* the library that the symbols are from
    SName,      \* SName[x]: the name that dladdr has for the address x
    NoName,     \* it has none, but knows the library
    Outside,    \* it does not know the address
    Crowded,    \* ELFs of processes in which mprotect may be refused
    Manual,     \* modes: TRUE is BYTEHOOK_MODE_MANUAL
    CfiLock,    \* is the first hook in an ELF made under its cfi_hook_lock?
    Cap,        \* BH_HOOK_MANAGER_GOT_MAX_CAP
    None

ASSUME TasksType == SymName \in [Tasks -> Names] /\ Callee \subseteq Tasks
ASSUME CfiType == CfiLock \in BOOLEAN /\ Manual \subseteq BOOLEAN
ASSUME NoneType == None \notin Threads \cup Tasks
ASSUME OutsideType == Outside \notin Names \cup {NoName}
ASSUME ImagesType == \A img \in Images \cup {Exporter} : WellFormed(img)

\* What a slot may hold.
Func(x) == [kind |-> "func", of |-> x]
Trampo(s) == [kind |-> "trampo", of |-> s]
Proxy(k) == [kind |-> "proxy", of |-> k]

\* The linker has bound the slots to functions, and protects whole pages.
ASSUME OrigType == \A img \in Images : \A s \in DOMAIN img.orig : img.orig[s].kind = "func"
ASSUME PagesType ==
    \A img \in Images : \A s, x \in DOMAIN img.orig :
        img.page[s] = img.page[x] => Protect(img, s) = Protect(img, x)
ASSUME DynamicType == \A img \in Images : img.dynamic \in Seq(STRING)

VARIABLES
    image, manual,  \* the ELF and the mode: these do not change
    tab,            \* fields of the bh_elf_t that are set
    entry,          \* entries of the dynamic section that are parsed
    dynParsed,      \* dyn_parsed
    error,          \* error: the ELF is not used any more
    cfi,            \* cfi_hooked
    parser, cfiBy, hookBy,  \* holders of dyn_parse_lock, cfi_hook_lock, hook_lock
    got,            \* what the slots hold
    prot,           \* the protection of the slots' pages
    chained,        \* slots with a chain in 'hooks'
    enabled,        \* enabled[s]: tasks whose proxy is enabled in the chain
    origFunc,       \* origFunc[s]: orig_func of the chain of s
    stuck,          \* history: slots that an unhook could not write
    status,         \* status[k]
    manualOrig,     \* manualOrig[k]: manual_orig_func
    codes,          \* codes[k]: status codes that 'hooked' was called with
    told,           \* told[k]: the original that it was called with before
    pc, task,       \* where a thread is, and with which task
    slots, ok       \* slots it is still to go to; everything_ok

elfVars == <<image, manual, tab, entry, dynParsed, error, cfi>>
lockVars == <<parser, cfiBy, hookBy>>
gotVars == <<got, prot, chained, enabled, origFunc, stuck>>
taskVars == <<status, manualOrig, codes, told>>
local == <<pc, task, slots, ok>>
vars == <<elfVars, lockVars, gotVars, taskVars, local>>

Slots == DOMAIN image.orig

\* The fields that are set once the dynamic section is parsed.
FieldsOf(img) == Range(img.dynamic) \cup {"aps2_fixed"}
AllFields == FieldsOf(image)

TypeOK ==
    /\ tab \subseteq AllFields
    /\ entry \in 0..Len(image.dynamic)
    /\ dynParsed \in BOOLEAN /\ error \in BOOLEAN /\ cfi \in BOOLEAN
    /\ {parser, cfiBy, hookBy} \subseteq Threads \cup {None}
    /\ \A s \in Slots :
          /\ got[s] \in {image.orig[s], Trampo(s)} \cup {Proxy(k) : k \in Tasks}
          /\ origFunc[s] \in {Func(None), image.orig[s], Trampo(s)}
    /\ chained \subseteq Slots /\ stuck \subseteq Slots
    /\ enabled \in [Slots -> SUBSET Tasks]
    /\ prot \in [Slots -> SUBSET {"r", "w"}]
    /\ status \in [Tasks -> {"new", "hooking", "hooked", "unhooking", "gone"}]
    /\ pc \in [Threads -> {"idle", "check", "cfi", "parse", "lock", "entry",
                           "find", "told", "hooklock", "slot", "write",
                           "store", "seal"}]
    /\ task \in [Threads -> Tasks \cup {None}]
    /\ ok \in [Threads -> BOOLEAN]

Init ==
    /\ image \in Images /\ manual \in Manual
    /\ tab = {} /\ entry = 0
    /\ dynParsed = FALSE /\ error = FALSE /\ cfi = FALSE
    /\ parser = None /\ cfiBy = None /\ hookBy = None
    /\ got = image.orig
    /\ prot = [s \in Slots |-> Protect(image, s)]
    /\ chained = {}
    /\ enabled = [s \in Slots |-> {}]
    /\ origFunc = [s \in Slots |-> Func(None)]
    /\ stuck = {}
    /\ status = [k \in Tasks |-> "new"]
    /\ manualOrig = [k \in Tasks |-> {}]
    /\ codes = [k \in Tasks |-> {}]
    /\ told = [k \in Tasks |-> {}]
    /\ pc = [t \in Threads |-> "idle"]
    /\ task = [t \in Threads |-> None]
    /\ slots = [t \in Threads |-> <<>>]
    /\ ok = [t \in Threads |-> TRUE]

Goto(t, where) == pc' = [pc EXCEPT ![t] = where]
Unhooking(t) == status[task[t]] = "unhooking"

\* bh_task_hooked: nothing is told of an unhook.
Hooked(t, code) ==
    codes' = [codes EXCEPT ![task[t]] = IF Unhooking(t) THEN @ ELSE @ \cup {code}]

\* A meeting is over.
Return(t) ==
    /\ Goto(t, "idle")
    /\ task' = [task EXCEPT ![t] = None]
    /\ status' = [status EXCEPT ![task[t]] = IF @ = "unhooking" THEN "gone" ELSE "hooked"]

-----------------------------------------------------------------------------
(* A task meets the ELF. *)

\* bh_hook_manager_hook.
Hook(t, k) ==
    /\ pc[t] = "idle" /\ status[k] = "new"
    /\ status' = [status EXCEPT ![k] = "hooking"]
    /\ task' = [task EXCEPT ![t] = k]
    /\ Goto(t, "check")
    /\ UNCHANGED <<elfVars, lockVars, gotVars, manualOrig, codes, told, slots, ok>>

\* bh_hook_manager_unhook, from bh_task_unhook.  In manual mode a task that was
\* hooked nowhere, or in slots of different originals, is not unhooked.
Unhook(t, k) ==
    /\ pc[t] = "idle" /\ status[k] = "hooked"
    /\ IF manual /\ Cardinality(manualOrig[k]) # 1
       THEN status' = [status EXCEPT ![k] = "gone"] /\ UNCHANGED <<pc, task>>
       ELSE /\ status' = [status EXCEPT ![k] = "unhooking"]
            /\ task' = [task EXCEPT ![t] = k]
            /\ Goto(t, "parse")
    /\ UNCHANGED <<elfVars, lockVars, gotVars, manualOrig, codes, told, slots, ok>>

\* An ELF that cannot be read is not hooked.  On 64-bit devices with Android 8
\* or later the first hook is that of the CFI functions, with a lock.
Check(t) ==
    /\ pc[t] = "check"
    /\ IF error
       THEN Hooked(t, "READ_ELF") /\ Return(t)
       ELSE /\ Goto(t, IF CfiLock /\ ~cfi THEN "cfi" ELSE "parse")
            /\ UNCHANGED <<codes, task, status>>
    /\ UNCHANGED <<elfVars, lockVars, gotVars, manualOrig, told, slots, ok>>

\* bh_elf_cfi_hook_lock.
LockCfi(t) ==
    /\ pc[t] = "cfi" /\ cfiBy = None
    /\ cfiBy' = IF cfi THEN None ELSE t
    /\ Goto(t, "parse")
    /\ UNCHANGED <<elfVars, parser, hookBy, gotVars, taskVars, task, slots, ok>>

-----------------------------------------------------------------------------
(* bh_elf_parse_dynamic. *)

\* The test without the lock: another thread may still be parsing.
Parse(t) ==
    /\ pc[t] = "parse"
    /\ Goto(t, IF error \/ dynParsed THEN "find" ELSE "lock")
    /\ UNCHANGED <<elfVars, lockVars, gotVars, taskVars, task, slots, ok>>

\* dyn_parsed is set before the first entry is read.
LockParse(t) ==
    /\ pc[t] = "lock" /\ parser = None
    /\ dynParsed' = TRUE
    /\ parser' = IF dynParsed THEN None ELSE t
    /\ Goto(t, IF dynParsed THEN "find" ELSE "entry")
    /\ UNCHANGED <<image, manual, tab, entry, error, cfi, cfiBy, hookBy, gotVars,
                   taskVars, task, slots, ok>>

\* bh_elf_parse_dynamic_unsafe, by and by; at the end the packed relocations are
\* tested and their magic skipped.
Entry(t) ==
    /\ pc[t] = "entry"
    /\ IF entry < Len(image.dynamic)
       THEN /\ entry' = entry + 1
            /\ tab' = tab \cup {image.dynamic[entry + 1]}
            /\ UNCHANGED <<parser, pc>>
       ELSE /\ tab' = tab \cup {"aps2_fixed"}
            /\ parser' = None
            /\ Goto(t, "find")
            /\ UNCHANGED entry
    /\ UNCHANGED <<image, manual, dynParsed, error, cfi, cfiBy, hookBy, gotVars,
                   taskVars, task, slots, ok>>

-----------------------------------------------------------------------------
(* Slots. *)

\* bh_elf_find_export_func_symbol_by_symbol_name, in the library of the symbols.
Exported ==
    [name \in Names |->
        ExportFunc(Exporter, {"sysv.buckets_cnt", "sysv.buckets", "gnu.cnts",
                              "gnu.bloom", "dynsym", "dynstr"}, name)]

\* bh_elf_find_export_func_addr_by_symbol_name, of the same.
ExportAddr(name) ==
    Func(IF Exported[name] = Nil THEN None ELSE Exporter.syms[Exported[name]].value)

\* bh_hook_manager_find_all_got.
FindAllGot(k) ==
    IF k \in Callee THEN SlotsByCallee(image, tab, Cap,
                                      {s \in Slots : got[s] = ExportAddr(SymName[k])})
                    ELSE SlotsByName(image, tab, Cap, SymName[k])
FindFaults(k) ==
    \/ RelocsFault(tab)
    \/ k \notin Callee /\ ImportFunc(image, tab, SymName[k]) = Fault

\* The lookup of the CFI functions, which the ELF does not have, and then that
\* of the task's slots.  A fault, or an earlier one, finds nothing.
Find(t) ==
    /\ pc[t] = "find"
    /\ LET k == task[t]
           fault == ~error /\ FindFaults(k)
           found == IF error \/ fault THEN <<>> ELSE FindAllGot(k)
       IN  /\ error' = (error \/ fault)
           /\ IF cfiBy = t
              THEN /\ cfi' = TRUE /\ cfiBy' = None
                   /\ Goto(t, "parse")
                   /\ UNCHANGED <<codes, status, task, slots>>
              ELSE /\ slots' = [slots EXCEPT ![t] = found]
                   /\ IF found = <<>>
                      THEN Hooked(t, "NOSYM") /\ Return(t)
                      ELSE /\ Goto(t, IF manual /\ ~Unhooking(t) THEN "told" ELSE "hooklock")
                           /\ UNCHANGED <<codes, status, task>>
                   /\ UNCHANGED <<cfi, cfiBy>>
    /\ ok' = [ok EXCEPT ![t] = TRUE]
    /\ UNCHANGED <<image, manual, tab, entry, dynParsed, parser, hookBy, gotVars,
                   manualOrig, told>>

\* Mutant of Tell: the original is told after the slots are replaced.
TellNothing(t) ==
    /\ pc[t] = "told"
    /\ Goto(t, "hooklock")
    /\ UNCHANGED <<elfVars, lockVars, gotVars, taskVars, task, slots, ok>>

\* Manual mode: BYTEHOOK_STATUS_CODE_ORIG_ADDR, with what the first slot holds.
Tell(t) ==
    /\ pc[t] = "told"
    /\ told' = [told EXCEPT ![task[t]] = @ \cup {got[slots[t][1]]}]
    /\ Hooked(t, "ORIG_ADDR")
    /\ Goto(t, "hooklock")
    /\ UNCHANGED <<elfVars, lockVars, gotVars, status, manualOrig, task, slots, ok>>

\* Mutant of LockElf: the slots are gone through without bh_elf_hook_lock.
LockElfNot(t) ==
    /\ pc[t] = "hooklock"
    /\ hookBy' = t
    /\ Goto(t, "slot")
    /\ UNCHANGED <<elfVars, parser, cfiBy, gotVars, taskVars, task, slots, ok>>

\* bh_elf_hook_lock.
LockElf(t) ==
    /\ pc[t] = "hooklock" /\ hookBy = None
    /\ hookBy' = t
    /\ Goto(t, "slot")
    /\ UNCHANGED <<elfVars, parser, cfiBy, gotVars, taskVars, task, slots, ok>>

\* A slot is done.
NextSlot(t) == slots' = [slots EXCEPT ![t] = Tail(@)] /\ Goto(t, "slot")

\* bh_hook_manager_add_func: a slot without a chain is to be replaced.
AddFunc(t) ==
    /\ pc[t] = "slot" /\ slots[t] # <<>> /\ ~Unhooking(t)
    /\ LET s == Head(slots[t]) IN
       IF manual
       THEN Goto(t, "write") /\ UNCHANGED <<slots, chained, enabled, origFunc>>
       ELSE /\ enabled' = [enabled EXCEPT ![s] = @ \cup {task[t]}]
            /\ chained' = chained \cup {s}
            /\ IF s \in chained
               THEN NextSlot(t) /\ UNCHANGED origFunc
               ELSE /\ origFunc' = [origFunc EXCEPT ![s] = got[s]]
                    /\ Goto(t, "write") /\ UNCHANGED slots
    /\ UNCHANGED <<elfVars, lockVars, got, prot, stuck, taskVars, task, ok>>

\* Mutant of DelFunc: the chain goes with the first proxy.
DelFuncChain(s, k) ==
    /\ enabled' = [enabled EXCEPT ![s] = @ \ {k}]
    /\ chained' = chained \ {s}

\* bh_hook_manager_del_func, of a chain that there is.
DelFunc(s, k) ==
    /\ enabled' = [enabled EXCEPT ![s] = @ \ {k}]
    /\ chained' = IF enabled[s] \subseteq {k} THEN chained \ {s} ELSE chained

\* bh_hook_manager_unhook_single_got: the slot gets its original back when no
\* proxy is enabled any more, or always, in manual mode.
RemoveFunc(t) ==
    /\ pc[t] = "slot" /\ slots[t] # <<>> /\ Unhooking(t)
    /\ LET s == Head(slots[t]) IN
       IF manual
       THEN Goto(t, "write") /\ UNCHANGED <<slots, chained, enabled>>
       ELSE IF s \notin chained
       THEN NextSlot(t) /\ UNCHANGED <<chained, enabled>>
       ELSE /\ DelFunc(s, task[t])
            /\ IF enabled[s] \subseteq {task[t]}
               THEN Goto(t, "write") /\ UNCHANGED slots
               ELSE NextSlot(t)
    /\ UNCHANGED <<elfVars, lockVars, got, prot, origFunc, stuck, taskVars, task, ok>>

\* What dladdr knows of a slot's value; trampolines are in no library.
NameOf(v) ==
    IF v.kind = "func" THEN SName[v.of]
    ELSE IF v.kind = "trampo" THEN Outside ELSE NoName

\* bh_hook_manager_verify_got_value: the value has the symbol's name, or another
\* one of the same export (an alias), or none and the symbol is an IFUNC.
Verified(v, name) ==
    CASE NameOf(v) = name -> TRUE
      [] NameOf(v) = Outside -> FALSE
      [] v.kind = "proxy" -> v.of \in Visible
      [] NameOf(v) = NoName ->
            Exported[name] # Nil /\ Exporter.syms[Exported[name]].type = "ifunc"
      [] OTHER -> ExportAddr(NameOf(v)) = v

\* Why a slot cannot be replaced, if it cannot: its value is not verified, its page
\* is in no segment, or the system refuses to make the page writable.
Refusals(t, s) ==
    IF ~Unhooking(t) /\ ~Verified(got[s], SymName[task[t]]) THEN {"GOT_VERIFY"}
    ELSE IF Protect(image, s) = {} THEN {"GET_PROT"}
    ELSE IF "w" \in Protect(image, s) \/ image \notin Crowded THEN {"none"}
    ELSE {"none", "SET_PROT"}

\* bh_hook_manager_replace_got_value up to the store: the value is verified, and
\* the page made writable.
Write(t) ==
    /\ pc[t] = "write"
    /\ \E refusal \in Refusals(t, Head(slots[t])) :
       LET s == Head(slots[t])
           page == {x \in Slots : image.page[x] = image.page[s]}
           good == refusal = "none"
       IN  /\ ok' = [ok EXCEPT ![t] = @ /\ good]
           /\ IF good THEN /\ prot' = [x \in Slots |->
                                IF x \in page /\ "w" \notin Protect(image, s)
                                THEN Protect(image, s) \cup {"w"} ELSE prot[x]]
                           /\ Goto(t, "store")
                           /\ UNCHANGED <<codes, slots, chained, enabled, stuck>>
              ELSE /\ Hooked(t, refusal)
                   /\ stuck' = IF Unhooking(t) THEN stuck \cup {s} ELSE stuck
                   /\ IF manual \/ Unhooking(t) THEN UNCHANGED <<chained, enabled>>
                                                ELSE DelFunc(s, task[t])
                   /\ NextSlot(t)
                   /\ UNCHANGED prot
    /\ UNCHANGED <<elfVars, lockVars, got, origFunc, status, manualOrig, told, task>>

\* What a slot is replaced by.
NewValue(t, s) ==
    IF manual THEN IF Unhooking(t) THEN CHOOSE v \in manualOrig[task[t]] : TRUE
                                   ELSE Proxy(task[t])
              ELSE IF Unhooking(t) THEN origFunc[s] ELSE Trampo(s)

\* bh_task_set_manual_orig_func keeps what a slot held: it counts when it is the
\* same for all slots.
SetManualOrigFunc(t, v) ==
    manualOrig' = [manualOrig EXCEPT ![task[t]] = @ \cup {v}]

\* The store.
Store(t) ==
    /\ pc[t] = "store"
    /\ LET s == Head(slots[t]) IN
       IF "w" \in prot[s]
       THEN /\ got' = [got EXCEPT ![s] = NewValue(t, s)]
            /\ IF manual /\ ~Unhooking(t) THEN SetManualOrigFunc(t, got[s])
                                          ELSE UNCHANGED manualOrig
            /\ UNCHANGED <<error, ok, codes, chained, enabled>>
       ELSE /\ error' = TRUE
            /\ Hooked(t, "SET_GOT")
            /\ ok' = [ok EXCEPT ![t] = FALSE]
            /\ IF manual \/ Unhooking(t) THEN UNCHANGED <<chained, enabled>>
                                         ELSE DelFunc(s, task[t])
            /\ UNCHANGED <<got, manualOrig>>
    /\ Goto(t, "seal")
    /\ UNCHANGED <<image, manual, tab, entry, dynParsed, cfi, lockVars, prot,
                   origFunc, stuck, status, told, task, slots>>

\* Mutant of Seal: the page stays writable.
SealNothing(t) ==
    /\ pc[t] = "seal"
    /\ NextSlot(t)
    /\ UNCHANGED <<elfVars, lockVars, gotVars, taskVars, task, ok>>

\* The page gets the protection back that the program headers give it.
Seal(t) ==
    /\ pc[t] = "seal"
    /\ LET s == Head(slots[t]) IN
       prot' = [x \in Slots |-> IF image.page[x] = image.page[s]
                                   /\ "w" \notin Protect(image, s)
                                THEN Protect(image, s) ELSE prot[x]]
    /\ NextSlot(t)
    /\ UNCHANGED <<elfVars, lockVars, got, chained, enabled, origFunc, stuck, taskVars,
                   task, ok>>

\* bh_elf_hook_unlock; the task is told when all went well.
Finish(t) ==
    /\ pc[t] = "slot" /\ slots[t] = <<>>
    /\ hookBy' = None
    /\ IF ok[t] THEN Hooked(t, "OK") ELSE UNCHANGED codes
    /\ Return(t)
    /\ UNCHANGED <<elfVars, parser, cfiBy, gotVars, manualOrig, told, slots, ok>>

Step(t) ==
    \/ Check(t) \/ LockCfi(t)
    \/ Parse(t) \/ LockParse(t) \/ Entry(t)
    \/ Find(t) \/ Tell(t) \/ LockElf(t)
    \/ AddFunc(t) \/ RemoveFunc(t) \/ Write(t) \/ Store(t) \/ Seal(t)
    \/ Finish(t)

Next ==
    \E t \in Threads :
        \/ \E k \in Tasks : Hook(t, k) \/ Unhook(t, k)
        \/ Step(t)

Spec == Init /\ [][Next]_vars

-----------------------------------------------------------------------------
(* Properties. *)

\* The slots of a symbol, by the relocations that the image was made from.
TrueSlots(img, name) == {x.slot : x \in {r \in img.relocs : r.name = name}}

\* A task by name finds all slots of its symbol, whatever tables the ELF has and
\* whoever parses them meanwhile, and no fault makes bhook give up an ELF that can
\* be read (bh_hook_manager.c:444, bh_elf.c:241).
AllSlotsFound ==
    /\ ~error
    /\ \A t \in Threads :
          pc[t] \in {"told", "hooklock"} /\ task[t] \notin Callee
            => Range(slots[t]) = TrueSlots(image, SymName[task[t]])
    /\ \A k \in Tasks \ Callee : "NOSYM" \in codes[k] => TrueSlots(image, SymName[k]) = {}

\* When nobody works on the ELF its pages have the protection that the linker
\* gave them (bh_hook_manager.c:287).
ProtectionKept ==
    hookBy = None => \A s \in Slots : prot[s] = Protect(image, s)

\* Automatic mode: a task that was unhooked is in no chain of the ELF, and a slot
\* without a chain has its original back (bh_hook_manager.c:416), but for one that could
\* not be written then: that one keeps the old trampoline, and whoever hooks and unhooks
\* it later changes nothing.  Tasks that name their callee are another matter.
UnhookRestores ==
    ~manual => \A s \in Slots :
        /\ \A k \in Tasks \ Callee : status[k] = "gone" => k \notin enabled[s]
        /\ hookBy = None /\ s \notin chained =>
              got[s] = IF s \in stuck THEN Trampo(s) ELSE image.orig[s]
        /\ s \in stuck /\ hookBy = None => s \notin chained

\* Automatic mode: a task that was told OK is in the chains of all slots of its
\* symbol, and the slots lead there (bh_hook_manager.c:478).
OkInAllSlots ==
    \A k \in Tasks \ Callee :
        ~manual /\ status[k] = "hooked" /\ "OK" \in codes[k]
          => \A s \in TrueSlots(image, SymName[k]) :
                k \in enabled[s] /\ got[s] = Trampo(s)

\* Manual mode: before a proxy can be called its task was told an original that
\* is not the proxy itself (bh_hook_manager.c:454-460).
ToldBeforeReplaced ==
    \A s \in Slots, k \in Tasks :
        got[s] = Proxy(k) => told[k] # {} /\ Proxy(k) \notin told[k]
=============================================================================
