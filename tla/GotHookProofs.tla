--------------------------- MODULE GotHookProofs ---------------------------
(***************************************************************************)
(* Proofs about GotHook, for every set of threads, tasks and ELFs, in both *)
(* modes.  What a lookup finds in whole tables is data (recursive walks    *)
(* and packed numbers); here it is a hypothesis, TablesRight, that the     *)
(* invariant AllSlotsFound checks for the ELFs of the run.  What is proved *)
(* is the rest: that with the lock of the CFI hook no lookup meets tables  *)
(* that another thread is still parsing, and what threads that hook and    *)
(* unhook in one ELF leave in its slots, pages and chains.                 *)
(***************************************************************************)
EXTENDS GotHook, SequenceTheorems, FiniteSetTheorems, TLAPS

\* The slots that a task by name finds in the tables of a parsed ELF.
FoundByName(img, k) == SlotsByName(img, FieldsOf(img), Cap, SymName[k])

\* The tables of an ELF can be read, and a lookup in all of them finds the slots
\* of the symbol, or of those that hold the callee some.
TablesRight ==
    \A img \in Images :
        /\ ~RelocsFault(FieldsOf(img))
        /\ \A k \in Tasks \ Callee :
              /\ ImportFunc(img, FieldsOf(img), SymName[k]) # Fault
              /\ FoundByName(img, k) \in Seq(DOMAIN img.orig)
              /\ Range(FoundByName(img, k)) = TrueSlots(img, SymName[k])
        /\ \A S \in SUBSET DOMAIN img.orig :
              SlotsByCallee(img, FieldsOf(img), Cap, S) \in Seq(S)

-----------------------------------------------------------------------------
(* The inductive invariant. *)

Statuses == {"new", "hooking", "hooked", "unhooking", "gone"}
Parsing == {"lock", "entry"}
Reading == {"parse", "lock", "entry", "find"}
Locked == {"slot", "write", "store", "seal"}
OnSlot == {"write", "store", "seal"}
Where == {"idle", "check", "cfi", "told", "hooklock"} \cup Reading \cup Locked

Types ==
    /\ image \in Images /\ manual \in BOOLEAN
    /\ entry \in 0..Len(image.dynamic) /\ dynParsed \in BOOLEAN
    /\ error \in BOOLEAN /\ cfi \in BOOLEAN
    /\ parser \in Threads \cup {None} /\ cfiBy \in Threads \cup {None}
    /\ hookBy \in Threads \cup {None}
    /\ DOMAIN got = Slots /\ DOMAIN prot = Slots /\ DOMAIN origFunc = Slots
    /\ chained \subseteq Slots /\ enabled \in [Slots -> SUBSET Tasks]
    /\ status \in [Tasks -> Statuses]
    /\ DOMAIN manualOrig = Tasks /\ DOMAIN codes = Tasks /\ DOMAIN told = Tasks
    /\ pc \in [Threads -> Where] /\ task \in [Threads -> Tasks \cup {None}]
    /\ slots \in [Threads -> Seq(Slots)] /\ ok \in [Threads -> BOOLEAN]

\* The first thread in the ELF parses it with the lock of the CFI hook; all others
\* come when that is done, and see all fields.
Parsed == dynParsed /\ parser = None /\ tab = AllFields

ReadThread(t) ==
    /\ cfiBy = t => /\ ~cfi /\ pc[t] \in Reading
                    /\ dynParsed => pc[t] \in {"entry", "find"}
                    /\ pc[t] = "find" => Parsed
    /\ pc[t] \in {"parse", "find"} => cfi \/ cfiBy = t
    /\ pc[t] \in Parsing => cfiBy = t
    /\ pc[t] = "entry" => /\ dynParsed /\ parser = t
                          /\ tab = {image.dynamic[i] : i \in 1..entry}
    /\ parser = t => pc[t] = "entry"
    /\ pc[t] \in {"told", "hooklock"} \cup Locked => cfi

ReadInv ==
    /\ ~error
    /\ cfi => Parsed
    /\ ~dynParsed => entry = 0 /\ tab = {} /\ parser = None
    /\ cfiBy = None /\ ~cfi => ~dynParsed
    /\ \A k \in Tasks : status[k] \in {"hooked", "unhooking"} => cfi
    /\ \A t \in Threads : ReadThread(t)

\* A thread has one task at a time and a task one thread; a task by name goes to
\* the slots that it finds.
BusyThread(t) ==
    /\ task[t] = None <=> pc[t] = "idle"
    /\ task[t] # None => status[task[t]] \in {"hooking", "unhooking"}
    /\ pc[t] \in {"check", "cfi", "told"} => status[task[t]] = "hooking"
    /\ pc[t] \in Locked <=> hookBy = t
    /\ pc[t] \in {"told", "hooklock"} \cup OnSlot => slots[t] # <<>>
    /\ pc[t] = "told" => manual
    /\ pc[t] \in {"told", "hooklock"} /\ task[t] \notin Callee
          => slots[t] = FoundByName(image, task[t])
    /\ pc[t] \in Locked /\ task[t] \notin Callee
          => Range(slots[t]) \subseteq TrueSlots(image, SymName[task[t]])

BusyInv ==
    /\ \A t \in Threads : BusyThread(t)
    /\ \A t, u \in Threads : t # u /\ task[t] # None => task[t] # task[u]

\* A page is writable, beyond its protection, between the two calls of mprotect.
Opened(s) ==
    \E t \in Threads : pc[t] \in {"store", "seal"}
                       /\ image.page[s] = image.page[Head(slots[t])]

PageInv ==
    \A s \in Slots : prot[s] = IF Opened(s) THEN Protect(image, s) \cup {"w"}
                                            ELSE Protect(image, s)

\* Automatic mode: a slot with a chain holds its trampoline, and one without the
\* original, or the old trampoline when that could not be taken out, but for the slot
\* that a thread is replacing.
AtSlot(t, s) == pc[t] \in {"write", "store"} /\ Head(slots[t]) = s

Home(s) == IF s \in stuck THEN Trampo(s) ELSE image.orig[s]

Settled(s) ==
    IF s \in chained
    THEN /\ got[s] = Trampo(s) /\ origFunc[s] = image.orig[s]
         /\ s \notin stuck /\ Protect(image, s) # {}
    ELSE got[s] = Home(s)

Replacing(t, s) ==
    /\ origFunc[s] = Home(s)
    /\ pc[t] = "store" \/ Unhooking(t) => s \notin stuck /\ Protect(image, s) # {}
    /\ IF Unhooking(t) THEN got[s] = Trampo(s) /\ enabled[s] = {}
                       ELSE got[s] = Home(s) /\ enabled[s] = {task[t]}

SlotChain(s) ==
    /\ s \in chained <=> enabled[s] # {}
    /\ (\A t \in Threads : ~AtSlot(t, s)) => Settled(s)
    /\ \A t \in Threads : AtSlot(t, s) => Replacing(t, s)

ChainInv == ~manual => \A s \in Slots : SlotChain(s)

\* A proxy is in chains of its symbol, until its task has been there to unhook.
Ahead(t, s) ==
    \/ pc[t] \in Reading
    \/ pc[t] \in {"hooklock", "slot"} /\ s \in Range(slots[t])
    \/ pc[t] \in OnSlot /\ s \in Range(Tail(slots[t]))

EnabledTask(k, s) ==
    /\ s \in TrueSlots(image, SymName[k])
    /\ status[k] \in {"hooking", "hooked", "unhooking"}
    /\ status[k] = "unhooking" => \A t \in Threads : task[t] = k => Ahead(t, s)

EnabledInv ==
    ~manual => \A s \in Slots : \A k \in Tasks \ Callee :
                  k \in enabled[s] => EnabledTask(k, s)

\* A task that is told OK was added in every slot of its symbol.
OkTask(k) ==
    /\ "OK" \in codes[k] => status[k] \notin {"new", "hooking"}
    /\ "NOSYM" \in codes[k] => TrueSlots(image, SymName[k]) = {}
    /\ ~manual /\ "OK" \in codes[k] /\ status[k] = "hooked"
          => \A s \in TrueSlots(image, SymName[k]) : k \in enabled[s]

OkThread(t) ==
    pc[t] \in Locked /\ ~Unhooking(t) =>
        /\ pc[t] \in OnSlot => task[t] \in enabled[Head(slots[t])]
        /\ ok[t] => \A s \in TrueSlots(image, SymName[task[t]]) :
                       s \in Range(slots[t]) \/ task[t] \in enabled[s]

OkInv ==
    /\ \A k \in Tasks \ Callee : OkTask(k)
    /\ ~manual => \A t \in Threads : task[t] \in Tasks \ Callee => OkThread(t)

\* Until a task is told an original its proxy is nowhere.
NoProxyOf(k) ==
    /\ \A s \in Slots : got[s] # Proxy(k)
    /\ \A j \in Tasks : Proxy(k) \notin manualOrig[j]

ToldTask(k) ==
    /\ Proxy(k) \notin told[k]
    /\ told[k] = {} => NoProxyOf(k)
    /\ status[k] = "new" => told[k] = {}
    /\ manual /\ status[k] = "unhooking" => manualOrig[k] # {}

ToldThread(t) ==
    status[task[t]] = "hooking" =>
        /\ pc[t] \in {"check", "cfi", "told"} \cup Reading => told[task[t]] = {}
        /\ manual /\ pc[t] \in {"hooklock"} \cup Locked => told[task[t]] # {}

ToldInv ==
    /\ \A k \in Tasks : ToldTask(k)
    /\ \A t \in Threads : task[t] # None => ToldThread(t)

GotInv ==
    /\ Types /\ ReadInv /\ BusyInv /\ PageInv
    /\ ChainInv /\ EnabledInv /\ OkInv /\ ToldInv

-----------------------------------------------------------------------------
(* Sequences. *)

\* A sequence that is not empty is its head and its tail.
LEMMA HeadTail ==
    ASSUME NEW S, NEW s \in Seq(S), s # <<>>
    PROVE  /\ Head(s) \in S /\ Tail(s) \in Seq(S) /\ Head(s) = s[1]
           /\ Head(s) \in Range(s)
           /\ \A x : x \in Range(s) <=> x = Head(s) \/ x \in Range(Tail(s))
  <1>1. Len(s) \in Nat /\ Len(s) >= 1 /\ DOMAIN s = 1..Len(s)
    BY EmptySeq, LenProperties
  <1>2. /\ Head(s) = s[1] /\ Tail(s) \in Seq(S) /\ Len(Tail(s)) = Len(s) - 1
        /\ \A i \in 1..Len(Tail(s)) : Tail(s)[i] = s[i + 1]
    BY HeadTailProperties
  <1>3. DOMAIN Tail(s) = 1..(Len(s) - 1)
    BY <1>2, LenProperties
  <1>4. s[1] \in S
    BY <1>1, ElementOfSeq
  <1>5. \A i \in 1..Len(s) : i = 1 \/ (i - 1 \in 1..(Len(s) - 1) /\ s[i] = Tail(s)[i - 1])
    BY <1>1, <1>2
  <1>6. \A i \in 1..(Len(s) - 1) : i + 1 \in 1..Len(s) /\ s[i + 1] = Tail(s)[i]
    BY <1>1, <1>2
  <1>7. ASSUME NEW x PROVE x \in Range(s) <=> x = Head(s) \/ x \in Range(Tail(s))
    <2>1. x \in Range(s) <=> \E i \in 1..Len(s) : x = s[i]
      BY <1>1 DEF Range
    <2>2. x \in Range(Tail(s)) <=> \E i \in 1..(Len(s) - 1) : x = Tail(s)[i]
      BY <1>3 DEF Range
    <2>3. 1 \in 1..Len(s)
      BY <1>1
    <2>4. QED
      BY <1>2, <1>5, <1>6, <2>1, <2>2, <2>3
  <1>8. QED
    BY <1>2, <1>4, <1>7

\* There is nothing in the empty sequence.
LEMMA EmptyRange == Range(<<>>) = {}
  BY DEF Range

\* An element of a sequence.
LEMMA RangeOf ==
    ASSUME NEW S, NEW s \in Seq(S)
    PROVE  Range(s) \subseteq S
  <1>1. DOMAIN s = 1..Len(s)
    BY LenProperties
  <1>2. QED
    BY <1>1, ElementOfSeq DEF Range

-----------------------------------------------------------------------------
(* What a step of one thread, with its task, leaves alone. *)

StepOf(t, k) ==
    /\ image' = image /\ manual' = manual
    /\ \A u \in Threads : u # t =>
          /\ pc'[u] = pc[u] /\ task'[u] = task[u]
          /\ slots'[u] = slots[u] /\ ok'[u] = ok[u]
          /\ task[u] # k
    /\ \A j \in Tasks : j # k =>
          /\ status'[j] = status[j] /\ codes'[j] = codes[j]
          /\ told'[j] = told[j] /\ manualOrig'[j] = manualOrig[j]
    /\ task'[t] \in {None, k}

\* The tables and the locks of parsing stay as they are.
ReadSame ==
    /\ tab' = tab /\ entry' = entry /\ dynParsed' = dynParsed
    /\ error' = error /\ cfi' = cfi /\ parser' = parser /\ cfiBy' = cfiBy

\* Only the thread and the task of a step can disturb ReadInv.
LEMMA ReadStep ==
    ASSUME Types, ReadInv, NEW t \in Threads, NEW k \in Tasks, StepOf(t, k), ReadSame,
           ReadThread(t)', status'[k] \in {"hooked", "unhooking"} => cfi
    PROVE  ReadInv'
  <1>1. \A u \in Threads : u # t => ReadThread(u)'
    <2> SUFFICES ASSUME NEW u \in Threads, u # t PROVE ReadThread(u)'
      OBVIOUS
    <2>1. pc'[u] = pc[u] /\ image' = image
      BY DEF StepOf
    <2>2. ReadThread(u)
      BY DEF ReadInv
    <2>3. QED
      BY <2>1, <2>2 DEF ReadThread, ReadSame, Parsed, AllFields
  <1>2. \A j \in Tasks : status'[j] \in {"hooked", "unhooking"} => cfi
    BY DEF StepOf, ReadInv
  <1>3. image' = image
    BY DEF StepOf
  <1>4. QED
    BY <1>1, <1>2, <1>3 DEF ReadInv, ReadSame, Parsed, AllFields

\* The same of BusyInv.
LEMMA BusyStep ==
    ASSUME Types, BusyInv, NEW t \in Threads, NEW k \in Tasks, StepOf(t, k),
           \A u \in Threads : u # t => (hookBy' = u <=> hookBy = u),
           BusyThread(t)'
    PROVE  BusyInv'
  <1>1. ASSUME NEW u \in Threads, u # t PROVE BusyThread(u)'
    <2>1. /\ pc'[u] = pc[u] /\ task'[u] = task[u] /\ slots'[u] = slots[u]
          /\ image' = image /\ manual' = manual /\ task[u] # k
      BY <1>1 DEF StepOf
    <2>2. task[u] \in Tasks \cup {None}
      BY DEF Types
    <2>3. task[u] # None => status'[task[u]] = status[task[u]]
      BY <2>1, <2>2 DEF StepOf
    <2>4. BusyThread(u)
      BY DEF BusyInv
    <2>5. hookBy' = u <=> hookBy = u
      BY <1>1
    <2>6. task[u] # None <=> pc[u] # "idle"
      BY <2>4 DEF BusyThread
    <2>7. QED
      BY <2>1, <2>3, <2>4, <2>5, <2>6 DEF BusyThread
  <1>2. ASSUME NEW u \in Threads, NEW w \in Threads, u # w, task'[u] # None
        PROVE  task'[u] # task'[w]
    <2>1. task[u] # None => task[u] # task[w]
      BY <1>2 DEF BusyInv
    <2>2. task'[t] \in {None, k}
      BY DEF StepOf
    <2>3. CASE u = t
      BY <1>2, <2>2, <2>3 DEF StepOf
    <2>4. CASE w = t
      BY <1>2, <2>2, <2>4 DEF StepOf
    <2>5. CASE u # t /\ w # t
      BY <1>2, <2>1, <2>5 DEF StepOf
    <2>6. QED
      BY <2>3, <2>4, <2>5
  <1>3. QED
    BY <1>1, <1>2 DEF BusyInv

\* A step that does not call mprotect and is not between its calls, or stays there.
LEMMA PageStep ==
    ASSUME Types, PageInv, NEW t \in Threads, NEW k \in Tasks, StepOf(t, k), prot' = prot,
           pc[t] \in {"store", "seal"} <=> pc'[t] \in {"store", "seal"},
           pc[t] \in {"store", "seal"} => slots'[t] = slots[t]
    PROVE  PageInv'
  <1>1. Slots' = Slots /\ image' = image
    BY DEF StepOf, Slots
  <1>2. ASSUME NEW s \in Slots PROVE Opened(s)' <=> Opened(s)
    <2>1. \A u \in Threads :
             /\ pc'[u] \in {"store", "seal"} <=> pc[u] \in {"store", "seal"}
             /\ pc[u] \in {"store", "seal"} => slots'[u] = slots[u]
      BY DEF StepOf
    <2>2. QED
      BY <1>1, <2>1 DEF Opened
  <1>3. \A s \in Slots : prot'[s] = IF Opened(s)' THEN Protect(image, s) \cup {"w"}
                                                  ELSE Protect(image, s)
    BY <1>2 DEF PageInv
  <1>4. QED
    BY <1>1, <1>3 DEF PageInv

\* A step that leaves the chains and the slots alone, of a thread that is not
\* replacing a slot.
LEMMA ChainStep ==
    ASSUME Types, ChainInv, NEW t \in Threads, NEW k \in Tasks, StepOf(t, k),
           got' = got, chained' = chained, enabled' = enabled,
           origFunc' = origFunc, stuck' = stuck,
           pc[t] \notin {"write", "store"}, pc'[t] \notin {"write", "store"},
           \A u \in Threads : u # t /\ pc[u] # "idle" => task[u] \in Tasks
    PROVE  ChainInv'
  <1> SUFFICES ASSUME ~manual' PROVE \A s \in Slots' : SlotChain(s)'
    BY DEF ChainInv
  <1>1. Slots' = Slots /\ image' = image /\ ~manual
    BY DEF StepOf, Slots
  <1> SUFFICES ASSUME NEW s \in Slots PROVE SlotChain(s)'
    BY <1>1
  <1>2. \A u \in Threads : AtSlot(u, s)' <=> AtSlot(u, s)
    BY DEF StepOf, AtSlot
  <1>3. ASSUME NEW u \in Threads, AtSlot(u, s)
        PROVE  /\ pc'[u] = pc[u] /\ task'[u] = task[u]
               /\ Unhooking(u)' <=> Unhooking(u)
    <2>1. u # t /\ task[u] \in Tasks
      BY <1>3 DEF AtSlot
    <2>2. QED
      BY <2>1 DEF StepOf, Unhooking
  <1>4. SlotChain(s)
    BY <1>1 DEF ChainInv
  <1>5. Settled(s)' <=> Settled(s)
    BY <1>1 DEF Settled, Home, Trampo
  <1>6. \A u \in Threads : AtSlot(u, s) => (Replacing(u, s)' <=> Replacing(u, s))
    BY <1>1, <1>3 DEF Replacing, Home, Trampo
  <1>7. (s \in chained <=> enabled[s] # {})' <=> (s \in chained <=> enabled[s] # {})
    OBVIOUS
  <1>8. QED
    BY <1>2, <1>4, <1>5, <1>6, <1>7 DEF SlotChain

\* The proxies of other tasks stay enabled where they were.
LEMMA EnabledStep ==
    ASSUME Types, EnabledInv, NEW t \in Threads, NEW k \in Tasks, StepOf(t, k),
           \A s \in Slots : \A j \in Tasks : j # k /\ j \in enabled'[s] => j \in enabled[s],
           \A s \in Slots : ~manual /\ k \notin Callee /\ k \in enabled'[s] => EnabledTask(k, s)'
    PROVE  EnabledInv'
  <1> SUFFICES ASSUME ~manual', NEW s \in Slots', NEW j \in Tasks \ Callee, j \in enabled'[s]
               PROVE  EnabledTask(j, s)'
    BY DEF EnabledInv
  <1>1. s \in Slots /\ image' = image /\ ~manual
    BY DEF StepOf, Slots
  <1>2. CASE j = k
    BY <1>1, <1>2
  <1>3. CASE j # k
    <2>1. EnabledTask(j, s)
      BY <1>1, <1>3 DEF EnabledInv
    <2>2. status'[j] = status[j]
      BY <1>3 DEF StepOf
    <2>3. ASSUME NEW u \in Threads, task'[u] = j
          PROVE  task[u] = j /\ (Ahead(u, s) => Ahead(u, s)')
      <3>1. u # t
        BY <1>3, <2>3, NoneType DEF StepOf
      <3>2. QED
        BY <3>1, <2>3 DEF StepOf, Ahead
    <2>4. QED
      BY <1>1, <2>1, <2>2, <2>3 DEF EnabledTask
  <1>4. QED
    BY <1>2, <1>3

\* What other tasks were told stays right.
LEMMA OkStep ==
    ASSUME Types, OkInv, NEW t \in Threads, NEW k \in Tasks, StepOf(t, k),
           \A s \in Slots : \A j \in Tasks : j # k /\ j \in enabled[s] => j \in enabled'[s],
           \A img \in Images : \A j \in Tasks \ Callee :
              TrueSlots(img, SymName[j]) \subseteq DOMAIN img.orig,
           \A u \in Threads : u # t /\ task[u] # None /\ pc[u] \in OnSlot => slots[u] # <<>>,
           k \notin Callee => OkTask(k)',
           ~manual /\ task'[t] = k /\ k \notin Callee => OkThread(t)'
    PROVE  OkInv'
  <1>1. image' = image /\ manual' = manual /\ image \in Images
    BY DEF StepOf, Types
  <1>2. ASSUME NEW j \in Tasks \ Callee PROVE OkTask(j)'
    <2>1. CASE j = k
      BY <2>1
    <2>2. CASE j # k
      <3>1. status'[j] = status[j] /\ codes'[j] = codes[j]
        BY <2>2 DEF StepOf
      <3>2. \A s \in TrueSlots(image, SymName[j]) : j \in enabled[s] => j \in enabled'[s]
        BY <1>1, <2>2 DEF Slots
      <3>3. OkTask(j)
        BY DEF OkInv
      <3>4. QED
        BY <1>1, <3>1, <3>2, <3>3 DEF OkTask
    <2>3. QED
      BY <2>1, <2>2
  <1>3. ASSUME ~manual, NEW u \in Threads, task'[u] \in Tasks \ Callee PROVE OkThread(u)'
    <2>1. CASE u = t
      <3>1. task'[t] = k
        BY <1>3, <2>1, NoneType DEF StepOf
      <3>2. QED
        BY <1>3, <2>1, <3>1
    <2>2. CASE u # t
      <3>1. /\ pc'[u] = pc[u] /\ task'[u] = task[u] /\ slots'[u] = slots[u] /\ ok'[u] = ok[u]
            /\ task[u] # k /\ task[u] \in Tasks \ Callee
        BY <1>3, <2>2 DEF StepOf
      <3>2. status'[task[u]] = status[task[u]]
        BY <3>1 DEF StepOf
      <3>3. \A s \in Slots : task[u] \in enabled[s] => task[u] \in enabled'[s]
        BY <3>1
      <3>4. TrueSlots(image, SymName[task[u]]) \subseteq Slots
        BY <1>1, <3>1 DEF Slots
      <3>5. OkThread(u)
        BY <1>3, <3>1 DEF OkInv
      <3>6. pc[u] \in OnSlot => Head(slots[u]) \in Slots
        <4>1. slots[u] \in Seq(Slots)
          BY DEF Types
        <4>2. pc[u] \in OnSlot => slots[u] # <<>>
          BY <2>2, <3>1, NoneType
        <4>3. QED
          BY <4>1, <4>2, HeadTail
      <3>7. QED
        BY <1>1, <3>1, <3>2, <3>3, <3>4, <3>5, <3>6 DEF OkThread, Unhooking
    <2>3. QED
      BY <2>1, <2>2
  <1>4. QED
    BY <1>1, <1>2, <1>3 DEF OkInv

\* Proxies appear nowhere before their tasks are told an original.
LEMMA ToldStep ==
    ASSUME Types, ToldInv, NEW t \in Threads, NEW k \in Tasks, StepOf(t, k),
           \A j \in Tasks : told'[j] = {} /\ NoProxyOf(j) => NoProxyOf(j)',
           ToldTask(k)', task'[t] = k => ToldThread(t)'
    PROVE  ToldInv'
  <1>1. manual' = manual
    BY DEF StepOf
  <1>2. ASSUME NEW j \in Tasks PROVE ToldTask(j)'
    <2>1. CASE j # k
      <3>1. told'[j] = told[j] /\ status'[j] = status[j] /\ manualOrig'[j] = manualOrig[j]
        BY <2>1 DEF StepOf
      <3>2. ToldTask(j)
        BY DEF ToldInv
      <3>3. told'[j] = {} => NoProxyOf(j)'
        BY <3>1, <3>2 DEF ToldTask
      <3>4. Proxy(j)' = Proxy(j)
        BY DEF Proxy
      <3>5. QED
        BY <1>1, <3>1, <3>2, <3>3, <3>4 DEF ToldTask
    <2>2. QED
      BY <2>1
  <1>3. ASSUME NEW u \in Threads, task'[u] # None PROVE ToldThread(u)'
    <2>1. CASE u = t
      BY <1>3, <2>1 DEF StepOf
    <2>2. CASE u # t
      <3>1. pc'[u] = pc[u] /\ task'[u] = task[u] /\ task[u] # k /\ task[u] # None
        BY <1>3, <2>2 DEF StepOf
      <3>2. task[u] \in Tasks
        BY <3>1 DEF Types
      <3>3. status'[task[u]] = status[task[u]] /\ told'[task[u]] = told[task[u]]
        BY <3>1, <3>2 DEF StepOf
      <3>4. ToldThread(u)
        BY <3>1 DEF ToldInv
      <3>5. QED
        BY <1>1, <3>1, <3>3, <3>4 DEF ToldThread
    <2>3. QED
      BY <2>1, <2>2
  <1>4. QED
    BY <1>2, <1>3 DEF ToldInv

\* The slots of a symbol are slots of the ELF.
LEMMA WantedSlots ==
    ASSUME TablesRight
    PROVE  \A img \in Images : \A j \in Tasks \ Callee :
              TrueSlots(img, SymName[j]) \subseteq DOMAIN img.orig
  BY RangeOf DEF TablesRight

\* A task by name finds the slots of its symbol in the tables of a parsed ELF.
LEMMA FoundRange ==
    ASSUME TablesRight, NEW img \in Images, NEW j \in Tasks \ Callee
    PROVE  /\ FoundByName(img, j) \in Seq(DOMAIN img.orig)
           /\ Range(FoundByName(img, j)) = TrueSlots(img, SymName[j])
  BY DEF TablesRight

\* A new task is at no slot and in no chain.
LEMMA HookKeeps ==
    ASSUME CfiLock, TablesRight, GotInv, NEW t \in Threads, NEW k \in Tasks, Hook(t, k)
    PROVE  GotInv'
  <1>1. /\ Types /\ ReadInv /\ BusyInv /\ PageInv
        /\ ChainInv /\ EnabledInv /\ OkInv /\ ToldInv
    BY DEF GotInv
  <1>3. ReadThread(t) /\ BusyThread(t) /\ ToldTask(k)
    BY <1>1 DEF ReadInv, BusyInv, ToldInv
  <1>4. /\ image' = image /\ manual' = manual /\ tab' = tab
        /\ entry' = entry /\ dynParsed' = dynParsed /\ error' = error
        /\ cfi' = cfi /\ parser' = parser /\ cfiBy' = cfiBy
        /\ hookBy' = hookBy /\ got' = got /\ prot' = prot
        /\ chained' = chained /\ enabled' = enabled /\ origFunc' = origFunc /\ stuck' = stuck
        /\ manualOrig' = manualOrig /\ codes' = codes /\ told' = told
        /\ slots' = slots /\ ok' = ok
        /\ pc[t] = "idle" /\ status[k] = "new"
        /\ pc'[t] = "check" /\ task'[t] = k /\ status'[k] = "hooking"
        /\ \A u \in Threads : u # t => pc'[u] = pc[u] /\ task'[u] = task[u]
        /\ \A j \in Tasks : j # k => status'[j] = status[j]
    BY <1>1 DEF Hook, elfVars, lockVars, gotVars, taskVars, local, Goto, Types
  <1>5. /\ \A u \in Threads : u # t => task[u] # k
        /\ \A u \in Threads : task[u] \in Tasks \cup {None}
    <2>1. ASSUME NEW u \in Threads, u # t PROVE task[u] # k
      <3>1. task[u] # None => status[task[u]] \in {"hooking", "unhooking"}
        BY <1>1 DEF BusyInv, BusyThread
      <3>2. QED
        BY <1>4, <3>1, NoneType
    <2>2. QED
      BY <1>1, <2>1 DEF Types
  <1>6. StepOf(t, k)
    BY <1>4, <1>5 DEF StepOf
  <1>7. Types'
    BY <1>1 DEF Types, Slots, Hook, elfVars, lockVars, gotVars, taskVars, local, Goto, Where, Reading, Locked, Statuses
  <1>8. ReadInv'
    <2>1. ReadThread(t)'
      BY <1>1, <1>3, <1>4 DEF ReadThread, ReadInv, Parsed, AllFields, Reading, Parsing, Locked
    <2>2. status'[k] \in {"hooked", "unhooking"} => cfi
      BY <1>1, <1>3, <1>4 DEF ReadThread, ReadInv, Reading, Parsing, Locked
    <2>3. QED
      BY <1>1, <1>4, <1>6, <2>1, <2>2, ReadStep DEF ReadSame
  <1>9. BusyInv'
    <2>1. BusyThread(t)'
      BY <1>1, <1>3, <1>4, NoneType DEF BusyThread, Types, Locked, OnSlot, Reading
    <2>2. \A u \in Threads : u # t => (hookBy' = u <=> hookBy = u)
      BY <1>1, <1>3, <1>4, NoneType DEF BusyThread, Locked
    <2>3. QED
      BY <1>1, <1>6, <2>1, <2>2, BusyStep
  <1>10. PageInv'
    BY <1>1, <1>4, <1>6, PageStep
  <1>11. ChainInv'
    BY <1>1, <1>4, <1>5, <1>6, ChainStep DEF BusyInv, BusyThread
  <1>12. EnabledInv'
    <2>1. ASSUME NEW s \in Slots, ~manual, k \notin Callee, k \in enabled'[s]
          PROVE  EnabledTask(k, s)'
      <3>1. EnabledTask(k, s)
        BY <1>1, <1>4, <2>1 DEF EnabledInv
      <3>2. QED
        BY <1>3, <1>4, <1>5, <2>1, <3>1 DEF EnabledTask, Ahead, BusyThread, Reading, Locked, OnSlot
    <2>2. QED
      BY <1>1, <1>4, <1>6, <2>1, EnabledStep
  <1>13. OkInv'
    <2>1. ASSUME k \notin Callee PROVE OkTask(k)'
      <3>1. OkTask(k)
        BY <1>1, <2>1 DEF OkInv
      <3>2. QED
        BY <1>3, <1>4, <3>1 DEF OkTask, BusyThread
    <2>2. ASSUME ~manual, task'[t] = k, k \notin Callee PROVE OkThread(t)'
      BY <1>1, <1>3, <1>4, <2>2 DEF OkThread, OkInv, Unhooking, Locked, OnSlot, BusyThread
    <2>3. QED
      BY <1>1, <1>4, <1>5, <1>6, <2>1, <2>2, OkStep, WantedSlots DEF BusyInv, BusyThread
  <1>14. ToldInv'
    <2>1. \A j \in Tasks : told'[j] = {} /\ NoProxyOf(j) => NoProxyOf(j)'
      BY <1>4, <1>6 DEF NoProxyOf, StepOf, Slots, Proxy
    <2>2. ToldTask(k)'
      BY <1>3, <1>4, <2>1 DEF ToldTask, Proxy
    <2>3. task'[t] = k => ToldThread(t)'
      BY <1>1, <1>3, <1>4 DEF ToldThread, ToldTask, ToldInv, BusyThread, Reading, Locked
    <2>4. QED
      BY <1>1, <1>6, <2>1, <2>2, <2>3, ToldStep
  <1>15. QED
    BY <1>7, <1>8, <1>9, <1>10, <1>11, <1>12, <1>13, <1>14 DEF GotInv

\* No ELF has failed, and the first task in it waits for the lock.
LEMMA CheckKeeps ==
    ASSUME CfiLock, TablesRight, GotInv, NEW t \in Threads, Check(t)
    PROVE  GotInv'
  <1>1. /\ Types /\ ReadInv /\ BusyInv /\ PageInv
        /\ ChainInv /\ EnabledInv /\ OkInv /\ ToldInv
    BY DEF GotInv
  <1>2. PICK k \in Tasks : k = task[t]
    BY <1>1 DEF Check, Types, BusyInv, BusyThread
  <1>3. ReadThread(t) /\ BusyThread(t) /\ ToldTask(k)
    BY <1>1 DEF ReadInv, BusyInv, ToldInv
  <1>4. /\ image' = image /\ manual' = manual /\ tab' = tab
        /\ entry' = entry /\ dynParsed' = dynParsed /\ error' = error
        /\ cfi' = cfi /\ parser' = parser /\ cfiBy' = cfiBy
        /\ hookBy' = hookBy /\ got' = got /\ prot' = prot
        /\ chained' = chained /\ enabled' = enabled /\ origFunc' = origFunc /\ stuck' = stuck
        /\ manualOrig' = manualOrig /\ codes' = codes /\ told' = told
        /\ slots' = slots /\ ok' = ok /\ task' = task
        /\ status' = status
        /\ pc[t] = "check"
        /\ pc'[t] = IF cfi THEN "parse" ELSE "cfi"
        /\ \A u \in Threads : u # t => pc'[u] = pc[u]
    BY <1>2, <1>1 DEF Check, elfVars, lockVars, gotVars, taskVars, local, Goto, ReadInv, Hooked, Return, Types
  <1>5. /\ \A u \in Threads : u # t => task[u] # k
        /\ \A u \in Threads : task[u] \in Tasks \cup {None}
    BY <1>2, <1>1, NoneType DEF BusyInv, Types, BusyThread
  <1>6. StepOf(t, k)
    BY <1>2, <1>4, <1>5 DEF StepOf
  <1>7. Types'
    BY <1>2, <1>1 DEF Types, Slots, Check, elfVars, lockVars, gotVars, taskVars, local, Goto, ReadInv, Hooked, Return, Where, Reading, Locked, Statuses
  <1>8. ReadInv'
    <2>1. ReadThread(t)'
      BY <1>2, <1>1, <1>3, <1>4 DEF ReadThread, ReadInv, Parsed, AllFields, Reading, Parsing, Locked
    <2>2. status'[k] \in {"hooked", "unhooking"} => cfi
      BY <1>2, <1>1, <1>3, <1>4 DEF ReadThread, ReadInv, Reading, Parsing, Locked
    <2>3. QED
      BY <1>1, <1>4, <1>6, <2>1, <2>2, ReadStep DEF ReadSame
  <1>9. BusyInv'
    <2>1. BusyThread(t)'
      BY <1>2, <1>1, <1>3, <1>4, NoneType DEF BusyThread, Types, Locked, OnSlot, Reading
    <2>2. \A u \in Threads : u # t => (hookBy' = u <=> hookBy = u)
      BY <1>1, <1>3, <1>4, NoneType DEF BusyThread, Locked
    <2>3. QED
      BY <1>1, <1>6, <2>1, <2>2, BusyStep
  <1>10. PageInv'
    BY <1>1, <1>4, <1>6, PageStep
  <1>11. ChainInv'
    BY <1>1, <1>4, <1>5, <1>6, ChainStep DEF BusyInv, BusyThread
  <1>12. EnabledInv'
    <2>1. ASSUME NEW s \in Slots, ~manual, k \notin Callee, k \in enabled'[s]
          PROVE  EnabledTask(k, s)'
      <3>1. EnabledTask(k, s)
        BY <1>1, <1>4, <2>1 DEF EnabledInv
      <3>2. QED
        BY <1>2, <1>3, <1>4, <1>5, <2>1, <3>1 DEF EnabledTask, Ahead, BusyThread, Reading, Locked, OnSlot
    <2>2. QED
      BY <1>1, <1>4, <1>6, <2>1, EnabledStep
  <1>13. OkInv'
    <2>1. ASSUME k \notin Callee PROVE OkTask(k)'
      <3>1. OkTask(k)
        BY <1>1, <2>1 DEF OkInv
      <3>2. QED
        BY <1>2, <1>3, <1>4, <3>1 DEF OkTask, BusyThread
    <2>2. ASSUME ~manual, task'[t] = k, k \notin Callee PROVE OkThread(t)'
      BY <1>2, <1>1, <1>3, <1>4, <2>2 DEF OkThread, OkInv, Unhooking, Locked, OnSlot, BusyThread
    <2>3. QED
      BY <1>1, <1>4, <1>5, <1>6, <2>1, <2>2, OkStep, WantedSlots DEF BusyInv, BusyThread
  <1>14. ToldInv'
    <2>1. \A j \in Tasks : told'[j] = {} /\ NoProxyOf(j) => NoProxyOf(j)'
      BY <1>4, <1>6 DEF NoProxyOf, StepOf, Slots, Proxy
    <2>2. ToldTask(k)'
      BY <1>2, <1>3, <1>4, <2>1 DEF ToldTask, Proxy
    <2>3. task'[t] = k => ToldThread(t)'
      BY <1>2, <1>1, <1>3, <1>4 DEF ToldThread, ToldTask, ToldInv, BusyThread, Reading, Locked
    <2>4. QED
      BY <1>1, <1>6, <2>1, <2>2, <2>3, ToldStep
  <1>15. QED
    BY <1>7, <1>8, <1>9, <1>10, <1>11, <1>12, <1>13, <1>14 DEF GotInv

\* A thread that finds the tables parsed finds them whole.
LEMMA ParseKeeps ==
    ASSUME CfiLock, TablesRight, GotInv, NEW t \in Threads, Parse(t)
    PROVE  GotInv'
  <1>1. /\ Types /\ ReadInv /\ BusyInv /\ PageInv
        /\ ChainInv /\ EnabledInv /\ OkInv /\ ToldInv
    BY DEF GotInv
  <1>2. PICK k \in Tasks : k = task[t]
    BY <1>1 DEF Parse, Types, BusyInv, BusyThread
  <1>3. ReadThread(t) /\ BusyThread(t) /\ ToldTask(k)
    BY <1>1 DEF ReadInv, BusyInv, ToldInv
  <1>4. /\ image' = image /\ manual' = manual /\ tab' = tab
        /\ entry' = entry /\ dynParsed' = dynParsed /\ error' = error
        /\ cfi' = cfi /\ parser' = parser /\ cfiBy' = cfiBy
        /\ hookBy' = hookBy /\ got' = got /\ prot' = prot
        /\ chained' = chained /\ enabled' = enabled /\ origFunc' = origFunc /\ stuck' = stuck
        /\ manualOrig' = manualOrig /\ codes' = codes /\ told' = told
        /\ slots' = slots /\ ok' = ok /\ task' = task
        /\ status' = status
        /\ pc[t] = "parse"
        /\ pc'[t] = IF dynParsed THEN "find" ELSE "lock"
        /\ \A u \in Threads : u # t => pc'[u] = pc[u]
    BY <1>2, <1>1 DEF Parse, elfVars, lockVars, gotVars, taskVars, local, Goto, ReadInv, Types
  <1>5. /\ \A u \in Threads : u # t => task[u] # k
        /\ \A u \in Threads : task[u] \in Tasks \cup {None}
    BY <1>2, <1>1, NoneType DEF BusyInv, Types, BusyThread
  <1>6. StepOf(t, k)
    BY <1>2, <1>4, <1>5 DEF StepOf
  <1>7. Types'
    BY <1>2, <1>1 DEF Types, Slots, Parse, elfVars, lockVars, gotVars, taskVars, local, Goto, ReadInv, Where, Reading, Locked, Statuses
  <1>8. ReadInv'
    <2>1. ReadThread(t)'
      BY <1>2, <1>1, <1>3, <1>4 DEF ReadThread, ReadInv, Parsed, AllFields, Reading, Parsing, Locked
    <2>2. status'[k] \in {"hooked", "unhooking"} => cfi
      BY <1>2, <1>1, <1>3, <1>4 DEF ReadThread, ReadInv, Reading, Parsing, Locked
    <2>3. QED
      BY <1>1, <1>4, <1>6, <2>1, <2>2, ReadStep DEF ReadSame
  <1>9. BusyInv'
    <2>1. BusyThread(t)'
      BY <1>2, <1>1, <1>3, <1>4, NoneType DEF BusyThread, Types, Locked, OnSlot, Reading
    <2>2. \A u \in Threads : u # t => (hookBy' = u <=> hookBy = u)
      BY <1>1, <1>3, <1>4, NoneType DEF BusyThread, Locked
    <2>3. QED
      BY <1>1, <1>6, <2>1, <2>2, BusyStep
  <1>10. PageInv'
    BY <1>1, <1>4, <1>6, PageStep
  <1>11. ChainInv'
    BY <1>1, <1>4, <1>5, <1>6, ChainStep DEF BusyInv, BusyThread
  <1>12. EnabledInv'
    <2>1. ASSUME NEW s \in Slots, ~manual, k \notin Callee, k \in enabled'[s]
          PROVE  EnabledTask(k, s)'
      <3>1. EnabledTask(k, s)
        BY <1>1, <1>4, <2>1 DEF EnabledInv
      <3>2. QED
        BY <1>2, <1>3, <1>4, <1>5, <2>1, <3>1 DEF EnabledTask, Ahead, BusyThread, Reading, Locked, OnSlot
    <2>2. QED
      BY <1>1, <1>4, <1>6, <2>1, EnabledStep
  <1>13. OkInv'
    <2>1. ASSUME k \notin Callee PROVE OkTask(k)'
      <3>1. OkTask(k)
        BY <1>1, <2>1 DEF OkInv
      <3>2. QED
        BY <1>2, <1>3, <1>4, <3>1 DEF OkTask, BusyThread
    <2>2. ASSUME ~manual, task'[t] = k, k \notin Callee PROVE OkThread(t)'
      BY <1>2, <1>1, <1>3, <1>4, <2>2 DEF OkThread, OkInv, Unhooking, Locked, OnSlot, BusyThread
    <2>3. QED
      BY <1>1, <1>4, <1>5, <1>6, <2>1, <2>2, OkStep, WantedSlots DEF BusyInv, BusyThread
  <1>14. ToldInv'
    <2>1. \A j \in Tasks : told'[j] = {} /\ NoProxyOf(j) => NoProxyOf(j)'
      BY <1>4, <1>6 DEF NoProxyOf, StepOf, Slots, Proxy
    <2>2. ToldTask(k)'
      BY <1>2, <1>3, <1>4, <2>1 DEF ToldTask, Proxy
    <2>3. task'[t] = k => ToldThread(t)'
      BY <1>2, <1>1, <1>3, <1>4 DEF ToldThread, ToldTask, ToldInv, BusyThread, Reading, Locked
    <2>4. QED
      BY <1>1, <1>6, <2>1, <2>2, <2>3, ToldStep
  <1>15. QED
    BY <1>7, <1>8, <1>9, <1>10, <1>11, <1>12, <1>13, <1>14 DEF GotInv

\* An unhook starts where the tables are whole, with an original when there is one.
LEMMA UnhookKeeps ==
    ASSUME CfiLock, TablesRight, GotInv, NEW t \in Threads, NEW k \in Tasks, Unhook(t, k)
    PROVE  GotInv'
  <1>1. /\ Types /\ ReadInv /\ BusyInv /\ PageInv
        /\ ChainInv /\ EnabledInv /\ OkInv /\ ToldInv
    BY DEF GotInv
  <1>3. ReadThread(t) /\ BusyThread(t) /\ ToldTask(k)
    BY <1>1 DEF ReadInv, BusyInv, ToldInv
  <1>4. /\ image' = image /\ manual' = manual /\ tab' = tab
        /\ entry' = entry /\ dynParsed' = dynParsed /\ error' = error
        /\ cfi' = cfi /\ parser' = parser /\ cfiBy' = cfiBy
        /\ hookBy' = hookBy /\ got' = got /\ prot' = prot
        /\ chained' = chained /\ enabled' = enabled /\ origFunc' = origFunc /\ stuck' = stuck
        /\ manualOrig' = manualOrig /\ codes' = codes /\ told' = told
        /\ slots' = slots /\ ok' = ok
        /\ pc[t] = "idle" /\ status[k] = "hooked"
        /\ \/ /\ pc'[t] = "parse" /\ task'[t] = k /\ status'[k] = "unhooking"
              /\ manual => manualOrig[k] # {}
           \/ pc'[t] = "idle" /\ task'[t] = None /\ status'[k] = "gone" /\ manual
        /\ \A u \in Threads : u # t => pc'[u] = pc[u] /\ task'[u] = task[u]
        /\ \A j \in Tasks : j # k => status'[j] = status[j]
    <2>1. manual /\ Cardinality(manualOrig[k]) = 1 => manualOrig[k] # {}
      BY FS_EmptySet
    <2>2. task[t] = None <=> pc[t] = "idle"
      BY <1>3 DEF BusyThread
    <2>3. QED
      BY <1>1, <2>1, <2>2 DEF Unhook, elfVars, lockVars, gotVars, Goto, Types
  <1>5. /\ \A u \in Threads : u # t => task[u] # k
        /\ \A u \in Threads : task[u] \in Tasks \cup {None}
    <2>1. ASSUME NEW u \in Threads, u # t PROVE task[u] # k
      <3>1. task[u] # None => status[task[u]] \in {"hooking", "unhooking"}
        BY <1>1 DEF BusyInv, BusyThread
      <3>2. QED
        BY <1>4, <3>1, NoneType
    <2>2. QED
      BY <1>1, <2>1 DEF Types
  <1>6. StepOf(t, k)
    BY <1>4, <1>5 DEF StepOf
  <1>7. Types'
    <2>1. status' \in [Tasks -> Statuses]
      BY ZenonT(60), <1>1 DEF Types, Unhook, Statuses
    <2>2. pc' = pc \/ pc' = [pc EXCEPT ![t] = "parse"]
      BY DEF Unhook, Goto
    <2>3. task' = task \/ task' = [task EXCEPT ![t] = k]
      BY DEF Unhook
    <2>4. pc' \in [Threads -> Where]
      BY <1>1, <2>2 DEF Types, Where, Reading
    <2>5. task' \in [Threads -> Tasks \cup {None}]
      BY <1>1, <2>3 DEF Types
    <2>6. QED
      BY <1>1, <1>4, <2>1, <2>4, <2>5 DEF Types, Slots
  <1>8. ReadInv'
    <2>1. ReadThread(t)'
      BY <1>1, <1>3, <1>4 DEF ReadThread, ReadInv, Parsed, AllFields, Reading, Parsing, Locked
    <2>2. status'[k] \in {"hooked", "unhooking"} => cfi
      BY <1>1, <1>3, <1>4 DEF ReadThread, ReadInv, Reading, Parsing, Locked
    <2>3. QED
      BY <1>1, <1>4, <1>6, <2>1, <2>2, ReadStep DEF ReadSame
  <1>9. BusyInv'
    <2>1. BusyThread(t)'
      BY <1>1, <1>3, <1>4, NoneType DEF BusyThread, Types, Locked, OnSlot, Reading
    <2>2. \A u \in Threads : u # t => (hookBy' = u <=> hookBy = u)
      BY <1>1, <1>3, <1>4, NoneType DEF BusyThread, Locked
    <2>3. QED
      BY <1>1, <1>6, <2>1, <2>2, BusyStep
  <1>10. PageInv'
    BY <1>1, <1>4, <1>6, PageStep
  <1>11. ChainInv'
    BY <1>1, <1>4, <1>5, <1>6, ChainStep DEF BusyInv, BusyThread
  <1>12. EnabledInv'
    <2>1. ASSUME NEW s \in Slots, ~manual, k \notin Callee, k \in enabled'[s]
          PROVE  EnabledTask(k, s)'
      <3>1. EnabledTask(k, s)
        BY <1>1, <1>4, <2>1 DEF EnabledInv
      <3>2. QED
        BY <1>3, <1>4, <1>5, <2>1, <3>1 DEF EnabledTask, Ahead, BusyThread, Reading, Locked, OnSlot
    <2>2. QED
      BY <1>1, <1>4, <1>6, <2>1, EnabledStep
  <1>13. OkInv'
    <2>1. ASSUME k \notin Callee PROVE OkTask(k)'
      <3>1. OkTask(k)
        BY <1>1, <2>1 DEF OkInv
      <3>2. QED
        BY <1>3, <1>4, <3>1 DEF OkTask, BusyThread
    <2>2. ASSUME ~manual, task'[t] = k, k \notin Callee PROVE OkThread(t)'
      BY <1>1, <1>3, <1>4, <2>2 DEF OkThread, OkInv, Unhooking, Locked, OnSlot, BusyThread
    <2>3. QED
      BY <1>1, <1>4, <1>5, <1>6, <2>1, <2>2, OkStep, WantedSlots DEF BusyInv, BusyThread
  <1>14. ToldInv'
    <2>1. \A j \in Tasks : told'[j] = {} /\ NoProxyOf(j) => NoProxyOf(j)'
      BY <1>4, <1>6 DEF NoProxyOf, StepOf, Slots, Proxy
    <2>2. ToldTask(k)'
      BY <1>3, <1>4, <2>1 DEF ToldTask, Proxy
    <2>3. task'[t] = k => ToldThread(t)'
      BY <1>1, <1>3, <1>4 DEF ToldThread, ToldTask, ToldInv, BusyThread, Reading, Locked
    <2>4. QED
      BY <1>1, <1>6, <2>1, <2>2, <2>3, ToldStep
  <1>15. QED
    BY <1>7, <1>8, <1>9, <1>10, <1>11, <1>12, <1>13, <1>14 DEF GotInv

\* One thread at a time is the first in the ELF.
LEMMA LockCfiKeeps ==
    ASSUME CfiLock, TablesRight, GotInv, NEW t \in Threads, LockCfi(t)
    PROVE  GotInv'
  <1>1. /\ Types /\ ReadInv /\ BusyInv /\ PageInv
        /\ ChainInv /\ EnabledInv /\ OkInv /\ ToldInv
    BY DEF GotInv
  <1>2. PICK k \in Tasks : k = task[t]
    BY <1>1 DEF LockCfi, Types, BusyInv, BusyThread
  <1>3. ReadThread(t) /\ BusyThread(t) /\ ToldTask(k)
    BY <1>1 DEF ReadInv, BusyInv, ToldInv
  <1>4. /\ image' = image /\ manual' = manual /\ tab' = tab
        /\ entry' = entry /\ dynParsed' = dynParsed /\ error' = error
        /\ cfi' = cfi /\ parser' = parser /\ hookBy' = hookBy
        /\ got' = got /\ prot' = prot /\ chained' = chained
        /\ enabled' = enabled /\ origFunc' = origFunc /\ stuck' = stuck /\ manualOrig' = manualOrig
        /\ codes' = codes /\ told' = told /\ slots' = slots
        /\ ok' = ok /\ task' = task /\ status' = status
        /\ pc[t] = "cfi" /\ cfiBy = None
        /\ pc'[t] = "parse" /\ cfiBy' = IF cfi THEN None ELSE t
        /\ \A u \in Threads : u # t => pc'[u] = pc[u]
    BY <1>2, <1>1 DEF LockCfi, elfVars, lockVars, gotVars, taskVars, local, Goto, Types
  <1>5. /\ \A u \in Threads : u # t => task[u] # k
        /\ \A u \in Threads : task[u] \in Tasks \cup {None}
    BY <1>2, <1>1, NoneType DEF BusyInv, Types, BusyThread
  <1>6. StepOf(t, k)
    BY <1>2, <1>4, <1>5 DEF StepOf
  <1>7. Types'
    BY <1>2, <1>1 DEF Types, Slots, LockCfi, elfVars, lockVars, gotVars, taskVars, local, Goto, Where, Reading, Locked, Statuses
  <1>8. ReadInv'
    <2>1. ReadThread(t)'
      BY <1>1, <1>3, <1>4 DEF ReadThread, ReadInv, Parsed, AllFields, Reading, Parsing, Locked
    <2>2. ASSUME NEW u \in Threads, u # t PROVE ReadThread(u)'
      <3>1. ReadThread(u)
        BY <1>1 DEF ReadInv
      <3>2. cfiBy' # u /\ cfiBy # u
        BY <1>4, <2>2, NoneType
      <3>3. QED
        BY <1>1, <1>4, <2>2, <3>1, <3>2 DEF ReadThread, Parsed, AllFields, ReadInv, Reading, Parsing
    <2>3. QED
      BY <1>1, <1>4, <2>1, <2>2, NoneType DEF ReadInv, Parsed, AllFields
  <1>9. BusyInv'
    <2>1. BusyThread(t)'
      BY <1>2, <1>1, <1>3, <1>4, NoneType DEF BusyThread, Types, Locked, OnSlot, Reading
    <2>2. \A u \in Threads : u # t => (hookBy' = u <=> hookBy = u)
      BY <1>1, <1>3, <1>4, NoneType DEF BusyThread, Locked
    <2>3. QED
      BY <1>1, <1>6, <2>1, <2>2, BusyStep
  <1>10. PageInv'
    BY <1>1, <1>4, <1>6, PageStep
  <1>11. ChainInv'
    BY <1>1, <1>4, <1>5, <1>6, ChainStep DEF BusyInv, BusyThread
  <1>12. EnabledInv'
    <2>1. ASSUME NEW s \in Slots, ~manual, k \notin Callee, k \in enabled'[s]
          PROVE  EnabledTask(k, s)'
      <3>1. EnabledTask(k, s)
        BY <1>1, <1>4, <2>1 DEF EnabledInv
      <3>2. QED
        BY <1>2, <1>3, <1>4, <1>5, <2>1, <3>1 DEF EnabledTask, Ahead, BusyThread, Reading, Locked, OnSlot
    <2>2. QED
      BY <1>1, <1>4, <1>6, <2>1, EnabledStep
  <1>13. OkInv'
    <2>1. ASSUME k \notin Callee PROVE OkTask(k)'
      <3>1. OkTask(k)
        BY <1>1, <2>1 DEF OkInv
      <3>2. QED
        BY <1>2, <1>3, <1>4, <3>1 DEF OkTask, BusyThread
    <2>2. ASSUME ~manual, task'[t] = k, k \notin Callee PROVE OkThread(t)'
      BY <1>2, <1>1, <1>3, <1>4, <2>2 DEF OkThread, OkInv, Unhooking, Locked, OnSlot, BusyThread
    <2>3. QED
      BY <1>1, <1>4, <1>5, <1>6, <2>1, <2>2, OkStep, WantedSlots DEF BusyInv, BusyThread
  <1>14. ToldInv'
    <2>1. \A j \in Tasks : told'[j] = {} /\ NoProxyOf(j) => NoProxyOf(j)'
      BY <1>4, <1>6 DEF NoProxyOf, StepOf, Slots, Proxy
    <2>2. ToldTask(k)'
      BY <1>2, <1>3, <1>4, <2>1 DEF ToldTask, Proxy
    <2>3. task'[t] = k => ToldThread(t)'
      BY <1>2, <1>1, <1>3, <1>4 DEF ToldThread, ToldTask, ToldInv, BusyThread, Reading, Locked
    <2>4. QED
      BY <1>1, <1>6, <2>1, <2>2, <2>3, ToldStep
  <1>15. QED
    BY <1>7, <1>8, <1>9, <1>10, <1>11, <1>12, <1>13, <1>14 DEF GotInv

\* The tables are empty when the first thread starts to parse.
LEMMA LockParseKeeps ==
    ASSUME CfiLock, TablesRight, GotInv, NEW t \in Threads, LockParse(t)
    PROVE  GotInv'
  <1>1. /\ Types /\ ReadInv /\ BusyInv /\ PageInv
        /\ ChainInv /\ EnabledInv /\ OkInv /\ ToldInv
    BY DEF GotInv
  <1>2. PICK k \in Tasks : k = task[t]
    BY <1>1 DEF LockParse, Types, BusyInv, BusyThread
  <1>3. ReadThread(t) /\ BusyThread(t) /\ ToldTask(k)
    BY <1>1 DEF ReadInv, BusyInv, ToldInv
  <1>4. /\ image' = image /\ manual' = manual /\ tab' = tab
        /\ entry' = entry /\ error' = error /\ cfi' = cfi
        /\ cfiBy' = cfiBy /\ hookBy' = hookBy /\ got' = got
        /\ prot' = prot /\ chained' = chained /\ enabled' = enabled
        /\ origFunc' = origFunc /\ stuck' = stuck /\ manualOrig' = manualOrig /\ codes' = codes
        /\ told' = told /\ slots' = slots /\ ok' = ok
        /\ task' = task /\ status' = status
        /\ pc[t] = "lock" /\ parser = None
        /\ pc'[t] = IF dynParsed THEN "find" ELSE "entry"
        /\ parser' = IF dynParsed THEN None ELSE t
        /\ dynParsed'
        /\ \A u \in Threads : u # t => pc'[u] = pc[u]
    BY <1>2, <1>1 DEF LockParse, elfVars, lockVars, gotVars, taskVars, local, Goto, Types
  <1>5. /\ \A u \in Threads : u # t => task[u] # k
        /\ \A u \in Threads : task[u] \in Tasks \cup {None}
    BY <1>2, <1>1, NoneType DEF BusyInv, Types, BusyThread
  <1>6. StepOf(t, k)
    BY <1>2, <1>4, <1>5 DEF StepOf
  <1>7. Types'
    BY <1>2, <1>1 DEF Types, Slots, LockParse, elfVars, lockVars, gotVars, taskVars, local, Goto, Where, Reading, Locked, Statuses
  <1>8. ReadInv'
    <2>1. cfiBy = t /\ ~cfi /\ ~dynParsed /\ entry = 0 /\ tab = {}
      BY <1>1, <1>3, <1>4 DEF ReadThread, ReadInv, Parsing
    <2>2. ReadThread(t)'
      BY <1>1, <1>3, <1>4, <2>1 DEF ReadThread, Reading, Parsing, Locked
    <2>3. ASSUME NEW u \in Threads, u # t PROVE ReadThread(u)'
      <3>1. ReadThread(u)
        BY <1>1 DEF ReadInv
      <3>2. QED
        BY <1>4, <2>1, <2>3, <3>1 DEF ReadThread, Parsing
    <2>4. QED
      BY <1>1, <1>4, <2>1, <2>2, <2>3, NoneType DEF ReadInv
  <1>9. BusyInv'
    <2>1. BusyThread(t)'
      BY <1>2, <1>1, <1>3, <1>4, NoneType DEF BusyThread, Types, Locked, OnSlot, Reading
    <2>2. \A u \in Threads : u # t => (hookBy' = u <=> hookBy = u)
      BY <1>1, <1>3, <1>4, NoneType DEF BusyThread, Locked
    <2>3. QED
      BY <1>1, <1>6, <2>1, <2>2, BusyStep
  <1>10. PageInv'
    BY <1>1, <1>4, <1>6, PageStep
  <1>11. ChainInv'
    BY <1>1, <1>4, <1>5, <1>6, ChainStep DEF BusyInv, BusyThread
  <1>12. EnabledInv'
    <2>1. ASSUME NEW s \in Slots, ~manual, k \notin Callee, k \in enabled'[s]
          PROVE  EnabledTask(k, s)'
      <3>1. EnabledTask(k, s)
        BY <1>1, <1>4, <2>1 DEF EnabledInv
      <3>2. QED
        BY <1>2, <1>3, <1>4, <1>5, <2>1, <3>1 DEF EnabledTask, Ahead, BusyThread, Reading, Locked, OnSlot
    <2>2. QED
      BY <1>1, <1>4, <1>6, <2>1, EnabledStep
  <1>13. OkInv'
    <2>1. ASSUME k \notin Callee PROVE OkTask(k)'
      <3>1. OkTask(k)
        BY <1>1, <2>1 DEF OkInv
      <3>2. QED
        BY <1>2, <1>3, <1>4, <3>1 DEF OkTask, BusyThread
    <2>2. ASSUME ~manual, task'[t] = k, k \notin Callee PROVE OkThread(t)'
      BY <1>2, <1>1, <1>3, <1>4, <2>2 DEF OkThread, OkInv, Unhooking, Locked, OnSlot, BusyThread
    <2>3. QED
      BY <1>1, <1>4, <1>5, <1>6, <2>1, <2>2, OkStep, WantedSlots DEF BusyInv, BusyThread
  <1>14. ToldInv'
    <2>1. \A j \in Tasks : told'[j] = {} /\ NoProxyOf(j) => NoProxyOf(j)'
      BY <1>4, <1>6 DEF NoProxyOf, StepOf, Slots, Proxy
    <2>2. ToldTask(k)'
      BY <1>2, <1>3, <1>4, <2>1 DEF ToldTask, Proxy
    <2>3. task'[t] = k => ToldThread(t)'
      BY <1>2, <1>1, <1>3, <1>4 DEF ToldThread, ToldTask, ToldInv, BusyThread, Reading, Locked
    <2>4. QED
      BY <1>1, <1>6, <2>1, <2>2, <2>3, ToldStep
  <1>15. QED
    BY <1>7, <1>8, <1>9, <1>10, <1>11, <1>12, <1>13, <1>14 DEF GotInv

\* The fields are set one by one; after the last entry the tables are whole.
LEMMA EntryKeeps ==
    ASSUME CfiLock, TablesRight, GotInv, NEW t \in Threads, Entry(t)
    PROVE  GotInv'
  <1>1. /\ Types /\ ReadInv /\ BusyInv /\ PageInv
        /\ ChainInv /\ EnabledInv /\ OkInv /\ ToldInv
    BY DEF GotInv
  <1>2. PICK k \in Tasks : k = task[t]
    BY <1>1 DEF Entry, Types, BusyInv, BusyThread
  <1>3. ReadThread(t) /\ BusyThread(t) /\ ToldTask(k)
    BY <1>1 DEF ReadInv, BusyInv, ToldInv
  <1>4. /\ image' = image /\ manual' = manual /\ dynParsed' = dynParsed
        /\ error' = error /\ cfi' = cfi /\ cfiBy' = cfiBy
        /\ hookBy' = hookBy /\ got' = got /\ prot' = prot
        /\ chained' = chained /\ enabled' = enabled /\ origFunc' = origFunc /\ stuck' = stuck
        /\ manualOrig' = manualOrig /\ codes' = codes /\ told' = told
        /\ slots' = slots /\ ok' = ok /\ task' = task
        /\ status' = status
        /\ pc[t] = "entry"
        /\ \/ /\ entry < Len(image.dynamic) /\ entry' = entry + 1
              /\ tab' = tab \cup {image.dynamic[entry + 1]}
              /\ parser' = parser /\ pc'[t] = "entry"
           \/ /\ entry' = entry /\ ~(entry < Len(image.dynamic))
              /\ tab' = tab \cup {"aps2_fixed"}
              /\ parser' = None /\ pc'[t] = "find"
        /\ \A u \in Threads : u # t => pc'[u] = pc[u]
    BY <1>2, <1>1 DEF Entry, elfVars, lockVars, gotVars, taskVars, local, Goto, Types
  <1>5. /\ \A u \in Threads : u # t => task[u] # k
        /\ \A u \in Threads : task[u] \in Tasks \cup {None}
    BY <1>2, <1>1, NoneType DEF BusyInv, Types, BusyThread
  <1>6. StepOf(t, k)
    BY <1>2, <1>4, <1>5 DEF StepOf
  <1>7. Types'
    <2>1. Len(image.dynamic) \in Nat
      BY <1>1, DynamicType DEF Types
    <2>2. entry' \in 0..Len(image.dynamic)
      BY <1>1, <1>4, <2>1 DEF Types
    <2>3. QED
      BY ZenonT(60), <1>2, <1>1, <2>2, <1>4 DEF Types, Slots, Entry, gotVars, taskVars, Goto, Where, Reading, Locked, Statuses
  <1>8. ReadInv'
    <2>1. cfiBy = t /\ ~cfi /\ dynParsed /\ parser = t /\ t # None
      BY <1>1, <1>3, <1>4, NoneType DEF ReadThread, Parsing
    <2>2. Len(image.dynamic) \in Nat /\ DOMAIN image.dynamic = 1..Len(image.dynamic)
      BY <1>1, DynamicType, LenProperties DEF Types
    <2>3. entry \in 0..Len(image.dynamic)
      BY <1>1 DEF Types
    <2>4. tab = {image.dynamic[i] : i \in 1..entry}
      BY <1>3, <1>4 DEF ReadThread
    <2>5. CASE pc'[t] = "entry"
      <3>1. 1..(entry + 1) = 1..entry \cup {entry + 1}
        BY <2>2, <2>3
      <3>2. tab' = {image.dynamic[i] : i \in 1..(entry + 1)}
        BY <1>4, <2>4, <2>5, <3>1
      <3>3. ReadThread(t)'
        BY <1>3, <1>4, <2>1, <2>5, <3>2 DEF ReadThread, Reading, Parsing, Locked
      <3>4. ASSUME NEW u \in Threads, u # t PROVE ReadThread(u)'
        BY <1>1, <1>4, <2>1, <2>5, <3>4 DEF ReadThread, ReadInv, Parsing
      <3>5. QED
        BY <1>1, <1>4, <2>1, <2>5, <3>3, <3>4 DEF ReadInv
    <2>6. CASE pc'[t] = "find"
      <3>1. entry = Len(image.dynamic)
        BY <1>4, <2>2, <2>3, <2>6
      <3>2. tab = Range(image.dynamic)
        BY <2>2, <2>4, <3>1 DEF Range
      <3>3. Parsed'
        BY <1>4, <2>1, <2>6, <3>2 DEF Parsed, AllFields, FieldsOf
      <3>4. ReadThread(t)'
        BY <1>3, <1>4, <2>1, <2>6, <3>3, NoneType DEF ReadThread, Reading, Parsing, Locked
      <3>5. ASSUME NEW u \in Threads, u # t PROVE ReadThread(u)'
        BY <1>1, <1>4, <2>1, <2>6, <3>5, NoneType DEF ReadThread, ReadInv, Parsing
      <3>6. QED
        BY <1>1, <1>4, <2>1, <2>6, <3>4, <3>5 DEF ReadInv
    <2>7. QED
      BY <1>4, <2>5, <2>6
  <1>9. BusyInv'
    <2>1. BusyThread(t)'
      BY <1>2, <1>1, <1>3, <1>4, NoneType DEF BusyThread, Types, Locked, OnSlot, Reading
    <2>2. \A u \in Threads : u # t => (hookBy' = u <=> hookBy = u)
      BY <1>1, <1>3, <1>4, NoneType DEF BusyThread, Locked
    <2>3. QED
      BY <1>1, <1>6, <2>1, <2>2, BusyStep
  <1>10. PageInv'
    BY <1>1, <1>4, <1>6, PageStep
  <1>11. ChainInv'
    BY <1>1, <1>4, <1>5, <1>6, ChainStep DEF BusyInv, BusyThread
  <1>12. EnabledInv'
    <2>1. ASSUME NEW s \in Slots, ~manual, k \notin Callee, k \in enabled'[s]
          PROVE  EnabledTask(k, s)'
      <3>1. EnabledTask(k, s)
        BY <1>1, <1>4, <2>1 DEF EnabledInv
      <3>2. QED
        BY <1>2, <1>3, <1>4, <1>5, <2>1, <3>1 DEF EnabledTask, Ahead, BusyThread, Reading, Locked, OnSlot
    <2>2. QED
      BY <1>1, <1>4, <1>6, <2>1, EnabledStep
  <1>13. OkInv'
    <2>1. ASSUME k \notin Callee PROVE OkTask(k)'
      <3>1. OkTask(k)
        BY <1>1, <2>1 DEF OkInv
      <3>2. QED
        BY <1>2, <1>3, <1>4, <3>1 DEF OkTask, BusyThread
    <2>2. ASSUME ~manual, task'[t] = k, k \notin Callee PROVE OkThread(t)'
      BY <1>2, <1>1, <1>3, <1>4, <2>2 DEF OkThread, OkInv, Unhooking, Locked, OnSlot, BusyThread
    <2>3. QED
      BY <1>1, <1>4, <1>5, <1>6, <2>1, <2>2, OkStep, WantedSlots DEF BusyInv, BusyThread
  <1>14. ToldInv'
    <2>1. \A j \in Tasks : told'[j] = {} /\ NoProxyOf(j) => NoProxyOf(j)'
      BY <1>4, <1>6 DEF NoProxyOf, StepOf, Slots, Proxy
    <2>2. ToldTask(k)'
      BY <1>2, <1>3, <1>4, <2>1 DEF ToldTask, Proxy
    <2>3. task'[t] = k => ToldThread(t)'
      BY <1>2, <1>1, <1>3, <1>4 DEF ToldThread, ToldTask, ToldInv, BusyThread, Reading, Locked
    <2>4. QED
      BY <1>1, <1>6, <2>1, <2>2, <2>3, ToldStep
  <1>15. QED
    BY <1>7, <1>8, <1>9, <1>10, <1>11, <1>12, <1>13, <1>14 DEF GotInv

\* The first slot does not hold the proxy of the task that is told.
LEMMA TellKeeps ==
    ASSUME CfiLock, TablesRight, GotInv, NEW t \in Threads, Tell(t)
    PROVE  GotInv'
  <1>1. /\ Types /\ ReadInv /\ BusyInv /\ PageInv
        /\ ChainInv /\ EnabledInv /\ OkInv /\ ToldInv
    BY DEF GotInv
  <1>2. PICK k \in Tasks : k = task[t]
    BY <1>1 DEF Tell, Types, BusyInv, BusyThread
  <1>3. ReadThread(t) /\ BusyThread(t) /\ ToldTask(k)
    BY <1>1 DEF ReadInv, BusyInv, ToldInv
  <1>4. /\ image' = image /\ manual' = manual /\ tab' = tab
        /\ entry' = entry /\ dynParsed' = dynParsed /\ error' = error
        /\ cfi' = cfi /\ parser' = parser /\ cfiBy' = cfiBy
        /\ hookBy' = hookBy /\ got' = got /\ prot' = prot
        /\ chained' = chained /\ enabled' = enabled /\ origFunc' = origFunc /\ stuck' = stuck
        /\ manualOrig' = manualOrig /\ slots' = slots /\ ok' = ok
        /\ task' = task /\ status' = status
        /\ pc[t] = "told"
        /\ pc'[t] = "hooklock"
        /\ told'[k] = told[k] \cup {got[slots[t][1]]}
        /\ codes'[k] = codes[k] \cup {"ORIG_ADDR"}
        /\ \A u \in Threads : u # t => pc'[u] = pc[u]
        /\ \A j \in Tasks : j # k => told'[j] = told[j] /\ codes'[j] = codes[j]
    BY <1>2, <1>1, <1>3 DEF Tell, elfVars, lockVars, gotVars, Goto, Hooked, Unhooking, Types, BusyThread
  <1>5. /\ \A u \in Threads : u # t => task[u] # k
        /\ \A u \in Threads : task[u] \in Tasks \cup {None}
    BY <1>2, <1>1, NoneType DEF BusyInv, Types, BusyThread
  <1>6. StepOf(t, k)
    BY <1>2, <1>4, <1>5 DEF StepOf
  <1>7. Types'
    BY <1>2, <1>1 DEF Types, Slots, Tell, elfVars, lockVars, gotVars, taskVars, local, Goto, Hooked, Unhooking, Where, Reading, Locked, Statuses
  <1>8. ReadInv'
    <2>1. ReadThread(t)'
      BY <1>2, <1>1, <1>3, <1>4 DEF ReadThread, ReadInv, Parsed, AllFields, Reading, Parsing, Locked
    <2>2. status'[k] \in {"hooked", "unhooking"} => cfi
      BY <1>2, <1>1, <1>3, <1>4 DEF ReadThread, ReadInv, Reading, Parsing, Locked
    <2>3. QED
      BY <1>1, <1>4, <1>6, <2>1, <2>2, ReadStep DEF ReadSame
  <1>9. BusyInv'
    <2>1. BusyThread(t)'
      BY <1>2, <1>1, <1>3, <1>4, NoneType DEF BusyThread, Types, Locked, OnSlot, Reading
    <2>2. \A u \in Threads : u # t => (hookBy' = u <=> hookBy = u)
      BY <1>1, <1>3, <1>4, NoneType DEF BusyThread, Locked
    <2>3. QED
      BY <1>1, <1>6, <2>1, <2>2, BusyStep
  <1>10. PageInv'
    BY <1>1, <1>4, <1>6, PageStep
  <1>11. ChainInv'
    BY <1>1, <1>4, <1>5, <1>6, ChainStep DEF BusyInv, BusyThread
  <1>12. EnabledInv'
    <2>1. ASSUME NEW s \in Slots, ~manual, k \notin Callee, k \in enabled'[s]
          PROVE  EnabledTask(k, s)'
      <3>1. EnabledTask(k, s)
        BY <1>1, <1>4, <2>1 DEF EnabledInv
      <3>2. QED
        BY <1>2, <1>3, <1>4, <1>5, <2>1, <3>1 DEF EnabledTask, Ahead, BusyThread, Reading, Locked, OnSlot
    <2>2. QED
      BY <1>1, <1>4, <1>6, <2>1, EnabledStep
  <1>13. OkInv'
    <2>1. ASSUME k \notin Callee PROVE OkTask(k)'
      <3>1. OkTask(k)
        BY <1>1, <2>1 DEF OkInv
      <3>2. QED
        BY <1>2, <1>3, <1>4, <3>1 DEF OkTask, BusyThread
    <2>2. ASSUME ~manual, task'[t] = k, k \notin Callee PROVE OkThread(t)'
      BY <1>2, <1>1, <1>3, <1>4, <2>2 DEF OkThread, OkInv, Unhooking, Locked, OnSlot, BusyThread
    <2>3. QED
      BY <1>1, <1>4, <1>5, <1>6, <2>1, <2>2, OkStep, WantedSlots DEF BusyInv, BusyThread
  <1>14. ToldInv'
    <2>1. ASSUME NEW j \in Tasks, NoProxyOf(j) PROVE NoProxyOf(j)'
      BY <1>4, <2>1 DEF NoProxyOf, Slots, Proxy
    <2>2. told[k] = {} /\ status[k] = "hooking"
      BY <1>2, <1>1, <1>3, <1>4 DEF BusyThread, ToldInv, ToldThread
    <2>3. slots[t][1] \in Slots
      BY <1>1, <1>3, <1>4, HeadTail DEF BusyThread, Types
    <2>4. got[slots[t][1]] # Proxy(k)
      BY <1>3, <2>2, <2>3 DEF ToldTask, NoProxyOf
    <2>5. ToldTask(k)'
      BY <1>3, <1>4, <2>2, <2>4 DEF ToldTask, Proxy
    <2>6. ToldThread(t)'
      BY <1>2, <1>4 DEF ToldThread, Reading
    <2>7. QED
      BY <1>1, <1>6, <2>1, <2>5, <2>6, ToldStep
  <1>15. QED
    BY <1>7, <1>8, <1>9, <1>10, <1>11, <1>12, <1>13, <1>14 DEF GotInv

\* One thread at a time goes through the slots.
LEMMA LockElfKeeps ==
    ASSUME CfiLock, TablesRight, GotInv, NEW t \in Threads, LockElf(t)
    PROVE  GotInv'
  <1>1. /\ Types /\ ReadInv /\ BusyInv /\ PageInv
        /\ ChainInv /\ EnabledInv /\ OkInv /\ ToldInv
    BY DEF GotInv
  <1>2. PICK k \in Tasks : k = task[t]
    BY <1>1 DEF LockElf, Types, BusyInv, BusyThread
  <1>3. ReadThread(t) /\ BusyThread(t) /\ ToldTask(k)
    BY <1>1 DEF ReadInv, BusyInv, ToldInv
  <1>4. /\ image' = image /\ manual' = manual /\ tab' = tab
        /\ entry' = entry /\ dynParsed' = dynParsed /\ error' = error
        /\ cfi' = cfi /\ parser' = parser /\ cfiBy' = cfiBy
        /\ got' = got /\ prot' = prot /\ chained' = chained
        /\ enabled' = enabled /\ origFunc' = origFunc /\ stuck' = stuck /\ manualOrig' = manualOrig
        /\ codes' = codes /\ told' = told /\ slots' = slots
        /\ ok' = ok /\ task' = task /\ status' = status
        /\ pc[t] = "hooklock" /\ hookBy = None
        /\ pc'[t] = "slot" /\ hookBy' = t
        /\ \A u \in Threads : u # t => pc'[u] = pc[u]
    BY <1>2, <1>1 DEF LockElf, elfVars, lockVars, gotVars, taskVars, local, Goto, Types
  <1>5. /\ \A u \in Threads : u # t => task[u] # k
        /\ \A u \in Threads : task[u] \in Tasks \cup {None}
    BY <1>2, <1>1, NoneType DEF BusyInv, Types, BusyThread
  <1>6. StepOf(t, k)
    BY <1>2, <1>4, <1>5 DEF StepOf
  <1>7. Types'
    BY <1>2, <1>1 DEF Types, Slots, LockElf, elfVars, lockVars, gotVars, taskVars, local, Goto, Where, Reading, Locked, Statuses
  <1>8. ReadInv'
    <2>1. ReadThread(t)'
      BY <1>2, <1>1, <1>3, <1>4 DEF ReadThread, ReadInv, Parsed, AllFields, Reading, Parsing, Locked
    <2>2. status'[k] \in {"hooked", "unhooking"} => cfi
      BY <1>2, <1>1, <1>3, <1>4 DEF ReadThread, ReadInv, Reading, Parsing, Locked
    <2>3. QED
      BY <1>1, <1>4, <1>6, <2>1, <2>2, ReadStep DEF ReadSame
  <1>9. BusyInv'
    <2>0. k \notin Callee => Range(FoundByName(image, k)) = TrueSlots(image, SymName[k])
      BY <1>1, FoundRange DEF Types
    <2>1. BusyThread(t)'
      BY <1>2, <1>1, <1>3, <1>4, <2>0, NoneType DEF BusyThread, Types, Locked, OnSlot
    <2>2. \A u \in Threads : u # t => (hookBy' = u <=> hookBy = u)
      BY <1>1, <1>3, <1>4, NoneType DEF BusyThread, Locked
    <2>3. QED
      BY <1>1, <1>6, <2>1, <2>2, BusyStep
  <1>10. PageInv'
    BY <1>1, <1>4, <1>6, PageStep
  <1>11. ChainInv'
    BY <1>1, <1>4, <1>5, <1>6, ChainStep DEF BusyInv, BusyThread
  <1>12. EnabledInv'
    <2>1. ASSUME NEW s \in Slots, ~manual, k \notin Callee, k \in enabled'[s]
          PROVE  EnabledTask(k, s)'
      <3>1. EnabledTask(k, s)
        BY <1>1, <1>4, <2>1 DEF EnabledInv
      <3>2. QED
        BY <1>2, <1>3, <1>4, <1>5, <2>1, <3>1 DEF EnabledTask, Ahead, BusyThread, Reading, Locked, OnSlot
    <2>2. QED
      BY <1>1, <1>4, <1>6, <2>1, EnabledStep
  <1>13. OkInv'
    <2>1. ASSUME k \notin Callee PROVE OkTask(k)'
      <3>1. OkTask(k)
        BY <1>1, <2>1 DEF OkInv
      <3>2. QED
        BY <1>2, <1>3, <1>4, <3>1 DEF OkTask, BusyThread
    <2>2. ASSUME ~manual, task'[t] = k, k \notin Callee PROVE OkThread(t)'
      <3>1. slots[t] = FoundByName(image, k)
        BY <1>2, <1>3, <1>4, <2>2 DEF BusyThread
      <3>2. Range(slots[t]) = TrueSlots(image, SymName[k])
        BY <1>1, <2>2, <3>1, FoundRange DEF Types
      <3>3. QED
        BY <1>2, <1>4, <3>2 DEF OkThread, OnSlot
    <2>3. QED
      BY <1>1, <1>4, <1>5, <1>6, <2>1, <2>2, OkStep, WantedSlots DEF BusyInv, BusyThread
  <1>14. ToldInv'
    <2>1. \A j \in Tasks : told'[j] = {} /\ NoProxyOf(j) => NoProxyOf(j)'
      BY <1>4, <1>6 DEF NoProxyOf, StepOf, Slots, Proxy
    <2>2. ToldTask(k)'
      BY <1>2, <1>3, <1>4, <2>1 DEF ToldTask, Proxy
    <2>3. task'[t] = k => ToldThread(t)'
      BY <1>2, <1>1, <1>3, <1>4 DEF ToldThread, ToldTask, ToldInv, BusyThread, Reading, Locked
    <2>4. QED
      BY <1>1, <1>6, <2>1, <2>2, <2>3, ToldStep
  <1>15. QED
    BY <1>7, <1>8, <1>9, <1>10, <1>11, <1>12, <1>13, <1>14 DEF GotInv

\* The pages get their protection back, whoever else has slots there.
LEMMA SealKeeps ==
    ASSUME CfiLock, TablesRight, GotInv, NEW t \in Threads, Seal(t)
    PROVE  GotInv'
  <1>1. /\ Types /\ ReadInv /\ BusyInv /\ PageInv
        /\ ChainInv /\ EnabledInv /\ OkInv /\ ToldInv
    BY DEF GotInv
  <1>2. PICK k \in Tasks : k = task[t]
    BY <1>1 DEF Seal, Types, BusyInv, BusyThread
  <1>3. ReadThread(t) /\ BusyThread(t) /\ ToldTask(k)
    BY <1>1 DEF ReadInv, BusyInv, ToldInv
  <1>0. /\ slots[t] # <<>> /\ slots[t] \in Seq(Slots)
        /\ Head(slots[t]) \in Slots /\ Tail(slots[t]) \in Seq(Slots)
        /\ \A x : x \in Range(slots[t]) <=> x = Head(slots[t]) \/ x \in Range(Tail(slots[t]))
    <2>1. slots[t] # <<>> /\ slots[t] \in Seq(Slots)
      BY <1>1, <1>3 DEF Seal, BusyThread, Types, OnSlot
    <2>2. QED
      BY <2>1, HeadTail
  <1>4. /\ image' = image /\ manual' = manual /\ tab' = tab
        /\ entry' = entry /\ dynParsed' = dynParsed /\ error' = error
        /\ cfi' = cfi /\ parser' = parser /\ cfiBy' = cfiBy
        /\ hookBy' = hookBy /\ got' = got /\ chained' = chained
        /\ enabled' = enabled /\ origFunc' = origFunc /\ stuck' = stuck /\ manualOrig' = manualOrig
        /\ codes' = codes /\ told' = told /\ ok' = ok
        /\ task' = task /\ status' = status
        /\ pc[t] = "seal"
        /\ pc'[t] = "slot" /\ slots'[t] = Tail(slots[t])
        /\ \A u \in Threads : u # t => pc'[u] = pc[u] /\ slots'[u] = slots[u]
        /\ \A x \in Slots : prot'[x] = IF image.page[x] = image.page[Head(slots[t])]
                                           /\ "w" \notin Protect(image, Head(slots[t]))
                                        THEN Protect(image, Head(slots[t])) ELSE prot[x]
    BY <1>2, <1>1 DEF Seal, elfVars, lockVars, gotVars, taskVars, local, Goto, NextSlot, Types
  <1>5. /\ \A u \in Threads : u # t => task[u] # k
        /\ \A u \in Threads : task[u] \in Tasks \cup {None}
    BY <1>2, <1>1, NoneType DEF BusyInv, Types, BusyThread
  <1>6. StepOf(t, k)
    BY <1>2, <1>4, <1>5 DEF StepOf
  <1>7. Types'
    <2>1. pc' \in [Threads -> Where] /\ slots' \in [Threads -> Seq(Slots)]
      BY <1>1, <1>0 DEF Types, Seal, NextSlot, Goto, Where, Locked
    <2>2. DOMAIN prot' = Slots
      BY <1>1 DEF Seal
    <2>3. QED
      BY <1>1, <1>4, <2>1, <2>2 DEF Types, Slots
  <1>8. ReadInv'
    <2>1. ReadThread(t)'
      BY <1>2, <1>1, <1>3, <1>4 DEF ReadThread, ReadInv, Parsed, AllFields, Reading, Parsing, Locked
    <2>2. status'[k] \in {"hooked", "unhooking"} => cfi
      BY <1>2, <1>1, <1>3, <1>4 DEF ReadThread, ReadInv, Reading, Parsing, Locked
    <2>3. QED
      BY <1>1, <1>4, <1>6, <2>1, <2>2, ReadStep DEF ReadSame
  <1>9. BusyInv'
    <2>1. BusyThread(t)'
      BY <1>2, <1>0, <1>3, <1>4, NoneType DEF BusyThread, Locked, OnSlot
    <2>2. \A u \in Threads : u # t => (hookBy' = u <=> hookBy = u)
      BY <1>1, <1>3, <1>4, NoneType DEF BusyThread, Locked
    <2>3. QED
      BY <1>1, <1>6, <2>1, <2>2, BusyStep
  <1>10. PageInv'
    <2>1. Slots' = Slots /\ image' = image
      BY <1>4 DEF Slots
    <2>2. ASSUME NEW s \in Slots
          PROVE  prot'[s] = IF Opened(s)' THEN Protect(image, s) \cup {"w"} ELSE Protect(image, s)
      <3>1. \A u \in Threads : u # t => pc[u] \notin {"store", "seal"}
        BY <1>1, <1>3, <1>4 DEF BusyInv, BusyThread, Locked
      <3>2. ~Opened(s)'
        BY <1>4, <3>1 DEF Opened
      <3>3. Opened(s) <=> image.page[s] = image.page[Head(slots[t])]
        BY <1>4, <3>1 DEF Opened
      <3>4. image.page[s] = image.page[Head(slots[t])] => Protect(image, s) = Protect(image, Head(slots[t]))
        BY <1>0, <1>1, PagesType DEF Types, Slots
      <3>5. prot[s] = IF Opened(s) THEN Protect(image, s) \cup {"w"} ELSE Protect(image, s)
        BY <1>1 DEF PageInv
      <3>6. prot'[s] = IF image.page[s] = image.page[Head(slots[t])] /\ "w" \notin Protect(image, Head(slots[t]))
                       THEN Protect(image, Head(slots[t])) ELSE prot[s]
        BY <1>4
      <3>7. QED
        BY <3>2, <3>3, <3>4, <3>5, <3>6
    <2>3. QED
      BY <2>1, <2>2 DEF PageInv
  <1>11. ChainInv'
    BY <1>1, <1>4, <1>5, <1>6, ChainStep DEF BusyInv, BusyThread
  <1>12. EnabledInv'
    <2>1. ASSUME NEW s \in Slots, ~manual, k \notin Callee, k \in enabled'[s]
          PROVE  EnabledTask(k, s)'
      <3>1. EnabledTask(k, s)
        BY <1>1, <1>4, <2>1 DEF EnabledInv
      <3>2. QED
        BY <1>2, <1>3, <1>4, <1>5, <2>1, <3>1 DEF EnabledTask, Ahead, BusyThread, Reading, Locked, OnSlot
    <2>2. QED
      BY <1>1, <1>4, <1>6, <2>1, EnabledStep
  <1>13. OkInv'
    <2>1. ASSUME k \notin Callee PROVE OkTask(k)'
      <3>1. OkTask(k)
        BY <1>1, <2>1 DEF OkInv
      <3>2. QED
        BY <1>2, <1>3, <1>4, <3>1 DEF OkTask, BusyThread
    <2>2. ASSUME ~manual, task'[t] = k, k \notin Callee PROVE OkThread(t)'
      <3>1. OkThread(t)
        BY <1>1, <1>2, <2>2 DEF OkInv
      <3>2. QED
        BY <1>0, <1>2, <1>4, <3>1 DEF OkThread, Unhooking, Locked, OnSlot
    <2>3. QED
      BY <1>1, <1>4, <1>5, <1>6, <2>1, <2>2, OkStep, WantedSlots DEF BusyInv, BusyThread
  <1>14. ToldInv'
    <2>1. \A j \in Tasks : told'[j] = {} /\ NoProxyOf(j) => NoProxyOf(j)'
      BY <1>4, <1>6 DEF NoProxyOf, StepOf, Slots, Proxy
    <2>2. ToldTask(k)'
      BY <1>2, <1>3, <1>4, <2>1 DEF ToldTask, Proxy
    <2>3. task'[t] = k => ToldThread(t)'
      BY <1>2, <1>1, <1>3, <1>4 DEF ToldThread, ToldTask, ToldInv, BusyThread, Reading, Locked
    <2>4. QED
      BY <1>1, <1>6, <2>1, <2>2, <2>3, ToldStep
  <1>15. QED
    BY <1>7, <1>8, <1>9, <1>10, <1>11, <1>12, <1>13, <1>14 DEF GotInv

\* A task that went through all slots is in all chains, or in none.
LEMMA FinishKeeps ==
    ASSUME CfiLock, TablesRight, GotInv, NEW t \in Threads, Finish(t)
    PROVE  GotInv'
  <1>1. /\ Types /\ ReadInv /\ BusyInv /\ PageInv
        /\ ChainInv /\ EnabledInv /\ OkInv /\ ToldInv
    BY DEF GotInv
  <1>2. PICK k \in Tasks : k = task[t]
    BY <1>1 DEF Finish, Types, BusyInv, BusyThread
  <1>3. ReadThread(t) /\ BusyThread(t) /\ ToldTask(k)
    BY <1>1 DEF ReadInv, BusyInv, ToldInv
  <1>4. /\ image' = image /\ manual' = manual /\ tab' = tab
        /\ entry' = entry /\ dynParsed' = dynParsed /\ error' = error
        /\ cfi' = cfi /\ parser' = parser /\ cfiBy' = cfiBy
        /\ got' = got /\ prot' = prot /\ chained' = chained
        /\ enabled' = enabled /\ origFunc' = origFunc /\ stuck' = stuck /\ manualOrig' = manualOrig
        /\ told' = told /\ slots' = slots /\ ok' = ok
        /\ pc[t] = "slot" /\ slots[t] = <<>>
        /\ pc'[t] = "idle" /\ task'[t] = None /\ hookBy' = None
        /\ status'[k] = IF status[k] = "unhooking" THEN "gone" ELSE "hooked"
        /\ codes'[k] = IF ok[t] /\ status[k] # "unhooking" THEN codes[k] \cup {"OK"} ELSE codes[k]
        /\ \A u \in Threads : u # t => pc'[u] = pc[u] /\ task'[u] = task[u]
        /\ \A j \in Tasks : j # k => status'[j] = status[j] /\ codes'[j] = codes[j]
    BY <1>2, <1>1 DEF Finish, elfVars, lockVars, gotVars, taskVars, local, Goto, Hooked, Unhooking, Return, Types
  <1>5. /\ \A u \in Threads : u # t => task[u] # k
        /\ \A u \in Threads : task[u] \in Tasks \cup {None}
    BY <1>2, <1>1, NoneType DEF BusyInv, Types, BusyThread
  <1>6. StepOf(t, k)
    BY <1>2, <1>4, <1>5 DEF StepOf
  <1>7. Types'
    BY <1>2, <1>1 DEF Types, Slots, Finish, elfVars, lockVars, gotVars, taskVars, local, Goto, Hooked, Unhooking, Return, Where, Reading, Locked, Statuses
  <1>8. ReadInv'
    <2>1. ReadThread(t)'
      BY <1>2, <1>1, <1>3, <1>4 DEF ReadThread, ReadInv, Parsed, AllFields, Reading, Parsing, Locked
    <2>2. status'[k] \in {"hooked", "unhooking"} => cfi
      BY <1>2, <1>1, <1>3, <1>4 DEF ReadThread, ReadInv, Reading, Parsing, Locked
    <2>3. QED
      BY <1>1, <1>4, <1>6, <2>1, <2>2, ReadStep DEF ReadSame
  <1>9. BusyInv'
    <2>1. BusyThread(t)'
      BY <1>2, <1>1, <1>3, <1>4, NoneType DEF BusyThread, Types, Locked, OnSlot, Reading
    <2>2. \A u \in Threads : u # t => (hookBy' = u <=> hookBy = u)
      BY <1>1, <1>3, <1>4, NoneType DEF BusyThread, Locked
    <2>3. QED
      BY <1>1, <1>6, <2>1, <2>2, BusyStep
  <1>10. PageInv'
    BY <1>1, <1>4, <1>6, PageStep
  <1>11. ChainInv'
    BY <1>1, <1>4, <1>5, <1>6, ChainStep DEF BusyInv, BusyThread
  <1>12. EnabledInv'
    <2>1. ASSUME NEW s \in Slots, ~manual, k \notin Callee, k \in enabled'[s]
          PROVE  EnabledTask(k, s)'
      <3>1. EnabledTask(k, s)
        BY <1>1, <1>4, <2>1 DEF EnabledInv
      <3>2. status[k] # "unhooking"
        BY <1>2, <1>4, <3>1, EmptyRange DEF EnabledTask, Ahead, Reading, OnSlot
      <3>3. QED
        BY <1>2, <1>3, <1>4, <3>1, <3>2 DEF EnabledTask, BusyThread
    <2>2. QED
      BY <1>1, <1>4, <1>6, <2>1, EnabledStep
  <1>13. OkInv'
    <2>1. ASSUME k \notin Callee PROVE OkTask(k)'
      <3>1. OkTask(k)
        BY <1>1, <2>1 DEF OkInv
      <3>2. status[k] \in {"hooking", "unhooking"}
        BY <1>2, <1>3, <1>4 DEF BusyThread
      <3>3. OkThread(t) \/ manual
        BY <1>1, <1>2, <2>1 DEF OkInv
      <3>4. ok[t] /\ ~manual /\ status[k] = "hooking"
               => \A s \in TrueSlots(image, SymName[k]) : k \in enabled[s]
        BY <1>2, <1>4, <3>3, EmptyRange DEF OkThread, Locked, Unhooking
      <3>5. QED
        BY <1>4, <3>1, <3>2, <3>4 DEF OkTask
    <2>2. ASSUME ~manual, task'[t] = k, k \notin Callee PROVE OkThread(t)'
      BY <1>4, <2>2, NoneType
    <2>3. QED
      BY <1>1, <1>4, <1>5, <1>6, <2>1, <2>2, OkStep, WantedSlots DEF BusyInv, BusyThread
  <1>14. ToldInv'
    <2>1. \A j \in Tasks : told'[j] = {} /\ NoProxyOf(j) => NoProxyOf(j)'
      BY <1>4, <1>6 DEF NoProxyOf, StepOf, Slots, Proxy
    <2>2. ToldTask(k)'
      BY <1>2, <1>3, <1>4, <2>1 DEF ToldTask, Proxy
    <2>3. task'[t] = k => ToldThread(t)'
      BY <1>2, <1>1, <1>3, <1>4 DEF ToldThread, ToldTask, ToldInv, BusyThread, Reading, Locked
    <2>4. QED
      BY <1>1, <1>6, <2>1, <2>2, <2>3, ToldStep
  <1>15. QED
    BY <1>7, <1>8, <1>9, <1>10, <1>11, <1>12, <1>13, <1>14 DEF GotInv

\* The CFI hook ends when the tables are whole.
LEMMA FindCfiKeeps ==
    ASSUME CfiLock, TablesRight, GotInv, NEW t \in Threads, Find(t),
           cfiBy = t
    PROVE  GotInv'
  <1>1. /\ Types /\ ReadInv /\ BusyInv /\ PageInv
        /\ ChainInv /\ EnabledInv /\ OkInv /\ ToldInv
    BY DEF GotInv
  <1>2. PICK k \in Tasks : k = task[t]
    BY <1>1 DEF Find, Types, BusyInv, BusyThread
  <1>3. ReadThread(t) /\ BusyThread(t) /\ ToldTask(k)
    BY <1>1 DEF ReadInv, BusyInv, ToldInv
  <1>4. /\ image' = image /\ manual' = manual /\ tab' = tab
        /\ entry' = entry /\ dynParsed' = dynParsed /\ error' = error
        /\ parser' = parser /\ hookBy' = hookBy /\ got' = got
        /\ prot' = prot /\ chained' = chained /\ enabled' = enabled
        /\ origFunc' = origFunc /\ stuck' = stuck /\ manualOrig' = manualOrig /\ codes' = codes
        /\ told' = told /\ slots' = slots /\ task' = task
        /\ status' = status
        /\ pc[t] = "find" /\ Parsed
        /\ cfi' /\ cfiBy' = None /\ pc'[t] = "parse"
        /\ \A u \in Threads : u # t => pc'[u] = pc[u] /\ ok'[u] = ok[u]
        /\ \A u \in Threads : u # t => cfiBy # u
    <2>1. error = FALSE /\ tab = FieldsOf(image) /\ image \in Images
      BY <1>1, <1>3 DEF Find, ReadInv, ReadThread, Parsed, AllFields, Types
    <2>2. ~FindFaults(k)
      BY <2>1 DEF FindFaults, TablesRight
    <2>3. FindAllGot(k) \in Seq(Slots) /\ (k \notin Callee => FindAllGot(k) = FoundByName(image, k))
      <3>1. CASE k \in Callee
        <4> DEFINE S == {s \in Slots : got[s] = ExportAddr(SymName[k])}
        <4>1. S \in SUBSET DOMAIN image.orig
          BY DEF Slots
        <4>2. SlotsByCallee(image, FieldsOf(image), Cap, S) \in Seq(S)
          BY <2>1, <4>1 DEF TablesRight
        <4>3. FindAllGot(k) = SlotsByCallee(image, FieldsOf(image), Cap, S)
          BY <2>1, <3>1 DEF FindAllGot
        <4> HIDE DEF S
        <4>4. Seq(S) \subseteq Seq(Slots)
          BY <4>1 DEF Slots
        <4>5. QED
          BY <3>1, <4>2, <4>3, <4>4
      <3>2. CASE k \notin Callee
        BY <2>1, <3>2, FoundRange DEF FindAllGot, FoundByName, Slots
      <3>3. QED
        BY <3>1, <3>2
    <2>4. pc[t] = "find" /\ Parsed
      BY <1>3 DEF Find, ReadThread
    <2>5. /\ error' = error /\ cfi' /\ cfiBy' = None /\ pc' = [pc EXCEPT ![t] = "parse"]
          /\ codes' = codes /\ status' = status /\ task' = task /\ slots' = slots
      BY <1>2, <2>1, <2>2 DEF Find, Goto
    <2>6. /\ image' = image /\ manual' = manual /\ tab' = tab /\ entry' = entry
          /\ dynParsed' = dynParsed /\ parser' = parser /\ hookBy' = hookBy
          /\ manualOrig' = manualOrig /\ told' = told /\ ok' = [ok EXCEPT ![t] = TRUE]
          /\ gotVars' = gotVars
      BY DEF Find, gotVars
    <2>7. pc'[t] = "parse" /\ \A u \in Threads : u # t => pc'[u] = pc[u] /\ ok'[u] = ok[u]
      BY <1>1, <2>5, <2>6 DEF Types
    <2>8. QED
      BY <2>4, <2>5, <2>6, <2>7 DEF gotVars
  <1>5. /\ \A u \in Threads : u # t => task[u] # k
        /\ \A u \in Threads : task[u] \in Tasks \cup {None}
    BY <1>2, <1>1, NoneType DEF BusyInv, Types, BusyThread
  <1>6. StepOf(t, k)
    BY <1>2, <1>4, <1>5 DEF StepOf
  <1>7. Types'
    <2>1. pc' \in [Threads -> Where] /\ ok' \in [Threads -> BOOLEAN]
      BY <1>1 DEF Types, Find, Goto, Where, Reading, Return
    <2>2. QED
      BY <1>1, <1>4, <2>1 DEF Types, Slots
  <1>8. ReadInv'
    <2>1. ReadThread(t)'
      BY <1>1, <1>3, <1>4, NoneType DEF ReadThread, Reading, Parsing, Locked, ReadInv, Parsed
    <2>2. ASSUME NEW u \in Threads, u # t PROVE ReadThread(u)'
      <3>1. ReadThread(u)
        BY <1>1 DEF ReadInv
      <3>2. QED
        BY <1>1, <1>4, <2>2, <3>1, NoneType DEF ReadThread, Parsing, Parsed
    <2>3. QED
      BY <1>1, <1>4, <2>1, <2>2 DEF ReadInv, Parsed, AllFields
  <1>9. BusyInv'
    <2>1. BusyThread(t)'
      BY <1>2, <1>1, <1>3, <1>4, NoneType DEF BusyThread, Types, Locked, OnSlot, Reading
    <2>2. \A u \in Threads : u # t => (hookBy' = u <=> hookBy = u)
      BY <1>1, <1>3, <1>4, NoneType DEF BusyThread, Locked
    <2>3. QED
      BY <1>1, <1>6, <2>1, <2>2, BusyStep
  <1>10. PageInv'
    BY <1>1, <1>4, <1>6, PageStep
  <1>11. ChainInv'
    BY <1>1, <1>4, <1>5, <1>6, ChainStep DEF BusyInv, BusyThread
  <1>12. EnabledInv'
    <2>1. ASSUME NEW s \in Slots, ~manual, k \notin Callee, k \in enabled'[s]
          PROVE  EnabledTask(k, s)'
      <3>1. EnabledTask(k, s)
        BY <1>1, <1>4, <2>1 DEF EnabledInv
      <3>2. QED
        BY <1>2, <1>3, <1>4, <1>5, <2>1, <3>1 DEF EnabledTask, Ahead, BusyThread, Reading, Locked, OnSlot
    <2>2. QED
      BY <1>1, <1>4, <1>6, <2>1, EnabledStep
  <1>13. OkInv'
    <2>1. ASSUME k \notin Callee PROVE OkTask(k)'
      <3>1. OkTask(k)
        BY <1>1, <2>1 DEF OkInv
      <3>2. QED
        BY <1>2, <1>3, <1>4, <3>1 DEF OkTask, BusyThread
    <2>2. ASSUME ~manual, task'[t] = k, k \notin Callee PROVE OkThread(t)'
      BY <1>2, <1>1, <1>3, <1>4, <2>2 DEF OkThread, OkInv, Unhooking, Locked, OnSlot, BusyThread
    <2>3. QED
      BY <1>1, <1>4, <1>5, <1>6, <2>1, <2>2, OkStep, WantedSlots DEF BusyInv, BusyThread
  <1>14. ToldInv'
    <2>1. \A j \in Tasks : told'[j] = {} /\ NoProxyOf(j) => NoProxyOf(j)'
      BY <1>4, <1>6 DEF NoProxyOf, StepOf, Slots, Proxy
    <2>2. ToldTask(k)'
      BY <1>2, <1>3, <1>4, <2>1 DEF ToldTask, Proxy
    <2>3. task'[t] = k => ToldThread(t)'
      BY <1>2, <1>1, <1>3, <1>4 DEF ToldThread, ToldTask, ToldInv, BusyThread, Reading, Locked
    <2>4. QED
      BY <1>1, <1>6, <2>1, <2>2, <2>3, ToldStep
  <1>15. QED
    BY <1>7, <1>8, <1>9, <1>10, <1>11, <1>12, <1>13, <1>14 DEF GotInv

\* With whole tables a task finds all slots, or is told that there are none.
LEMMA FindSlotsKeeps ==
    ASSUME CfiLock, TablesRight, GotInv, NEW t \in Threads, Find(t),
           cfiBy # t
    PROVE  GotInv'
  <1>1. /\ Types /\ ReadInv /\ BusyInv /\ PageInv
        /\ ChainInv /\ EnabledInv /\ OkInv /\ ToldInv
    BY DEF GotInv
  <1>2. PICK k \in Tasks : k = task[t]
    BY <1>1 DEF Find, Types, BusyInv, BusyThread
  <1>3. ReadThread(t) /\ BusyThread(t) /\ ToldTask(k)
    BY <1>1 DEF ReadInv, BusyInv, ToldInv
  <1>4. /\ image' = image /\ manual' = manual /\ tab' = tab
        /\ entry' = entry /\ dynParsed' = dynParsed /\ error' = error
        /\ cfi' = cfi /\ parser' = parser /\ cfiBy' = cfiBy
        /\ hookBy' = hookBy /\ got' = got /\ prot' = prot
        /\ chained' = chained /\ enabled' = enabled /\ origFunc' = origFunc /\ stuck' = stuck
        /\ manualOrig' = manualOrig /\ told' = told
        /\ pc[t] = "find" /\ ok'[t]
        /\ slots'[t] \in Seq(Slots) /\ (k \notin Callee => slots'[t] = FoundByName(image, k))
        /\ \/ /\ slots'[t] # <<>>
              /\ pc'[t] = IF manual /\ status[k] # "unhooking" THEN "told" ELSE "hooklock"
              /\ task'[t] = k /\ status'[k] = status[k] /\ codes'[k] = codes[k]
           \/ /\ slots'[t] = <<>> /\ pc'[t] = "idle" /\ task'[t] = None
              /\ status'[k] = IF status[k] = "unhooking" THEN "gone" ELSE "hooked"
              /\ codes'[k] = IF status[k] = "unhooking" THEN codes[k] ELSE codes[k] \cup {"NOSYM"}
        /\ \A u \in Threads : u # t => pc'[u] = pc[u] /\ task'[u] = task[u] /\ slots'[u] = slots[u] /\ ok'[u] = ok[u]
        /\ \A j \in Tasks : j # k => status'[j] = status[j] /\ codes'[j] = codes[j]
    <2>1. error = FALSE /\ tab = FieldsOf(image) /\ image \in Images
      BY <1>1, <1>3 DEF Find, ReadInv, ReadThread, Parsed, AllFields, Types
    <2>2. ~FindFaults(k)
      BY <2>1 DEF FindFaults, TablesRight
    <2>3. FindAllGot(k) \in Seq(Slots) /\ (k \notin Callee => FindAllGot(k) = FoundByName(image, k))
      <3>1. CASE k \in Callee
        <4> DEFINE S == {s \in Slots : got[s] = ExportAddr(SymName[k])}
        <4>1. S \in SUBSET DOMAIN image.orig
          BY DEF Slots
        <4>2. SlotsByCallee(image, FieldsOf(image), Cap, S) \in Seq(S)
          BY <2>1, <4>1 DEF TablesRight
        <4>3. FindAllGot(k) = SlotsByCallee(image, FieldsOf(image), Cap, S)
          BY <2>1, <3>1 DEF FindAllGot
        <4> HIDE DEF S
        <4>4. Seq(S) \subseteq Seq(Slots)
          BY <4>1 DEF Slots
        <4>5. QED
          BY <3>1, <4>2, <4>3, <4>4
      <3>2. CASE k \notin Callee
        BY <2>1, <3>2, FoundRange DEF FindAllGot, FoundByName, Slots
      <3>3. QED
        BY <3>1, <3>2
    <2>4. /\ error' = error /\ cfi' = cfi /\ cfiBy' = cfiBy
          /\ slots' = [slots EXCEPT ![t] = FindAllGot(k)]
          /\ IF FindAllGot(k) = <<>>
             THEN Hooked(t, "NOSYM") /\ Return(t)
             ELSE /\ Goto(t, IF manual /\ ~Unhooking(t) THEN "told" ELSE "hooklock")
                  /\ codes' = codes /\ status' = status /\ task' = task
      BY <1>2, <2>1, <2>2 DEF Find
    <2>5. /\ image' = image /\ manual' = manual /\ tab' = tab /\ entry' = entry
          /\ dynParsed' = dynParsed /\ parser' = parser /\ hookBy' = hookBy
          /\ manualOrig' = manualOrig /\ told' = told /\ ok' = [ok EXCEPT ![t] = TRUE]
          /\ gotVars' = gotVars /\ pc[t] = "find"
      BY DEF Find, gotVars
    <2>6. slots'[t] = FindAllGot(k) /\ ok'[t]
          /\ \A u \in Threads : u # t => slots'[u] = slots[u] /\ ok'[u] = ok[u]
      BY <1>1, <2>4, <2>5 DEF Types
    <2>7. CASE FindAllGot(k) = <<>>
      <3>1. /\ pc'[t] = "idle" /\ task'[t] = None
            /\ status'[k] = IF status[k] = "unhooking" THEN "gone" ELSE "hooked"
            /\ codes'[k] = IF status[k] = "unhooking" THEN codes[k] ELSE codes[k] \cup {"NOSYM"}
            /\ \A u \in Threads : u # t => pc'[u] = pc[u] /\ task'[u] = task[u]
            /\ \A j \in Tasks : j # k => status'[j] = status[j] /\ codes'[j] = codes[j]
        BY <1>1, <1>2, <2>4, <2>7 DEF Types, Goto, Hooked, Return, Unhooking
      <3>2. QED
        BY <2>3, <2>4, <2>5, <2>6, <2>7, <3>1 DEF gotVars
    <2>8. CASE FindAllGot(k) # <<>>
      <3>1. /\ pc'[t] = IF manual /\ status[k] # "unhooking" THEN "told" ELSE "hooklock"
            /\ \A u \in Threads : u # t => pc'[u] = pc[u]
        BY <1>1, <1>2, <2>4, <2>8 DEF Types, Goto, Unhooking
      <3>2. QED
        BY <1>2, <2>3, <2>4, <2>5, <2>6, <2>8, <3>1 DEF gotVars
    <2>9. QED
      BY <2>7, <2>8
  <1>5. /\ \A u \in Threads : u # t => task[u] # k
        /\ \A u \in Threads : task[u] \in Tasks \cup {None}
    BY <1>2, <1>1, NoneType DEF BusyInv, Types, BusyThread
  <1>6. StepOf(t, k)
    BY <1>2, <1>4, <1>5 DEF StepOf
  <1>7. Types'
    <2>1. pc' \in [Threads -> Where] /\ ok' \in [Threads -> BOOLEAN]
      BY <1>1 DEF Types, Find, Goto, Where, Reading, Return
    <2>2. slots' \in [Threads -> Seq(Slots)]
      BY <1>1, <1>4 DEF Types, Find
    <2>3. status' \in [Tasks -> Statuses] /\ DOMAIN codes' = Tasks
          /\ task' \in [Threads -> Tasks \cup {None}]
      BY <1>1, <1>2 DEF Types, Find, Return, Hooked, Statuses
    <2>4. QED
      BY <1>1, <1>4, <2>1, <2>2, <2>3 DEF Types, Slots
  <1>8. ReadInv'
    <2>1. ReadThread(t)'
      BY <1>2, <1>1, <1>3, <1>4 DEF ReadThread, ReadInv, Parsed, AllFields, Reading, Parsing, Locked
    <2>2. status'[k] \in {"hooked", "unhooking"} => cfi
      BY <1>2, <1>1, <1>3, <1>4 DEF ReadThread, ReadInv, Reading, Parsing, Locked
    <2>3. QED
      BY <1>1, <1>4, <1>6, <2>1, <2>2, ReadStep DEF ReadSame
  <1>9. BusyInv'
    <2>1. BusyThread(t)'
      BY <1>2, <1>1, <1>3, <1>4, NoneType DEF BusyThread, Types, Locked, OnSlot, Reading
    <2>2. \A u \in Threads : u # t => (hookBy' = u <=> hookBy = u)
      BY <1>1, <1>3, <1>4, NoneType DEF BusyThread, Locked
    <2>3. QED
      BY <1>1, <1>6, <2>1, <2>2, BusyStep
  <1>10. PageInv'
    BY <1>1, <1>4, <1>6, PageStep
  <1>11. ChainInv'
    BY <1>1, <1>4, <1>5, <1>6, ChainStep DEF BusyInv, BusyThread
  <1>12. EnabledInv'
    <2>1. ASSUME NEW s \in Slots, ~manual, k \notin Callee, k \in enabled'[s]
          PROVE  EnabledTask(k, s)'
      <3>1. EnabledTask(k, s)
        BY <1>1, <1>4, <2>1 DEF EnabledInv
      <3>2. s \in Range(slots'[t])
        BY <1>1, <1>4, <2>1, <3>1, FoundRange DEF EnabledTask, Types
      <3>3. slots'[t] # <<>>
        BY <3>2, EmptyRange
      <3>4. Ahead(t, s)'
        BY <1>4, <2>1, <3>2, <3>3 DEF Ahead
      <3>5. \A u \in Threads : task'[u] = k => u = t
        BY <1>4, <1>5
      <3>6. QED
        BY <1>4, <3>1, <3>3, <3>4, <3>5 DEF EnabledTask
    <2>2. QED
      BY <1>1, <1>4, <1>6, <2>1, EnabledStep
  <1>13. OkInv'
    <2>1. ASSUME k \notin Callee PROVE OkTask(k)'
      <3>1. OkTask(k)
        BY <1>1, <2>1 DEF OkInv
      <3>2. status[k] \in {"hooking", "unhooking"}
        BY <1>2, <1>3, <1>4 DEF BusyThread
      <3>3. slots'[t] = <<>> => TrueSlots(image, SymName[k]) = {}
        BY <1>1, <1>4, <2>1, FoundRange, EmptyRange DEF Types
      <3>4. QED
        BY <1>4, <3>1, <3>2, <3>3 DEF OkTask
    <2>2. ASSUME ~manual, task'[t] = k, k \notin Callee PROVE OkThread(t)'
      BY <1>4 DEF OkThread, Locked
    <2>3. QED
      BY <1>1, <1>4, <1>5, <1>6, <2>1, <2>2, OkStep, WantedSlots DEF BusyInv, BusyThread
  <1>14. ToldInv'
    <2>1. \A j \in Tasks : told'[j] = {} /\ NoProxyOf(j) => NoProxyOf(j)'
      BY <1>4, <1>6 DEF NoProxyOf, StepOf, Slots, Proxy
    <2>2. ToldTask(k)'
      BY <1>2, <1>3, <1>4, <2>1 DEF ToldTask, Proxy
    <2>3. task'[t] = k => ToldThread(t)'
      BY <1>2, <1>1, <1>3, <1>4 DEF ToldThread, ToldTask, ToldInv, BusyThread, Reading, Locked
    <2>4. QED
      BY <1>1, <1>6, <2>1, <2>2, <2>3, ToldStep
  <1>15. QED
    BY <1>7, <1>8, <1>9, <1>10, <1>11, <1>12, <1>13, <1>14 DEF GotInv

\* A slot is replaced when nothing refuses it, and else passed over.
LEMMA WriteCases ==
    ASSUME NEW t \in Threads, Write(t)
    PROVE  \E refusal \in Refusals(t, Head(slots[t])) :
              /\ ok' = [ok EXCEPT ![t] = @ /\ refusal = "none"]
              /\ refusal = "none" =>
                    /\ prot' = [x \in Slots |->
                          IF /\ x \in {y \in Slots : image.page[y] = image.page[Head(slots[t])]}
                             /\ "w" \notin Protect(image, Head(slots[t]))
                          THEN Protect(image, Head(slots[t])) \cup {"w"} ELSE prot[x]]
                    /\ Goto(t, "store")
                    /\ UNCHANGED <<codes, slots, chained, enabled, stuck>>
              /\ refusal # "none" =>
                    /\ Hooked(t, refusal)
                    /\ stuck' = IF Unhooking(t) THEN stuck \cup {Head(slots[t])} ELSE stuck
                    /\ IF manual \/ Unhooking(t) THEN UNCHANGED <<chained, enabled>>
                                                 ELSE DelFunc(Head(slots[t]), task[t])
                    /\ NextSlot(t) /\ prot' = prot
  BY DEF Write

\* A trampoline is no value that is verified.
LEMMA NotVerified == ASSUME NEW s, NEW name \in Names PROVE ~Verified(Trampo(s), name)
  BY OutsideType DEF Verified, NameOf, Trampo

\* What is not refused is verified, and its page is in a segment.
LEMMA NotRefused ==
    ASSUME NEW t \in Threads, NEW s, "none" \in Refusals(t, s)
    PROVE  /\ Protect(image, s) # {}
           /\ Unhooking(t) \/ Verified(got[s], SymName[task[t]])
  BY DEF Refusals

\* A page is made writable for the slot that is replaced.
LEMMA WriteStoreKeeps ==
    ASSUME CfiLock, TablesRight, GotInv, NEW t \in Threads, Write(t),
           pc'[t] = "store"
    PROVE  GotInv'
  <1>1. /\ Types /\ ReadInv /\ BusyInv /\ PageInv
        /\ ChainInv /\ EnabledInv /\ OkInv /\ ToldInv
    BY DEF GotInv
  <1>2. PICK k \in Tasks : k = task[t]
    BY <1>1 DEF Write, Types, BusyInv, BusyThread
  <1>3. ReadThread(t) /\ BusyThread(t) /\ ToldTask(k)
    BY <1>1 DEF ReadInv, BusyInv, ToldInv
  <1>0. /\ slots[t] # <<>> /\ slots[t] \in Seq(Slots)
        /\ Head(slots[t]) \in Slots /\ Tail(slots[t]) \in Seq(Slots)
        /\ \A x : x \in Range(slots[t]) <=> x = Head(slots[t]) \/ x \in Range(Tail(slots[t]))
    <2>1. slots[t] # <<>> /\ slots[t] \in Seq(Slots)
      BY <1>1, <1>3 DEF Write, BusyThread, Types, OnSlot
    <2>2. QED
      BY <2>1, HeadTail
  <1>a. PICK s \in Slots : s = Head(slots[t])
    BY <1>0
  <1>4. /\ image' = image /\ manual' = manual /\ tab' = tab
        /\ entry' = entry /\ dynParsed' = dynParsed /\ error' = error
        /\ cfi' = cfi /\ parser' = parser /\ cfiBy' = cfiBy
        /\ hookBy' = hookBy /\ got' = got /\ chained' = chained
        /\ enabled' = enabled /\ origFunc' = origFunc /\ stuck' = stuck /\ manualOrig' = manualOrig
        /\ codes' = codes /\ told' = told /\ slots' = slots
        /\ task' = task /\ status' = status
        /\ pc[t] = "write" /\ pc'[t] = "store" /\ ok'[t] = ok[t] /\ Protect(image, s) # {}
        /\ status[k] # "unhooking" => got[s] # Trampo(s)
        /\ pc' \in [Threads -> Where] /\ ok' \in [Threads -> BOOLEAN] /\ DOMAIN prot' = Slots
        /\ \A u \in Threads : u # t => pc'[u] = pc[u] /\ ok'[u] = ok[u]
        /\ \A x \in Slots : prot'[x] = IF image.page[x] = image.page[s] /\ "w" \notin Protect(image, s)
                                        THEN Protect(image, s) \cup {"w"} ELSE prot[x]
    <2>1. pc[t] = "write" /\ (status[k] = "unhooking" \/ status[k] = "hooking")
      BY <1>2, <1>3 DEF Write, BusyThread
    <2>2. PICK refusal \in Refusals(t, s) :
             /\ ok' = [ok EXCEPT ![t] = @ /\ refusal = "none"]
             /\ refusal = "none" =>
                   /\ prot' = [x \in Slots |->
                         IF /\ x \in {y \in Slots : image.page[y] = image.page[s]}
                            /\ "w" \notin Protect(image, s)
                         THEN Protect(image, s) \cup {"w"} ELSE prot[x]]
                   /\ Goto(t, "store")
                   /\ UNCHANGED <<codes, slots, chained, enabled, stuck>>
             /\ refusal # "none" => NextSlot(t)
      BY <1>a, WriteCases
    <2>3. refusal = "none"
      BY <1>1, <2>2 DEF NextSlot, Goto, Types
    <2>4. Protect(image, s) # {} /\ (Unhooking(t) \/ Verified(got[s], SymName[k]))
      BY <1>2, <2>2, <2>3, NotRefused
    <2>5. status[k] # "unhooking" => got[s] # Trampo(s)
      <3>1. SymName[k] \in Names
        BY TasksType
      <3>2. QED
        BY <1>2, <2>4, <3>1, NotVerified DEF Unhooking
    <2>6. ok'[t] = ok[t] /\ \A u \in Threads : u # t => ok'[u] = ok[u]
      BY <1>1, <2>2, <2>3 DEF Types
    <2>7. pc'[t] = "store" /\ \A u \in Threads : u # t => pc'[u] = pc[u]
      BY <1>1, <2>2, <2>3 DEF Goto, Types
    <2>8. \A x \in Slots :
             prot'[x] = IF image.page[x] = image.page[s] /\ "w" \notin Protect(image, s)
                        THEN Protect(image, s) \cup {"w"} ELSE prot[x]
      BY <2>2, <2>3
    <2>9. /\ codes' = codes /\ slots' = slots /\ chained' = chained
          /\ enabled' = enabled /\ stuck' = stuck
      BY <2>2, <2>3
    <2>10. /\ image' = image /\ manual' = manual /\ tab' = tab
           /\ entry' = entry /\ dynParsed' = dynParsed /\ error' = error
           /\ cfi' = cfi /\ parser' = parser /\ cfiBy' = cfiBy
           /\ hookBy' = hookBy /\ got' = got /\ origFunc' = origFunc
           /\ manualOrig' = manualOrig /\ told' = told /\ task' = task /\ status' = status
      BY DEF Write, elfVars, lockVars
    <2>11. pc' \in [Threads -> Where]
      BY <1>1, <2>2, <2>3 DEF Goto, Types, Where, Locked
    <2>12. ok' \in [Threads -> BOOLEAN]
      BY <1>1, <2>2, <2>3 DEF Types
    <2>13. DOMAIN prot' = Slots
      BY <2>2, <2>3
    <2>14. QED
      BY <2>1, <2>4, <2>5, <2>6, <2>7, <2>8, <2>9, <2>10, <2>11, <2>12, <2>13
  <1>5. /\ \A u \in Threads : u # t => task[u] # k
        /\ \A u \in Threads : task[u] \in Tasks \cup {None}
    BY <1>2, <1>1, NoneType DEF BusyInv, Types, BusyThread
  <1>6. StepOf(t, k)
    BY <1>2, <1>4, <1>5 DEF StepOf
  <1>7. Types'
    BY <1>1, <1>4 DEF Types, Slots
  <1>8. ReadInv'
    <2>1. ReadThread(t)'
      BY <1>2, <1>1, <1>3, <1>4 DEF ReadThread, ReadInv, Parsed, AllFields, Reading, Parsing, Locked
    <2>2. status'[k] \in {"hooked", "unhooking"} => cfi
      BY <1>2, <1>1, <1>3, <1>4 DEF ReadThread, ReadInv, Reading, Parsing, Locked
    <2>3. QED
      BY <1>1, <1>4, <1>6, <2>1, <2>2, ReadStep DEF ReadSame
  <1>9. BusyInv'
    <2>1. BusyThread(t)'
      BY <1>2, <1>1, <1>3, <1>4, NoneType DEF BusyThread, Types, Locked, OnSlot, Reading
    <2>2. \A u \in Threads : u # t => (hookBy' = u <=> hookBy = u)
      BY <1>1, <1>3, <1>4, NoneType DEF BusyThread, Locked
    <2>3. QED
      BY <1>1, <1>6, <2>1, <2>2, BusyStep
  <1>10. PageInv'
    <2>1. Slots' = Slots /\ image' = image
      BY <1>4 DEF Slots
    <2>2. ASSUME NEW x \in Slots
          PROVE  prot'[x] = IF Opened(x)' THEN Protect(image, x) \cup {"w"} ELSE Protect(image, x)
      <3>1. \A u \in Threads : u # t => pc[u] \notin {"store", "seal"}
        BY <1>1, <1>3, <1>4 DEF BusyInv, BusyThread, Locked
      <3>2. ~Opened(x)
        BY <1>4, <3>1 DEF Opened
      <3>3. Opened(x)' <=> image.page[x] = image.page[s]
        BY <1>4, <1>a, <3>1 DEF Opened
      <3>4. image.page[x] = image.page[s] => Protect(image, x) = Protect(image, s)
        BY <1>1, PagesType DEF Types, Slots
      <3>5. prot[x] = Protect(image, x)
        BY <1>1, <3>2 DEF PageInv
      <3>6. prot'[x] = IF image.page[x] = image.page[s] /\ "w" \notin Protect(image, s)
                       THEN Protect(image, s) \cup {"w"} ELSE prot[x]
        BY <1>4
      <3>7. QED
        BY <3>3, <3>4, <3>5, <3>6
    <2>3. QED
      BY <2>1, <2>2 DEF PageInv
  <1>11. ChainInv'
    <2> SUFFICES ASSUME ~manual', NEW x \in Slots' PROVE SlotChain(x)'
      BY DEF ChainInv
    <2>1. x \in Slots /\ ~manual /\ image' = image
      BY <1>4 DEF Slots
    <2>2. SlotChain(x)
      BY <1>1, <2>1 DEF ChainInv
    <2>3. \A u \in Threads : AtSlot(u, x)' <=> AtSlot(u, x)
      BY <1>4 DEF AtSlot
    <2>4. Settled(x)' <=> Settled(x)
      BY <1>4 DEF Settled, Home, Trampo
    <2>5. ASSUME NEW u \in Threads, AtSlot(u, x), Replacing(u, x) PROVE Replacing(u, x)'
      <3>1. u = t => x = s
        BY <1>a, <2>5 DEF AtSlot
      <3>2. Unhooking(u)' <=> Unhooking(u)
        BY <1>4 DEF Unhooking
      <3>3. QED
        BY <1>2, <1>4, <2>5, <3>1, <3>2 DEF Replacing, Home, Trampo, Unhooking
    <2>6. QED
      BY <1>4, <2>2, <2>3, <2>4, <2>5 DEF SlotChain
  <1>12. EnabledInv'
    <2>1. ASSUME NEW x \in Slots, ~manual, k \notin Callee, k \in enabled'[x]
          PROVE  EnabledTask(k, x)'
      <3>1. EnabledTask(k, x)
        BY <1>1, <1>4, <2>1 DEF EnabledInv
      <3>2. QED
        BY <1>2, <1>3, <1>4, <1>5, <2>1, <3>1 DEF EnabledTask, Ahead, BusyThread, Reading, Locked, OnSlot
    <2>2. QED
      BY <1>1, <1>4, <1>6, <2>1, EnabledStep
  <1>13. OkInv'
    <2>1. ASSUME k \notin Callee PROVE OkTask(k)'
      <3>1. OkTask(k)
        BY <1>1, <2>1 DEF OkInv
      <3>2. QED
        BY <1>2, <1>3, <1>4, <3>1 DEF OkTask, BusyThread
    <2>2. ASSUME ~manual, task'[t] = k, k \notin Callee PROVE OkThread(t)'
      BY <1>2, <1>1, <1>3, <1>4, <2>2 DEF OkThread, OkInv, Unhooking, Locked, OnSlot, BusyThread
    <2>3. QED
      BY <1>1, <1>4, <1>5, <1>6, <2>1, <2>2, OkStep, WantedSlots DEF BusyInv, BusyThread
  <1>14. ToldInv'
    <2>1. \A j \in Tasks : told'[j] = {} /\ NoProxyOf(j) => NoProxyOf(j)'
      BY <1>4, <1>6 DEF NoProxyOf, StepOf, Slots, Proxy
    <2>2. ToldTask(k)'
      BY <1>2, <1>3, <1>4, <2>1 DEF ToldTask, Proxy
    <2>3. task'[t] = k => ToldThread(t)'
      BY <1>2, <1>1, <1>3, <1>4 DEF ToldThread, ToldTask, ToldInv, BusyThread, Reading, Locked
    <2>4. QED
      BY <1>1, <1>6, <2>1, <2>2, <2>3, ToldStep
  <1>15. QED
    BY <1>7, <1>8, <1>9, <1>10, <1>11, <1>12, <1>13, <1>14 DEF GotInv

\* A slot that cannot be replaced loses the new chain.
LEMMA WriteNotKeeps ==
    ASSUME CfiLock, TablesRight, GotInv, NEW t \in Threads, Write(t),
           pc'[t] # "store"
    PROVE  GotInv'
  <1>1. /\ Types /\ ReadInv /\ BusyInv /\ PageInv
        /\ ChainInv /\ EnabledInv /\ OkInv /\ ToldInv
    BY DEF GotInv
  <1>2. PICK k \in Tasks : k = task[t]
    BY <1>1 DEF Write, Types, BusyInv, BusyThread
  <1>3. ReadThread(t) /\ BusyThread(t) /\ ToldTask(k)
    BY <1>1 DEF ReadInv, BusyInv, ToldInv
  <1>0. /\ slots[t] # <<>> /\ slots[t] \in Seq(Slots)
        /\ Head(slots[t]) \in Slots /\ Tail(slots[t]) \in Seq(Slots)
        /\ \A x : x \in Range(slots[t]) <=> x = Head(slots[t]) \/ x \in Range(Tail(slots[t]))
    <2>1. slots[t] # <<>> /\ slots[t] \in Seq(Slots)
      BY <1>1, <1>3 DEF Write, BusyThread, Types, OnSlot
    <2>2. QED
      BY <2>1, HeadTail
  <1>a. PICK s \in Slots : s = Head(slots[t])
    BY <1>0
  <1>4. /\ image' = image /\ manual' = manual /\ tab' = tab
        /\ entry' = entry /\ dynParsed' = dynParsed /\ error' = error
        /\ cfi' = cfi /\ parser' = parser /\ cfiBy' = cfiBy
        /\ hookBy' = hookBy /\ got' = got /\ prot' = prot
        /\ origFunc' = origFunc /\ manualOrig' = manualOrig /\ told' = told
        /\ task' = task /\ status' = status
        /\ pc[t] = "write" /\ pc'[t] = "slot" /\ slots'[t] = Tail(slots[t]) /\ ok'[t] = FALSE
        /\ \A u \in Threads : u # t => pc'[u] = pc[u] /\ ok'[u] = ok[u] /\ slots'[u] = slots[u]
        /\ stuck' = IF status[k] = "unhooking" THEN stuck \cup {s} ELSE stuck
        /\ \/ /\ ~manual /\ status[k] = "hooking"
              /\ enabled'[s] = enabled[s] \ {k}
              /\ chained' = IF enabled[s] \subseteq {k} THEN chained \ {s} ELSE chained
              /\ \A x \in Slots : x # s => enabled'[x] = enabled[x]
           \/ /\ manual \/ status[k] = "unhooking"
              /\ enabled' = enabled /\ chained' = chained
        /\ "OK" \in codes'[k] <=> "OK" \in codes[k]
        /\ "NOSYM" \in codes'[k] <=> "NOSYM" \in codes[k]
        /\ \A j \in Tasks : j # k => codes'[j] = codes[j]
    <2>1. pc[t] = "write" /\ (status[k] = "unhooking" \/ status[k] = "hooking")
      BY <1>2, <1>3 DEF Write, BusyThread
    <2>2. PICK refusal \in Refusals(t, s) :
             /\ ok' = [ok EXCEPT ![t] = @ /\ refusal = "none"]
             /\ refusal = "none" => Goto(t, "store")
             /\ refusal # "none" =>
                   /\ Hooked(t, refusal)
                   /\ stuck' = IF Unhooking(t) THEN stuck \cup {s} ELSE stuck
                   /\ IF manual \/ Unhooking(t) THEN UNCHANGED <<chained, enabled>>
                                                ELSE DelFunc(s, k)
                   /\ NextSlot(t) /\ prot' = prot
      BY <1>2, <1>a, WriteCases
    <2>a. refusal # "none"
      BY <1>1, <2>2 DEF Goto, Types
    <2>b. refusal \in {"GOT_VERIFY", "GET_PROT", "SET_PROT"}
      BY <2>2, <2>a DEF Refusals
    <2>3. /\ \A j \in Tasks : j # k => codes'[j] = codes[j]
          /\ "OK" \in codes'[k] <=> "OK" \in codes[k]
          /\ "NOSYM" \in codes'[k] <=> "NOSYM" \in codes[k]
      <3>1. Hooked(t, refusal) /\ refusal # "OK" /\ refusal # "NOSYM"
        BY <2>2, <2>a, <2>b
      <3>2. QED
        BY <1>1, <1>2, <3>1 DEF Hooked, Types
    <2>4. pc'[t] = "slot" /\ slots'[t] = Tail(slots[t]) /\ ok'[t] = FALSE /\ prot' = prot
      BY <1>1, <2>2, <2>a DEF NextSlot, Goto, Types
    <2>5. /\ \A u \in Threads : u # t => pc'[u] = pc[u] /\ ok'[u] = ok[u] /\ slots'[u] = slots[u]
      BY <1>1, <2>2, <2>a DEF NextSlot, Goto, Types
    <2>6. \/ /\ ~manual /\ status[k] = "hooking"
             /\ enabled'[s] = enabled[s] \ {k}
             /\ chained' = IF enabled[s] \subseteq {k} THEN chained \ {s} ELSE chained
             /\ \A x \in Slots : x # s => enabled'[x] = enabled[x]
          \/ /\ manual \/ status[k] = "unhooking"
             /\ enabled' = enabled /\ chained' = chained
      BY <1>1, <1>2, <2>1, <2>2, <2>a DEF DelFunc, Types, Unhooking
    <2>7. stuck' = IF status[k] = "unhooking" THEN stuck \cup {s} ELSE stuck
      BY <1>2, <2>2, <2>a DEF Unhooking
    <2>8. QED
      BY <1>1, <2>1, <2>3, <2>4, <2>5, <2>6, <2>7 DEF Write, elfVars, lockVars, Types
  <1>5. /\ \A u \in Threads : u # t => task[u] # k
        /\ \A u \in Threads : task[u] \in Tasks \cup {None}
    BY <1>2, <1>1, NoneType DEF BusyInv, Types, BusyThread
  <1>6. StepOf(t, k)
    BY <1>2, <1>4, <1>5 DEF StepOf
  <1>7. Types'
    <2>1. pc' \in [Threads -> Where] /\ ok' \in [Threads -> BOOLEAN] /\ slots' \in [Threads -> Seq(Slots)]
      BY ZenonT(60), <1>0, <1>1, <1>4 DEF Types, Write, Goto, Where, Locked, NextSlot
    <2>2. enabled' \in [Slots -> SUBSET Tasks] /\ DOMAIN codes' = Tasks /\ chained' \subseteq Slots
      <3>1. enabled' = enabled \/ DelFunc(Head(slots[t]), task[t])
        BY <1>4 DEF Write
      <3>2. enabled' \in [Slots -> SUBSET Tasks]
        BY ZenonT(60), <1>1, <3>1 DEF Types, DelFunc
      <3>3. chained' \subseteq Slots
        BY <1>1, <1>4 DEF Types
      <3>4. DOMAIN codes' = Tasks
        BY <1>1, <1>4 DEF Types, Write, Hooked
      <3>5. QED
        BY <3>2, <3>3, <3>4
    <2>3. QED
      BY <1>1, <1>4, <2>1, <2>2 DEF Types, Slots
  <1>8. ReadInv'
    <2>1. ReadThread(t)'
      BY <1>2, <1>1, <1>3, <1>4 DEF ReadThread, ReadInv, Parsed, AllFields, Reading, Parsing, Locked
    <2>2. status'[k] \in {"hooked", "unhooking"} => cfi
      BY <1>2, <1>1, <1>3, <1>4 DEF ReadThread, ReadInv, Reading, Parsing, Locked
    <2>3. QED
      BY <1>1, <1>4, <1>6, <2>1, <2>2, ReadStep DEF ReadSame
  <1>9. BusyInv'
    <2>1. BusyThread(t)'
      BY <1>2, <1>0, <1>3, <1>4, NoneType DEF BusyThread, Locked, OnSlot
    <2>2. \A u \in Threads : u # t => (hookBy' = u <=> hookBy = u)
      BY <1>1, <1>3, <1>4, NoneType DEF BusyThread, Locked
    <2>3. QED
      BY <1>1, <1>6, <2>1, <2>2, BusyStep
  <1>10. PageInv'
    BY <1>1, <1>4, <1>6, PageStep
  <1>11. ChainInv'
    <2> SUFFICES ASSUME ~manual', NEW x \in Slots' PROVE SlotChain(x)'
      BY DEF ChainInv
    <2>1. x \in Slots /\ ~manual /\ image' = image
      BY <1>4 DEF Slots
    <2>2. SlotChain(x) /\ SlotChain(s)
      BY <1>1, <2>1 DEF ChainInv
    <2>a. Replacing(t, s)
      BY <1>4, <1>a, <2>2 DEF SlotChain, AtSlot
    <2>b. \/ /\ status[k] # "unhooking" /\ got[s] = Home(s) /\ enabled[s] = {k}
          \/ /\ status[k] = "unhooking" /\ got[s] = Trampo(s) /\ enabled[s] = {}
      BY <1>2, <2>a DEF Replacing, Unhooking
    <2>3. \A u \in Threads : u # t => ~AtSlot(u, x) /\ ~AtSlot(u, x)'
      BY <1>1, <1>3, <1>4 DEF AtSlot, BusyInv, BusyThread, Locked
    <2>4. ~AtSlot(t, x)'
      BY <1>4 DEF AtSlot
    <2>5. CASE x = s
      <3>1. enabled'[s] = {} /\ s \notin chained'
        BY <1>4, <2>1, <2>2, <2>b DEF SlotChain
      <3>2. got'[s] = Home(s)'
        BY <1>4, <2>b DEF Home, Trampo
      <3>3. QED
        BY <2>3, <2>4, <2>5, <3>1, <3>2 DEF SlotChain, Settled
    <2>6. CASE x # s
      <3>1. ~AtSlot(t, x)
        BY <1>a, <2>6 DEF AtSlot
      <3>2. Settled(x)' <=> Settled(x)
        BY <1>4, <2>6 DEF Settled, Home, Trampo
      <3>3. (x \in chained' <=> x \in chained) /\ enabled'[x] = enabled[x]
        BY <1>4, <2>1, <2>6
      <3>4. QED
        BY <2>2, <2>3, <2>4, <3>1, <3>2, <3>3 DEF SlotChain
    <2>7. QED
      BY <2>5, <2>6
  <1>12. EnabledInv'
    <2>1. ASSUME NEW x \in Slots, ~manual, k \notin Callee, k \in enabled'[x]
          PROVE  EnabledTask(k, x)'
      <3>1. k \in enabled[x] /\ EnabledTask(k, x)
        BY <1>1, <1>4, <2>1 DEF EnabledInv
      <3>2. \A u \in Threads : task'[u] = k => u = t
        BY <1>4, <1>5
      <3>3. status[k] = "unhooking" => x \in Range(Tail(slots[t]))
        BY <1>2, <1>4, <3>1 DEF EnabledTask, Ahead, Reading, OnSlot
      <3>4. QED
        BY <1>4, <2>1, <3>1, <3>2, <3>3 DEF EnabledTask, Ahead
    <2>2. QED
      BY <1>1, <1>4, <1>6, <2>1, EnabledStep
  <1>13. OkInv'
    <2>1. ASSUME k \notin Callee PROVE OkTask(k)'
      <3>1. OkTask(k)
        BY <1>1, <2>1 DEF OkInv
      <3>2. status[k] \in {"hooking", "unhooking"}
        BY <1>2, <1>3, <1>4 DEF BusyThread
      <3>4. QED
        BY <1>4, <3>1, <3>2 DEF OkTask
    <2>2. ASSUME ~manual, task'[t] = k, k \notin Callee PROVE OkThread(t)'
      BY <1>4 DEF OkThread, OnSlot
    <2>3. QED
      BY <1>1, <1>4, <1>5, <1>6, <2>1, <2>2, OkStep, WantedSlots DEF BusyInv, BusyThread
  <1>14. ToldInv'
    <2>1. \A j \in Tasks : told'[j] = {} /\ NoProxyOf(j) => NoProxyOf(j)'
      BY <1>4, <1>6 DEF NoProxyOf, StepOf, Slots, Proxy
    <2>2. ToldTask(k)'
      BY <1>2, <1>3, <1>4, <2>1 DEF ToldTask, Proxy
    <2>3. task'[t] = k => ToldThread(t)'
      BY <1>2, <1>1, <1>3, <1>4 DEF ToldThread, ToldTask, ToldInv, BusyThread, Reading, Locked
    <2>4. QED
      BY <1>1, <1>6, <2>1, <2>2, <2>3, ToldStep
  <1>15. QED
    BY <1>7, <1>8, <1>9, <1>10, <1>11, <1>12, <1>13, <1>14 DEF GotInv

\* Manual mode: the slot is to be replaced.
LEMMA AddManualKeeps ==
    ASSUME CfiLock, TablesRight, GotInv, NEW t \in Threads, AddFunc(t),
           manual
    PROVE  GotInv'
  <1>1. /\ Types /\ ReadInv /\ BusyInv /\ PageInv
        /\ ChainInv /\ EnabledInv /\ OkInv /\ ToldInv
    BY DEF GotInv
  <1>2. PICK k \in Tasks : k = task[t]
    BY <1>1 DEF AddFunc, Types, BusyInv, BusyThread
  <1>3. ReadThread(t) /\ BusyThread(t) /\ ToldTask(k)
    BY <1>1 DEF ReadInv, BusyInv, ToldInv
  <1>0. /\ slots[t] # <<>> /\ slots[t] \in Seq(Slots)
        /\ Head(slots[t]) \in Slots /\ Tail(slots[t]) \in Seq(Slots)
        /\ \A x : x \in Range(slots[t]) <=> x = Head(slots[t]) \/ x \in Range(Tail(slots[t]))
    <2>1. slots[t] # <<>> /\ slots[t] \in Seq(Slots)
      BY <1>1, <1>3 DEF AddFunc, BusyThread, Types, OnSlot
    <2>2. QED
      BY <2>1, HeadTail
  <1>a. PICK s \in Slots : s = Head(slots[t])
    BY <1>0
  <1>4. /\ image' = image /\ manual' = manual /\ tab' = tab
        /\ entry' = entry /\ dynParsed' = dynParsed /\ error' = error
        /\ cfi' = cfi /\ parser' = parser /\ cfiBy' = cfiBy
        /\ hookBy' = hookBy /\ got' = got /\ prot' = prot
        /\ chained' = chained /\ enabled' = enabled /\ origFunc' = origFunc /\ stuck' = stuck
        /\ manualOrig' = manualOrig /\ codes' = codes /\ told' = told
        /\ slots' = slots /\ ok' = ok /\ task' = task
        /\ status' = status
        /\ pc[t] = "slot" /\ status[k] # "unhooking" /\ manual /\ pc'[t] = "write"
        /\ \A u \in Threads : u # t => pc'[u] = pc[u]
    BY <1>1, <1>2, <1>a DEF AddFunc, elfVars, lockVars, taskVars, Goto, Types, Unhooking, NextSlot
  <1>5. /\ \A u \in Threads : u # t => task[u] # k
        /\ \A u \in Threads : task[u] \in Tasks \cup {None}
    BY <1>2, <1>1, NoneType DEF BusyInv, Types, BusyThread
  <1>6. StepOf(t, k)
    BY <1>2, <1>4, <1>5 DEF StepOf
  <1>7. Types'
    <2>1. pc' \in [Threads -> Where]
      BY <1>1 DEF Types, AddFunc, Goto, Where, Locked
    <2>2. QED
      BY <1>1, <1>4, <2>1 DEF Types, Slots
  <1>8. ReadInv'
    <2>1. ReadThread(t)'
      BY <1>2, <1>1, <1>3, <1>4 DEF ReadThread, ReadInv, Parsed, AllFields, Reading, Parsing, Locked
    <2>2. status'[k] \in {"hooked", "unhooking"} => cfi
      BY <1>2, <1>1, <1>3, <1>4 DEF ReadThread, ReadInv, Reading, Parsing, Locked
    <2>3. QED
      BY <1>1, <1>4, <1>6, <2>1, <2>2, ReadStep DEF ReadSame
  <1>9. BusyInv'
    <2>1. BusyThread(t)'
      BY <1>2, <1>0, <1>3, <1>4, NoneType DEF BusyThread, Locked, OnSlot
    <2>2. \A u \in Threads : u # t => (hookBy' = u <=> hookBy = u)
      BY <1>1, <1>3, <1>4, NoneType DEF BusyThread, Locked
    <2>3. QED
      BY <1>1, <1>6, <2>1, <2>2, BusyStep
  <1>10. PageInv'
    BY <1>1, <1>4, <1>6, PageStep
  <1>11. ChainInv'
    BY <1>4 DEF ChainInv
  <1>12. EnabledInv'
    <2>1. ASSUME NEW x \in Slots, ~manual, k \notin Callee, k \in enabled'[x]
          PROVE  EnabledTask(k, x)'
      <3>1. EnabledTask(k, x)
        BY <1>1, <1>4, <2>1 DEF EnabledInv
      <3>2. QED
        BY <1>2, <1>3, <1>4, <1>5, <2>1, <3>1 DEF EnabledTask, Ahead, BusyThread, Reading, Locked, OnSlot
    <2>2. QED
      BY <1>1, <1>4, <1>6, <2>1, EnabledStep
  <1>13. OkInv'
    <2>1. ASSUME k \notin Callee PROVE OkTask(k)'
      <3>1. OkTask(k)
        BY <1>1, <2>1 DEF OkInv
      <3>2. QED
        BY <1>2, <1>3, <1>4, <3>1 DEF OkTask, BusyThread
    <2>2. ASSUME ~manual, task'[t] = k, k \notin Callee PROVE OkThread(t)'
      BY <1>4, <2>2
    <2>3. QED
      BY <1>1, <1>4, <1>5, <1>6, <2>1, <2>2, OkStep, WantedSlots DEF BusyInv, BusyThread
  <1>14. ToldInv'
    <2>1. \A j \in Tasks : told'[j] = {} /\ NoProxyOf(j) => NoProxyOf(j)'
      BY <1>4, <1>6 DEF NoProxyOf, StepOf, Slots, Proxy
    <2>2. ToldTask(k)'
      BY <1>2, <1>3, <1>4, <2>1 DEF ToldTask, Proxy
    <2>3. task'[t] = k => ToldThread(t)'
      BY <1>2, <1>1, <1>3, <1>4 DEF ToldThread, ToldTask, ToldInv, BusyThread, Reading, Locked
    <2>4. QED
      BY <1>1, <1>6, <2>1, <2>2, <2>3, ToldStep
  <1>15. QED
    BY <1>7, <1>8, <1>9, <1>10, <1>11, <1>12, <1>13, <1>14 DEF GotInv

\* A slot that has a chain leads there already.
LEMMA AddChainedKeeps ==
    ASSUME CfiLock, TablesRight, GotInv, NEW t \in Threads, AddFunc(t),
           ~manual /\ Head(slots[t]) \in chained
    PROVE  GotInv'
  <1>1. /\ Types /\ ReadInv /\ BusyInv /\ PageInv
        /\ ChainInv /\ EnabledInv /\ OkInv /\ ToldInv
    BY DEF GotInv
  <1>2. PICK k \in Tasks : k = task[t]
    BY <1>1 DEF AddFunc, Types, BusyInv, BusyThread
  <1>3. ReadThread(t) /\ BusyThread(t) /\ ToldTask(k)
    BY <1>1 DEF ReadInv, BusyInv, ToldInv
  <1>0. /\ slots[t] # <<>> /\ slots[t] \in Seq(Slots)
        /\ Head(slots[t]) \in Slots /\ Tail(slots[t]) \in Seq(Slots)
        /\ \A x : x \in Range(slots[t]) <=> x = Head(slots[t]) \/ x \in Range(Tail(slots[t]))
    <2>1. slots[t] # <<>> /\ slots[t] \in Seq(Slots)
      BY <1>1, <1>3 DEF AddFunc, BusyThread, Types, OnSlot
    <2>2. QED
      BY <2>1, HeadTail
  <1>a. PICK s \in Slots : s = Head(slots[t])
    BY <1>0
  <1>4. /\ image' = image /\ manual' = manual /\ tab' = tab
        /\ entry' = entry /\ dynParsed' = dynParsed /\ error' = error
        /\ cfi' = cfi /\ parser' = parser /\ cfiBy' = cfiBy
        /\ hookBy' = hookBy /\ got' = got /\ prot' = prot
        /\ origFunc' = origFunc /\ stuck' = stuck /\ manualOrig' = manualOrig /\ codes' = codes
        /\ told' = told /\ ok' = ok /\ task' = task
        /\ status' = status
        /\ pc[t] = "slot" /\ status[k] # "unhooking" /\ ~manual
        /\ enabled'[s] = enabled[s] \cup {k}
        /\ chained' = chained \cup {s}
        /\ \A x \in Slots : x # s => enabled'[x] = enabled[x]
        /\ s \in chained /\ pc'[t] = "slot" /\ slots'[t] = Tail(slots[t])
        /\ \A u \in Threads : u # t => pc'[u] = pc[u] /\ slots'[u] = slots[u]
    BY <1>1, <1>2, <1>a DEF AddFunc, elfVars, lockVars, taskVars, Goto, Types, Unhooking, NextSlot
  <1>5. /\ \A u \in Threads : u # t => task[u] # k
        /\ \A u \in Threads : task[u] \in Tasks \cup {None}
    BY <1>2, <1>1, NoneType DEF BusyInv, Types, BusyThread
  <1>6. StepOf(t, k)
    BY <1>2, <1>4, <1>5 DEF StepOf
  <1>7. Types'
    <2>1. pc' \in [Threads -> Where] /\ slots' \in [Threads -> Seq(Slots)]
      BY ZenonT(60), <1>0, <1>1 DEF Types, AddFunc, Goto, NextSlot, Where, Locked
    <2>2. enabled' \in [Slots -> SUBSET Tasks]
      <3>1. enabled' = [enabled EXCEPT ![s] = @ \cup {k}]
        BY <1>2, <1>a, <1>4 DEF AddFunc
      <3>2. QED
        BY <1>1, <3>1 DEF Types
    <2>3. chained' \subseteq Slots
      BY <1>1, <1>4 DEF Types
    <2>4. DOMAIN origFunc' = Slots
      BY <1>1 DEF Types, AddFunc
    <2>5. QED
      BY <1>1, <1>4, <2>1, <2>2, <2>3, <2>4 DEF Types, Slots
  <1>8. ReadInv'
    <2>1. ReadThread(t)'
      BY <1>2, <1>1, <1>3, <1>4 DEF ReadThread, ReadInv, Parsed, AllFields, Reading, Parsing, Locked
    <2>2. status'[k] \in {"hooked", "unhooking"} => cfi
      BY <1>2, <1>1, <1>3, <1>4 DEF ReadThread, ReadInv, Reading, Parsing, Locked
    <2>3. QED
      BY <1>1, <1>4, <1>6, <2>1, <2>2, ReadStep DEF ReadSame
  <1>9. BusyInv'
    <2>1. BusyThread(t)'
      BY <1>2, <1>0, <1>3, <1>4, NoneType DEF BusyThread, Locked, OnSlot
    <2>2. \A u \in Threads : u # t => (hookBy' = u <=> hookBy = u)
      BY <1>1, <1>3, <1>4, NoneType DEF BusyThread, Locked
    <2>3. QED
      BY <1>1, <1>6, <2>1, <2>2, BusyStep
  <1>10. PageInv'
    BY <1>1, <1>4, <1>6, PageStep
  <1>11. ChainInv'
    <2> SUFFICES ASSUME ~manual', NEW x \in Slots' PROVE SlotChain(x)'
      BY DEF ChainInv
    <2>1. x \in Slots /\ ~manual /\ image' = image
      BY <1>4 DEF Slots
    <2>2. SlotChain(x)
      BY <1>1, <2>1 DEF ChainInv
    <2>3. \A u \in Threads : ~AtSlot(u, x)
      BY <1>1, <1>3, <1>4 DEF AtSlot, BusyInv, BusyThread, Locked
    <2>4. \A u \in Threads : u # t => ~AtSlot(u, x)'
      BY <1>1, <1>3, <1>4 DEF AtSlot, BusyInv, BusyThread, Locked
    <2>5. Settled(x) /\ (x \in chained <=> enabled[x] # {})
      BY <2>2, <2>3 DEF SlotChain
    <2>6. ~AtSlot(t, x)'
      BY <1>4 DEF AtSlot
    <2>7. Settled(x)' /\ (x \in chained' <=> enabled'[x] # {})
      BY <1>4, <2>1, <2>5 DEF Settled, Home, Trampo
    <2>8. QED
      BY <2>4, <2>6, <2>7 DEF SlotChain
  <1>12. EnabledInv'
    <2>1. ASSUME NEW x \in Slots, ~manual, k \notin Callee, k \in enabled'[x]
          PROVE  EnabledTask(k, x)'
      <3>1. x = s \/ EnabledTask(k, x)
        BY <1>1, <1>4, <2>1 DEF EnabledInv
      <3>2. s \in TrueSlots(image, SymName[k])
        BY <1>0, <1>2, <1>a, <1>3, <1>4, <2>1 DEF BusyThread, Locked
      <3>3. x \in TrueSlots(image, SymName[k])
        BY <3>1, <3>2 DEF EnabledTask
      <3>4. status'[k] = "hooking"
        BY <1>2, <1>3, <1>4 DEF BusyThread
      <3>5. QED
        BY <1>4, <3>3, <3>4 DEF EnabledTask
    <2>2. QED
      BY <1>1, <1>4, <1>6, <2>1, EnabledStep
  <1>13. OkInv'
    <2>1. ASSUME k \notin Callee PROVE OkTask(k)'
      <3>1. OkTask(k)
        BY <1>1, <2>1 DEF OkInv
      <3>2. QED
        BY <1>2, <1>3, <1>4, <3>1 DEF OkTask, BusyThread
    <2>2. ASSUME ~manual, task'[t] = k, k \notin Callee PROVE OkThread(t)'
      <3>1. OkThread(t)
        BY <1>1, <1>2, <2>2 DEF OkInv
      <3>2. status[k] = "hooking"
        BY <1>2, <1>3, <1>4 DEF BusyThread
      <3>3. ok[t] => \A x \in TrueSlots(image, SymName[k]) : x \in Range(slots[t]) \/ k \in enabled[x]
        BY <1>2, <1>4, <3>1, <3>2 DEF OkThread, Unhooking, Locked
      <3>4. \A x \in TrueSlots(image, SymName[k]) : k \in enabled[x] => k \in enabled'[x]
        <4>1. TrueSlots(image, SymName[k]) \subseteq Slots
          BY <1>1, <2>2, WantedSlots DEF Types, Slots
        <4>2. QED
          BY <1>4, <4>1
      <3>5. QED
        BY <1>0, <1>2, <1>a, <1>4, <3>3, <3>4 DEF OkThread, OnSlot
    <2>3. QED
      BY <1>1, <1>4, <1>5, <1>6, <2>1, <2>2, OkStep, WantedSlots DEF BusyInv, BusyThread
  <1>14. ToldInv'
    <2>1. \A j \in Tasks : told'[j] = {} /\ NoProxyOf(j) => NoProxyOf(j)'
      BY <1>4, <1>6 DEF NoProxyOf, StepOf, Slots, Proxy
    <2>2. ToldTask(k)'
      BY <1>2, <1>3, <1>4, <2>1 DEF ToldTask, Proxy
    <2>3. task'[t] = k => ToldThread(t)'
      BY <1>2, <1>1, <1>3, <1>4 DEF ToldThread, ToldTask, ToldInv, BusyThread, Reading, Locked
    <2>4. QED
      BY <1>1, <1>6, <2>1, <2>2, <2>3, ToldStep
  <1>15. QED
    BY <1>7, <1>8, <1>9, <1>10, <1>11, <1>12, <1>13, <1>14 DEF GotInv

\* A new chain keeps what the slot held, the original.
LEMMA AddNewKeeps ==
    ASSUME CfiLock, TablesRight, GotInv, NEW t \in Threads, AddFunc(t),
           ~manual /\ Head(slots[t]) \notin chained
    PROVE  GotInv'
  <1>1. /\ Types /\ ReadInv /\ BusyInv /\ PageInv
        /\ ChainInv /\ EnabledInv /\ OkInv /\ ToldInv
    BY DEF GotInv
  <1>2. PICK k \in Tasks : k = task[t]
    BY <1>1 DEF AddFunc, Types, BusyInv, BusyThread
  <1>3. ReadThread(t) /\ BusyThread(t) /\ ToldTask(k)
    BY <1>1 DEF ReadInv, BusyInv, ToldInv
  <1>0. /\ slots[t] # <<>> /\ slots[t] \in Seq(Slots)
        /\ Head(slots[t]) \in Slots /\ Tail(slots[t]) \in Seq(Slots)
        /\ \A x : x \in Range(slots[t]) <=> x = Head(slots[t]) \/ x \in Range(Tail(slots[t]))
    <2>1. slots[t] # <<>> /\ slots[t] \in Seq(Slots)
      BY <1>1, <1>3 DEF AddFunc, BusyThread, Types, OnSlot
    <2>2. QED
      BY <2>1, HeadTail
  <1>a. PICK s \in Slots : s = Head(slots[t])
    BY <1>0
  <1>4. /\ image' = image /\ manual' = manual /\ tab' = tab
        /\ entry' = entry /\ dynParsed' = dynParsed /\ error' = error
        /\ cfi' = cfi /\ parser' = parser /\ cfiBy' = cfiBy
        /\ hookBy' = hookBy /\ got' = got /\ prot' = prot
        /\ stuck' = stuck /\ manualOrig' = manualOrig /\ codes' = codes /\ told' = told
        /\ slots' = slots /\ ok' = ok /\ task' = task
        /\ status' = status
        /\ pc[t] = "slot" /\ status[k] # "unhooking" /\ ~manual
        /\ enabled'[s] = enabled[s] \cup {k}
        /\ chained' = chained \cup {s}
        /\ \A x \in Slots : x # s => enabled'[x] = enabled[x]
        /\ s \notin chained /\ pc'[t] = "write" /\ origFunc'[s] = got[s]
        /\ \A u \in Threads : u # t => pc'[u] = pc[u]
        /\ \A x \in Slots : x # s => origFunc'[x] = origFunc[x]
    BY <1>1, <1>2, <1>a DEF AddFunc, elfVars, lockVars, taskVars, Goto, Types, Unhooking, NextSlot
  <1>5. /\ \A u \in Threads : u # t => task[u] # k
        /\ \A u \in Threads : task[u] \in Tasks \cup {None}
    BY <1>2, <1>1, NoneType DEF BusyInv, Types, BusyThread
  <1>6. StepOf(t, k)
    BY <1>2, <1>4, <1>5 DEF StepOf
  <1>7. Types'
    <2>1. pc' \in [Threads -> Where] /\ slots' \in [Threads -> Seq(Slots)]
      BY <1>0, <1>1 DEF Types, AddFunc, Goto, NextSlot, Where, Locked
    <2>2. enabled' \in [Slots -> SUBSET Tasks]
      <3>1. enabled' = [enabled EXCEPT ![s] = @ \cup {k}]
        BY <1>2, <1>a, <1>4 DEF AddFunc
      <3>2. QED
        BY <1>1, <3>1 DEF Types
    <2>3. chained' \subseteq Slots
      BY <1>1, <1>4 DEF Types
    <2>4. DOMAIN origFunc' = Slots
      BY <1>1 DEF Types, AddFunc
    <2>5. QED
      BY <1>1, <1>4, <2>1, <2>2, <2>3, <2>4 DEF Types, Slots
  <1>8. ReadInv'
    <2>1. ReadThread(t)'
      BY <1>2, <1>1, <1>3, <1>4 DEF ReadThread, ReadInv, Parsed, AllFields, Reading, Parsing, Locked
    <2>2. status'[k] \in {"hooked", "unhooking"} => cfi
      BY <1>2, <1>1, <1>3, <1>4 DEF ReadThread, ReadInv, Reading, Parsing, Locked
    <2>3. QED
      BY <1>1, <1>4, <1>6, <2>1, <2>2, ReadStep DEF ReadSame
  <1>9. BusyInv'
    <2>1. BusyThread(t)'
      BY <1>2, <1>0, <1>3, <1>4, NoneType DEF BusyThread, Locked, OnSlot
    <2>2. \A u \in Threads : u # t => (hookBy' = u <=> hookBy = u)
      BY <1>1, <1>3, <1>4, NoneType DEF BusyThread, Locked
    <2>3. QED
      BY <1>1, <1>6, <2>1, <2>2, BusyStep
  <1>10. PageInv'
    BY <1>1, <1>4, <1>6, PageStep
  <1>11. ChainInv'
    <2> SUFFICES ASSUME ~manual', NEW x \in Slots' PROVE SlotChain(x)'
      BY DEF ChainInv
    <2>1. x \in Slots /\ ~manual /\ image' = image
      BY <1>4 DEF Slots
    <2>2. SlotChain(x)
      BY <1>1, <2>1 DEF ChainInv
    <2>3. \A u \in Threads : ~AtSlot(u, x)
      BY <1>1, <1>3, <1>4 DEF AtSlot, BusyInv, BusyThread, Locked
    <2>4. \A u \in Threads : u # t => ~AtSlot(u, x)'
      BY <1>1, <1>3, <1>4 DEF AtSlot, BusyInv, BusyThread, Locked
    <2>5. Settled(x) /\ (x \in chained <=> enabled[x] # {})
      BY <2>2, <2>3 DEF SlotChain
    <2>6. CASE x = s
      <3>1. AtSlot(t, x)'
        BY <1>a, <1>4, <2>6 DEF AtSlot
      <3>2. got[x] = Home(x) /\ enabled'[x] = {k}
        BY <1>4, <2>5, <2>6 DEF Settled
      <3>3. got'[x] = Home(x)' /\ origFunc'[x] = Home(x)'
        BY <1>4, <2>6, <3>2 DEF Home, Trampo
      <3>4. Replacing(t, x)'
        BY <1>2, <1>4, <3>2, <3>3 DEF Replacing, Unhooking
      <3>5. x \in chained'
        BY <1>4, <2>6
      <3>6. QED
        BY <2>4, <3>1, <3>2, <3>4, <3>5 DEF SlotChain
    <2>7. CASE x # s
      <3>1. ~AtSlot(t, x)'
        BY <1>a, <1>4, <2>7 DEF AtSlot
      <3>2. Settled(x)' /\ (x \in chained' <=> enabled'[x] # {})
        BY <1>4, <2>1, <2>5, <2>7 DEF Settled, Home, Trampo
      <3>3. QED
        BY <2>4, <3>1, <3>2 DEF SlotChain
    <2>8. QED
      BY <2>6, <2>7
  <1>12. EnabledInv'
    <2>1. ASSUME NEW x \in Slots, ~manual, k \notin Callee, k \in enabled'[x]
          PROVE  EnabledTask(k, x)'
      <3>1. x = s \/ EnabledTask(k, x)
        BY <1>1, <1>4, <2>1 DEF EnabledInv
      <3>2. s \in TrueSlots(image, SymName[k])
        BY <1>0, <1>2, <1>a, <1>3, <1>4, <2>1 DEF BusyThread, Locked
      <3>3. x \in TrueSlots(image, SymName[k])
        BY <3>1, <3>2 DEF EnabledTask
      <3>4. status'[k] = "hooking"
        BY <1>2, <1>3, <1>4 DEF BusyThread
      <3>5. QED
        BY <1>4, <3>3, <3>4 DEF EnabledTask
    <2>2. QED
      BY <1>1, <1>4, <1>6, <2>1, EnabledStep
  <1>13. OkInv'
    <2>1. ASSUME k \notin Callee PROVE OkTask(k)'
      <3>1. OkTask(k)
        BY <1>1, <2>1 DEF OkInv
      <3>2. QED
        BY <1>2, <1>3, <1>4, <3>1 DEF OkTask, BusyThread
    <2>2. ASSUME ~manual, task'[t] = k, k \notin Callee PROVE OkThread(t)'
      <3>1. OkThread(t)
        BY <1>1, <1>2, <2>2 DEF OkInv
      <3>2. status[k] = "hooking"
        BY <1>2, <1>3, <1>4 DEF BusyThread
      <3>3. ok[t] => \A x \in TrueSlots(image, SymName[k]) : x \in Range(slots[t]) \/ k \in enabled[x]
        BY <1>2, <1>4, <3>1, <3>2 DEF OkThread, Unhooking, Locked
      <3>4. \A x \in TrueSlots(image, SymName[k]) : k \in enabled[x] => k \in enabled'[x]
        <4>1. TrueSlots(image, SymName[k]) \subseteq Slots
          BY <1>1, <2>2, WantedSlots DEF Types, Slots
        <4>2. QED
          BY <1>4, <4>1
      <3>5. QED
        BY <1>0, <1>2, <1>a, <1>4, <3>3, <3>4 DEF OkThread, OnSlot
    <2>3. QED
      BY <1>1, <1>4, <1>5, <1>6, <2>1, <2>2, OkStep, WantedSlots DEF BusyInv, BusyThread
  <1>14. ToldInv'
    <2>1. \A j \in Tasks : told'[j] = {} /\ NoProxyOf(j) => NoProxyOf(j)'
      BY <1>4, <1>6 DEF NoProxyOf, StepOf, Slots, Proxy
    <2>2. ToldTask(k)'
      BY <1>2, <1>3, <1>4, <2>1 DEF ToldTask, Proxy
    <2>3. task'[t] = k => ToldThread(t)'
      BY <1>2, <1>1, <1>3, <1>4 DEF ToldThread, ToldTask, ToldInv, BusyThread, Reading, Locked
    <2>4. QED
      BY <1>1, <1>6, <2>1, <2>2, <2>3, ToldStep
  <1>15. QED
    BY <1>7, <1>8, <1>9, <1>10, <1>11, <1>12, <1>13, <1>14 DEF GotInv

\* Manual mode: the slot is to get its original back.
LEMMA RemoveManualKeeps ==
    ASSUME CfiLock, TablesRight, GotInv, NEW t \in Threads, RemoveFunc(t),
           manual
    PROVE  GotInv'
  <1>1. /\ Types /\ ReadInv /\ BusyInv /\ PageInv
        /\ ChainInv /\ EnabledInv /\ OkInv /\ ToldInv
    BY DEF GotInv
  <1>2. PICK k \in Tasks : k = task[t]
    BY <1>1 DEF RemoveFunc, Types, BusyInv, BusyThread
  <1>3. ReadThread(t) /\ BusyThread(t) /\ ToldTask(k)
    BY <1>1 DEF ReadInv, BusyInv, ToldInv
  <1>0. /\ slots[t] # <<>> /\ slots[t] \in Seq(Slots)
        /\ Head(slots[t]) \in Slots /\ Tail(slots[t]) \in Seq(Slots)
        /\ \A x : x \in Range(slots[t]) <=> x = Head(slots[t]) \/ x \in Range(Tail(slots[t]))
    <2>1. slots[t] # <<>> /\ slots[t] \in Seq(Slots)
      BY <1>1, <1>3 DEF RemoveFunc, BusyThread, Types, OnSlot
    <2>2. QED
      BY <2>1, HeadTail
  <1>a. PICK s \in Slots : s = Head(slots[t])
    BY <1>0
  <1>4. /\ image' = image /\ manual' = manual /\ tab' = tab
        /\ entry' = entry /\ dynParsed' = dynParsed /\ error' = error
        /\ cfi' = cfi /\ parser' = parser /\ cfiBy' = cfiBy
        /\ hookBy' = hookBy /\ got' = got /\ prot' = prot
        /\ chained' = chained /\ enabled' = enabled /\ origFunc' = origFunc /\ stuck' = stuck
        /\ manualOrig' = manualOrig /\ codes' = codes /\ told' = told
        /\ slots' = slots /\ ok' = ok /\ task' = task
        /\ status' = status
        /\ pc[t] = "slot" /\ status[k] = "unhooking" /\ manual /\ pc'[t] = "write"
        /\ \A u \in Threads : u # t => pc'[u] = pc[u]
    BY <1>1, <1>2, <1>a DEF RemoveFunc, elfVars, lockVars, taskVars, Goto, Types, Unhooking, NextSlot, DelFunc
  <1>5. /\ \A u \in Threads : u # t => task[u] # k
        /\ \A u \in Threads : task[u] \in Tasks \cup {None}
    BY <1>2, <1>1, NoneType DEF BusyInv, Types, BusyThread
  <1>6. StepOf(t, k)
    BY <1>2, <1>4, <1>5 DEF StepOf
  <1>7. Types'
    <2>1. pc' \in [Threads -> Where]
      BY <1>1 DEF Types, RemoveFunc, Goto, Where, Locked
    <2>2. QED
      BY <1>1, <1>4, <2>1 DEF Types, Slots
  <1>8. ReadInv'
    <2>1. ReadThread(t)'
      BY <1>2, <1>1, <1>3, <1>4 DEF ReadThread, ReadInv, Parsed, AllFields, Reading, Parsing, Locked
    <2>2. status'[k] \in {"hooked", "unhooking"} => cfi
      BY <1>2, <1>1, <1>3, <1>4 DEF ReadThread, ReadInv, Reading, Parsing, Locked
    <2>3. QED
      BY <1>1, <1>4, <1>6, <2>1, <2>2, ReadStep DEF ReadSame
  <1>9. BusyInv'
    <2>1. BusyThread(t)'
      BY <1>2, <1>0, <1>3, <1>4, NoneType DEF BusyThread, Locked, OnSlot
    <2>2. \A u \in Threads : u # t => (hookBy' = u <=> hookBy = u)
      BY <1>1, <1>3, <1>4, NoneType DEF BusyThread, Locked
    <2>3. QED
      BY <1>1, <1>6, <2>1, <2>2, BusyStep
  <1>10. PageInv'
    BY <1>1, <1>4, <1>6, PageStep
  <1>11. ChainInv'
    BY <1>4 DEF ChainInv
  <1>12. EnabledInv'
    <2>1. ASSUME NEW x \in Slots, ~manual, k \notin Callee, k \in enabled'[x]
          PROVE  EnabledTask(k, x)'
      <3>1. EnabledTask(k, x)
        BY <1>1, <1>4, <2>1 DEF EnabledInv
      <3>2. QED
        BY <1>2, <1>3, <1>4, <1>5, <2>1, <3>1 DEF EnabledTask, Ahead, BusyThread, Reading, Locked, OnSlot
    <2>2. QED
      BY <1>1, <1>4, <1>6, <2>1, EnabledStep
  <1>13. OkInv'
    <2>1. ASSUME k \notin Callee PROVE OkTask(k)'
      <3>1. OkTask(k)
        BY <1>1, <2>1 DEF OkInv
      <3>2. QED
        BY <1>2, <1>3, <1>4, <3>1 DEF OkTask, BusyThread
    <2>2. ASSUME ~manual, task'[t] = k, k \notin Callee PROVE OkThread(t)'
      BY <1>2, <1>4 DEF OkThread, Unhooking
    <2>3. QED
      BY <1>1, <1>4, <1>5, <1>6, <2>1, <2>2, OkStep, WantedSlots DEF BusyInv, BusyThread
  <1>14. ToldInv'
    <2>1. \A j \in Tasks : told'[j] = {} /\ NoProxyOf(j) => NoProxyOf(j)'
      BY <1>4, <1>6 DEF NoProxyOf, StepOf, Slots, Proxy
    <2>2. ToldTask(k)'
      BY <1>2, <1>3, <1>4, <2>1 DEF ToldTask, Proxy
    <2>3. task'[t] = k => ToldThread(t)'
      BY <1>2, <1>1, <1>3, <1>4 DEF ToldThread, ToldTask, ToldInv, BusyThread, Reading, Locked
    <2>4. QED
      BY <1>1, <1>6, <2>1, <2>2, <2>3, ToldStep
  <1>15. QED
    BY <1>7, <1>8, <1>9, <1>10, <1>11, <1>12, <1>13, <1>14 DEF GotInv

\* A slot without a chain has nothing of the task.
LEMMA RemoveNothingKeeps ==
    ASSUME CfiLock, TablesRight, GotInv, NEW t \in Threads, RemoveFunc(t),
           ~manual /\ Head(slots[t]) \notin chained
    PROVE  GotInv'
  <1>1. /\ Types /\ ReadInv /\ BusyInv /\ PageInv
        /\ ChainInv /\ EnabledInv /\ OkInv /\ ToldInv
    BY DEF GotInv
  <1>2. PICK k \in Tasks : k = task[t]
    BY <1>1 DEF RemoveFunc, Types, BusyInv, BusyThread
  <1>3. ReadThread(t) /\ BusyThread(t) /\ ToldTask(k)
    BY <1>1 DEF ReadInv, BusyInv, ToldInv
  <1>0. /\ slots[t] # <<>> /\ slots[t] \in Seq(Slots)
        /\ Head(slots[t]) \in Slots /\ Tail(slots[t]) \in Seq(Slots)
        /\ \A x : x \in Range(slots[t]) <=> x = Head(slots[t]) \/ x \in Range(Tail(slots[t]))
    <2>1. slots[t] # <<>> /\ slots[t] \in Seq(Slots)
      BY <1>1, <1>3 DEF RemoveFunc, BusyThread, Types, OnSlot
    <2>2. QED
      BY <2>1, HeadTail
  <1>a. PICK s \in Slots : s = Head(slots[t])
    BY <1>0
  <1>4. /\ image' = image /\ manual' = manual /\ tab' = tab
        /\ entry' = entry /\ dynParsed' = dynParsed /\ error' = error
        /\ cfi' = cfi /\ parser' = parser /\ cfiBy' = cfiBy
        /\ hookBy' = hookBy /\ got' = got /\ prot' = prot
        /\ chained' = chained /\ enabled' = enabled /\ origFunc' = origFunc /\ stuck' = stuck
        /\ manualOrig' = manualOrig /\ codes' = codes /\ told' = told
        /\ ok' = ok /\ task' = task /\ status' = status
        /\ pc[t] = "slot" /\ status[k] = "unhooking" /\ ~manual
        /\ s \notin chained /\ pc'[t] = "slot" /\ slots'[t] = Tail(slots[t])
        /\ \A u \in Threads : u # t => pc'[u] = pc[u] /\ slots'[u] = slots[u]
    BY <1>1, <1>2, <1>a DEF RemoveFunc, elfVars, lockVars, taskVars, Goto, Types, Unhooking, NextSlot, DelFunc
  <1>5. /\ \A u \in Threads : u # t => task[u] # k
        /\ \A u \in Threads : task[u] \in Tasks \cup {None}
    BY <1>2, <1>1, NoneType DEF BusyInv, Types, BusyThread
  <1>6. StepOf(t, k)
    BY <1>2, <1>4, <1>5 DEF StepOf
  <1>7. Types'
    <2>1. pc' \in [Threads -> Where] /\ slots' \in [Threads -> Seq(Slots)]
      BY ZenonT(60), <1>0, <1>1 DEF Types, RemoveFunc, Goto, NextSlot, Where, Locked
    <2>2. enabled' \in [Slots -> SUBSET Tasks]
      BY <1>0, <1>1, <1>4 DEF Types, RemoveFunc, DelFunc
    <2>3. chained' \subseteq Slots
      BY <1>1, <1>4 DEF Types
    <2>5. QED
      BY <1>1, <1>4, <2>1, <2>2, <2>3 DEF Types, Slots
  <1>8. ReadInv'
    <2>1. ReadThread(t)'
      BY <1>2, <1>1, <1>3, <1>4 DEF ReadThread, ReadInv, Parsed, AllFields, Reading, Parsing, Locked
    <2>2. status'[k] \in {"hooked", "unhooking"} => cfi
      BY <1>2, <1>1, <1>3, <1>4 DEF ReadThread, ReadInv, Reading, Parsing, Locked
    <2>3. QED
      BY <1>1, <1>4, <1>6, <2>1, <2>2, ReadStep DEF ReadSame
  <1>9. BusyInv'
    <2>1. BusyThread(t)'
      BY <1>2, <1>0, <1>3, <1>4, NoneType DEF BusyThread, Locked, OnSlot
    <2>2. \A u \in Threads : u # t => (hookBy' = u <=> hookBy = u)
      BY <1>1, <1>3, <1>4, NoneType DEF BusyThread, Locked
    <2>3. QED
      BY <1>1, <1>6, <2>1, <2>2, BusyStep
  <1>10. PageInv'
    BY <1>1, <1>4, <1>6, PageStep
  <1>11. ChainInv'
    BY <1>1, <1>4, <1>5, <1>6, ChainStep DEF BusyInv, BusyThread
  <1>12. EnabledInv'
    <2>1. ASSUME NEW x \in Slots, ~manual, k \notin Callee, k \in enabled'[x]
          PROVE  EnabledTask(k, x)'
      <3>1. k \in enabled[x] /\ EnabledTask(k, x) /\ x # s
        BY <1>1, <1>4, <2>1 DEF EnabledInv, ChainInv, SlotChain
      <3>2. \A u \in Threads : task'[u] = k => u = t
        BY <1>4, <1>5
      <3>3. x \in Range(slots[t])
        BY <1>2, <1>4, <3>1 DEF EnabledTask, Ahead, Reading, OnSlot
      <3>4. x \in Range(Tail(slots[t]))
        BY <1>0, <1>a, <3>1, <3>3
      <3>5. Ahead(t, x)'
        BY <1>4, <3>3, <3>4 DEF Ahead, OnSlot
      <3>6. QED
        BY <1>4, <3>1, <3>2, <3>5 DEF EnabledTask
    <2>2. QED
      BY <1>1, <1>4, <1>6, <2>1, EnabledStep
  <1>13. OkInv'
    <2>1. ASSUME k \notin Callee PROVE OkTask(k)'
      <3>1. OkTask(k)
        BY <1>1, <2>1 DEF OkInv
      <3>2. QED
        BY <1>2, <1>3, <1>4, <3>1 DEF OkTask, BusyThread
    <2>2. ASSUME ~manual, task'[t] = k, k \notin Callee PROVE OkThread(t)'
      BY <1>2, <1>4 DEF OkThread, Unhooking
    <2>3. QED
      BY <1>1, <1>4, <1>5, <1>6, <2>1, <2>2, OkStep, WantedSlots DEF BusyInv, BusyThread
  <1>14. ToldInv'
    <2>1. \A j \in Tasks : told'[j] = {} /\ NoProxyOf(j) => NoProxyOf(j)'
      BY <1>4, <1>6 DEF NoProxyOf, StepOf, Slots, Proxy
    <2>2. ToldTask(k)'
      BY <1>2, <1>3, <1>4, <2>1 DEF ToldTask, Proxy
    <2>3. task'[t] = k => ToldThread(t)'
      BY <1>2, <1>1, <1>3, <1>4 DEF ToldThread, ToldTask, ToldInv, BusyThread, Reading, Locked
    <2>4. QED
      BY <1>1, <1>6, <2>1, <2>2, <2>3, ToldStep
  <1>15. QED
    BY <1>7, <1>8, <1>9, <1>10, <1>11, <1>12, <1>13, <1>14 DEF GotInv

\* The last proxy takes the chain with it, and the slot is to be replaced.
LEMMA RemoveLastKeeps ==
    ASSUME CfiLock, TablesRight, GotInv, NEW t \in Threads, RemoveFunc(t),
           ~manual /\ Head(slots[t]) \in chained /\ enabled[Head(slots[t])] \subseteq {task[t]}
    PROVE  GotInv'
  <1>1. /\ Types /\ ReadInv /\ BusyInv /\ PageInv
        /\ ChainInv /\ EnabledInv /\ OkInv /\ ToldInv
    BY DEF GotInv
  <1>2. PICK k \in Tasks : k = task[t]
    BY <1>1 DEF RemoveFunc, Types, BusyInv, BusyThread
  <1>3. ReadThread(t) /\ BusyThread(t) /\ ToldTask(k)
    BY <1>1 DEF ReadInv, BusyInv, ToldInv
  <1>0. /\ slots[t] # <<>> /\ slots[t] \in Seq(Slots)
        /\ Head(slots[t]) \in Slots /\ Tail(slots[t]) \in Seq(Slots)
        /\ \A x : x \in Range(slots[t]) <=> x = Head(slots[t]) \/ x \in Range(Tail(slots[t]))
    <2>1. slots[t] # <<>> /\ slots[t] \in Seq(Slots)
      BY <1>1, <1>3 DEF RemoveFunc, BusyThread, Types, OnSlot
    <2>2. QED
      BY <2>1, HeadTail
  <1>a. PICK s \in Slots : s = Head(slots[t])
    BY <1>0
  <1>4. /\ image' = image /\ manual' = manual /\ tab' = tab
        /\ entry' = entry /\ dynParsed' = dynParsed /\ error' = error
        /\ cfi' = cfi /\ parser' = parser /\ cfiBy' = cfiBy
        /\ hookBy' = hookBy /\ got' = got /\ prot' = prot
        /\ origFunc' = origFunc /\ stuck' = stuck /\ manualOrig' = manualOrig /\ codes' = codes
        /\ told' = told /\ slots' = slots /\ ok' = ok
        /\ task' = task /\ status' = status
        /\ pc[t] = "slot" /\ status[k] = "unhooking" /\ ~manual
        /\ s \in chained /\ enabled[s] \subseteq {k} /\ pc'[t] = "write" /\ enabled'[s] = {} /\ chained' = chained \ {s}
        /\ \A x \in Slots : x # s => enabled'[x] = enabled[x]
        /\ \A u \in Threads : u # t => pc'[u] = pc[u]
    BY <1>1, <1>2, <1>a DEF RemoveFunc, elfVars, lockVars, taskVars, Goto, Types, Unhooking, NextSlot, DelFunc
  <1>5. /\ \A u \in Threads : u # t => task[u] # k
        /\ \A u \in Threads : task[u] \in Tasks \cup {None}
    BY <1>2, <1>1, NoneType DEF BusyInv, Types, BusyThread
  <1>6. StepOf(t, k)
    BY <1>2, <1>4, <1>5 DEF StepOf
  <1>7. Types'
    <2>1. pc' \in [Threads -> Where] /\ slots' \in [Threads -> Seq(Slots)]
      BY <1>0, <1>1 DEF Types, RemoveFunc, Goto, NextSlot, Where, Locked
    <2>2. enabled' \in [Slots -> SUBSET Tasks]
      BY <1>0, <1>1, <1>4 DEF Types, RemoveFunc, DelFunc
    <2>3. chained' \subseteq Slots
      BY <1>1, <1>4 DEF Types
    <2>5. QED
      BY <1>1, <1>4, <2>1, <2>2, <2>3 DEF Types, Slots
  <1>8. ReadInv'
    <2>1. ReadThread(t)'
      BY <1>2, <1>1, <1>3, <1>4 DEF ReadThread, ReadInv, Parsed, AllFields, Reading, Parsing, Locked
    <2>2. status'[k] \in {"hooked", "unhooking"} => cfi
      BY <1>2, <1>1, <1>3, <1>4 DEF ReadThread, ReadInv, Reading, Parsing, Locked
    <2>3. QED
      BY <1>1, <1>4, <1>6, <2>1, <2>2, ReadStep DEF ReadSame
  <1>9. BusyInv'
    <2>1. BusyThread(t)'
      BY <1>2, <1>0, <1>3, <1>4, NoneType DEF BusyThread, Locked, OnSlot
    <2>2. \A u \in Threads : u # t => (hookBy' = u <=> hookBy = u)
      BY <1>1, <1>3, <1>4, NoneType DEF BusyThread, Locked
    <2>3. QED
      BY <1>1, <1>6, <2>1, <2>2, BusyStep
  <1>10. PageInv'
    BY <1>1, <1>4, <1>6, PageStep
  <1>11. ChainInv'
    <2> SUFFICES ASSUME ~manual', NEW x \in Slots' PROVE SlotChain(x)'
      BY DEF ChainInv
    <2>1. x \in Slots /\ ~manual /\ image' = image
      BY <1>4 DEF Slots
    <2>2. SlotChain(x)
      BY <1>1, <2>1 DEF ChainInv
    <2>3. \A u \in Threads : ~AtSlot(u, x)
      BY <1>1, <1>3, <1>4 DEF AtSlot, BusyInv, BusyThread, Locked
    <2>4. \A u \in Threads : u # t => ~AtSlot(u, x)'
      BY <1>1, <1>3, <1>4 DEF AtSlot, BusyInv, BusyThread, Locked
    <2>5. Settled(x) /\ (x \in chained <=> enabled[x] # {})
      BY <2>2, <2>3 DEF SlotChain
    <2>6. CASE x = s
      <3>1. AtSlot(t, x)'
        BY <1>a, <1>4, <2>6 DEF AtSlot
      <3>2. /\ enabled'[x] = {} /\ got'[x] = Trampo(x) /\ origFunc'[x] = image.orig[x]
            /\ Protect(image, x) # {} /\ x \notin stuck
        BY <1>4, <2>5, <2>6 DEF Settled, Home, Trampo
      <3>3. Replacing(t, x)'
        BY <1>2, <1>4, <3>2 DEF Replacing, Unhooking, Trampo, Home
      <3>4. x \notin chained'
        BY <1>4, <2>6
      <3>5. QED
        BY <2>4, <3>1, <3>2, <3>3, <3>4 DEF SlotChain
    <2>7. CASE x # s
      <3>1. ~AtSlot(t, x)'
        BY <1>a, <1>4, <2>7 DEF AtSlot
      <3>2. Settled(x)' /\ (x \in chained' <=> enabled'[x] # {})
        BY <1>4, <2>1, <2>5, <2>7 DEF Settled, Home, Trampo
      <3>3. QED
        BY <2>4, <3>1, <3>2 DEF SlotChain
    <2>8. QED
      BY <2>6, <2>7
  <1>12. EnabledInv'
    <2>1. ASSUME NEW x \in Slots, ~manual, k \notin Callee, k \in enabled'[x]
          PROVE  EnabledTask(k, x)'
      <3>1. k \in enabled[x] /\ EnabledTask(k, x) /\ x # s
        BY <1>1, <1>4, <2>1 DEF EnabledInv
      <3>2. \A u \in Threads : task'[u] = k => u = t
        BY <1>4, <1>5
      <3>3. x \in Range(slots[t])
        BY <1>2, <1>4, <3>1 DEF EnabledTask, Ahead, Reading, OnSlot
      <3>4. x \in Range(Tail(slots[t]))
        BY <1>0, <1>a, <3>1, <3>3
      <3>5. Ahead(t, x)'
        BY <1>4, <3>3, <3>4 DEF Ahead, OnSlot
      <3>6. QED
        BY <1>4, <3>1, <3>2, <3>5 DEF EnabledTask
    <2>2. QED
      BY <1>1, <1>4, <1>6, <2>1, EnabledStep
  <1>13. OkInv'
    <2>1. ASSUME k \notin Callee PROVE OkTask(k)'
      <3>1. OkTask(k)
        BY <1>1, <2>1 DEF OkInv
      <3>2. QED
        BY <1>2, <1>3, <1>4, <3>1 DEF OkTask, BusyThread
    <2>2. ASSUME ~manual, task'[t] = k, k \notin Callee PROVE OkThread(t)'
      BY <1>2, <1>4 DEF OkThread, Unhooking
    <2>3. QED
      BY <1>1, <1>4, <1>5, <1>6, <2>1, <2>2, OkStep, WantedSlots DEF BusyInv, BusyThread
  <1>14. ToldInv'
    <2>1. \A j \in Tasks : told'[j] = {} /\ NoProxyOf(j) => NoProxyOf(j)'
      BY <1>4, <1>6 DEF NoProxyOf, StepOf, Slots, Proxy
    <2>2. ToldTask(k)'
      BY <1>2, <1>3, <1>4, <2>1 DEF ToldTask, Proxy
    <2>3. task'[t] = k => ToldThread(t)'
      BY <1>2, <1>1, <1>3, <1>4 DEF ToldThread, ToldTask, ToldInv, BusyThread, Reading, Locked
    <2>4. QED
      BY <1>1, <1>6, <2>1, <2>2, <2>3, ToldStep
  <1>15. QED
    BY <1>7, <1>8, <1>9, <1>10, <1>11, <1>12, <1>13, <1>14 DEF GotInv

\* A chain with other proxies stays.
LEMMA RemoveOneKeeps ==
    ASSUME CfiLock, TablesRight, GotInv, NEW t \in Threads, RemoveFunc(t),
           ~manual /\ Head(slots[t]) \in chained /\ ~(enabled[Head(slots[t])] \subseteq {task[t]})
    PROVE  GotInv'
  <1>1. /\ Types /\ ReadInv /\ BusyInv /\ PageInv
        /\ ChainInv /\ EnabledInv /\ OkInv /\ ToldInv
    BY DEF GotInv
  <1>2. PICK k \in Tasks : k = task[t]
    BY <1>1 DEF RemoveFunc, Types, BusyInv, BusyThread
  <1>3. ReadThread(t) /\ BusyThread(t) /\ ToldTask(k)
    BY <1>1 DEF ReadInv, BusyInv, ToldInv
  <1>0. /\ slots[t] # <<>> /\ slots[t] \in Seq(Slots)
        /\ Head(slots[t]) \in Slots /\ Tail(slots[t]) \in Seq(Slots)
        /\ \A x : x \in Range(slots[t]) <=> x = Head(slots[t]) \/ x \in Range(Tail(slots[t]))
    <2>1. slots[t] # <<>> /\ slots[t] \in Seq(Slots)
      BY <1>1, <1>3 DEF RemoveFunc, BusyThread, Types, OnSlot
    <2>2. QED
      BY <2>1, HeadTail
  <1>a. PICK s \in Slots : s = Head(slots[t])
    BY <1>0
  <1>4. /\ image' = image /\ manual' = manual /\ tab' = tab
        /\ entry' = entry /\ dynParsed' = dynParsed /\ error' = error
        /\ cfi' = cfi /\ parser' = parser /\ cfiBy' = cfiBy
        /\ hookBy' = hookBy /\ got' = got /\ prot' = prot
        /\ origFunc' = origFunc /\ stuck' = stuck /\ manualOrig' = manualOrig /\ codes' = codes
        /\ told' = told /\ ok' = ok /\ task' = task
        /\ status' = status
        /\ pc[t] = "slot" /\ status[k] = "unhooking" /\ ~manual
        /\ s \in chained /\ ~(enabled[s] \subseteq {k}) /\ pc'[t] = "slot" /\ slots'[t] = Tail(slots[t])
        /\ enabled'[s] = enabled[s] \ {k} /\ chained' = chained
        /\ \A x \in Slots : x # s => enabled'[x] = enabled[x]
        /\ \A u \in Threads : u # t => pc'[u] = pc[u] /\ slots'[u] = slots[u]
    BY <1>1, <1>2, <1>a DEF RemoveFunc, elfVars, lockVars, taskVars, Goto, Types, Unhooking, NextSlot, DelFunc
  <1>5. /\ \A u \in Threads : u # t => task[u] # k
        /\ \A u \in Threads : task[u] \in Tasks \cup {None}
    BY <1>2, <1>1, NoneType DEF BusyInv, Types, BusyThread
  <1>6. StepOf(t, k)
    BY <1>2, <1>4, <1>5 DEF StepOf
  <1>7. Types'
    <2>1. pc' \in [Threads -> Where] /\ slots' \in [Threads -> Seq(Slots)]
      BY ZenonT(60), <1>0, <1>1 DEF Types, RemoveFunc, Goto, NextSlot, Where, Locked
    <2>2. enabled' \in [Slots -> SUBSET Tasks]
      BY <1>0, <1>1, <1>4 DEF Types, RemoveFunc, DelFunc
    <2>3. chained' \subseteq Slots
      BY <1>1, <1>4 DEF Types
    <2>5. QED
      BY <1>1, <1>4, <2>1, <2>2, <2>3 DEF Types, Slots
  <1>8. ReadInv'
    <2>1. ReadThread(t)'
      BY <1>2, <1>1, <1>3, <1>4 DEF ReadThread, ReadInv, Parsed, AllFields, Reading, Parsing, Locked
    <2>2. status'[k] \in {"hooked", "unhooking"} => cfi
      BY <1>2, <1>1, <1>3, <1>4 DEF ReadThread, ReadInv, Reading, Parsing, Locked
    <2>3. QED
      BY <1>1, <1>4, <1>6, <2>1, <2>2, ReadStep DEF ReadSame
  <1>9. BusyInv'
    <2>1. BusyThread(t)'
      BY <1>2, <1>0, <1>3, <1>4, NoneType DEF BusyThread, Locked, OnSlot
    <2>2. \A u \in Threads : u # t => (hookBy' = u <=> hookBy = u)
      BY <1>1, <1>3, <1>4, NoneType DEF BusyThread, Locked
    <2>3. QED
      BY <1>1, <1>6, <2>1, <2>2, BusyStep
  <1>10. PageInv'
    BY <1>1, <1>4, <1>6, PageStep
  <1>11. ChainInv'
    <2> SUFFICES ASSUME ~manual', NEW x \in Slots' PROVE SlotChain(x)'
      BY DEF ChainInv
    <2>1. x \in Slots /\ ~manual /\ image' = image
      BY <1>4 DEF Slots
    <2>2. SlotChain(x)
      BY <1>1, <2>1 DEF ChainInv
    <2>3. \A u \in Threads : ~AtSlot(u, x)
      BY <1>1, <1>3, <1>4 DEF AtSlot, BusyInv, BusyThread, Locked
    <2>4. \A u \in Threads : u # t => ~AtSlot(u, x)'
      BY <1>1, <1>3, <1>4 DEF AtSlot, BusyInv, BusyThread, Locked
    <2>5. Settled(x) /\ (x \in chained <=> enabled[x] # {})
      BY <2>2, <2>3 DEF SlotChain
    <2>6. ~AtSlot(t, x)'
      BY <1>4 DEF AtSlot
    <2>7. x \in chained' <=> enabled'[x] # {}
      BY <1>4, <2>1, <2>5
    <2>8. Settled(x)'
      BY <1>4, <2>1, <2>5 DEF Settled, Home, Trampo
    <2>9. QED
      BY <2>4, <2>6, <2>7, <2>8 DEF SlotChain
  <1>12. EnabledInv'
    <2>1. ASSUME NEW x \in Slots, ~manual, k \notin Callee, k \in enabled'[x]
          PROVE  EnabledTask(k, x)'
      <3>1. k \in enabled[x] /\ EnabledTask(k, x) /\ x # s
        BY <1>1, <1>4, <2>1 DEF EnabledInv
      <3>2. \A u \in Threads : task'[u] = k => u = t
        BY <1>4, <1>5
      <3>3. x \in Range(slots[t])
        BY <1>2, <1>4, <3>1 DEF EnabledTask, Ahead, Reading, OnSlot
      <3>4. x \in Range(Tail(slots[t]))
        BY <1>0, <1>a, <3>1, <3>3
      <3>5. Ahead(t, x)'
        BY <1>4, <3>3, <3>4 DEF Ahead, OnSlot
      <3>6. QED
        BY <1>4, <3>1, <3>2, <3>5 DEF EnabledTask
    <2>2. QED
      BY <1>1, <1>4, <1>6, <2>1, EnabledStep
  <1>13. OkInv'
    <2>1. ASSUME k \notin Callee PROVE OkTask(k)'
      <3>1. OkTask(k)
        BY <1>1, <2>1 DEF OkInv
      <3>2. QED
        BY <1>2, <1>3, <1>4, <3>1 DEF OkTask, BusyThread
    <2>2. ASSUME ~manual, task'[t] = k, k \notin Callee PROVE OkThread(t)'
      BY <1>2, <1>4 DEF OkThread, Unhooking
    <2>3. QED
      BY <1>1, <1>4, <1>5, <1>6, <2>1, <2>2, OkStep, WantedSlots DEF BusyInv, BusyThread
  <1>14. ToldInv'
    <2>1. \A j \in Tasks : told'[j] = {} /\ NoProxyOf(j) => NoProxyOf(j)'
      BY <1>4, <1>6 DEF NoProxyOf, StepOf, Slots, Proxy
    <2>2. ToldTask(k)'
      BY <1>2, <1>3, <1>4, <2>1 DEF ToldTask, Proxy
    <2>3. task'[t] = k => ToldThread(t)'
      BY <1>2, <1>1, <1>3, <1>4 DEF ToldThread, ToldTask, ToldInv, BusyThread, Reading, Locked
    <2>4. QED
      BY <1>1, <1>6, <2>1, <2>2, <2>3, ToldStep
  <1>15. QED
    BY <1>7, <1>8, <1>9, <1>10, <1>11, <1>12, <1>13, <1>14 DEF GotInv

\* The store finds its page writable; a proxy goes into a slot when its task was told.
LEMMA StoreKeeps ==
    ASSUME CfiLock, TablesRight, GotInv, NEW t \in Threads, Store(t)
    PROVE  GotInv'
  <1>1. /\ Types /\ ReadInv /\ BusyInv /\ PageInv
        /\ ChainInv /\ EnabledInv /\ OkInv /\ ToldInv
    BY DEF GotInv
  <1>2. PICK k \in Tasks : k = task[t]
    BY <1>1 DEF Store, SetManualOrigFunc, Types, BusyInv, BusyThread
  <1>3. ReadThread(t) /\ BusyThread(t) /\ ToldTask(k)
    BY <1>1 DEF ReadInv, BusyInv, ToldInv
  <1>0. /\ slots[t] # <<>> /\ slots[t] \in Seq(Slots)
        /\ Head(slots[t]) \in Slots /\ Tail(slots[t]) \in Seq(Slots)
        /\ \A x : x \in Range(slots[t]) <=> x = Head(slots[t]) \/ x \in Range(Tail(slots[t]))
    <2>1. slots[t] # <<>> /\ slots[t] \in Seq(Slots)
      BY <1>1, <1>3 DEF Store, SetManualOrigFunc, BusyThread, Types, OnSlot
    <2>2. QED
      BY <2>1, HeadTail
  <1>a. PICK s \in Slots : s = Head(slots[t])
    BY <1>0
  <1>4. /\ image' = image /\ manual' = manual /\ tab' = tab
        /\ entry' = entry /\ dynParsed' = dynParsed /\ error' = error
        /\ cfi' = cfi /\ parser' = parser /\ cfiBy' = cfiBy
        /\ hookBy' = hookBy /\ prot' = prot /\ chained' = chained
        /\ enabled' = enabled /\ origFunc' = origFunc /\ stuck' = stuck /\ codes' = codes
        /\ told' = told /\ slots' = slots /\ ok' = ok
        /\ task' = task /\ status' = status
        /\ pc[t] = "store" /\ pc'[t] = "seal"
        /\ \A u \in Threads : u # t => pc'[u] = pc[u]
        /\ \A x \in Slots : x # s => got'[x] = got[x]
        /\ \/ /\ ~manual /\ status[k] = "hooking" /\ got'[s] = Trampo(s)
              /\ manualOrig'[k] = manualOrig[k]
           \/ /\ ~manual /\ status[k] = "unhooking" /\ got'[s] = origFunc[s]
              /\ manualOrig'[k] = manualOrig[k]
           \/ /\ manual /\ status[k] = "hooking" /\ got'[s] = Proxy(k)
              /\ manualOrig'[k] = manualOrig[k] \cup {got[s]}
           \/ /\ manual /\ status[k] = "unhooking" /\ got'[s] \in manualOrig[k]
              /\ manualOrig'[k] = manualOrig[k]
        /\ \A j \in Tasks : j # k => manualOrig'[j] = manualOrig[j]
    <2>1. pc[t] = "store" /\ (status[k] = "unhooking" \/ status[k] = "hooking")
      BY <1>2, <1>3 DEF Store, SetManualOrigFunc, BusyThread
    <2>2. "w" \in prot[s]
      <3>1. Opened(s)
        BY <1>a, <2>1 DEF Opened
      <3>2. QED
        BY <1>1, <3>1 DEF PageInv
    <2>3. /\ got' = [got EXCEPT ![s] = NewValue(t, s)]
          /\ IF manual /\ ~Unhooking(t)
             THEN manualOrig' = [manualOrig EXCEPT ![k] = @ \cup {got[s]}]
             ELSE manualOrig' = manualOrig
          /\ error' = error /\ ok' = ok /\ codes' = codes /\ chained' = chained /\ enabled' = enabled
          /\ pc' = [pc EXCEPT ![t] = "seal"]
      BY <1>2, <1>a, <2>2 DEF Store, SetManualOrigFunc, Goto
    <2>4. /\ got'[s] = NewValue(t, s)
          /\ \A x \in Slots : x # s => got'[x] = got[x]
          /\ \A j \in Tasks : j # k => manualOrig'[j] = manualOrig[j]
          /\ manualOrig'[k] = IF manual /\ status[k] # "unhooking"
                              THEN manualOrig[k] \cup {got[s]} ELSE manualOrig[k]
          /\ pc'[t] = "seal" /\ \A u \in Threads : u # t => pc'[u] = pc[u]
      BY <1>1, <1>2, <2>3 DEF Types, Unhooking
    <2>5. manual /\ status[k] = "unhooking" => manualOrig[k] # {}
      BY <1>3 DEF ToldTask
    <2>6. /\ status[k] = "unhooking" /\ manual => NewValue(t, s) \in manualOrig[k]
          /\ status[k] = "unhooking" /\ ~manual => NewValue(t, s) = origFunc[s]
          /\ status[k] = "hooking" /\ manual => NewValue(t, s) = Proxy(k)
          /\ status[k] = "hooking" /\ ~manual => NewValue(t, s) = Trampo(s)
      BY <1>2, <2>5 DEF NewValue, Unhooking
    <2>7. /\ image' = image /\ manual' = manual /\ tab' = tab /\ entry' = entry
          /\ dynParsed' = dynParsed /\ cfi' = cfi /\ parser' = parser /\ cfiBy' = cfiBy
          /\ hookBy' = hookBy /\ prot' = prot /\ origFunc' = origFunc /\ stuck' = stuck
          /\ status' = status
          /\ told' = told /\ task' = task /\ slots' = slots
      BY DEF Store, SetManualOrigFunc, lockVars
    <2>8. QED
      BY <2>1, <2>3, <2>4, <2>6, <2>7
  <1>5. /\ \A u \in Threads : u # t => task[u] # k
        /\ \A u \in Threads : task[u] \in Tasks \cup {None}
    BY <1>2, <1>1, NoneType DEF BusyInv, Types, BusyThread
  <1>6. StepOf(t, k)
    BY <1>2, <1>4, <1>5 DEF StepOf
  <1>7. Types'
    <2>1. pc' \in [Threads -> Where]
      BY <1>1 DEF Types, Store, SetManualOrigFunc, Goto, Where, Locked
    <2>2. DOMAIN got' = Slots /\ DOMAIN manualOrig' = Tasks
      BY <1>1, <1>4 DEF Types, Store, SetManualOrigFunc
    <2>3. QED
      BY <1>1, <1>4, <2>1, <2>2 DEF Types, Slots
  <1>8. ReadInv'
    <2>1. ReadThread(t)'
      BY <1>2, <1>1, <1>3, <1>4 DEF ReadThread, ReadInv, Parsed, AllFields, Reading, Parsing, Locked
    <2>2. status'[k] \in {"hooked", "unhooking"} => cfi
      BY <1>2, <1>1, <1>3, <1>4 DEF ReadThread, ReadInv, Reading, Parsing, Locked
    <2>3. QED
      BY <1>1, <1>4, <1>6, <2>1, <2>2, ReadStep DEF ReadSame
  <1>9. BusyInv'
    <2>1. BusyThread(t)'
      BY <1>2, <1>1, <1>3, <1>4, NoneType DEF BusyThread, Types, Locked, OnSlot, Reading
    <2>2. \A u \in Threads : u # t => (hookBy' = u <=> hookBy = u)
      BY <1>1, <1>3, <1>4, NoneType DEF BusyThread, Locked
    <2>3. QED
      BY <1>1, <1>6, <2>1, <2>2, BusyStep
  <1>10. PageInv'
    BY <1>1, <1>4, <1>6, PageStep
  <1>11. ChainInv'
    <2> SUFFICES ASSUME ~manual', NEW x \in Slots' PROVE SlotChain(x)'
      BY DEF ChainInv
    <2>1. x \in Slots /\ ~manual /\ image' = image
      BY <1>4 DEF Slots
    <2>2. SlotChain(x)
      BY <1>1, <2>1 DEF ChainInv
    <2>3. \A u \in Threads : u # t => ~AtSlot(u, x) /\ ~AtSlot(u, x)'
      BY <1>1, <1>3, <1>4 DEF AtSlot, BusyInv, BusyThread, Locked
    <2>4. ~AtSlot(t, x)'
      BY <1>4 DEF AtSlot
    <2>5. CASE x = s
      <3>1. Replacing(t, x) /\ (x \in chained <=> enabled[x] # {})
        BY <1>a, <1>4, <2>2, <2>5 DEF SlotChain, AtSlot
      <3>2. Settled(x)'
        <4>1. CASE status[k] = "hooking"
          BY <1>2, <1>4, <2>1, <2>5, <3>1, <4>1 DEF Replacing, Settled, Unhooking, Trampo, Home
        <4>2. CASE status[k] = "unhooking"
          BY <1>2, <1>4, <2>1, <2>5, <3>1, <4>2 DEF Replacing, Settled, Unhooking, Home, Trampo
        <4>3. QED
          BY <1>4, <4>1, <4>2
      <3>3. x \in chained' <=> enabled'[x] # {}
        BY <1>4, <3>1
      <3>4. QED
        BY <2>3, <2>4, <3>2, <3>3 DEF SlotChain
    <2>6. CASE x # s
      <3>1. ~AtSlot(t, x)
        BY <1>a, <2>6 DEF AtSlot
      <3>2. Settled(x)' <=> Settled(x)
        BY <1>4, <2>1, <2>6 DEF Settled, Home, Trampo
      <3>3. QED
        BY <1>4, <2>2, <2>3, <2>4, <3>1, <3>2 DEF SlotChain
    <2>7. QED
      BY <2>5, <2>6
  <1>12. EnabledInv'
    <2>1. ASSUME NEW x \in Slots, ~manual, k \notin Callee, k \in enabled'[x]
          PROVE  EnabledTask(k, x)'
      <3>1. EnabledTask(k, x)
        BY <1>1, <1>4, <2>1 DEF EnabledInv
      <3>2. QED
        BY <1>2, <1>3, <1>4, <1>5, <2>1, <3>1 DEF EnabledTask, Ahead, BusyThread, Reading, Locked, OnSlot
    <2>2. QED
      BY <1>1, <1>4, <1>6, <2>1, EnabledStep
  <1>13. OkInv'
    <2>1. ASSUME k \notin Callee PROVE OkTask(k)'
      <3>1. OkTask(k)
        BY <1>1, <2>1 DEF OkInv
      <3>2. QED
        BY <1>2, <1>3, <1>4, <3>1 DEF OkTask, BusyThread
    <2>2. ASSUME ~manual, task'[t] = k, k \notin Callee PROVE OkThread(t)'
      BY <1>2, <1>1, <1>3, <1>4, <2>2 DEF OkThread, OkInv, Unhooking, Locked, OnSlot, BusyThread
    <2>3. QED
      BY <1>1, <1>4, <1>5, <1>6, <2>1, <2>2, OkStep, WantedSlots DEF BusyInv, BusyThread
  <1>14. ToldInv'
    <2>1. ASSUME NEW j \in Tasks, told'[j] = {}, NoProxyOf(j) PROVE NoProxyOf(j)'
      <3>1. /\ \A x \in Slots : got[x] # Proxy(j)
            /\ \A i \in Tasks : Proxy(j) \notin manualOrig[i]
        BY <2>1 DEF NoProxyOf
      <3>2. image.orig[s] # Proxy(j) /\ Trampo(s) # Proxy(j)
        BY <1>1, OrigType DEF Types, Slots, Proxy, Trampo
      <3>3. ~manual /\ status[k] = "unhooking" => origFunc[s] = image.orig[s]
        <4>1. ~manual => SlotChain(s)
          BY <1>1 DEF ChainInv
        <4>2. AtSlot(t, s)
          BY <1>4, <1>a DEF AtSlot
        <4>3. QED
          BY <1>4, <4>1, <4>2 DEF SlotChain, Replacing, Home
      <3>4. manual /\ status[k] = "hooking" => Proxy(k) # Proxy(j)
        <4>1. manual /\ status[k] = "hooking" => told[k] # {}
          BY <1>1, <1>2, <1>4, NoneType DEF ToldInv, ToldThread, Locked
        <4>2. manual /\ status[k] = "hooking" => k # j
          BY <1>4, <2>1, <4>1
        <4>3. QED
          BY <4>2 DEF Proxy
      <3>5. got'[s] # Proxy(j)
        BY <1>4, <3>1, <3>2, <3>3, <3>4
      <3>6. Proxy(j) \notin manualOrig'[k]
        BY <1>4, <3>1
      <3>7. /\ \A x \in Slots : got'[x] # Proxy(j)
            /\ \A i \in Tasks : Proxy(j) \notin manualOrig'[i]
        BY <1>4, <3>1, <3>5, <3>6
      <3>8. QED
        BY <1>4, <3>7 DEF NoProxyOf, Slots, Proxy
    <2>2. ToldTask(k)'
      <3>1. told'[k] = {} => NoProxyOf(k)'
        BY <1>3, <1>4, <2>1 DEF ToldTask
      <3>2. QED
        BY <1>3, <1>4, <3>1 DEF ToldTask, Proxy
    <2>3. task'[t] = k => ToldThread(t)'
      BY <1>1, <1>2, <1>4, NoneType DEF ToldThread, ToldInv, Reading, Locked
    <2>4. QED
      BY <1>1, <1>6, <2>1, <2>2, <2>3, ToldStep
  <1>15. QED
    BY <1>7, <1>8, <1>9, <1>10, <1>11, <1>12, <1>13, <1>14 DEF GotInv

-----------------------------------------------------------------------------
(* The invariant holds. *)

\* A freshly loaded ELF is as the linker left it.
LEMMA GotStarts == Init => GotInv
  <1> SUFFICES ASSUME Init PROVE GotInv
    OBVIOUS
  <1>1. image \in Images /\ manual \in BOOLEAN /\ Len(image.dynamic) \in Nat
    BY CfiType, DynamicType, LenProperties DEF Init
  <1>2. Types
    <2>1. Len(image.dynamic) \in Nat => 0 \in 0..Len(image.dynamic)
      OBVIOUS
    <2>2. /\ entry \in 0..Len(image.dynamic) /\ dynParsed \in BOOLEAN
          /\ error \in BOOLEAN /\ cfi \in BOOLEAN
          /\ parser \in Threads \cup {None} /\ cfiBy \in Threads \cup {None}
          /\ hookBy \in Threads \cup {None}
      BY <1>1, <2>1 DEF Init
    <2>3. /\ DOMAIN got = Slots /\ DOMAIN prot = Slots /\ DOMAIN origFunc = Slots
          /\ chained \subseteq Slots /\ enabled \in [Slots -> SUBSET Tasks]
      BY DEF Init, Slots
    <2>4. /\ status \in [Tasks -> Statuses]
          /\ DOMAIN manualOrig = Tasks /\ DOMAIN codes = Tasks /\ DOMAIN told = Tasks
      BY DEF Init, Statuses
    <2>5. /\ pc \in [Threads -> Where] /\ task \in [Threads -> Tasks \cup {None}]
          /\ ok \in [Threads -> BOOLEAN]
      BY DEF Init, Where
    <2>6. slots \in [Threads -> Seq(Slots)]
      BY EmptySeq DEF Init
    <2>7. QED
      BY <1>1, <2>2, <2>3, <2>4, <2>5, <2>6 DEF Types
  <1>3. ReadInv
    BY NoneType DEF Init, ReadInv, ReadThread, Reading, Parsing, Locked, Parsed
  <1>4. BusyInv
    BY NoneType DEF Init, BusyInv, BusyThread, Locked, OnSlot
  <1>5. PageInv
    BY DEF Init, PageInv, Opened
  <1>6. ChainInv
    BY DEF Init, ChainInv, SlotChain, AtSlot, Settled, Home, Trampo
  <1>7. EnabledInv
    BY DEF Init, EnabledInv
  <1>8. OkInv
    BY DEF Init, OkInv, OkTask, OkThread, Locked
  <1>9. ToldInv
    <2>1. ASSUME NEW k \in Tasks PROVE ToldTask(k)
      <3>1. \A s \in Slots : got[s] # Proxy(k)
        BY OrigType DEF Init, Slots, Proxy
      <3>2. QED
        BY <3>1 DEF Init, ToldTask, NoProxyOf
    <2>2. QED
      BY <2>1 DEF Init, ToldInv
  <1>10. QED
    BY <1>2, <1>3, <1>4, <1>5, <1>6, <1>7, <1>8, <1>9 DEF GotInv

\* A lookup, of the CFI functions or of a task's slots.
LEMMA FindKeeps ==
    ASSUME CfiLock, TablesRight, GotInv, NEW t \in Threads, Find(t)
    PROVE  GotInv'
  BY FindCfiKeeps, FindSlotsKeeps

\* A slot that is added, in either mode.
LEMMA AddFuncKeeps ==
    ASSUME CfiLock, TablesRight, GotInv, NEW t \in Threads, AddFunc(t)
    PROVE  GotInv'
  <1>1. CASE manual
    BY <1>1, AddManualKeeps
  <1>2. CASE ~manual /\ Head(slots[t]) \in chained
    BY <1>2, AddChainedKeeps
  <1>3. CASE ~manual /\ Head(slots[t]) \notin chained
    BY <1>3, AddNewKeeps
  <1>4. QED
    BY <1>1, <1>2, <1>3

\* A slot that is taken from, in either mode.
LEMMA RemoveFuncKeeps ==
    ASSUME CfiLock, TablesRight, GotInv, NEW t \in Threads, RemoveFunc(t)
    PROVE  GotInv'
  <1> DEFINE last == enabled[Head(slots[t])] \subseteq {task[t]}
  <1>1. CASE manual
    BY <1>1, RemoveManualKeeps
  <1>2. CASE ~manual /\ Head(slots[t]) \notin chained
    BY <1>2, RemoveNothingKeeps
  <1>3. CASE ~manual /\ Head(slots[t]) \in chained /\ last
    BY <1>3, RemoveLastKeeps
  <1>4. CASE ~manual /\ Head(slots[t]) \in chained /\ ~last
    BY <1>4, RemoveOneKeeps
  <1>5. QED
    BY <1>1, <1>2, <1>3, <1>4

\* A page is made writable, or the slot is not replaced.
LEMMA WriteKeeps ==
    ASSUME CfiLock, TablesRight, GotInv, NEW t \in Threads, Write(t)
    PROVE  GotInv'
  BY WriteStoreKeeps, WriteNotKeeps

\* Every step of a thread keeps the invariant.
LEMMA GotKeeps == CfiLock /\ TablesRight /\ GotInv /\ [Next]_vars => GotInv'
  <1> SUFFICES ASSUME CfiLock, TablesRight, GotInv, [Next]_vars PROVE GotInv'
    OBVIOUS
  <1>1. CASE UNCHANGED vars
    <2>1. GotInv <=> GotInv'
      BY <1>1 DEF vars, elfVars, lockVars, gotVars, taskVars, local, GotInv, Types, Slots,
         ReadInv, ReadThread, Parsed, AllFields, BusyInv, BusyThread, PageInv, Opened,
         ChainInv, SlotChain, AtSlot, Settled, Replacing, Home, Trampo, Unhooking, EnabledInv, EnabledTask,
         Ahead, OkInv, OkTask, OkThread, ToldInv, ToldTask, ToldThread, NoProxyOf, Proxy
    <2>2. QED
      BY <2>1
  <1>2. CASE Next
    <2>1. PICK t \in Threads : (\E k \in Tasks : Hook(t, k) \/ Unhook(t, k)) \/ Step(t)
      BY <1>2 DEF Next
    <2>2. ASSUME NEW k \in Tasks, Hook(t, k) PROVE GotInv'
      BY <2>2, HookKeeps
    <2>3. ASSUME NEW k \in Tasks, Unhook(t, k) PROVE GotInv'
      BY <2>3, UnhookKeeps
    <2>4. CASE Check(t)
      BY <2>4, CheckKeeps
    <2>5. CASE LockCfi(t)
      BY <2>5, LockCfiKeeps
    <2>6. CASE Parse(t)
      BY <2>6, ParseKeeps
    <2>7. CASE LockParse(t)
      BY <2>7, LockParseKeeps
    <2>8. CASE Entry(t)
      BY <2>8, EntryKeeps
    <2>9. CASE Find(t)
      BY <2>9, FindKeeps
    <2>10. CASE Tell(t)
      BY <2>10, TellKeeps
    <2>11. CASE LockElf(t)
      BY <2>11, LockElfKeeps
    <2>12. CASE AddFunc(t)
      BY <2>12, AddFuncKeeps
    <2>13. CASE RemoveFunc(t)
      BY <2>13, RemoveFuncKeeps
    <2>14. CASE Write(t)
      BY <2>14, WriteKeeps
    <2>15. CASE Store(t)
      BY <2>15, StoreKeeps
    <2>16. CASE Seal(t)
      BY <2>16, SealKeeps
    <2>17. CASE Finish(t)
      BY <2>17, FinishKeeps
    <2>18. QED
      BY <2>1, <2>2, <2>3, <2>4, <2>5, <2>6, <2>7, <2>8, <2>9, <2>10, <2>11, <2>12,
         <2>13, <2>14, <2>15, <2>16, <2>17 DEF Step
  <1>3. QED
    BY <1>1, <1>2

\* The inductive invariant of the tasks in one ELF.
THEOREM GotInvariant == CfiLock /\ TablesRight => (Spec => []GotInv)
  <1>1. CASE CfiLock /\ TablesRight
    <2>1. Init => GotInv
      BY GotStarts
    <2>2. GotInv /\ [Next]_vars => GotInv'
      BY <1>1, GotKeeps
    <2>3. QED
      BY <2>1, <2>2, PTL DEF Spec
  <1>2. QED
    BY <1>1

\* Whatever threads parse and look up at once, no ELF is given up and a task by
\* name has all slots of its symbol (bh_elf_parse_dynamic under the CFI hook's lock).
THEOREM Found == CfiLock /\ TablesRight => (Spec => []AllSlotsFound)
  <1>1. ASSUME TablesRight, GotInv PROVE AllSlotsFound
    <2>1. Types /\ ReadInv /\ BusyInv /\ OkInv
      BY <1>1 DEF GotInv
    <2>2. ~error
      BY <2>1 DEF ReadInv
    <2>3. ASSUME NEW t \in Threads, pc[t] \in {"told", "hooklock"}, task[t] \notin Callee
          PROVE  Range(slots[t]) = TrueSlots(image, SymName[task[t]])
      <3>1. BusyThread(t)
        BY <2>1 DEF BusyInv
      <3>2. task[t] # None
        BY <2>3, <3>1 DEF BusyThread
      <3>3. task[t] \in Tasks \ Callee
        BY <2>1, <2>3, <3>2 DEF Types
      <3>4. slots[t] = FoundByName(image, task[t])
        BY <2>3, <3>1 DEF BusyThread
      <3>5. QED
        BY <1>1, <2>1, <3>3, <3>4, FoundRange DEF Types
    <2>4. \A k \in Tasks \ Callee : "NOSYM" \in codes[k] => TrueSlots(image, SymName[k]) = {}
      BY <2>1 DEF OkInv, OkTask
    <2>5. QED
      BY <2>2, <2>3, <2>4 DEF AllSlotsFound
  <1>2. CASE CfiLock /\ TablesRight
    <2>1. GotInv => AllSlotsFound
      BY <1>1, <1>2
    <2>2. QED
      BY <1>2, <2>1, GotInvariant, PTL
  <1>3. QED
    BY <1>2

\* Whoever works on the slots of a page, its protection is the linker's again when
\* nobody does (bh_hook_manager_replace_got_value with bh_elf_hook_lock).
THEOREM Protected == CfiLock /\ TablesRight => (Spec => []ProtectionKept)
  <1>1. ASSUME GotInv PROVE ProtectionKept
    <2>1. PageInv /\ BusyInv
      BY <1>1 DEF GotInv
    <2>2. hookBy = None => \A t \in Threads : pc[t] \notin {"store", "seal"}
      BY <2>1, NoneType DEF BusyInv, BusyThread, Locked
    <2>3. hookBy = None => \A s \in Slots : ~Opened(s)
      BY <2>2 DEF Opened
    <2>4. QED
      BY <2>1, <2>3 DEF PageInv, ProtectionKept
  <1>2. QED
    BY <1>1, GotInvariant, PTL

\* Automatic mode: after its unhook a task is in no chain of the ELF, and a slot whose
\* chain is gone has its original, or its trampoline for good when the original could
\* not be written (bh_hook_manager_unhook_single_got).
THEOREM Restored == CfiLock /\ TablesRight => (Spec => []UnhookRestores)
  <1>1. ASSUME GotInv PROVE UnhookRestores
    <2>1. Types /\ BusyInv /\ ChainInv /\ EnabledInv
      BY <1>1 DEF GotInv
    <2> SUFFICES ASSUME ~manual, NEW s \in Slots
                 PROVE  /\ \A k \in Tasks \ Callee : status[k] = "gone" => k \notin enabled[s]
                        /\ hookBy = None /\ s \notin chained =>
                              got[s] = IF s \in stuck THEN Trampo(s) ELSE image.orig[s]
                        /\ s \in stuck /\ hookBy = None => s \notin chained
      BY DEF UnhookRestores
    <2>2. \A k \in Tasks \ Callee : status[k] = "gone" => k \notin enabled[s]
      BY <2>1 DEF EnabledInv, EnabledTask
    <2>3. SlotChain(s)
      BY <2>1 DEF ChainInv
    <2>4. hookBy = None => \A t \in Threads : ~AtSlot(t, s)
      BY <2>1, NoneType DEF BusyInv, BusyThread, Locked, AtSlot
    <2>5. QED
      BY <2>2, <2>3, <2>4 DEF SlotChain, Settled, Home, Trampo
  <1>2. QED
    BY <1>1, GotInvariant, PTL

\* Automatic mode: a task that was told OK is in the chain of every slot of its
\* symbol, whatever was hooked and unhooked there since (bh_hook_manager_hook_impl).
THEOREM Everywhere == CfiLock /\ TablesRight => (Spec => []OkInAllSlots)
  <1>1. ASSUME TablesRight, GotInv PROVE OkInAllSlots
    <2>1. Types /\ BusyInv /\ ChainInv /\ OkInv
      BY <1>1 DEF GotInv
    <2> SUFFICES ASSUME NEW k \in Tasks \ Callee, ~manual, status[k] = "hooked", "OK" \in codes[k],
                        NEW s \in TrueSlots(image, SymName[k])
                 PROVE  k \in enabled[s] /\ got[s] = Trampo(s)
      BY DEF OkInAllSlots
    <2>2. k \in enabled[s]
      BY <2>1 DEF OkInv, OkTask
    <2>3. s \in Slots
      BY <1>1, <2>1, WantedSlots DEF Types, Slots
    <2>4. SlotChain(s)
      BY <2>1, <2>3 DEF ChainInv
    <2>5. ASSUME NEW t \in Threads, AtSlot(t, s) PROVE FALSE
      <3>1. Replacing(t, s)
        BY <2>4, <2>5 DEF SlotChain
      <3>2. task[t] = k
        BY <2>2, <3>1 DEF Replacing, Home, Trampo
      <3>3. status[task[t]] \in {"hooking", "unhooking"}
        BY <2>1, <3>2, NoneType DEF BusyInv, BusyThread
      <3>4. QED
        BY <3>2, <3>3
    <2>6. s \in chained /\ Settled(s)
      BY <2>2, <2>4, <2>5 DEF SlotChain
    <2>7. QED
      BY <2>2, <2>6 DEF Settled, Home, Trampo
  <1>2. CASE CfiLock /\ TablesRight
    <2>1. GotInv => OkInAllSlots
      BY <1>1, <1>2
    <2>2. QED
      BY <1>2, <2>1, GotInvariant, PTL
  <1>3. QED
    BY <1>2

\* Manual mode: a proxy that a slot leads to has been told an original, which is
\* not the proxy itself (bh_hook_manager_hook_impl tells it before the first store).
THEOREM ToldFirst == CfiLock /\ TablesRight => (Spec => []ToldBeforeReplaced)
  <1>1. ASSUME GotInv PROVE ToldBeforeReplaced
    BY <1>1 DEF GotInv, ToldInv, ToldTask, NoProxyOf, ToldBeforeReplaced
  <1>2. QED
    BY <1>1, GotInvariant, PTL
=============================================================================
