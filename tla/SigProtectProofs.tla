-------------------------- MODULE SigProtectProofs --------------------------
(***************************************************************************)
(* Proofs about SigProtect, for every set of threads, every sequence of    *)
(* distinct signals and every number of slots.                             *)
(*                                                                         *)
(* FaultsCaught is not inductive: that a thread in its body has a slot     *)
(* with its own jump buffer follows from what the loops over the signals   *)
(* have done so far.  ThreadOK says so for every place a thread can be at. *)
(***************************************************************************)
EXTENDS SigProtect, TLAPS

\* What t has in the table of s: its one slot, complete; the slot it is at; none.
Holds(s, t) ==
    \E j \in Slots : /\ tid[s][j] = t
                     /\ jbuf[s][j] = t
                     /\ \A i \in Slots : tid[s][i] = t => i = j
AtSlot(s, t) ==
    /\ tid[s][at[t]] = t
    /\ \A i \in Slots : tid[s][i] = t => i = at[t]
HasNone(s, t) == \A i \in Slots : tid[s][i] # t

ThreadOK(t) ==
    /\ pc[t] # "lost"
    /\ pc[t] = "out" => step[t] = 1 /\ \A n \in Steps : HasNone(Signums[n], t)
    /\ pc[t] = "body" => step[t] = 1 /\ \A n \in Steps : Holds(Signums[n], t)
    /\ pc[t] \in {"check", "spin", "store"} => \A n \in Steps :
          /\ n < step[t] => Holds(Signums[n], t)
          /\ n > step[t] => HasNone(Signums[n], t)
    /\ pc[t] \in {"check", "spin"} => HasNone(Sig(t), t)
    /\ pc[t] \in {"store", "release"} => AtSlot(Sig(t), t)
    /\ pc[t] \in {"clear", "release"} => \A n \in Steps :
          /\ n < step[t] => HasNone(Signums[n], t)
          /\ n > step[t] => Holds(Signums[n], t)
    /\ pc[t] = "clear" => Holds(Sig(t), t)

SlotInv == TypeOK /\ \A t \in Threads : ThreadOK(t)

-----------------------------------------------------------------------------
\* The numbers of the loops.
LEMMA StepTypes ==
    ASSUME TypeOK
    PROVE  /\ Len(Signums) \in Nat \ {0}
           /\ 1 \in Steps
           /\ \A n \in Steps : n \in Nat /\ n >= 1 /\ n <= Len(Signums) /\ Signums[n] \in Signals
           /\ \A t \in Threads : step[t] \in Steps /\ Sig(t) \in Signals /\ at[t] \in Slots
           /\ \A t \in Threads : step[t] < Len(Signums) => step[t] + 1 \in Steps
           /\ \A t \in Threads : ~(step[t] < Len(Signums)) => step[t] = Len(Signums)
  BY SignumsType DEF TypeOK, Steps, Signals, Sig

\* What another thread has is left alone by a step that changes no slot but those
\* that are free or its own.
LEMMA OthersKeep ==
    ASSUME SlotInv, NEW t \in Threads, NEW u \in Threads, u # t,
           pc'[u] = pc[u], step'[u] = step[u], at'[u] = at[u],
           \A s \in Signals : \A j \in Slots :
              /\ tid[s][j] = u => tid'[s][j] = u /\ jbuf'[s][j] = jbuf[s][j]
              /\ tid'[s][j] = u => tid[s][j] = u
    PROVE  ThreadOK(u)'
  <1>1. ThreadOK(u) /\ TypeOK
    BY DEF SlotInv
  <1>2. Sig(u)' = Sig(u)
    BY DEF Sig
  <1>3. \A s \in Signals : /\ Holds(s, u) => Holds(s, u)'
                           /\ AtSlot(s, u) => AtSlot(s, u)'
                           /\ HasNone(s, u) => HasNone(s, u)'
    <2>1. TAKE s \in Signals
    <2>2. Holds(s, u) => Holds(s, u)'
      BY DEF Holds
    <2>3. AtSlot(s, u) => AtSlot(s, u)'
      BY <1>1, StepTypes DEF AtSlot
    <2>4. HasNone(s, u) => HasNone(s, u)'
      BY DEF HasNone
    <2>5. QED
      BY <2>2, <2>3, <2>4
  <1>4. (\A n \in Steps : Signums[n] \in Signals) /\ Sig(u) \in Signals
    BY <1>1, StepTypes
  <1>5. QED
    BY <1>1, <1>2, <1>3, <1>4 DEF ThreadOK

\* The types after a step that stores threads in slots.
LEMMA SlotTypes ==
    ASSUME TypeOK, NEW s \in Signals, NEW j \in Slots, NEW x \in Threads \cup {NoThread}
    PROVE  /\ [tid EXCEPT ![s][j] = x] \in [Signals -> [Slots -> Threads \cup {NoThread}]]
           /\ [jbuf EXCEPT ![s][j] = x] \in [Signals -> [Slots -> Threads \cup {NoThread}]]
  BY DEF TypeOK

-----------------------------------------------------------------------------
(***************************************************************************)
(* Every action keeps SlotInv.                                             *)
(***************************************************************************)

\* A step that changes no table.
LEMMA NoSlotChange ==
    ASSUME SlotInv, NEW t \in Threads, TypeOK', UNCHANGED <<tid, jbuf>>,
           \A u \in Threads \ {t} : pc'[u] = pc[u] /\ step'[u] = step[u] /\ at'[u] = at[u],
           ThreadOK(t)'
    PROVE  SlotInv'
  <1>1. \A u \in Threads \ {t} : ThreadOK(u)'
    BY OthersKeep
  <1>2. QED
    BY <1>1 DEF SlotInv

\* A TRY block is entered.
LEMMA TryKeeps ==
    ASSUME SlotInv, NEW t \in Threads, Try(t)
    PROVE  SlotInv'
  <1>1. TypeOK /\ ThreadOK(t)
    BY DEF SlotInv
  <1>2. pc[t] = "out" /\ pc' = [pc EXCEPT ![t] = "check"] /\ UNCHANGED <<tid, jbuf, step, at>>
    BY DEF Try, GoTo
  <1>3. TypeOK' /\ pc'[t] = "check" /\ \A u \in Threads \ {t} : pc'[u] = pc[u]
    BY <1>1, <1>2 DEF TypeOK, PC
  <1>4. /\ step[t] = 1
        /\ \A n \in Steps : HasNone(Signums[n], t)' /\ ~(n < step[t])
        /\ HasNone(Sig(t), t)'
    BY <1>1, <1>2, StepTypes DEF ThreadOK, HasNone, Sig
  <1>5. ThreadOK(t)'
    BY <1>2, <1>3, <1>4 DEF ThreadOK
  <1>6. QED
    BY <1>2, <1>3, <1>5, NoSlotChange

\* The thread is not in the table: it looks for a slot.
LEMMA CheckKeeps ==
    ASSUME SlotInv, NEW t \in Threads, Check(t)
    PROVE  SlotInv'
  <1>1. TypeOK /\ ThreadOK(t) /\ pc[t] = "check"
    BY DEF SlotInv, Check
  <1>2. SlotsOf(Sig(t), t) = {}
    BY <1>1, StepTypes DEF ThreadOK, HasNone, SlotsOf
  <1>3. /\ pc' = [pc EXCEPT ![t] = "spin"] /\ at' = [at EXCEPT ![t] = 1]
        /\ UNCHANGED <<tid, jbuf, step>>
    BY <1>2 DEF Check, GoTo
  <1>4. 1 \in Slots
    BY SlotMaxType DEF Slots
  <1>5. /\ TypeOK' /\ pc'[t] = "spin"
        /\ \A u \in Threads \ {t} : pc'[u] = pc[u] /\ at'[u] = at[u]
    BY <1>1, <1>3, <1>4 DEF TypeOK, PC
  <1>6. ThreadOK(t)'
    BY <1>1, <1>3, <1>5 DEF ThreadOK, Holds, HasNone, Sig
  <1>7. QED
    BY <1>3, <1>5, <1>6, NoSlotChange

\* The search for a slot goes on.
LEMMA MissKeeps ==
    ASSUME SlotInv, NEW t \in Threads, Miss(t)
    PROVE  SlotInv'
  <1>1. /\ TypeOK /\ ThreadOK(t) /\ pc[t] = "spin"
        /\ at' = [at EXCEPT ![t] = IF @ = SlotMax THEN 1 ELSE @ + 1]
        /\ UNCHANGED <<tid, jbuf, pc, step>>
    BY DEF SlotInv, Miss
  <1>2. (IF at[t] = SlotMax THEN 1 ELSE at[t] + 1) \in Slots
    BY <1>1, SlotMaxType DEF TypeOK, Slots
  <1>3. TypeOK' /\ \A u \in Threads \ {t} : at'[u] = at[u]
    BY <1>1, <1>2 DEF TypeOK
  <1>4. ThreadOK(t)'
    BY <1>1 DEF ThreadOK, Holds, HasNone, Sig
  <1>5. QED
    BY <1>1, <1>3, <1>4, NoSlotChange

\* A free slot is claimed.
LEMMA ClaimKeeps ==
    ASSUME SlotInv, NEW t \in Threads, Claim(t)
    PROVE  SlotInv'
  <1>1. /\ TypeOK /\ ThreadOK(t) /\ pc[t] = "spin"
        /\ tid[Sig(t)][at[t]] = NoThread
        /\ tid' = [tid EXCEPT ![Sig(t)][at[t]] = t]
        /\ pc' = [pc EXCEPT ![t] = "store"]
        /\ UNCHANGED <<jbuf, step, at>>
    BY DEF SlotInv, Claim, GoTo
  <1>2. Sig(t) \in Signals /\ at[t] \in Slots /\ \A n \in Steps : Signums[n] \in Signals
    BY <1>1, StepTypes
  <1>3. /\ TypeOK' /\ pc'[t] = "store"
        /\ \A u \in Threads \ {t} : pc'[u] = pc[u]
    BY <1>1, <1>2, SlotTypes DEF TypeOK, PC
  <1>4. \A s \in Signals : \A j \in Slots :
            tid'[s][j] = IF s = Sig(t) /\ j = at[t] THEN t ELSE tid[s][j]
    BY <1>1, <1>2 DEF TypeOK
  <1>5. \A u \in Threads \ {t} : ThreadOK(u)'
    BY <1>1, <1>2, <1>3, <1>4, OthersKeep, NoThreadType
  <1>6. Sig(t)' = Sig(t)
    BY <1>1 DEF Sig
  <1>7. AtSlot(Sig(t), t)'
    BY <1>1, <1>2, <1>4, <1>6 DEF AtSlot, ThreadOK, HasNone
  <1>8. \A n \in Steps : n # step[t] =>
            /\ Holds(Signums[n], t) => Holds(Signums[n], t)'
            /\ HasNone(Signums[n], t) => HasNone(Signums[n], t)'
    <2>1. SUFFICES ASSUME NEW n \in Steps, n # step[t]
                   PROVE  /\ Holds(Signums[n], t) => Holds(Signums[n], t)'
                          /\ HasNone(Signums[n], t) => HasNone(Signums[n], t)'
      OBVIOUS
    <2>2. Signums[n] # Sig(t)
      BY <1>1, <2>1, StepTypes, SignumsType DEF Sig
    <2>3. \A j \in Slots : tid'[Signums[n]][j] = tid[Signums[n]][j]
      BY <1>2, <1>4, <2>2
    <2>4. QED
      BY <1>1, <2>3 DEF Holds, HasNone
  <1>9. ThreadOK(t)'
    <2>1. \A n \in Steps : /\ n < step[t] => Holds(Signums[n], t)' /\ n # step[t]
                           /\ n > step[t] => HasNone(Signums[n], t)' /\ n # step[t]
      BY <1>1, <1>8, StepTypes DEF ThreadOK
    <2>2. QED
      BY <1>1, <1>3, <1>7, <2>1 DEF ThreadOK
  <1>10. QED
    BY <1>3, <1>5, <1>9 DEF SlotInv

\* The jump buffer is stored in the claimed slot.
LEMMA StoreKeeps ==
    ASSUME SlotInv, NEW t \in Threads, Store(t)
    PROVE  SlotInv'
  <1>1. /\ TypeOK /\ ThreadOK(t) /\ pc[t] = "store"
        /\ jbuf' = [jbuf EXCEPT ![Sig(t)][at[t]] = t]
        /\ NextSignal(t, "check", "body")
        /\ UNCHANGED <<tid, at>>
    BY DEF SlotInv, Store
  <1>2. Sig(t) \in Signals /\ at[t] \in Slots /\ \A n \in Steps : Signums[n] \in Signals
    BY <1>1, StepTypes
  <1>3. /\ TypeOK'
        /\ \A u \in Threads \ {t} : pc'[u] = pc[u] /\ step'[u] = step[u]
    <2>1. 1 \in Steps /\ (step[t] < Len(Signums) => step[t] + 1 \in Steps)
      BY <1>1, StepTypes
    <2>2. /\ pc' = [pc EXCEPT ![t] = "check"] \/ pc' = [pc EXCEPT ![t] = "body"]
          /\ \E n \in Steps : step' = [step EXCEPT ![t] = n]
      BY <1>1, <2>1 DEF NextSignal, GoTo
    <2>3. jbuf' \in [Signals -> [Slots -> Threads \cup {NoThread}]]
      BY <1>1, <1>2, SlotTypes
    <2>4. QED
      BY <1>1, <2>2, <2>3 DEF TypeOK, PC
  <1>4. \A s \in Signals : \A j \in Slots :
            jbuf'[s][j] = IF s = Sig(t) /\ j = at[t] THEN t ELSE jbuf[s][j]
    BY <1>1, <1>2 DEF TypeOK
  <1>5. AtSlot(Sig(t), t)
    BY <1>1 DEF ThreadOK
  <1>6. \A u \in Threads \ {t} : ThreadOK(u)'
    BY <1>1, <1>3, <1>4, <1>5, OthersKeep DEF AtSlot
  <1>7. \A n \in Steps : n = step[t] => Holds(Signums[n], t)'
    <2>1. SUFFICES ASSUME NEW n \in Steps, n = step[t] PROVE Holds(Signums[n], t)'
      OBVIOUS
    <2>2. \E j \in Slots : /\ tid'[Signums[n]][j] = t /\ jbuf'[Signums[n]][j] = t
                           /\ \A i \in Slots : tid'[Signums[n]][i] = t => i = j
      BY <1>1, <1>2, <1>4, <1>5, <2>1 DEF AtSlot, Sig
    <2>3. QED
      BY <2>2 DEF Holds
  <1>8. \A n \in Steps : n # step[t] =>
            /\ Holds(Signums[n], t) => Holds(Signums[n], t)'
            /\ HasNone(Signums[n], t) => HasNone(Signums[n], t)'
    <2>1. SUFFICES ASSUME NEW n \in Steps, n # step[t]
                   PROVE  /\ Holds(Signums[n], t) => Holds(Signums[n], t)'
                          /\ HasNone(Signums[n], t) => HasNone(Signums[n], t)'
      OBVIOUS
    <2>2. Signums[n] # Sig(t)
      BY <1>1, <2>1, StepTypes, SignumsType DEF Sig
    <2>3. \A j \in Slots : jbuf'[Signums[n]][j] = jbuf[Signums[n]][j]
      BY <1>2, <1>4, <2>2
    <2>4. QED
      BY <1>1, <2>3 DEF Holds, HasNone
  <1>9. /\ \A n \in Steps : n <= step[t] => Holds(Signums[n], t)'
        /\ \A n \in Steps : n > step[t] => HasNone(Signums[n], t)'
    <2>1. \A n \in Steps : /\ n < step[t] => Holds(Signums[n], t) /\ n # step[t]
                           /\ n > step[t] => HasNone(Signums[n], t) /\ n # step[t]
                           /\ n <= step[t] => n < step[t] \/ n = step[t]
      BY <1>1, StepTypes DEF ThreadOK
    <2>2. QED
      BY <1>7, <1>8, <2>1
  <1>10. CASE step[t] < Len(Signums)
    <2>1. pc'[t] = "check" /\ step'[t] = step[t] + 1
      BY <1>1, <1>10 DEF NextSignal, GoTo, TypeOK
    <2>2. \A n \in Steps : /\ n < step'[t] => n <= step[t]
                           /\ n > step'[t] => n > step[t]
                           /\ step'[t] > step[t] /\ step'[t] \in Steps
      BY <1>1, <1>10, <2>1, StepTypes
    <2>3. HasNone(Sig(t), t)'
      <3>1. PICK m \in Steps : m = step'[t] /\ m > step[t]
        BY <1>1, <2>2, StepTypes
      <3>2. HasNone(Signums[m], t)'
        BY <1>9, <3>1
      <3>3. QED
        BY <3>1, <3>2 DEF HasNone, Sig
    <2>4. ThreadOK(t)'
      BY <1>9, <2>1, <2>2, <2>3 DEF ThreadOK
    <2>5. QED
      BY <1>3, <1>6, <2>4 DEF SlotInv
  <1>11. CASE ~(step[t] < Len(Signums))
    <2>1. pc'[t] = "body" /\ step'[t] = 1
      BY <1>1, <1>11 DEF NextSignal, GoTo, TypeOK
    <2>2. \A n \in Steps : n <= step[t]
      BY <1>1, <1>11, StepTypes
    <2>3. ThreadOK(t)'
      BY <1>9, <2>1, <2>2 DEF ThreadOK
    <2>4. QED
      BY <1>3, <1>6, <2>3 DEF SlotInv
  <1>12. QED
    BY <1>10, <1>11

\* A thread in its body finds its own jump buffer.
LEMMA HandlerFindsOwn ==
    ASSUME SlotInv, NEW t \in Threads, pc[t] = "body", NEW s \in Signals
    PROVE  Handler(s, t) = t
  <1>1. Holds(s, t)
    <2>1. PICK n \in Steps : s = Signums[n]
      BY DEF Signals
    <2>2. QED
      BY <2>1 DEF SlotInv, ThreadOK
  <1>2. PICK j \in Slots : tid[s][j] = t /\ jbuf[s][j] = t /\ \A i \in Slots : tid[s][i] = t => i = j
    BY <1>1 DEF Holds
  <1>3. SlotsOf(s, t) = {j}
    BY <1>2 DEF SlotsOf
  <1>4. j <= j
    BY DEF Slots
  <1>5. (CHOOSE k \in {j} : \A i \in {j} : k <= i) = j
    BY <1>4
  <1>6. QED
    BY <1>2, <1>3, <1>5 DEF Handler

\* The body ends, or faults.
LEMMA BodyEndKeeps ==
    ASSUME SlotInv, NEW t \in Threads, Exit(t) \/ \E s \in Signals : Fault(t, s)
    PROVE  SlotInv'
  <1>1. TypeOK /\ ThreadOK(t) /\ pc[t] = "body" /\ UNCHANGED <<tid, jbuf, step, at>>
    BY DEF SlotInv, Exit, Fault
  <1>2. pc' = [pc EXCEPT ![t] = "clear"]
    BY <1>1, HandlerFindsOwn DEF Exit, Fault, GoTo
  <1>3. TypeOK' /\ pc'[t] = "clear" /\ \A u \in Threads \ {t} : pc'[u] = pc[u]
    BY <1>1, <1>2 DEF TypeOK, PC
  <1>4. /\ step[t] = 1
        /\ \A n \in Steps : Holds(Signums[n], t)' /\ ~(n < step[t])
        /\ Holds(Sig(t), t)'
    BY <1>1, StepTypes DEF ThreadOK, Holds, Sig
  <1>5. ThreadOK(t)'
    BY <1>1, <1>3, <1>4 DEF ThreadOK
  <1>6. QED
    BY <1>1, <1>3, <1>5, NoSlotChange

\* The jump buffer of the thread's slot is cleared.
LEMMA ClearKeeps ==
    ASSUME SlotInv, NEW t \in Threads, Clear(t)
    PROVE  SlotInv'
  <1>1. TypeOK /\ ThreadOK(t) /\ pc[t] = "clear" /\ Holds(Sig(t), t)
    BY DEF SlotInv, Clear, ThreadOK
  <1>2. Sig(t) \in Signals /\ \A n \in Steps : Signums[n] \in Signals
    BY <1>1, StepTypes
  <1>3. SlotsOf(Sig(t), t) # {}
    BY <1>1 DEF Holds, SlotsOf
  <1>4. PICK j \in Slots :
            /\ tid[Sig(t)][j] = t
            /\ jbuf' = [jbuf EXCEPT ![Sig(t)][j] = NoThread]
            /\ at' = [at EXCEPT ![t] = j]
            /\ pc' = [pc EXCEPT ![t] = "release"]
            /\ UNCHANGED <<step, tid>>
    BY <1>3 DEF Clear, SlotsOf, GoTo
  <1>5. /\ TypeOK' /\ pc'[t] = "release" /\ at'[t] = j
        /\ \A u \in Threads \ {t} : pc'[u] = pc[u] /\ at'[u] = at[u]
    BY <1>1, <1>2, <1>4, SlotTypes DEF TypeOK, PC
  <1>6. \A s \in Signals : \A i \in Slots :
            jbuf'[s][i] = IF s = Sig(t) /\ i = j THEN NoThread ELSE jbuf[s][i]
    BY <1>1, <1>2, <1>4 DEF TypeOK
  <1>7. \A u \in Threads \ {t} : ThreadOK(u)'
    BY <1>4, <1>5, <1>6, OthersKeep
  <1>8. AtSlot(Sig(t), t)'
    <2>1. tid[Sig(t)][j] = t /\ \A i \in Slots : tid[Sig(t)][i] = t => i = j
      BY <1>1, <1>4 DEF Holds
    <2>2. QED
      BY <1>4, <1>5, <2>1 DEF AtSlot, Sig
  <1>9. \A n \in Steps : n # step[t] =>
            /\ Holds(Signums[n], t) => Holds(Signums[n], t)'
            /\ HasNone(Signums[n], t) => HasNone(Signums[n], t)'
    <2>1. SUFFICES ASSUME NEW n \in Steps, n # step[t]
                   PROVE  /\ Holds(Signums[n], t) => Holds(Signums[n], t)'
                          /\ HasNone(Signums[n], t) => HasNone(Signums[n], t)'
      OBVIOUS
    <2>2. Signums[n] # Sig(t)
      BY <1>1, <2>1, StepTypes, SignumsType DEF Sig
    <2>3. \A i \in Slots : jbuf'[Signums[n]][i] = jbuf[Signums[n]][i]
      BY <1>2, <1>6, <2>2
    <2>4. QED
      BY <1>4, <2>3 DEF Holds, HasNone
  <1>10. ThreadOK(t)'
    <2>1. \A n \in Steps : /\ n < step[t] => HasNone(Signums[n], t)' /\ n # step[t]
                           /\ n > step[t] => Holds(Signums[n], t)' /\ n # step[t]
      BY <1>1, <1>9, StepTypes DEF ThreadOK
    <2>2. QED
      BY <1>4, <1>5, <1>8, <2>1 DEF ThreadOK
  <1>11. QED
    BY <1>5, <1>7, <1>10 DEF SlotInv

\* The slot is given back.
LEMMA ReleaseKeeps ==
    ASSUME SlotInv, NEW t \in Threads, Release(t)
    PROVE  SlotInv'
  <1>1. /\ TypeOK /\ ThreadOK(t) /\ pc[t] = "release" /\ AtSlot(Sig(t), t)
        /\ tid' = [tid EXCEPT ![Sig(t)][at[t]] = NoThread]
        /\ NextSignal(t, "clear", "out")
        /\ UNCHANGED <<jbuf, at>>
    BY DEF SlotInv, Release, ThreadOK
  <1>2. Sig(t) \in Signals /\ at[t] \in Slots /\ \A n \in Steps : Signums[n] \in Signals
    BY <1>1, StepTypes
  <1>3. /\ TypeOK'
        /\ \A u \in Threads \ {t} : pc'[u] = pc[u] /\ step'[u] = step[u]
    <2>1. 1 \in Steps /\ (step[t] < Len(Signums) => step[t] + 1 \in Steps)
      BY <1>1, StepTypes
    <2>2. /\ pc' = [pc EXCEPT ![t] = "clear"] \/ pc' = [pc EXCEPT ![t] = "out"]
          /\ \E n \in Steps : step' = [step EXCEPT ![t] = n]
      BY <1>1, <2>1 DEF NextSignal, GoTo
    <2>3. tid' \in [Signals -> [Slots -> Threads \cup {NoThread}]]
      BY <1>1, <1>2, SlotTypes
    <2>4. QED
      BY <1>1, <2>2, <2>3 DEF TypeOK, PC
  <1>4. \A s \in Signals : \A j \in Slots :
            tid'[s][j] = IF s = Sig(t) /\ j = at[t] THEN NoThread ELSE tid[s][j]
    BY <1>1, <1>2 DEF TypeOK
  <1>5. \A u \in Threads \ {t} : ThreadOK(u)'
    BY <1>1, <1>3, <1>4, OthersKeep, NoThreadType DEF AtSlot
  <1>6. \A n \in Steps : n = step[t] => HasNone(Signums[n], t)'
    <2>1. SUFFICES ASSUME NEW n \in Steps, n = step[t] PROVE HasNone(Signums[n], t)'
      OBVIOUS
    <2>2. \A i \in Slots : tid'[Signums[n]][i] # t
      BY <1>1, <1>2, <1>4, <2>1, NoThreadType DEF AtSlot, Sig
    <2>3. QED
      BY <2>2 DEF HasNone
  <1>7. \A n \in Steps : n # step[t] =>
            /\ Holds(Signums[n], t) => Holds(Signums[n], t)'
            /\ HasNone(Signums[n], t) => HasNone(Signums[n], t)'
    <2>1. SUFFICES ASSUME NEW n \in Steps, n # step[t]
                   PROVE  /\ Holds(Signums[n], t) => Holds(Signums[n], t)'
                          /\ HasNone(Signums[n], t) => HasNone(Signums[n], t)'
      OBVIOUS
    <2>2. Signums[n] # Sig(t)
      BY <1>1, <2>1, StepTypes, SignumsType DEF Sig
    <2>3. \A i \in Slots : tid'[Signums[n]][i] = tid[Signums[n]][i]
      BY <1>2, <1>4, <2>2
    <2>4. QED
      BY <1>1, <2>3 DEF Holds, HasNone
  <1>8. /\ \A n \in Steps : n <= step[t] => HasNone(Signums[n], t)'
        /\ \A n \in Steps : n > step[t] => Holds(Signums[n], t)'
    <2>1. \A n \in Steps : /\ n < step[t] => HasNone(Signums[n], t) /\ n # step[t]
                           /\ n > step[t] => Holds(Signums[n], t) /\ n # step[t]
                           /\ n <= step[t] => n < step[t] \/ n = step[t]
      BY <1>1, StepTypes DEF ThreadOK
    <2>2. QED
      BY <1>6, <1>7, <2>1
  <1>9. CASE step[t] < Len(Signums)
    <2>1. pc'[t] = "clear" /\ step'[t] = step[t] + 1
      BY <1>1, <1>9 DEF NextSignal, GoTo, TypeOK
    <2>2. \A n \in Steps : /\ n < step'[t] => n <= step[t]
                           /\ n > step'[t] => n > step[t]
                           /\ step'[t] > step[t] /\ step'[t] \in Steps
      BY <1>1, <1>9, <2>1, StepTypes
    <2>3. Holds(Sig(t), t)'
      <3>1. PICK m \in Steps : m = step'[t] /\ m > step[t]
        BY <1>1, <2>2, StepTypes
      <3>2. Holds(Signums[m], t)'
        BY <1>8, <3>1
      <3>3. QED
        BY <3>1, <3>2 DEF Holds, Sig
    <2>4. ThreadOK(t)'
      BY <1>8, <2>1, <2>2, <2>3 DEF ThreadOK
    <2>5. QED
      BY <1>3, <1>5, <2>4 DEF SlotInv
  <1>10. CASE ~(step[t] < Len(Signums))
    <2>1. pc'[t] = "out" /\ step'[t] = 1
      BY <1>1, <1>10 DEF NextSignal, GoTo, TypeOK
    <2>2. \A n \in Steps : n <= step[t]
      BY <1>1, <1>10, StepTypes
    <2>3. ThreadOK(t)'
      BY <1>8, <2>1, <2>2 DEF ThreadOK
    <2>4. QED
      BY <1>3, <1>5, <2>3 DEF SlotInv
  <1>11. QED
    BY <1>9, <1>10

-----------------------------------------------------------------------------
(***************************************************************************)
(* The theorems.                                                           *)
(***************************************************************************)

\* SlotInv is inductive.
THEOREM SlotInvariant == Spec => []SlotInv
  <1>1. Init => SlotInv
    <2>1. SUFFICES ASSUME Init PROVE SlotInv
      OBVIOUS
    <2>2. 1 \in Steps /\ 1 \in Slots
      BY SignumsType, SlotMaxType DEF Steps, Slots
    <2>3. TypeOK
      BY <2>1, <2>2 DEF Init, TypeOK, PC
    <2>4. \A t \in Threads : \A n \in Steps : HasNone(Signums[n], t)
      BY <2>1, NoThreadType DEF Init, HasNone, Signals
    <2>5. \A t \in Threads : ThreadOK(t)
      BY <2>1, <2>4 DEF Init, ThreadOK
    <2>6. QED
      BY <2>3, <2>5 DEF SlotInv
  <1>2. SlotInv /\ [Next]_vars => SlotInv'
    <2>1. SUFFICES ASSUME SlotInv, [Next]_vars PROVE SlotInv'
      OBVIOUS
    <2>2. CASE UNCHANGED vars
      BY <2>1, <2>2
         DEF vars, SlotInv, TypeOK, ThreadOK, Holds, HasNone, AtSlot, Sig
    <2>3. ASSUME NEW t \in Threads, Try(t) \/ Step(t) \/ \E s \in Signals : Fault(t, s)
          PROVE  SlotInv'
      BY <2>1, <2>3, TryKeeps, CheckKeeps, MissKeeps, ClaimKeeps, StoreKeeps, BodyEndKeeps,
         ClearKeeps, ReleaseKeeps DEF Step
    <2>4. QED
      BY <2>1, <2>2, <2>3 DEF Next
  <1>3. QED
    BY <1>1, <1>2, PTL DEF Spec

\* Whatever the threads do, a fault in a protected body is caught by the block of the
\* thread that faults.
THEOREM Caught == Spec => []FaultsCaught
  <1>1. SlotInv => FaultsCaught
    BY DEF SlotInv, ThreadOK, FaultsCaught
  <1>2. QED
    BY <1>1, SlotInvariant, PTL

\* A thread has one complete slot per signal in its body and none outside: the table
\* never fills up with slots that nobody gives back.
THEOREM Balanced == Spec => []SlotsBalanced
  <1>1. SlotInv => SlotsBalanced
    <2>1. SUFFICES ASSUME SlotInv, NEW t \in Threads, NEW s \in Signals
                   PROVE  /\ pc[t] = "body" => \E j \in Slots : SlotsOf(s, t) = {j} /\ jbuf[s][j] = t
                          /\ pc[t] = "out" => SlotsOf(s, t) = {}
      BY DEF SlotsBalanced
    <2>2. PICK n \in Steps : s = Signums[n]
      BY DEF Signals
    <2>3. ThreadOK(t)
      BY <2>1 DEF SlotInv
    <2>4. ASSUME pc[t] = "body"
          PROVE  \E j \in Slots : SlotsOf(s, t) = {j} /\ jbuf[s][j] = t
      <3>1. PICK j \in Slots : /\ tid[s][j] = t /\ jbuf[s][j] = t
                               /\ \A i \in Slots : tid[s][i] = t => i = j
        BY <2>2, <2>3, <2>4 DEF ThreadOK, Holds
      <3>2. SlotsOf(s, t) = {j}
        BY <3>1 DEF SlotsOf
      <3>3. QED
        BY <3>1, <3>2
    <2>5. ASSUME pc[t] = "out"
          PROVE  SlotsOf(s, t) = {}
      BY <2>2, <2>3, <2>5 DEF ThreadOK, HasNone, SlotsOf
    <2>6. QED
      BY <2>4, <2>5
  <1>2. QED
    BY <1>1, SlotInvariant, PTL
=============================================================================
