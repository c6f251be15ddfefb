----------------------------- MODULE SigProtect -----------------------------
(***************************************************************************)
(* The signal protection of the hook engine (bytesig.c, bytesig.h): code   *)
(* that may fault, because it reads an ELF image or writes a GOT slot of a *)
(* library that may be unmapped at any moment, runs between BYTESIG_TRY    *)
(* and BYTESIG_EXIT.  A fault there must bring its thread, and no other,   *)
(* back to the BYTESIG_CATCH of that very block.                           *)
(*                                                                         *)
(* The threads share one table per signal, without a lock: a slot is       *)
(* claimed by a compare-and-swap on its 'tid' and holds the jump buffer    *)
(* that its owner stores in a second step.                                 *)
(***************************************************************************)
EXTENDS Naturals, Sequences, FiniteSets

CONSTANTS
    Threads,    \* threads of the application
    Signums,    \* the signals of every BYTESIG_TRY, in its order
    SlotMax,    \* BYTESIG_PROTECTED_THREADS_MAX
    NoThread    \* tid 0, and the jump buffer NULL

ASSUME SlotMaxType == SlotMax \in Nat \ {0}
ASSUME NoThreadType == NoThread \notin Threads

Slots == 1..SlotMax
Steps == 1..Len(Signums)

ASSUME SignumsType ==
    /\ Len(Signums) \in Nat \ {0}
    /\ \A n, m \in Steps : Signums[n] = Signums[m] => n = m

Signals == {Signums[n] : n \in Steps}

VARIABLES
    tid,        \* tid[s][j]: the owner of slot j of signal s
    jbuf,       \* jbuf[s][j]: whose jump buffer it holds
    pc,         \* where a thread is
    step,       \* the position in Signums of the loop a thread is in
    at          \* the slot a thread is at

vars == <<tid, jbuf, pc, step, at>>

\*   out      not in a TRY block
\*   check    in bytesig_protect: is the thread in the table already?
\*   spin     looking for a free slot
\*   store    slot claimed, jump buffer not yet stored
\*   body     between sigsetjmp and BYTESIG_EXIT
\*   clear    in bytesig_unprotect, looking for its slot
\*   release  jump buffer cleared, slot not yet given back
\*   lost     a fault of the protected code was not caught by its own block
PC == {"out", "check", "spin", "store", "body", "clear", "release", "lost"}

TypeOK ==
    /\ tid \in [Signals -> [Slots -> Threads \cup {NoThread}]]
    /\ jbuf \in [Signals -> [Slots -> Threads \cup {NoThread}]]
    /\ pc \in [Threads -> PC]
    /\ step \in [Threads -> Steps]
    /\ at \in [Threads -> Slots]

Init ==
    /\ tid = [s \in Signals |-> [j \in Slots |-> NoThread]]
    /\ jbuf = [s \in Signals |-> [j \in Slots |-> NoThread]]
    /\ pc = [t \in Threads |-> "out"]
    /\ step = [t \in Threads |-> 1]
    /\ at = [t \in Threads |-> 1]

-----------------------------------------------------------------------------
\* The signal whose table t works on.
Sig(t) == Signums[step[t]]

SlotsOf(s, t) == {j \in Slots : tid[s][j] = t}

GoTo(t, label) == pc' = [pc EXCEPT ![t] = label]

\* Mutant of NextSignal: the loop leaves out the last signal.
NextButLast(t, head, exit) ==
    IF step[t] < Len(Signums) - 1
    THEN GoTo(t, head) /\ step' = [step EXCEPT ![t] = @ + 1]
    ELSE GoTo(t, exit) /\ step' = [step EXCEPT ![t] = 1]

\* The loop over the signals goes on at 'head' with the next one, or ends at 'exit'.
NextSignal(t, head, exit) ==
    IF step[t] < Len(Signums)
    THEN GoTo(t, head) /\ step' = [step EXCEPT ![t] = @ + 1]
    ELSE GoTo(t, exit) /\ step' = [step EXCEPT ![t] = 1]

\* BYTESIG_TRY enters bytesig_protect.
Try(t) ==
    /\ pc[t] = "out"
    /\ GoTo(t, "check")
    /\ UNCHANGED <<tid, jbuf, step, at>>

\* A thread that is in the table keeps the slot it has.
Check(t) ==
    /\ pc[t] = "check"
    /\ IF SlotsOf(Sig(t), t) # {}
       THEN NextSignal(t, "check", "body") /\ UNCHANGED at
       ELSE GoTo(t, "spin") /\ at' = [at EXCEPT ![t] = 1] /\ UNCHANGED step
    /\ UNCHANGED <<tid, jbuf>>

\* The slot is taken, or the weak compare-and-swap fails without reason.
Miss(t) ==
    /\ pc[t] = "spin"
    /\ at' = [at EXCEPT ![t] = IF @ = SlotMax THEN 1 ELSE @ + 1]
    /\ UNCHANGED <<tid, jbuf, pc, step>>

\* The compare-and-swap succeeds.
Claim(t) ==
    /\ pc[t] = "spin"
    /\ tid[Sig(t)][at[t]] = NoThread
    /\ tid' = [tid EXCEPT ![Sig(t)][at[t]] = t]
    /\ GoTo(t, "store")
    /\ UNCHANGED <<jbuf, step, at>>

\* The jump buffer is stored; after the last signal sigsetjmp fills it, and the
\* body begins.
Store(t) ==
    /\ pc[t] = "store"
    /\ jbuf' = [jbuf EXCEPT ![Sig(t)][at[t]] = t]
    /\ NextSignal(t, "check", "body")
    /\ UNCHANGED <<tid, at>>

\* The body ends: BYTESIG_EXIT calls bytesig_unprotect.
Exit(t) ==
    /\ pc[t] = "body"
    /\ GoTo(t, "clear")
    /\ UNCHANGED <<tid, jbuf, step, at>>

\* bytesig_handler: the first slot of the thread says where to jump to.  With no
\* slot the signal goes to the previous handler, which ends the process.
Handler(s, t) ==
    LET mine == SlotsOf(s, t)
    IN IF mine = {} THEN NoThread
       ELSE jbuf[s][CHOOSE j \in mine : \A i \in mine : j <= i]

\* The body faults.  In its own BYTESIG_CATCH the thread calls bytesig_unprotect
\* first of all.
Fault(t, s) ==
    /\ pc[t] = "body"
    /\ GoTo(t, IF Handler(s, t) = t THEN "clear" ELSE "lost")
    /\ UNCHANGED <<tid, jbuf, step, at>>

\* bytesig_unprotect finds the first slot of the thread and clears its jump buffer.
Clear(t) ==
    /\ pc[t] = "clear"
    /\ IF SlotsOf(Sig(t), t) = {}
       THEN NextSignal(t, "clear", "out") /\ UNCHANGED <<jbuf, at>>
       ELSE \E j \in SlotsOf(Sig(t), t) :
               /\ \A i \in SlotsOf(Sig(t), t) : j <= i
               /\ jbuf' = [jbuf EXCEPT ![Sig(t)][j] = NoThread]
               /\ at' = [at EXCEPT ![t] = j]
               /\ GoTo(t, "release") /\ UNCHANGED step
    /\ UNCHANGED tid

\* Mutant of Release: the slot is given back for the first signal only.
ReleaseFirst(t) ==
    /\ pc[t] = "release"
    /\ tid' = IF step[t] = 1 THEN [tid EXCEPT ![Sig(t)][at[t]] = NoThread] ELSE tid
    /\ NextSignal(t, "clear", "out")
    /\ UNCHANGED <<jbuf, at>>

\* Mutant of Release: the jump buffer is cleared again, after the slot was given
\* back.
ReleaseThenClear(t) ==
    /\ pc[t] = "release"
    /\ IF tid[Sig(t)][at[t]] = t
       THEN tid' = [tid EXCEPT ![Sig(t)][at[t]] = NoThread] /\ UNCHANGED <<jbuf, pc, step>>
       ELSE /\ jbuf' = [jbuf EXCEPT ![Sig(t)][at[t]] = NoThread]
            /\ NextSignal(t, "clear", "out")
            /\ UNCHANGED tid
    /\ UNCHANGED at

\* The slot is given back.
Release(t) ==
    /\ pc[t] = "release"
    /\ tid' = [tid EXCEPT ![Sig(t)][at[t]] = NoThread]
    /\ NextSignal(t, "clear", "out")
    /\ UNCHANGED <<jbuf, at>>

Step(t) ==
    \/ Check(t)
    \/ Miss(t)
    \/ Claim(t)
    \/ Store(t)
    \/ Exit(t)
    \/ Clear(t)
    \/ Release(t)

Next == \E t \in Threads :
    \/ Try(t)
    \/ Step(t)
    \/ \E s \in Signals : Fault(t, s)

Spec == Init /\ [][Next]_vars

\* Every loop but the search for a slot ends, and so do the bodies, which walk
\* tables of an ELF image.  The compare-and-swap on a slot found free again and
\* again does not fail for ever.
FairSpec ==
    /\ Spec
    /\ \A t \in Threads : WF_vars(Step(t)) /\ SF_vars(Claim(t))

-----------------------------------------------------------------------------
(***************************************************************************)
(* Properties.                                                             *)
(***************************************************************************)

\* A fault in a protected body is caught by the thread's own block, however the
\* slots are claimed and given back by other threads at that moment.
FaultsCaught == \A t \in Threads : pc[t] # "lost"

\* Each thread has one slot per signal while its body runs, and none outside of a
\* TRY block: no sequence of blocks, faulting or not, uses the table up.
SlotsBalanced ==
    \A t \in Threads : \A s \in Signals :
        /\ pc[t] = "body" => \E j \in Slots : SlotsOf(s, t) = {j} /\ jbuf[s][j] = t
        /\ pc[t] = "out" => SlotsOf(s, t) = {}

\* With fewer slots than threads some wait, one signal's slot in hand; all threads
\* take the signals in one order, so some body always comes to run.
NoStall ==
    (\E t \in Threads : pc[t] \in {"check", "spin", "store"}) ~> (\E t \in Threads : pc[t] = "body")
=============================================================================
