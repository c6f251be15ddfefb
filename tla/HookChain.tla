----------------------------- MODULE HookChain -----------------------------
(***************************************************************************)
(* The hook chain of the embedded ByteHook engine: the list of proxy       *)
(* functions of one hooked GOT slot (bh_hook.c) and the dispatch of calls  *)
(* through the slot's trampoline (bh_trampo.c).                            *)
(*                                                                         *)
(* Writers (tasks that hook and unhook) hold running_list_lock; readers    *)
(* (the threads of the application, inside a trampoline or inside          *)
(* CALL_PREV) take no lock at all.  A reader walks a singly linked list    *)
(* whose nodes are never freed and looks at their 'enabled' flags one at a *)
(* time, so every node it looks at is a step of its own here.              *)
(*                                                                         *)
(* A new node is inserted at the head of the list.  The model keeps the    *)
(* nodes of a slot in insertion order, so the node with index i links to   *)
(* the node with index i-1, a head pointer is an index, and the snapshot   *)
(* of the list that a frame carries is the length of the chain at that     *)
(* moment.                                                                 *)
(***************************************************************************)
EXTENDS Naturals, Sequences, FiniteSets

CONSTANTS
    Threads,    \* threads of the application
    Hooks,      \* hooked GOT slots, one bh_hook_t each
    Origs,      \* original functions
    Funcs,      \* proxy functions
    Tasks,      \* hook tasks, one per bytehook_hook_*() call
    App,        \* code outside any proxy or original: a caller
    OrigOf,     \* the original function behind a slot
    FuncOf,     \* the proxy function a task installs
    Match,      \* the slots, by their libraries, that a task is for
    FrameMax,   \* BH_TRAMPO_STACK_FRAME_MAX
    Rehook,     \* clients hook proxies that they have hooked already
    MaxDepth    \* bound: calls through trampolines nested in one thread

ASSUME OrigOfType == OrigOf \in [Hooks -> Origs]
ASSUME FuncOfType == FuncOf \in [Tasks -> Funcs]
ASSUME MatchType == Match \in [Tasks -> SUBSET Hooks]
ASSUME FrameMaxType == FrameMax \in Nat
ASSUME RehookType == Rehook \in BOOLEAN
ASSUME MaxDepthType == MaxDepth \in Nat

VARIABLES
    chain,      \* chain[h]: the nodes of slot h, oldest first
    task,       \* where a task is in its life
    tls,        \* tls[t]: thread t has its bytehook stack (pthread_getspecific)
    frames,     \* frames[t]: the bytehook stack of t, innermost last
    stack       \* stack[t]: the calls through trampolines t is inside of

vars == <<chain, task, tls, frames, stack>>

-----------------------------------------------------------------------------
(***************************************************************************)
(* Shapes of the state.                                                    *)
(***************************************************************************)

\* bh_hook_call_t
Node == [func : Funcs, task : Tasks, enabled : BOOLEAN]

\* A return address: the call in application code, in a proxy or in an
\* original that went through a trampoline ("call"), or the CALL_PREV of a
\* proxy, which calls the next function directly ("prev").
Site == {"call", "prev"} \X (Funcs \cup Origs \cup {App})

\* bh_trampo_hook_info_t; 'hook' and 'head' stand for the copied list head.
Frame == [hook : Hooks, head : Nat, orig : Origs, ret : Site]

\* One call through a trampoline, as the C stack of the thread holds it.
\*   mode   scan   in push_stack, looking for the first enabled proxy
\*          push   in push_stack, proxy found, frame not yet pushed
\*          run    the innermost proxy runs and has not called CALL_PREV
\*          prev   in get_prev_func, looking for the next enabled proxy
\*          after  the innermost proxy runs, its CALL_PREV has returned
\*          orig   the original runs, reached at the end of the chain
\*          bypass the original runs, the chain was not walked
\*   idx    the node the walk looks at next, 0 at the end of the list
\*   fs     the proxies of this call that are active, innermost last
\* and, recorded for the properties only,
\*   frame  the position of the frame this call pushed, 0 if it has none
\*   due    the proxies enabled ever since the call began
Mode == {"scan", "push", "run", "prev", "after", "orig", "bypass"}
Call == [hook : Hooks, ret : Site, mode : Mode, idx : Nat, fs : Seq(Funcs),
         frame : Nat, due : SUBSET Funcs]

TypeOK ==
    /\ chain \in [Hooks -> Seq(Node)]
    /\ task \in [Tasks -> {"new", "live", "unhooking", "dead"}]
    /\ tls \in [Threads -> BOOLEAN]
    /\ frames \in [Threads -> Seq(Frame)]
    /\ stack \in [Threads -> Seq(Call)]

Init ==
    /\ chain = [h \in Hooks |-> <<>>]
    /\ task = [k \in Tasks |-> "new"]
    /\ tls = [t \in Threads |-> FALSE]
    /\ frames = [t \in Threads |-> <<>>]
    /\ stack = [t \in Threads |-> <<>>]

-----------------------------------------------------------------------------
(***************************************************************************)
(* Writers: bh_hook_add_func and bh_hook_del_func.                         *)
(***************************************************************************)

EnabledAt(h, f) == {i \in DOMAIN chain[h] : chain[h][i].func = f /\ chain[h][i].enabled}
EnabledFuncs(h) == {f \in Funcs : EnabledAt(h, f) # {}}

\* The unhook that disables the last enabled node of a slot moves its bh_hook_t
\* to the abandoned set: it keeps serving calls, but nothing is added to it or
\* removed from it any more.  A later hook of that slot builds a new bh_hook_t.
Abandoned(h) == chain[h] # <<>> /\ EnabledFuncs(h) = {}

\* The node of (func, task) that an add re-enables.
NodesOf(h, k) == {i \in DOMAIN chain[h] : chain[h][i].func = FuncOf[k] /\ chain[h][i].task = k}

\* A client calls bytehook_hook_*().  do_hook hooks every my_* function once, and
\* clear_hook unhooks them all before the next do_hook, unless the application calls
\* init twice (Rehook): both tasks of a proxy are there then.
Register(k) ==
    /\ task[k] = "new"
    /\ Rehook \/ \A j \in Tasks : FuncOf[j] = FuncOf[k] => task[j] \notin {"live", "unhooking"}
    /\ task' = [task EXCEPT ![k] = "live"]
    /\ UNCHANGED <<chain, tls, frames, stack>>

\* bh_hook_add_func finds the disabled node of this very task and enables it: the
\* unhook of another task of the proxy had disabled it.
ReEnable(h, k) ==
    /\ task[k] = "live"
    /\ ~Abandoned(h)
    /\ EnabledAt(h, FuncOf[k]) = {}
    /\ \E i \in NodesOf(h, k) :
          /\ \A j \in NodesOf(h, k) : j <= i
          /\ chain' = [chain EXCEPT ![h][i].enabled = TRUE]
    /\ UNCHANGED <<task, tls, frames, stack>>

\* Mutant of Create: the walk for an enabled node of the proxy is left out.
CreateUnchecked(h, k) ==
    /\ task[k] = "live"
    /\ ~Abandoned(h)
    /\ NodesOf(h, k) = {}
    /\ chain' = [chain EXCEPT ![h] = Append(@, [func |-> FuncOf[k], task |-> k, enabled |-> TRUE])]
    /\ UNCHANGED <<task, tls, frames, stack>>

\* bh_hook_add_func creates a node and publishes it at the head of the list.
Create(h, k) ==
    /\ task[k] = "live"
    /\ ~Abandoned(h)
    /\ EnabledAt(h, FuncOf[k]) = {}
    /\ NodesOf(h, k) = {}
    /\ chain' = [chain EXCEPT ![h] = Append(@, [func |-> FuncOf[k], task |-> k, enabled |-> TRUE])]
    /\ UNCHANGED <<task, tls, frames, stack>>

\* bytehook_unhook takes the task off the list of tasks ...
Unregister(k) ==
    /\ task[k] = "live"
    /\ task' = [task EXCEPT ![k] = "unhooking"]
    /\ UNCHANGED <<chain, tls, frames, stack>>

\* ... and calls bh_hook_del_func on the slots it still finds.  At most one
\* node of a proxy is enabled (OneEnabledPerFunc), so the loop makes at most
\* one store.
DelFunc(h, k) ==
    /\ task[k] = "unhooking"
    /\ chain[h] # <<>> /\ ~Abandoned(h)
    /\ chain' = [chain EXCEPT ![h] = [i \in DOMAIN @ |->
            IF @[i].func = FuncOf[k] THEN [@[i] EXCEPT !.enabled = FALSE] ELSE @[i]]]
    /\ stack' = [t \in Threads |-> [i \in DOMAIN stack[t] |->
            IF stack[t][i].hook = h
            THEN [stack[t][i] EXCEPT !.due = @ \ {FuncOf[k]}]
            ELSE stack[t][i]]]
    /\ UNCHANGED <<task, tls, frames>>

\* The unhook returns and the task is freed.  Slots of libraries that were
\* closed meanwhile were not visited: their nodes stay enabled.
Retire(k) ==
    /\ task[k] = "unhooking"
    /\ task' = [task EXCEPT ![k] = "dead"]
    /\ UNCHANGED <<chain, tls, frames, stack>>

-----------------------------------------------------------------------------
(***************************************************************************)
(* Readers: a call through a trampoline.                                   *)
(***************************************************************************)

Top(t) == stack[t][Len(stack[t])]
InCall(t, modes) == stack[t] # <<>> /\ Top(t).mode \in modes
Proxy(t) == Top(t).fs[Len(Top(t).fs)]

\* bh_trampo_hook_info_cur
Cur(t) == frames[t][Len(frames[t])]

Front(s) == SubSeq(s, 1, Len(s) - 1)

\* The innermost call of t goes on as c; or it has returned.
WithTop(t, c) == [stack EXCEPT ![t] = [stack[t] EXCEPT ![Len(stack[t])] = c]]
WithoutTop(t) == [stack EXCEPT ![t] = Front(stack[t])]

\* Who makes the next call of thread t.
Caller(t) ==
    IF stack[t] = <<>> THEN App
    ELSE IF Top(t).mode \in {"run", "after"} THEN Proxy(t)
    ELSE OrigOf[Top(t).hook]

\* Mutant of Recursive: it compares slots where it should compare originals.
RecursiveBySlot(t, h) == \E i \in DOMAIN frames[t] : frames[t][i].hook = h

\* bh_trampo_push_stack: an original already on the bytehook stack is being
\* called again from inside its own proxies.
Recursive(t, h) == \E i \in DOMAIN frames[t] : frames[t][i].orig = OrigOf[h]

NewCall(t, h, m) ==
    [hook |-> h, ret |-> <<"call", Caller(t)>>, mode |-> m, idx |-> Len(chain[h]),
     fs |-> <<>>, frame |-> 0, due |-> EnabledFuncs(h)]

\* A GOT slot leads to the trampoline once its bh_hook_t has a node.
MayCall(t, h) ==
    /\ chain[h] # <<>>
    /\ Len(stack[t]) < MaxDepth
    /\ stack[t] = <<>> \/ InCall(t, {"run", "after", "orig", "bypass"})

\* Entry of push_stack: the thread's bytehook stack is created on first use,
\* a recursive call goes to the original, any other starts at the list head.
Enter(t, h) ==
    /\ MayCall(t, h)
    /\ tls' = [tls EXCEPT ![t] = TRUE]
    /\ stack' = [stack EXCEPT ![t] =
            Append(@, NewCall(t, h, IF Recursive(t, h) THEN "bypass" ELSE "scan"))]
    /\ UNCHANGED <<chain, task, frames>>

\* The bytehook stack cannot be mapped: straight to the original.
EnterNoStack(t, h) ==
    /\ MayCall(t, h)
    /\ ~tls[t]
    /\ stack' = [stack EXCEPT ![t] = Append(@, NewCall(t, h, "bypass"))]
    /\ UNCHANGED <<chain, task, tls, frames>>

\* push_stack finds an enabled proxy in the node it looks at.
ScanHit(t) ==
    /\ InCall(t, {"scan"})
    /\ LET c == Top(t)
       IN /\ c.idx > 0
          /\ chain[c.hook][c.idx].enabled
          /\ stack' = WithTop(t, [c EXCEPT !.mode = "push", !.fs = <<chain[c.hook][c.idx].func>>])
    /\ UNCHANGED <<chain, task, tls, frames>>

\* push_stack then copies the list head, which may be newer than the one its
\* walk started from.
Push(t) ==
    /\ InCall(t, {"push"})
    /\ Len(frames[t]) < FrameMax
    /\ LET c == Top(t)
       IN /\ frames' = [frames EXCEPT ![t] =
                Append(@, [hook |-> c.hook, head |-> Len(chain[c.hook]),
                           orig |-> OrigOf[c.hook], ret |-> c.ret])]
          /\ stack' = WithTop(t, [c EXCEPT !.mode = "run", !.frame = Len(frames[t]) + 1])
    /\ UNCHANGED <<chain, task, tls>>

\* No room for a frame: the original is called, no proxy runs.
PushFull(t) ==
    /\ InCall(t, {"push"})
    /\ Len(frames[t]) >= FrameMax
    /\ stack' = WithTop(t, [Top(t) EXCEPT !.mode = "bypass", !.fs = <<>>])
    /\ UNCHANGED <<chain, task, tls, frames>>

Newest(S) == CHOOSE i \in S : \A j \in S : j <= i

\* Mutant of After: the walk does not look for the caller.
AfterHead(h, head, f) == head

\* Mutant of After: one node too far.
AfterNext(h, head, f) ==
    LET at == {i \in 1..head : chain[h][i].func = f}
    IN IF at = {} \/ Newest(at) = 1 THEN 0 ELSE Newest(at) - 2

\* Mutant of After: one node too far, past the end of the list.
AfterPastEnd(h, head, f) ==
    LET at == {i \in 1..head : chain[h][i].func = f}
    IN IF at = {} THEN 0 ELSE Newest(at) - 2

\* get_prev_func searches the copied list for the calling proxy: functions
\* and links of nodes never change, so that part of the walk is one step.
\* Its result is the node after it, 0 when the proxy is not in the list.
After(h, head, f) ==
    LET at == {i \in 1..head : chain[h][i].func = f}
    IN IF at = {} THEN 0 ELSE Newest(at) - 1

CallPrev(t) ==
    /\ InCall(t, {"run"})
    /\ frames[t] # <<>>
    /\ stack' = WithTop(t, [Top(t) EXCEPT !.mode = "prev", !.idx = After(Cur(t).hook, Cur(t).head, Proxy(t))])
    /\ UNCHANGED <<chain, task, tls, frames>>

\* get_prev_func finds the next enabled proxy, and CALL_PREV calls it.
PrevHit(t) ==
    /\ InCall(t, {"prev"})
    /\ LET c == Top(t)
           n == chain[Cur(t).hook][c.idx]
       IN /\ c.idx > 0
          /\ n.enabled
          /\ stack' = WithTop(t, [c EXCEPT !.mode = "run", !.fs = Append(@, n.func)])
    /\ UNCHANGED <<chain, task, tls, frames>>

\* The list either walk is in.
WalkHook(t) == IF Top(t).mode = "scan" THEN Top(t).hook ELSE Cur(t).hook

\* Mutant of Skip: the walk starts again from the list head.
SkipToHead(t) ==
    /\ InCall(t, {"scan", "prev"})
    /\ Top(t).idx > 0
    /\ ~chain[WalkHook(t)][Top(t).idx].enabled
    /\ stack' = WithTop(t, [Top(t) EXCEPT !.idx = Len(chain[WalkHook(t)])])
    /\ UNCHANGED <<chain, task, tls, frames>>

\* Either walk passes a disabled node.
Skip(t) ==
    /\ InCall(t, {"scan", "prev"})
    /\ Top(t).idx > 0
    /\ ~chain[WalkHook(t)][Top(t).idx].enabled
    /\ stack' = WithTop(t, [Top(t) EXCEPT !.idx = @ - 1])
    /\ UNCHANGED <<chain, task, tls, frames>>

\* Either walk is at the end of the list: the original is called.
WalkEnd(t) ==
    /\ InCall(t, {"scan", "prev"})
    /\ Top(t).idx = 0
    /\ stack' = WithTop(t, [Top(t) EXCEPT !.mode = "orig"])
    /\ UNCHANGED <<chain, task, tls, frames>>

\* The original returns, to the proxy that called it or to the caller of the
\* hooked function.
OrigReturns(t) ==
    /\ InCall(t, {"orig", "bypass"})
    /\ stack' = IF Top(t).fs = <<>>
                THEN WithoutTop(t)
                ELSE WithTop(t, [Top(t) EXCEPT !.mode = "after"])
    /\ UNCHANGED <<chain, task, tls, frames>>

\* The return address of the innermost proxy: the hooked call itself for the
\* first proxy, which the trampoline jumps to, else the CALL_PREV it came by.
ReturnAddress(t) ==
    LET c == Top(t)
    IN IF Len(c.fs) = 1 THEN c.ret ELSE <<"prev", c.fs[Len(c.fs) - 1]>>

\* bh_trampo_pop_stack
PopStack(t) ==
    IF frames[t] # <<>> /\ Cur(t).ret = ReturnAddress(t)
    THEN Front(frames[t])
    ELSE frames[t]

\* A proxy returns, with or without having called CALL_PREV: the scope guard at
\* its end pops the frame.
ProxyReturns(t) ==
    /\ InCall(t, {"run", "after"})
    /\ frames' = [frames EXCEPT ![t] = PopStack(t)]
    /\ stack' = IF Len(Top(t).fs) = 1
                THEN WithoutTop(t)
                ELSE WithTop(t, [Top(t) EXCEPT !.mode = "after", !.fs = Front(@)])
    /\ UNCHANGED <<chain, task, tls>>

\* Mutant of ThreadExit: the bytehook stack outlives the thread's calls.
ThreadExitKeeps(t) ==
    /\ InCall(t, {"orig", "bypass"})
    /\ stack' = [stack EXCEPT ![t] = <<>>]
    /\ UNCHANGED <<chain, task, tls, frames>>

\* The original was pthread_exit: no proxy above it returns, and the
\* destructor of the thread's key unmaps the bytehook stack.
ThreadExit(t) ==
    /\ InCall(t, {"orig", "bypass"})
    /\ tls' = [tls EXCEPT ![t] = FALSE]
    /\ frames' = [frames EXCEPT ![t] = <<>>]
    /\ stack' = [stack EXCEPT ![t] = <<>>]
    /\ UNCHANGED <<chain, task>>

-----------------------------------------------------------------------------

Writer == \E k \in Tasks :
    \/ Register(k)
    \/ Unregister(k)
    \/ Retire(k)
    \/ \E h \in Hooks : h \in Match[k] /\ (ReEnable(h, k) \/ Create(h, k) \/ DelFunc(h, k))

\* The steps a thread takes inside the engine: nothing can hold them up.
Engine(t) ==
    \/ ScanHit(t)
    \/ Push(t)
    \/ PushFull(t)
    \/ PrevHit(t)
    \/ Skip(t)
    \/ WalkEnd(t)

Reader(t) ==
    \/ \E h \in Hooks : Enter(t, h) \/ EnterNoStack(t, h)
    \/ Engine(t)
    \/ CallPrev(t)
    \/ OrigReturns(t)
    \/ ProxyReturns(t)
    \/ ThreadExit(t)

Next == Writer \/ \E t \in Threads : Reader(t)

Spec == Init /\ [][Next]_vars

\* The walks are loops without locks or waits: a thread in one goes on.
FairSpec == Spec /\ \A t \in Threads : WF_vars(Engine(t))
-----------------------------------------------------------------------------
(***************************************************************************)
(* Properties.                                                             *)
(***************************************************************************)

\* The two walks of bh_hook_add_func under running_list_lock keep a proxy from
\* being enabled twice in the list of one slot, whoever hooks it and how often: a
\* call would run it twice, and count a block twice.
OneEnabledPerFunc ==
    \A h \in Hooks : \A i, j \in DOMAIN chain[h] :
        /\ i < j
        /\ chain[h][i].func = chain[h][j].func
        => ~(chain[h][i].enabled /\ chain[h][j].enabled)

\* If proxies are not hooked twice, a node that an equal proxy was inserted in front
\* of stays disabled for good, for its task is over: bh_trampo_get_prev_func, which
\* looks the running proxy up by its address and takes the first node that has it,
\* depends on it.
OldNodesOver ==
    ~Rehook =>
    \A h \in Hooks : \A i, j \in DOMAIN chain[h] :
        /\ i < j
        /\ chain[h][i].func = chain[h][j].func
        => /\ ~chain[h][i].enabled
           /\ task[chain[h][i].task] = "dead"

\* The frames on a thread's bytehook stack are those of the calls it is inside
\* of, in the same order: whenever CALL_PREV or the scope guard of a proxy asks
\* for the current frame it gets the frame of the call that runs this proxy,
\* although nothing but the return address ties the two together.
FramesMatchCalls ==
    \A t \in Threads :
        /\ \A i \in DOMAIN stack[t] :
              LET c == stack[t][i]
              IN c.frame > 0 =>
                    /\ c.frame \in DOMAIN frames[t]
                    /\ frames[t][c.frame].hook = c.hook
                    /\ frames[t][c.frame].orig = OrigOf[c.hook]
                    /\ frames[t][c.frame].ret = c.ret
                    /\ frames[t][c.frame].head \in 1..Len(chain[c.hook])
        /\ \A k \in DOMAIN frames[t] : \E i \in DOMAIN stack[t] : stack[t][i].frame = k
        /\ \A i, j \in DOMAIN stack[t] :
              i < j /\ stack[t][i].frame > 0 /\ stack[t][j].frame > 0
              => stack[t][i].frame < stack[t][j].frame
        /\ InCall(t, {"run", "prev", "after"}) => Top(t).frame = Len(frames[t])

\* Whatever is hooked and unhooked while a call walks the list, no proxy is
\* entered twice by one call, so no call can circle in its chain for ever.
NoProxyTwice ==
    \A t \in Threads : \A n \in DOMAIN stack[t] :
        LET fs == stack[t][n].fs
        IN \A i, j \in DOMAIN fs : fs[i] = fs[j] => i = j

\* A proxy that hooks one original only is never entered again by a thread that
\* is already inside it: my_malloc may call anything that calls malloc.
NoReentry ==
    \A t \in Threads : \A m, n \in DOMAIN stack[t] :
        /\ m < n
        /\ OrigOf[stack[t][m].hook] = OrigOf[stack[t][n].hook]
        => stack[t][m].fs = <<>> \/ stack[t][n].fs = <<>>

\* A call that reaches the original by walking the chain has run every proxy
\* that was enabled from its beginning on: concurrent hooks and unhooks of other
\* proxies never make it skip one.
NoHookSkipped ==
    \A t \in Threads : \A n \in DOMAIN stack[t] :
        stack[t][n].mode = "orig" =>
            stack[t][n].due \subseteq {stack[t][n].fs[i] : i \in DOMAIN stack[t][n].fs}

\* A thread that walks a list gets out of it, to a proxy or to the original.
WalkEnds == \A t \in Threads : InCall(t, {"scan", "push", "prev"})
                ~> ~InCall(t, {"scan", "push", "prev"})
=============================================================================
