---------------------------- MODULE DlLockProofs ----------------------------
(***************************************************************************)
(* Proofs about DlLock, for every set of threads, libraries and tasks, and *)
(* every depth of nested calls.                                            *)
(*                                                                         *)
(* All of it goes by the calls that are in progress, counted by where they *)
(* are: the lock count of a thread is the number of its calls in the       *)
(* linker, the read-write lock of dlclose is held by as many calls as it   *)
(* says, and there are handles for the calls of dlclose under way.         *)
(*                                                                         *)
(* The last part is about who waits for whom: WaitInv has the other locks  *)
(* and the linker's mutex belong to calls too, so that of the calls under  *)
(* way one always has what it waits for.                                   *)
(***************************************************************************)
EXTENDS DlLock, SequenceTheorems, FiniteSetTheorems, TLAPS

\* The frames that calls make.
Made ==
    {f \in Frames :
        /\ f.fn \in {"open", "close"} => f.arg \in Libs
        /\ f.fn \in {"hook", "unhook"} => f.arg \in Tasks
        /\ f.fn = "open" => f.pc \in {"start", "pre", "link", "ctor", "linked", "rd", "elfs",
                                      "iter", "new", "told", "notify", "post"}
        /\ f.fn = "close" => f.pc \in {"start", "link", "dtor", "linked", "elfs", "iter",
                                       "sync", "fin"}
        /\ f.fn = "hook" => f.pc \in {"start", "rd", "copy", "meet", "told"}
        /\ f.fn = "unhook" => f.pc \in {"start", "rd", "copy", "meet"}
        /\ f.fn \in {"add", "del"} => f.pc = "start"
        /\ f.todo # {} => f.fn # "close" /\ f.pc \in {"new", "meet", "told"}
        /\ f.pc = "start" => ~f.wr}

\* Code of others runs in all calls but the innermost.
StackInv ==
    /\ stack \in [Threads -> Seq(Made)]
    /\ \A t \in Threads : /\ Depth(t) <= Nested
                          /\ \A i \in 1..(Depth(t) - 1) : stack[t][i].pc \in Places

\* Where calls of the threads T are whose frames are in S.
Where(T, S) ==
    {p \in T \X Nat : p[2] \in 1..Len(stack[p[1]]) /\ stack[p[1]][p[2]] \in S}

\* Calls in the linker, as the lock count of their thread has them.
Counting ==
    {f \in Made : \/ f.fn = "open" /\ f.pc \in {"ctor", "linked"}
                  \/ f.fn = "close" /\ f.pc \in {"dtor", "linked"}}

\* Calls of dlclose with a handle on l to give back.
Closing(l) ==
    {f \in Made : f.fn = "close" /\ f.arg = l /\ f.pc \in {"start", "link", "dtor", "linked"}}

CountInv ==
    /\ count \in [Threads -> Nat]
    /\ \A t \in Threads : /\ IsFiniteSet(Where({t}, Counting))
                          /\ count[t] = Cardinality(Where({t}, Counting))

HandleInv ==
    /\ IsFiniteSet(Where(Threads, Made))
    /\ refs \in [Libs -> Nat]
    /\ \A l \in Libs : Cardinality(Where(Threads, Closing(l))) <= refs[l]

CallInv == StackInv /\ CountInv /\ HandleInv /\ tasks \subseteq Tasks

-----------------------------------------------------------------------------
(***************************************************************************)
(* What a step does to the stack of its thread.                            *)
(***************************************************************************)

\* The innermost call goes on.
Moves(t, g) ==
    /\ Depth(t) > 0 /\ stack' \in [Threads -> Seq(Made)]
    /\ \A u \in Threads : u # t => stack'[u] = stack[u]
    /\ Len(stack'[t]) = Depth(t)
    /\ \A i \in 1..(Depth(t) - 1) : stack'[t][i] = stack[t][i]
    /\ stack'[t][Depth(t)] = g

\* It returns.
Pops(t) ==
    /\ Depth(t) > 0 /\ stack' \in [Threads -> Seq(Made)]
    /\ \A u \in Threads : u # t => stack'[u] = stack[u]
    /\ Len(stack'[t]) = Depth(t) - 1
    /\ \A i \in 1..(Depth(t) - 1) : stack'[t][i] = stack[t][i]

\* It makes another one.
Pushes(t, g) ==
    /\ stack' \in [Threads -> Seq(Made)]
    /\ \A u \in Threads : u # t => stack'[u] = stack[u]
    /\ Len(stack'[t]) = Depth(t) + 1
    /\ \A i \in 1..Depth(t) : stack'[t][i] = stack[t][i]
    /\ stack'[t][Depth(t) + 1] = g

\* The innermost call is one of those that calls make.
LEMMA TopMade ==
    ASSUME StackInv, NEW t \in Threads, stack[t] # <<>>
    PROVE  /\ Depth(t) \in Nat \ {0} /\ stack[t] \in Seq(Made)
           /\ Top(t) \in Made /\ Depth(t) \in DOMAIN stack[t]
  <1>1. stack[t] \in Seq(Made)
    BY DEF StackInv
  <1>2. Len(stack[t]) \in Nat \ {0} /\ DOMAIN stack[t] = 1..Len(stack[t])
    BY <1>1
  <1>3. stack[t][Len(stack[t])] \in Made
    BY <1>1, <1>2
  <1>4. QED
    BY <1>1, <1>2, <1>3 DEF Depth, Top

\* The last frame of a stack is replaced.
LEMMA TopChanges ==
    ASSUME StackInv, NEW t \in Threads, stack[t] # <<>>, NEW g \in Made,
           stack' = [stack EXCEPT ![t] = [@ EXCEPT ![Depth(t)] = g]]
    PROVE  Moves(t, g)
  <1> DEFINE s == stack[t]
             d == Depth(t)
  <1>1. s \in Seq(Made) /\ d \in Nat \ {0} /\ d = Len(s) /\ d \in DOMAIN s /\ DOMAIN s = 1..d
    BY TopMade DEF Depth
  <1>2. stack' = [stack EXCEPT ![t] = [s EXCEPT ![d] = g]] /\ stack \in [Threads -> Seq(Made)]
    BY DEF StackInv
  <1> HIDE DEF d
  <1>3. [s EXCEPT ![d] = g] \in Seq(Made) /\ Len([s EXCEPT ![d] = g]) = d
    BY <1>1
  <1>4. stack' \in [Threads -> Seq(Made)] /\ stack'[t] = [s EXCEPT ![d] = g]
        /\ \A u \in Threads : u # t => stack'[u] = stack[u]
    BY <1>2, <1>3
  <1>5. \A i \in 1..d : [s EXCEPT ![d] = g][i] = IF i = d THEN g ELSE s[i]
    BY <1>1
  <1>6. QED
    BY <1>1, <1>3, <1>4, <1>5 DEF Moves, d

LEMMA GotoMoves ==
    ASSUME StackInv, NEW t \in Threads, stack[t] # <<>>, NEW where, Goto(t, where),
           [Top(t) EXCEPT !.pc = where] \in Made
    PROVE  Moves(t, [Top(t) EXCEPT !.pc = where])
  <1> DEFINE g == [Top(t) EXCEPT !.pc = where]
  <1>1. stack' = [stack EXCEPT ![t] = [@ EXCEPT ![Depth(t)] = g]]
    BY DEF Goto, Top
  <1>2. QED
    BY <1>1, TopChanges

LEMMA ReturnPops ==
    ASSUME StackInv, NEW t \in Threads, stack[t] # <<>>, Return(t)
    PROVE  Pops(t)
  <1> DEFINE s == stack[t]
             d == Depth(t)
             r == SubSeq(s, 1, d - 1)
  <1>1. s \in Seq(Made) /\ d \in Nat \ {0} /\ d = Len(s)
    BY TopMade DEF Depth
  <1>2. stack' = [stack EXCEPT ![t] = r] /\ stack \in [Threads -> Seq(Made)]
    BY DEF Return, StackInv
  <1> HIDE DEF d
  <1>3. r \in Seq(Made) /\ Len(r) = d - 1 /\ \A i \in 1..(d - 1) : r[i] = s[i]
    BY <1>1
  <1> HIDE DEF r
  <1>4. QED
    BY <1>1, <1>2, <1>3 DEF Pops, d

LEMMA AppendPushes ==
    ASSUME StackInv, NEW t \in Threads, NEW g \in Made,
           stack' = [stack EXCEPT ![t] = Append(@, g)]
    PROVE  Pushes(t, g)
  <1> DEFINE s == stack[t]
             d == Depth(t)
             r == Append(s, g)
  <1>1. s \in Seq(Made) /\ d \in Nat /\ d = Len(s)
    BY DEF Depth, StackInv
  <1>2. stack' = [stack EXCEPT ![t] = r] /\ stack \in [Threads -> Seq(Made)]
    BY DEF StackInv
  <1> HIDE DEF d
  <1>3. r \in Seq(Made) /\ Len(r) = d + 1 /\ r[d + 1] = g /\ \A i \in 1..d : r[i] = s[i]
    BY <1>1
  <1> HIDE DEF r
  <1>4. QED
    BY <1>1, <1>2, <1>3 DEF Pushes, d

-----------------------------------------------------------------------------
(***************************************************************************)
(* Which calls are where after it.                                         *)
(***************************************************************************)

LEMMA WhereMoves ==
    ASSUME StackInv, NEW T \in SUBSET Threads, NEW S, NEW t \in Threads, NEW g, Moves(t, g)
    PROVE  /\ (t \in T => (Top(t) \in S <=> g \in S)) => Where(T, S)' = Where(T, S)
           /\ t \in T /\ Top(t) \notin S /\ g \in S =>
                 <<t, Depth(t)>> \notin Where(T, S) /\ Where(T, S)' = Where(T, S) \cup {<<t, Depth(t)>>}
           /\ t \in T /\ Top(t) \in S /\ g \notin S =>
                 <<t, Depth(t)>> \in Where(T, S) /\ Where(T, S)' = Where(T, S) \ {<<t, Depth(t)>>}
  <1> DEFINE d == Depth(t)
             here == <<t, d>>
  <1>1. /\ d \in Nat \ {0} /\ d = Len(stack[t]) /\ Len(stack'[t]) = d
        /\ \A u \in Threads : u # t => stack'[u] = stack[u]
        /\ \A i \in 1..(d - 1) : stack'[t][i] = stack[t][i]
        /\ stack'[t][d] = g
    <2>1. stack[t] # <<>>
      BY DEF Moves, Depth
    <2>2. QED
      BY <2>1, TopMade DEF Moves, Depth
  <1>2. here \in Where(T, S) <=> t \in T /\ Top(t) \in S
    BY <1>1 DEF Where, Top, Depth
  <1>3. ASSUME NEW p \in T \X Nat, p # here
        PROVE  p \in Where(T, S)' <=> p \in Where(T, S)
    <2>1. CASE p[1] # t
      BY <1>1, <2>1 DEF Where
    <2>2. CASE p[1] = t
      <3>1. p[2] # d /\ p[2] \in Nat
        BY <1>3, <2>2
      <3>2. p[2] \in 1..Len(stack[t]) <=> p[2] \in 1..(d - 1)
        BY <1>1, <3>1
      <3>3. p[2] \in 1..Len(stack'[t]) <=> p[2] \in 1..(d - 1)
        BY <1>1, <3>1
      <3>4. QED
        BY <1>1, <2>2, <3>2, <3>3 DEF Where
    <2>3. QED
      BY <2>1, <2>2
  <1>4. here \in Where(T, S)' <=> t \in T /\ g \in S
    <2>1. \A h : h = here => (h \in Where(T, S)' <=> t \in T /\ g \in S)
      BY <1>1 DEF Where
    <2>2. QED
      BY <2>1 DEF Where
  <1>5. Where(T, S) \subseteq T \X Nat /\ Where(T, S)' \subseteq T \X Nat
    BY DEF Where
  <1> HIDE DEF here
  <1>6. QED
    BY <1>2, <1>3, <1>4, <1>5 DEF here

LEMMA WherePushes ==
    ASSUME StackInv, NEW T \in SUBSET Threads, NEW S, NEW t \in Threads, NEW g, Pushes(t, g)
    PROVE  /\ (t \in T => g \notin S) => Where(T, S)' = Where(T, S)
           /\ t \in T /\ g \in S =>
                 <<t, Depth(t) + 1>> \notin Where(T, S)
                 /\ Where(T, S)' = Where(T, S) \cup {<<t, Depth(t) + 1>>}
  <1> DEFINE d == Depth(t)
             here == <<t, d + 1>>
  <1>1. /\ d \in Nat /\ d = Len(stack[t]) /\ Len(stack'[t]) = d + 1
        /\ \A u \in Threads : u # t => stack'[u] = stack[u]
        /\ \A i \in 1..d : stack'[t][i] = stack[t][i]
        /\ stack'[t][d + 1] = g
    BY DEF Pushes, Depth, StackInv
  <1>2. here \notin Where(T, S)
    BY <1>1 DEF Where
  <1>3. ASSUME NEW p \in T \X Nat, p # here
        PROVE  p \in Where(T, S)' <=> p \in Where(T, S)
    <2>1. CASE p[1] # t
      BY <1>1, <2>1 DEF Where
    <2>2. CASE p[1] = t
      <3>1. p[2] # d + 1 /\ p[2] \in Nat
        BY <1>3, <2>2
      <3>2. p[2] \in 1..Len(stack'[t]) <=> p[2] \in 1..d
        BY <1>1, <3>1
      <3>3. QED
        BY <1>1, <2>2, <3>2 DEF Where
    <2>3. QED
      BY <2>1, <2>2
  <1>4. here \in Where(T, S)' <=> t \in T /\ g \in S
    <2>1. \A h : h = here => (h \in Where(T, S)' <=> t \in T /\ g \in S)
      BY <1>1 DEF Where
    <2>2. QED
      BY <2>1 DEF Where
  <1>5. Where(T, S) \subseteq T \X Nat /\ Where(T, S)' \subseteq T \X Nat
    BY DEF Where
  <1> HIDE DEF here
  <1>6. QED
    BY <1>2, <1>3, <1>4, <1>5 DEF here

LEMMA WherePops ==
    ASSUME StackInv, NEW T \in SUBSET Threads, NEW S, NEW t \in Threads, Pops(t)
    PROVE  /\ (t \in T => Top(t) \notin S) => Where(T, S)' = Where(T, S)
           /\ t \in T /\ Top(t) \in S =>
                 <<t, Depth(t)>> \in Where(T, S) /\ Where(T, S)' = Where(T, S) \ {<<t, Depth(t)>>}
  <1> DEFINE d == Depth(t)
             here == <<t, d>>
  <1>1. /\ d \in Nat \ {0} /\ d = Len(stack[t]) /\ Len(stack'[t]) = d - 1
        /\ \A u \in Threads : u # t => stack'[u] = stack[u]
        /\ \A i \in 1..(d - 1) : stack'[t][i] = stack[t][i]
    <2>1. stack[t] # <<>>
      BY DEF Pops, Depth
    <2>2. QED
      BY <2>1, TopMade DEF Pops, Depth
  <1>2. here \in Where(T, S) <=> t \in T /\ Top(t) \in S
    BY <1>1 DEF Where, Top, Depth
  <1>3. ASSUME NEW p \in T \X Nat, p # here
        PROVE  p \in Where(T, S)' <=> p \in Where(T, S)
    <2>1. CASE p[1] # t
      BY <1>1, <2>1 DEF Where
    <2>2. CASE p[1] = t
      <3>1. p[2] # d /\ p[2] \in Nat
        BY <1>3, <2>2
      <3>2. p[2] \in 1..Len(stack[t]) <=> p[2] \in 1..(d - 1)
        BY <1>1, <3>1
      <3>3. p[2] \in 1..Len(stack'[t]) <=> p[2] \in 1..(d - 1)
        BY <1>1
      <3>4. QED
        BY <1>1, <2>2, <3>2, <3>3 DEF Where
    <2>3. QED
      BY <2>1, <2>2
  <1>4. here \notin Where(T, S)'
    <2>1. \A h : h = here => h \notin Where(T, S)'
      BY <1>1 DEF Where
    <2>2. QED
      BY <2>1 DEF Where
  <1>5. Where(T, S) \subseteq T \X Nat /\ Where(T, S)' \subseteq T \X Nat
    BY DEF Where
  <1> HIDE DEF here
  <1>6. QED
    BY <1>2, <1>3, <1>4, <1>5 DEF here

\* The call was in S before and after, or neither.
LEMMA Stays ==
    ASSUME StackInv, NEW T \in SUBSET Threads, NEW S, NEW t \in Threads, NEW g,
           \/ Moves(t, g) /\ (t \in T => (Top(t) \in S <=> g \in S))
           \/ Pushes(t, g) /\ (t \in T => g \notin S)
           \/ Pops(t) /\ (t \in T => Top(t) \notin S)
    PROVE  Where(T, S)' = Where(T, S)
  <1>1. CASE Moves(t, g) /\ (t \in T => (Top(t) \in S <=> g \in S))
    BY <1>1, WhereMoves
  <1>2. CASE Pushes(t, g) /\ (t \in T => g \notin S)
    BY <1>2, WherePushes
  <1>3. CASE Pops(t) /\ (t \in T => Top(t) \notin S)
    BY <1>3, WherePops
  <1>4. QED
    BY <1>1, <1>2, <1>3

\* There is one more, or one less.
LEMMA Comes ==
    ASSUME StackInv, NEW T \in SUBSET Threads, NEW S, NEW t \in T, NEW g, g \in S,
           IsFiniteSet(Where(T, S)),
           (Moves(t, g) /\ Top(t) \notin S) \/ Pushes(t, g)
    PROVE  /\ IsFiniteSet(Where(T, S)') /\ Cardinality(Where(T, S)) \in Nat
           /\ Cardinality(Where(T, S)') = Cardinality(Where(T, S)) + 1
           /\ Where(T, S) \subseteq Where(T, S)' /\ Where(T, S)' # {}
  <1> t \in Threads
    OBVIOUS
  <1>1. \E h : h \notin Where(T, S) /\ Where(T, S)' = Where(T, S) \cup {h}
    <2>1. CASE Moves(t, g) /\ Top(t) \notin S
      <3>1. <<t, Depth(t)>> \notin Where(T, S) /\ Where(T, S)' = Where(T, S) \cup {<<t, Depth(t)>>}
        BY <2>1, WhereMoves
      <3>2. QED
        BY <3>1
    <2>2. CASE Pushes(t, g)
      BY <2>2, WherePushes
    <2>3. QED
      BY <2>1, <2>2
  <1>2. QED
    BY <1>1, FS_AddElement, FS_CardinalityType

LEMMA Leaves ==
    ASSUME StackInv, NEW T \in SUBSET Threads, NEW S, NEW t \in T, Top(t) \in S,
           IsFiniteSet(Where(T, S)), NEW g,
           (Moves(t, g) /\ g \notin S) \/ Pops(t)
    PROVE  /\ IsFiniteSet(Where(T, S)') /\ Cardinality(Where(T, S)) \in Nat \ {0}
           /\ Cardinality(Where(T, S)') = Cardinality(Where(T, S)) - 1
           /\ Where(T, S)' \subseteq Where(T, S)
  <1> t \in Threads
    OBVIOUS
  <1>1. \E h \in Where(T, S) : Where(T, S)' = Where(T, S) \ {h}
    <2>1. CASE Moves(t, g) /\ g \notin S
      <3>1. <<t, Depth(t)>> \in Where(T, S) /\ Where(T, S)' = Where(T, S) \ {<<t, Depth(t)>>}
        BY <2>1, WhereMoves
      <3>2. QED
        BY <3>1
    <2>2. CASE Pops(t)
      BY <2>2, WherePops
    <2>3. QED
      BY <2>1, <2>2
  <1>2. Cardinality(Where(T, S)) \in Nat \ {0}
    BY <1>1, FS_CardinalityType, FS_EmptySet
  <1>3. QED
    BY <1>1, <1>2, FS_RemoveElement

\* The innermost call is there.
LEMMA TopThere ==
    ASSUME StackInv, NEW T \in SUBSET Threads, NEW S, NEW t \in T, stack[t] # <<>>, Top(t) \in S
    PROVE  <<t, Depth(t)>> \in Where(T, S)
  BY TopMade DEF Where, Top, Depth

-----------------------------------------------------------------------------
(***************************************************************************)
(* The stacks, the lock counts and the handles.                            *)
(***************************************************************************)

LEMMA StackKept ==
    ASSUME StackInv, NEW t \in Threads, NEW g,
           \/ Moves(t, g)
           \/ Pops(t)
           \/ Pushes(t, g) /\ Depth(t) < Nested /\ Place(t) \in Places
    PROVE  StackInv'
  <1>1. stack' \in [Threads -> Seq(Made)] /\ \A u \in Threads : u # t => stack'[u] = stack[u]
    BY DEF Moves, Pops, Pushes
  <1>2. Depth(t) \in Nat /\ Depth(t) <= Nested /\ Nested \in Nat
        /\ \A i \in 1..(Depth(t) - 1) : stack[t][i].pc \in Places
    BY BoundsType DEF StackInv, Depth
  <1>3. Len(stack'[t]) <= Nested /\ \A i \in 1..(Len(stack'[t]) - 1) : stack'[t][i].pc \in Places
    <2>1. CASE Moves(t, g)
      BY <1>2, <2>1 DEF Moves
    <2>2. CASE Pops(t)
      BY <1>2, <2>2 DEF Pops
    <2>3. CASE Pushes(t, g) /\ Depth(t) < Nested /\ Place(t) \in Places
      <3>1. ASSUME NEW i \in 1..Depth(t) PROVE stack'[t][i].pc \in Places
        <4>1. CASE i = Depth(t)
          <5>1. stack[t] # <<>>
            BY <1>2, <4>1 DEF Depth
          <5>2. stack[t][i].pc \in Places
            BY <2>3, <4>1, <5>1 DEF Place, Top
          <5>3. QED
            BY <2>3, <5>2 DEF Pushes
        <4>2. CASE i # Depth(t)
          BY <1>2, <2>3, <4>2 DEF Pushes
        <4>3. QED
          BY <4>1, <4>2
      <3>2. Len(stack'[t]) = Depth(t) + 1
        BY <2>3 DEF Pushes
      <3>3. QED
        BY <1>2, <2>3, <3>1, <3>2
    <2>4. QED
      BY <2>1, <2>2, <2>3
  <1>4. QED
    BY <1>1, <1>3 DEF StackInv, Depth

\* The innermost call goes from one place to another, and is the same otherwise.
Turn(t, fns, from, to) ==
    /\ stack[t] # <<>> /\ Top(t) \in Made /\ Top(t).fn \in fns /\ Top(t).pc = from
    /\ [Top(t) EXCEPT !.pc = to] \in Made
    /\ Moves(t, [Top(t) EXCEPT !.pc = to])

LEMMA Turns ==
    ASSUME StackInv, NEW t \in Threads, NEW fns, NEW from, NEW to, At(t, fns, from), Goto(t, to),
           [Top(t) EXCEPT !.pc = to] \in Made
    PROVE  Turn(t, fns, from, to)
  <1>1. stack[t] # <<>> /\ Top(t).fn \in fns /\ Top(t).pc = from
    BY DEF At
  <1>2. QED
    BY <1>1, TopMade, GotoMoves DEF Turn

\* A call is made, goes on or returns, not in the linker and not in a dlclose that
\* has a handle to give back.
LEMMA CallsKept ==
    ASSUME CallInv, NEW t \in Threads, NEW g, UNCHANGED <<count, refs>>, tasks' \subseteq Tasks,
           \/ /\ Moves(t, g)
              /\ Top(t) \in Counting <=> g \in Counting
              /\ \A l \in Libs : Top(t) \in Closing(l) <=> g \in Closing(l)
              /\ Top(t) \in Made /\ g \in Made
           \/ /\ Pops(t)
              /\ Top(t) \in Made \ Counting
              /\ \A l \in Libs : Top(t) \notin Closing(l)
    PROVE  CallInv'
  <1>1. StackInv'
    BY StackKept DEF CallInv
  <1>2. \A u \in Threads : Where({u}, Counting)' = Where({u}, Counting)
    BY Stays DEF CallInv
  <1>3. CountInv'
    BY <1>2 DEF CallInv, CountInv
  <1>4. \A l \in Libs : Where(Threads, Closing(l))' = Where(Threads, Closing(l))
    BY Stays DEF CallInv
  <1>5. IsFiniteSet(Where(Threads, Made)')
    <2>1. CASE Moves(t, g) /\ Top(t) \in Made /\ g \in Made
      <3>1. Where(Threads, Made)' = Where(Threads, Made)
        BY <2>1, Stays DEF CallInv
      <3>2. QED
        BY <3>1 DEF CallInv, HandleInv
    <2>2. CASE Pops(t) /\ Top(t) \in Made
      BY <2>2, Leaves DEF CallInv, HandleInv
    <2>3. QED
      BY <2>1, <2>2
  <1>6. HandleInv'
    BY <1>4, <1>5 DEF CallInv, HandleInv
  <1>7. QED
    BY <1>1, <1>3, <1>6 DEF CallInv

\* The places of calls are as many as the calls.
LEMMA Countable ==
    ASSUME HandleInv, NEW T \in SUBSET Threads, NEW S \in SUBSET Made
    PROVE  IsFiniteSet(Where(T, S)) /\ Cardinality(Where(T, S)) \in Nat
  <1>1. Where(T, S) \subseteq Where(Threads, Made) /\ IsFiniteSet(Where(Threads, Made))
    BY DEF Where, HandleInv
  <1>2. QED
    BY <1>1, FS_Subset, FS_CardinalityType

\* A call enters the linker,
LEMMA CountUp ==
    ASSUME StackInv, CountInv, HandleInv, NEW t \in Threads, NEW g \in Counting, Moves(t, g),
           Top(t) \notin Counting, count' = AddLockCount(t)
    PROVE  CountInv'
  <1>1. \A u \in Threads : u # t => Where({u}, Counting)' = Where({u}, Counting)
    BY Stays
  <1>2. IsFiniteSet(Where({t}, Counting)') /\ Cardinality(Where({t}, Counting)') = Cardinality(Where({t}, Counting)) + 1
    BY Comes DEF CountInv
  <1>3. QED
    BY <1>1, <1>2 DEF CountInv, AddLockCount

\* and returns from it.
LEMMA CountDown ==
    ASSUME StackInv, CountInv, HandleInv, NEW t \in Threads, NEW g, Moves(t, g), g \notin Counting,
           Top(t) \in Counting, count' = SubLockCount(t)
    PROVE  CountInv'
  <1>1. \A u \in Threads : u # t => Where({u}, Counting)' = Where({u}, Counting)
    BY Stays
  <1>2. /\ IsFiniteSet(Where({t}, Counting)') /\ Cardinality(Where({t}, Counting)) \in Nat \ {0}
        /\ Cardinality(Where({t}, Counting)') = Cardinality(Where({t}, Counting)) - 1
    BY Leaves DEF CountInv
  <1>3. QED
    BY <1>1, <1>2 DEF CountInv, SubLockCount

-----------------------------------------------------------------------------
(***************************************************************************)
(* What each step does to the calls.                                       *)
(***************************************************************************)

\* In a dlopen.
LEMMA CallbackTurns ==
    ASSUME StackInv, NEW t \in Threads
    PROVE  /\ CallCbPre(t) => Turn(t, {"open"}, "start", "pre") \/ Turn(t, {"open"}, "start", "link")
           /\ CallCbPost(t) => \/ Turn(t, {"open"}, "notify", "post")
                               \/ /\ Pops(t) /\ Top(t) \in Made
                                  /\ Top(t).fn = "open" /\ Top(t).pc = "notify"
           /\ CbPreDone(t) => Turn(t, {"open"}, "pre", "link")
           /\ CbPostDone(t) => /\ Pops(t) /\ Top(t) \in Made
                               /\ Top(t).fn = "open" /\ Top(t).pc = "post"
  <1> DEFINE f == Top(t)
  <1>1. ASSUME NEW from, At(t, {"open"}, from)
        PROVE  stack[t] # <<>> /\ f \in Made /\ f.fn = "open" /\ f.pc = from
    BY <1>1, TopMade DEF At
  <1>2. ASSUME f \in Made, f.fn = "open", f.pc \in {"start", "notify", "pre"}, NEW to \in {"pre", "link", "post"}
        PROVE  [f EXCEPT !.pc = to] \in Made
    BY <1>2 DEF Made, Frames, PC
  <1> HIDE DEF f
  <1>3. CallCbPre(t) => Turn(t, {"open"}, "start", "pre") \/ Turn(t, {"open"}, "start", "link")
    <2>1. SUFFICES ASSUME CallCbPre(t) PROVE Turn(t, {"open"}, "start", "pre") \/ Turn(t, {"open"}, "start", "link")
      OBVIOUS
    <2>2. At(t, {"open"}, "start") /\ (Goto(t, "pre") \/ Goto(t, "link"))
      BY <2>1 DEF CallCbPre, Callbacks
    <2>3. QED
      BY <1>1, <1>2, <2>2, Turns DEF f
  <1>4. CallCbPost(t) => \/ Turn(t, {"open"}, "notify", "post")
                         \/ Pops(t) /\ f \in Made /\ f.fn = "open" /\ f.pc = "notify"
    <2>1. SUFFICES ASSUME CallCbPost(t)
                   PROVE  \/ Turn(t, {"open"}, "notify", "post")
                          \/ Pops(t) /\ f \in Made /\ f.fn = "open" /\ f.pc = "notify"
      OBVIOUS
    <2>2. At(t, {"open"}, "notify") /\ (Goto(t, "post") \/ Return(t))
      BY <2>1 DEF CallCbPost, Callbacks
    <2>3. QED
      BY <1>1, <1>2, <2>2, Turns, ReturnPops DEF f
  <1>5. CbPreDone(t) => Turn(t, {"open"}, "pre", "link")
    BY <1>1, <1>2, Turns DEF CbPreDone, f
  <1>6. CbPostDone(t) => Pops(t) /\ f \in Made /\ f.fn = "open" /\ f.pc = "post"
    BY <1>1, ReturnPops DEF CbPostDone
  <1>7. QED
    BY <1>3, <1>4, <1>5, <1>6 DEF f

LEMMA LinkerTurns ==
    ASSUME StackInv, NEW t \in Threads
    PROVE  /\ Load(t) => Turn(t, {"open"}, "link", "ctor") \/ Turn(t, {"open"}, "link", "linked")
           /\ LoadFails(t) => Turn(t, {"open"}, "link", "notify")
           /\ Loaded(t) => \E from \in {"ctor", "linked"} :
                 Turn(t, {"open"}, from, IF AfterCall(t) THEN "rd" ELSE "notify")
           /\ Unlink(t) => Turn(t, {"close"}, "link", "dtor") \/ Turn(t, {"close"}, "link", "linked")
           /\ Unload(t) => \E from \in {"dtor", "linked"} :
                 Turn(t, {"close"}, from, IF AfterCall(t) THEN "elfs" ELSE "fin")
  <1> DEFINE f == Top(t)
  <1>1. ASSUME NEW fn, NEW from, At(t, {fn}, from)
        PROVE  stack[t] # <<>> /\ f \in Made /\ f.fn = fn /\ f.pc = from
    BY <1>1, TopMade DEF At
  <1>2. ASSUME NEW from \in {"ctor", "linked", "dtor"}, NEW fn, Place(t) = from, f.fn = fn
        PROVE  At(t, {fn}, from)
    BY <1>2 DEF Place, At
  <1>3. ASSUME f \in Made, f.fn = "open", f.pc \in {"link", "ctor", "linked"},
               NEW to \in {"ctor", "linked", "notify", "rd"}
        PROVE  [f EXCEPT !.pc = to] \in Made
    BY <1>3 DEF Made, Frames, PC
  <1>4. ASSUME f \in Made, f.fn = "close", f.pc \in {"link", "dtor", "linked"},
               NEW to \in {"dtor", "linked", "elfs", "fin"}
        PROVE  [f EXCEPT !.pc = to] \in Made
    BY <1>4 DEF Made, Frames, PC
  <1> HIDE DEF f
  <1>5. Load(t) => Turn(t, {"open"}, "link", "ctor") \/ Turn(t, {"open"}, "link", "linked")
    <2>1. SUFFICES ASSUME Load(t)
                   PROVE  Turn(t, {"open"}, "link", "ctor") \/ Turn(t, {"open"}, "link", "linked")
      OBVIOUS
    <2>2. At(t, {"open"}, "link") /\ (Goto(t, "ctor") \/ Goto(t, "linked"))
      BY <2>1 DEF Load
    <2>3. QED
      BY <1>1, <1>3, <2>2, Turns DEF f
  <1>6. LoadFails(t) => Turn(t, {"open"}, "link", "notify")
    BY <1>1, <1>3, Turns DEF LoadFails, f
  <1>7. Loaded(t) => \E from \in {"ctor", "linked"} :
           Turn(t, {"open"}, from, IF AfterCall(t) THEN "rd" ELSE "notify")
    <2>1. SUFFICES ASSUME Loaded(t)
                   PROVE  \E from \in {"ctor", "linked"} :
                             Turn(t, {"open"}, from, IF AfterCall(t) THEN "rd" ELSE "notify")
      OBVIOUS
    <2> DEFINE to == IF AfterCall(t) THEN "rd" ELSE "notify"
    <2>2. PICK from \in {"ctor", "linked"} : Place(t) = from /\ f.fn = "open" /\ Goto(t, to)
      BY <2>1 DEF Loaded, f
    <2>3. At(t, {"open"}, from) /\ to \in {"rd", "notify"}
      BY <1>2, <2>2
    <2>4. [f EXCEPT !.pc = to] \in Made
      BY <1>1, <1>3, <2>3
    <2> HIDE DEF to
    <2>5. Turn(t, {"open"}, from, to)
      BY <2>2, <2>3, <2>4, Turns DEF f
    <2>6. QED
      BY <2>5 DEF to
  <1>8. Unlink(t) => Turn(t, {"close"}, "link", "dtor") \/ Turn(t, {"close"}, "link", "linked")
    <2>1. SUFFICES ASSUME Unlink(t)
                   PROVE  Turn(t, {"close"}, "link", "dtor") \/ Turn(t, {"close"}, "link", "linked")
      OBVIOUS
    <2>2. At(t, {"close"}, "link") /\ (Goto(t, "dtor") \/ Goto(t, "linked"))
      BY <2>1 DEF Unlink
    <2>3. QED
      BY <1>1, <1>4, <2>2, Turns DEF f
  <1>9. Unload(t) => \E from \in {"dtor", "linked"} :
           Turn(t, {"close"}, from, IF AfterCall(t) THEN "elfs" ELSE "fin")
    <2>1. SUFFICES ASSUME Unload(t)
                   PROVE  \E from \in {"dtor", "linked"} :
                             Turn(t, {"close"}, from, IF AfterCall(t) THEN "elfs" ELSE "fin")
      OBVIOUS
    <2> DEFINE to == IF AfterCall(t) THEN "elfs" ELSE "fin"
    <2>2. PICK from \in {"dtor", "linked"} : Place(t) = from /\ f.fn = "close" /\ Goto(t, to)
      BY <2>1 DEF Unload, f
    <2>3. At(t, {"close"}, from) /\ to \in {"elfs", "fin"}
      BY <1>2, <2>2
    <2>4. [f EXCEPT !.pc = to] \in Made
      BY <1>1, <1>4, <2>3
    <2> HIDE DEF to
    <2>5. Turn(t, {"close"}, from, to)
      BY <2>2, <2>3, <2>4, Turns DEF f
    <2>6. QED
      BY <2>5 DEF to
  <1>10. QED
    BY <1>5, <1>6, <1>7, <1>8, <1>9 DEF f

\* The innermost call is f.
Was(t, f, fns, from) ==
    stack[t] # <<>> /\ f = Top(t) /\ f \in Made /\ f.fn \in fns /\ f.pc = from

LEMMA AtWas ==
    ASSUME StackInv, NEW t \in Threads, NEW fns, NEW from, At(t, fns, from)
    PROVE  Was(t, Top(t), fns, from)
  BY TopMade DEF At, Was

\* The refresh of a dlopen and of a dlclose, and what a dlopen does after it.
LEMMA RefreshTurns ==
    ASSUME StackInv, NEW t \in Threads
    PROVE  /\ RdLock(t) => \/ Turn(t, {"open"}, "rd", "elfs")
                           \/ Turn(t, {"hook", "unhook"}, "rd", "copy")
           /\ LockElfs(t) => Turn(t, {"open", "close"}, "elfs", "iter")
           /\ NewElfTold(t) => Turn(t, {"open"}, "told", "new")
           /\ Refreshed(t) => Turn(t, {"open"}, "new", "notify")
  <1> DEFINE f == Top(t)
  <1>1. ASSUME NEW fns, NEW from, At(t, fns, from)
        PROVE  stack[t] # <<>> /\ f \in Made /\ f.fn \in fns /\ f.pc = from
    BY <1>1, TopMade DEF At
  <1> HIDE DEF f
  <1>2. RdLock(t) => Turn(t, {"open"}, "rd", "elfs") \/ Turn(t, {"hook", "unhook"}, "rd", "copy")
    <2>1. SUFFICES ASSUME RdLock(t)
                   PROVE  Turn(t, {"open"}, "rd", "elfs") \/ Turn(t, {"hook", "unhook"}, "rd", "copy")
      OBVIOUS
    <2>2. f \in Made /\ f.pc = "rd"
          /\ \/ At(t, {"open"}, "rd") /\ f.fn = "open" /\ Goto(t, "elfs")
             \/ At(t, {"hook", "unhook"}, "rd") /\ f.fn \in {"hook", "unhook"} /\ Goto(t, "copy")
      BY <1>1, <2>1 DEF RdLock, At, f
    <2>3. /\ f.fn = "open" => [f EXCEPT !.pc = "elfs"] \in Made
          /\ f.fn \in {"hook", "unhook"} => [f EXCEPT !.pc = "copy"] \in Made
      BY <2>2 DEF Made, Frames, PC
    <2>4. QED
      BY <2>2, <2>3, Turns DEF f
  <1>3. LockElfs(t) => Turn(t, {"open", "close"}, "elfs", "iter")
    <2>1. SUFFICES ASSUME LockElfs(t) PROVE Turn(t, {"open", "close"}, "elfs", "iter")
      OBVIOUS
    <2>2. At(t, {"open", "close"}, "elfs") /\ Goto(t, "iter")
          /\ f \in Made /\ f.fn \in {"open", "close"} /\ f.pc = "elfs"
      BY <1>1, <2>1 DEF LockElfs
    <2>3. [f EXCEPT !.pc = "iter"] \in Made
      BY <2>2 DEF Made, Frames, PC
    <2>4. QED
      BY <2>2, <2>3, Turns DEF f
  <1>4. NewElfTold(t) => Turn(t, {"open"}, "told", "new")
    <2>1. SUFFICES ASSUME NewElfTold(t) PROVE Turn(t, {"open"}, "told", "new")
      OBVIOUS
    <2>2. At(t, {"open"}, "told") /\ Goto(t, "new") /\ f \in Made /\ f.fn = "open" /\ f.pc = "told"
      BY <1>1, <2>1 DEF NewElfTold
    <2>3. [f EXCEPT !.pc = "new"] \in Made
      BY <2>2 DEF Made, Frames, PC
    <2>4. QED
      BY <2>2, <2>3, Turns DEF f
  <1>5. Refreshed(t) => Turn(t, {"open"}, "new", "notify")
    <2>1. SUFFICES ASSUME Refreshed(t) PROVE Turn(t, {"open"}, "new", "notify")
      OBVIOUS
    <2>2. At(t, {"open"}, "new") /\ Goto(t, "notify") /\ f \in Made /\ f.fn = "open" /\ f.pc = "new"
          /\ f.todo = {}
      BY <1>1, <2>1 DEF Refreshed, f
    <2>3. [f EXCEPT !.pc = "notify"] \in Made
      BY <2>2 DEF Made, Frames, PC
    <2>4. QED
      BY <2>2, <2>3, Turns DEF f
  <1>6. QED
    BY <1>2, <1>3, <1>4, <1>5

LEMMA IterateMoves ==
    ASSUME StackInv, NEW t \in Threads, Iterate(t)
    PROVE  \E f, g \in Made :
              /\ Was(t, f, {"open", "close"}, "iter") /\ Moves(t, g)
              /\ \/ f.fn = "open" /\ g = [f EXCEPT !.pc = "new", !.todo = Born]
                 \/ f.fn = "close" /\ g = [f EXCEPT !.pc = "sync", !.todo = {}]
  <1> DEFINE f == Top(t)
             g == [f EXCEPT !.pc = IF f.fn = "open" THEN "new" ELSE "sync",
                            !.todo = IF f.fn = "open" THEN Born ELSE {}]
  <1>1. Was(t, f, {"open", "close"}, "iter")
    BY AtWas DEF Iterate
  <1>2. stack' = [stack EXCEPT ![t] = [@ EXCEPT ![Depth(t)] = g]]
    BY DEF Iterate, Top
  <1>3. f \in Made /\ f.fn \in {"open", "close"} /\ f.pc = "iter" /\ stack[t] # <<>>
    BY <1>1 DEF Was
  <1> HIDE DEF f
  <1>4. g \in Made
    <2>1. Born \in SUBSET Libs
      BY DEF Born
    <2>2. QED
      BY <1>3, <2>1 DEF Made, Frames, PC
  <1>5. Moves(t, g)
    BY <1>2, <1>3, <1>4, TopChanges
  <1>6. \/ f.fn = "open" /\ g = [f EXCEPT !.pc = "new", !.todo = Born]
        \/ f.fn = "close" /\ g = [f EXCEPT !.pc = "sync", !.todo = {}]
    BY <1>3
  <1> HIDE DEF g
  <1>7. QED
    BY <1>1, <1>3, <1>4, <1>5, <1>6

\* An ELF is done with.
LEMMA DropMoves ==
    ASSUME StackInv, NEW t \in Threads, NEW f \in Made, NEW l, NEW where, Drop(t, l, where),
           Was(t, f, {f.fn}, f.pc), [f EXCEPT !.todo = @ \ {l}, !.pc = where] \in Made
    PROVE  Moves(t, [f EXCEPT !.todo = @ \ {l}, !.pc = where])
  <1> DEFINE g == [f EXCEPT !.todo = @ \ {l}, !.pc = where]
  <1>1. f = Top(t) /\ stack[t] # <<>>
    BY DEF Was
  <1>2. stack' = [stack EXCEPT ![t] = [@ EXCEPT ![Depth(t)] = g]]
    <2>1. stack' = [stack EXCEPT ![t] = [@ EXCEPT ![Depth(t)] =
                       [stack[t][Depth(t)] EXCEPT !.todo = f.todo \ {l}, !.pc = where]]]
      BY <1>1 DEF Drop
    <2>2. stack[t][Depth(t)] = f
      BY <1>1 DEF Top
    <2>3. [stack[t][Depth(t)] EXCEPT !.todo = f.todo \ {l}, !.pc = where] = g
      BY <2>2
    <2> HIDE DEF g
    <2>4. QED
      BY <2>1, <2>3
  <1>3. QED
    BY <1>1, <1>2, TopChanges

LEMMA NewElfMoves ==
    ASSUME StackInv, NEW t \in Threads, NEW l, NewElf(t, l)
    PROVE  \E f \in Made : \E to \in {"new", "told"} :
              /\ Was(t, f, {"open"}, "new") /\ l \in f.todo
              /\ [f EXCEPT !.todo = @ \ {l}, !.pc = to] \in Made
              /\ Moves(t, [f EXCEPT !.todo = @ \ {l}, !.pc = to])
  <1> DEFINE f == Top(t)
  <1>1. Was(t, f, {"open"}, "new") /\ l \in f.todo
    BY AtWas DEF NewElf
  <1>2. f \in Made /\ f.fn = "open" /\ f.pc = "new"
    BY <1>1 DEF Was
  <1>3. PICK to \in {"new", "told"} : Drop(t, l, to)
    BY DEF NewElf
  <1> HIDE DEF f
  <1>4. [f EXCEPT !.todo = @ \ {l}, !.pc = to] \in Made
    BY <1>2 DEF Made, Frames, PC
  <1>5. Moves(t, [f EXCEPT !.todo = @ \ {l}, !.pc = to])
    BY <1>1, <1>2, <1>3, <1>4, DropMoves DEF Was
  <1>6. QED
    BY <1>1, <1>2, <1>4, <1>5

LEMMA MeetMoves ==
    ASSUME StackInv, NEW t \in Threads, NEW l, Meet(t, l)
    PROVE  \E f \in Made : \E to \in {"meet", "told"} :
              /\ Was(t, f, {"hook", "unhook"}, "meet") /\ l \in f.todo
              /\ (f.fn = "hook" /\ to = "told") \/ (f.fn = "unhook" /\ to = "meet")
              /\ [f EXCEPT !.todo = @ \ {l}, !.pc = to] \in Made
              /\ Moves(t, [f EXCEPT !.todo = @ \ {l}, !.pc = to])
  <1> DEFINE f == Top(t)
  <1>1. Was(t, f, {"hook", "unhook"}, "meet") /\ l \in f.todo
    BY AtWas DEF Meet
  <1>2. f \in Made /\ f.fn \in {"hook", "unhook"} /\ f.pc = "meet"
    BY <1>1 DEF Was
  <1>3. PICK to \in {"meet", "told"} :
           Drop(t, l, to) /\ ((f.fn = "hook" /\ to = "told") \/ (f.fn = "unhook" /\ to = "meet"))
    BY <1>2 DEF Meet
  <1> HIDE DEF f
  <1>4. [f EXCEPT !.todo = @ \ {l}, !.pc = to] \in Made
    BY <1>2, <1>3 DEF Made, Frames, PC
  <1>5. Moves(t, [f EXCEPT !.todo = @ \ {l}, !.pc = to])
    BY <1>1, <1>2, <1>3, <1>4, DropMoves DEF Was
  <1>6. QED
    BY <1>1, <1>2, <1>3, <1>4, <1>5

\* A dlclose around the linker.
LEMMA CloseTurns ==
    ASSUME StackInv, NEW t \in Threads
    PROVE  /\ SyncClean(t) => Turn(t, {"close"}, "sync", "fin")
           /\ Closed(t) => Was(t, Top(t), {"close"}, "fin") /\ Pops(t)
  <1> DEFINE f == Top(t)
  <1>1. SyncClean(t) => Turn(t, {"close"}, "sync", "fin")
    <2>1. SUFFICES ASSUME SyncClean(t) PROVE Turn(t, {"close"}, "sync", "fin")
      OBVIOUS
    <2>2. At(t, {"close"}, "sync") /\ Goto(t, "fin") /\ Was(t, f, {"close"}, "sync")
      BY <2>1, AtWas DEF SyncClean
    <2> HIDE DEF f
    <2>3. [f EXCEPT !.pc = "fin"] \in Made
      BY <2>2 DEF Was, Made, Frames, PC
    <2>4. QED
      BY <2>2, <2>3, Turns DEF f
  <1>2. Closed(t) => Was(t, f, {"close"}, "fin") /\ Pops(t)
    BY AtWas, ReturnPops DEF Closed, Was
  <1>3. QED
    BY <1>1, <1>2

LEMMA WrLockMoves ==
    ASSUME StackInv, NEW t \in Threads, WrLock(t)
    PROVE  \E f, g \in Made :
              /\ Was(t, f, {"close"}, "start") /\ Moves(t, g)
              /\ g = [f EXCEPT !.pc = "link", !.wr = Outermost(t) /\ lock["dlclose"].w # t]
  <1> DEFINE f == Top(t)
             w == lock["dlclose"].w # t
  <1>1. Was(t, f, {"close"}, "start")
    BY AtWas DEF WrLock
  <1>2. f \in Made /\ f.fn = "close" /\ f.pc = "start" /\ stack[t] # <<>> /\ f.wr = FALSE
    BY <1>1 DEF Was, Made, Frames
  <1>3. CASE Outermost(t)
    <2> DEFINE g == [f EXCEPT !.pc = "link", !.wr = w]
    <2>1. stack' = [stack EXCEPT ![t] = [@ EXCEPT ![Depth(t)] = g]]
      BY <1>3 DEF WrLock, Top
    <2> HIDE DEF f, w
    <2>2. w \in BOOLEAN
      BY DEF w
    <2>3. g \in Made
      BY <1>2, <2>2 DEF Made, Frames, PC
    <2>4. Moves(t, g)
      BY <1>2, <2>1, <2>3, TopChanges
    <2>5. w = (Outermost(t) /\ w)
      BY <1>3, <2>2
    <2>6. g = [f EXCEPT !.pc = "link", !.wr = Outermost(t) /\ w]
      BY <2>5
    <2> HIDE DEF g
    <2>7. QED
      BY <1>1, <1>2, <2>3, <2>4, <2>6 DEF w
  <1>4. CASE ~Outermost(t)
    <2> DEFINE g == [f EXCEPT !.pc = "link"]
    <2>1. Goto(t, "link")
      BY <1>4 DEF WrLock
    <2> HIDE DEF f
    <2>2. g \in Made
      BY <1>2 DEF Made, Frames, PC
    <2>3. Moves(t, g)
      BY <1>2, <2>1, <2>2, GotoMoves DEF f
    <2>4. g = [f EXCEPT !.pc = "link", !.wr = FALSE]
      BY <1>2 DEF Made, Frames
    <2>5. (Outermost(t) /\ w) = FALSE
      BY <1>4
    <2> HIDE DEF g, w
    <2>6. g = [f EXCEPT !.pc = "link", !.wr = Outermost(t) /\ w]
      BY <2>4, <2>5
    <2>7. QED
      BY <1>1, <1>2, <2>2, <2>3, <2>6 DEF w
  <1>5. QED
    BY <1>3, <1>4

\* Hooks and unhooks, and the list of callbacks.
LEMMA TaskTurns ==
    ASSUME StackInv, NEW t \in Threads
    PROVE  /\ Hook(t) => Turn(t, {"hook"}, "start", "rd")
           /\ Unhook(t) => Turn(t, {"unhook"}, "start", "rd")
           /\ MeetTold(t) => Turn(t, {"hook"}, "told", "meet")
           /\ Met(t) => Was(t, Top(t), {"hook", "unhook"}, "meet") /\ Top(t).todo = {} /\ Pops(t)
           /\ ChangeList(t) => Was(t, Top(t), {"add", "del"}, "start") /\ Pops(t)
  <1> DEFINE f == Top(t)
  <1>1. ASSUME NEW fn \in {"hook", "unhook"}, At(t, {fn}, "start"), Goto(t, "rd")
        PROVE  Turn(t, {fn}, "start", "rd")
    <2>1. Was(t, f, {fn}, "start")
      BY <1>1, AtWas
    <2> HIDE DEF f
    <2>2. [f EXCEPT !.pc = "rd"] \in Made
      BY <2>1 DEF Was, Made, Frames, PC
    <2>3. QED
      BY <1>1, <2>1, <2>2, Turns DEF f
  <1>2. MeetTold(t) => Turn(t, {"hook"}, "told", "meet")
    <2>1. SUFFICES ASSUME MeetTold(t) PROVE Turn(t, {"hook"}, "told", "meet")
      OBVIOUS
    <2>2. At(t, {"hook"}, "told") /\ Goto(t, "meet") /\ Was(t, f, {"hook"}, "told")
      BY <2>1, AtWas DEF MeetTold
    <2> HIDE DEF f
    <2>3. [f EXCEPT !.pc = "meet"] \in Made
      BY <2>2 DEF Was, Made, Frames, PC
    <2>4. QED
      BY <2>2, <2>3, Turns DEF f
  <1>3. Hook(t) => Turn(t, {"hook"}, "start", "rd")
    BY <1>1 DEF Hook
  <1>4. Unhook(t) => Turn(t, {"unhook"}, "start", "rd")
    BY <1>1 DEF Unhook
  <1>5. Met(t) => Was(t, f, {"hook", "unhook"}, "meet") /\ f.todo = {} /\ Pops(t)
    BY AtWas, ReturnPops DEF Met, Was
  <1>6. ChangeList(t) => Was(t, f, {"add", "del"}, "start") /\ Pops(t)
    BY AtWas, ReturnPops DEF ChangeList, Was
  <1>7. QED
    BY <1>2, <1>3, <1>4, <1>5, <1>6

LEMMA CopyMoves ==
    ASSUME StackInv, NEW t \in Threads, Copy(t)
    PROVE  \E f, g \in Made :
              /\ Was(t, f, {"hook", "unhook"}, "copy") /\ Moves(t, g)
              /\ g = [f EXCEPT !.pc = "meet", !.todo = {l \in Libs : tree[l] # NoElf}]
  <1> DEFINE f == Top(t)
             ls == {l \in Libs : tree[l] # NoElf}
             g == [f EXCEPT !.pc = "meet", !.todo = ls]
  <1>1. Was(t, f, {"hook", "unhook"}, "copy")
    BY AtWas DEF Copy
  <1>2. stack' = [stack EXCEPT ![t] = [@ EXCEPT ![Depth(t)] = g]]
    BY DEF Copy, Top
  <1>3. ls \in SUBSET Libs
    OBVIOUS
  <1> HIDE DEF f, ls
  <1>4. f \in Made /\ g \in Made /\ stack[t] # <<>>
    BY <1>1, <1>3 DEF Was, Made, Frames, PC
  <1>5. Moves(t, g)
    BY <1>2, <1>4, TopChanges
  <1> HIDE DEF g
  <1>6. QED
    BY <1>1, <1>4, <1>5 DEF g, ls

\* Code of others makes a call.
LEMMA CallPushes ==
    ASSUME StackInv, tasks \subseteq Tasks, NEW t \in Threads, NEW fn \in Functions, Call(t, fn)
    PROVE  \E g \in Made : \E x \in Arguments(fn) :
              /\ g = [fn |-> fn, arg |-> x, pc |-> "start", wr |-> FALSE, todo |-> {}]
              /\ Pushes(t, g)
              /\ fn \in {"hook", "unhook"} => \A u \in Threads : \A f \in AllFrames(u) : f.arg # x
  <1>1. PICK x \in Arguments(fn) :
           /\ fn \in {"hook", "unhook"} => \A u \in Threads : \A f \in AllFrames(u) : f.arg # x
           /\ stack' = [stack EXCEPT ![t] =
                Append(@, [fn |-> fn, arg |-> x, pc |-> "start", wr |-> FALSE, todo |-> {}])]
    BY DEF Call
  <1> DEFINE g == [fn |-> fn, arg |-> x, pc |-> "start", wr |-> FALSE, todo |-> {}]
  <1>2. /\ fn \in {"open", "close"} => x \in Libs
        /\ fn = "hook" => x \in Tasks
        /\ fn = "unhook" => x \in tasks
        /\ fn \in {"add", "del"} => x = None
    BY DEF Arguments, Functions
  <1>3. g \in Made
    BY <1>2 DEF Made, Frames, PC, Functions
  <1>4. Pushes(t, g)
    BY <1>1, <1>3, AppendPushes
  <1>5. QED
    BY <1>1, <1>3, <1>4

-----------------------------------------------------------------------------
(***************************************************************************)
(* The lock counts are right and no handle is given back twice.            *)
(***************************************************************************)

\* A call turns outside of the linker.
LEMMA TurnKept ==
    ASSUME CallInv, NEW t \in Threads, NEW f \in Made, NEW g \in Made,
           f = Top(t), Moves(t, g), g.fn = f.fn, g.arg = f.arg,
           f \notin Counting, g \notin Counting,
           f.fn = "close" => (f.pc \in {"start", "link"} <=> g.pc \in {"start", "link"}),
           UNCHANGED <<count, refs>>, tasks' \subseteq Tasks
    PROVE  CallInv'
  <1>1. \A l \in Libs : f \in Closing(l) <=> g \in Closing(l)
    BY DEF Closing, Counting
  <1>2. QED
    BY <1>1, CallsKept

\* As many handles as there are calls of dlclose to give them back.
LEMMA HandlesKept ==
    ASSUME StackInv, HandleInv, NEW t \in Threads, NEW f \in Made, NEW g \in Made,
           f = Top(t), Moves(t, g), NEW l \in Libs, refs' \in [Libs -> Nat],
           \A m \in Libs : m # l => refs'[m] = refs[m] /\ (f \in Closing(m) <=> g \in Closing(m)),
           \/ refs'[l] >= refs[l] /\ (f \in Closing(l) <=> g \in Closing(l))
           \/ refs'[l] >= refs[l] - 1 /\ f \in Closing(l) /\ g \notin Closing(l)
    PROVE  HandleInv'
  <1>1. IsFiniteSet(Where(Threads, Made)')
    <2>1. Where(Threads, Made)' = Where(Threads, Made)
      BY Stays
    <2>2. QED
      BY <2>1 DEF HandleInv
  <1>2. ASSUME NEW m \in Libs, f \in Closing(m) <=> g \in Closing(m), refs'[m] >= refs[m]
        PROVE  Cardinality(Where(Threads, Closing(m)))' <= refs'[m]
    <2>1. Where(Threads, Closing(m))' = Where(Threads, Closing(m))
      BY <1>2, Stays
    <2>2. Closing(m) \in SUBSET Made
      BY DEF Closing
    <2>3. Cardinality(Where(Threads, Closing(m))) \in Nat
      BY <2>2, Countable
    <2>4. Cardinality(Where(Threads, Closing(m))) <= refs[m] /\ refs[m] \in Nat /\ refs'[m] \in Nat
      BY DEF HandleInv
    <2>5. QED
      BY <1>2, <2>1, <2>3, <2>4
  <1>3. ASSUME f \in Closing(l), g \notin Closing(l), refs'[l] >= refs[l] - 1
        PROVE  Cardinality(Where(Threads, Closing(l)))' <= refs'[l]
    <2>1. Closing(l) \in SUBSET Made
      BY DEF Closing
    <2>2. IsFiniteSet(Where(Threads, Closing(l)))
      BY <2>1, Countable
    <2>3. /\ Cardinality(Where(Threads, Closing(l))) \in Nat
          /\ Cardinality(Where(Threads, Closing(l))') = Cardinality(Where(Threads, Closing(l))) - 1
      BY <1>3, <2>2, Leaves
    <2>4. Cardinality(Where(Threads, Closing(l))) <= refs[l] /\ refs[l] \in Nat /\ refs'[l] \in Nat
      BY DEF HandleInv
    <2>5. QED
      BY <1>3, <2>3, <2>4
  <1>4. \A m \in Libs : refs[m] \in Nat
    BY DEF HandleInv
  <1>5. QED
    BY <1>1, <1>2, <1>3, <1>4 DEF HandleInv

\* The steps of a call in which no library is mapped or unmapped.
LEMMA QuietKept ==
    ASSUME CallInv, NEW t \in Threads,
           \/ CallCbPre(t) \/ CbPreDone(t) \/ CallCbPost(t) \/ CbPostDone(t) \/ LoadFails(t)
           \/ RdLock(t) \/ LockElfs(t) \/ Iterate(t) \/ (\E l \in Libs : NewElf(t, l))
           \/ NewElfTold(t) \/ Refreshed(t) \/ WrLock(t) \/ SyncClean(t) \/ Closed(t)
           \/ Hook(t) \/ Unhook(t) \/ Copy(t) \/ (\E l \in Libs : Meet(t, l))
           \/ MeetTold(t) \/ Met(t) \/ ChangeList(t)
    PROVE  CallInv'
  <1> DEFINE f == Top(t)
  <1>1. UNCHANGED <<count, refs>>
    BY DEF CallCbPre, CbPreDone, CallCbPost, CbPostDone, Callbacks, LoadFails, RdLock, LockElfs, Iterate,
           NewElf, NewElfTold, Refreshed, WrLock, SyncClean, Closed, Hook, Unhook, Copy, Meet, MeetTold,
           Met, ChangeList, linking
  <1>2. StackInv /\ tasks \subseteq Tasks
    BY DEF CallInv
  <1>3. tasks' \subseteq Tasks
    <2>1. CASE Hook(t)
      <3>1. Turn(t, {"hook"}, "start", "rd")
        BY <1>2, <2>1, TaskTurns
      <3>2. f.arg \in Tasks
        BY <3>1 DEF Turn, Made
      <3>3. QED
        BY <1>2, <2>1, <3>2 DEF Hook
    <2>2. CASE ~Hook(t)
      BY <1>2, <2>2 DEF CallCbPre, CbPreDone, CallCbPost, CbPostDone, Callbacks, LoadFails, RdLock, LockElfs,
           Iterate, NewElf, NewElfTold, Refreshed, WrLock, SyncClean, Closed, Unhook, Copy, Meet, MeetTold,
           Met, ChangeList, clients
    <2>3. QED
      BY <2>1, <2>2
  <1>4. ASSUME NEW fns, NEW from, NEW to, Turn(t, fns, from, to),
               {from, to} \cap {"ctor", "dtor", "linked"} = {},
               f.fn = "close" => (from \in {"start", "link"} <=> to \in {"start", "link"})
        PROVE  CallInv'
    <2> DEFINE g == [f EXCEPT !.pc = to]
    <2>1. f \in Made /\ g \in Made /\ f.pc = from /\ Moves(t, g)
      BY <1>4 DEF Turn
    <2> HIDE DEF f
    <2>2. g.pc = to /\ g.fn = f.fn /\ g.arg = f.arg
      BY <2>1 DEF Made, Frames
    <2> HIDE DEF g
    <2>3. f \notin Counting /\ g \notin Counting
      BY <1>4, <2>1, <2>2 DEF Counting
    <2>4. QED
      BY <1>1, <1>3, <1>4, <2>1, <2>2, <2>3, TurnKept DEF f
  <1>5. ASSUME Pops(t), f \in Made, f.pc \notin {"ctor", "dtor", "linked"},
               f.fn = "close" => f.pc \notin {"start", "link"}
        PROVE  CallInv'
    <2>1. f \in Made \ Counting /\ \A l \in Libs : f \notin Closing(l)
      BY <1>5 DEF Counting, Closing
    <2>2. QED
      BY <1>1, <1>3, <1>5, <2>1, CallsKept
  <1>6. ASSUME NEW h \in Made, NEW g \in Made, h = f, Moves(t, g), g.fn = h.fn, g.arg = h.arg,
               {h.pc, g.pc} \cap {"ctor", "dtor", "linked"} = {},
               h.fn = "close" => (h.pc \in {"start", "link"} <=> g.pc \in {"start", "link"})
        PROVE  CallInv'
    <2>1. h \notin Counting /\ g \notin Counting
      BY <1>6 DEF Counting
    <2>2. QED
      BY <1>1, <1>3, <1>6, <2>1, TurnKept
  <1>7. CASE CallCbPre(t) \/ CbPreDone(t) \/ CallCbPost(t) \/ CbPostDone(t)
    BY ZenonT(60), <1>2, <1>4, <1>5, <1>7, CallbackTurns DEF Turn
  <1>8. CASE LoadFails(t)
    BY ZenonT(60), <1>2, <1>4, <1>8, LinkerTurns DEF Turn
  <1>9. CASE RdLock(t) \/ LockElfs(t) \/ NewElfTold(t) \/ Refreshed(t)
    <2>1. \/ Turn(t, {"open"}, "rd", "elfs") \/ Turn(t, {"hook", "unhook"}, "rd", "copy")
          \/ Turn(t, {"open", "close"}, "elfs", "iter") \/ Turn(t, {"open"}, "told", "new")
          \/ Turn(t, {"open"}, "new", "notify")
      BY <1>2, <1>9, RefreshTurns
    <2> HIDE DEF f
    <2>2. CASE Turn(t, {"open"}, "rd", "elfs")
      BY <1>4, <2>2
    <2>3. CASE Turn(t, {"hook", "unhook"}, "rd", "copy")
      BY <1>4, <2>3
    <2>4. CASE Turn(t, {"open", "close"}, "elfs", "iter")
      BY <1>4, <2>4
    <2>5. CASE Turn(t, {"open"}, "told", "new")
      BY <1>4, <2>5
    <2>6. CASE Turn(t, {"open"}, "new", "notify")
      BY <1>4, <2>6
    <2>7. QED
      BY <2>1, <2>2, <2>3, <2>4, <2>5, <2>6
  <1>10. CASE SyncClean(t) \/ Closed(t)
    BY ZenonT(60), <1>2, <1>4, <1>5, <1>10, CloseTurns DEF Turn, Was
  <1>11. CASE Hook(t) \/ Unhook(t) \/ MeetTold(t) \/ Met(t) \/ ChangeList(t)
    BY ZenonT(60), <1>2, <1>4, <1>5, <1>11, TaskTurns DEF Turn, Was
  <1>12. CASE Iterate(t)
    <2>1. PICK h \in Made, g \in Made :
             /\ Was(t, h, {"open", "close"}, "iter") /\ Moves(t, g)
             /\ \/ h.fn = "open" /\ g = [h EXCEPT !.pc = "new", !.todo = Born]
                \/ h.fn = "close" /\ g = [h EXCEPT !.pc = "sync", !.todo = {}]
      BY <1>2, <1>12, IterateMoves
    <2>2. h = f /\ h.pc = "iter" /\ g.pc \in {"new", "sync"} /\ g.fn = h.fn /\ g.arg = h.arg
      BY <2>1 DEF Was, Made, Frames
    <2>3. QED
      BY <1>6, <2>1, <2>2
  <1>13. CASE \E l \in Libs : NewElf(t, l)
    <2>1. PICK l \in Libs : NewElf(t, l)
      BY <1>13
    <2>2. PICK h \in Made, to \in {"new", "told"} :
              /\ Was(t, h, {"open"}, "new") /\ l \in h.todo
              /\ [h EXCEPT !.todo = @ \ {l}, !.pc = to] \in Made
              /\ Moves(t, [h EXCEPT !.todo = @ \ {l}, !.pc = to])
      BY <1>2, <2>1, NewElfMoves
    <2> DEFINE g == [h EXCEPT !.todo = @ \ {l}, !.pc = to]
    <2>3. h = f /\ h.pc = "new" /\ g.pc \in {"new", "told"} /\ g.fn = h.fn /\ g.arg = h.arg /\ h.fn = "open"
      BY <2>2 DEF Was, Made, Frames
    <2>4. QED
      BY <1>6, <2>2, <2>3
  <1>14. CASE WrLock(t)
    <2>1. PICK h \in Made, g \in Made :
              /\ Was(t, h, {"close"}, "start") /\ Moves(t, g)
              /\ g = [h EXCEPT !.pc = "link", !.wr = Outermost(t) /\ lock["dlclose"].w # t]
      BY <1>2, <1>14, WrLockMoves
    <2>2. h = f /\ h.pc = "start" /\ g.pc = "link" /\ g.fn = h.fn /\ g.arg = h.arg
      BY <2>1 DEF Was, Made, Frames
    <2>3. QED
      BY <1>6, <2>1, <2>2
  <1>15. CASE Copy(t)
    <2>1. PICK h \in Made, g \in Made :
              /\ Was(t, h, {"hook", "unhook"}, "copy") /\ Moves(t, g)
              /\ g = [h EXCEPT !.pc = "meet", !.todo = {l \in Libs : tree[l] # NoElf}]
      BY <1>2, <1>15, CopyMoves
    <2>2. h = f /\ h.pc = "copy" /\ g.pc = "meet" /\ g.fn = h.fn /\ g.arg = h.arg /\ h.fn # "close"
      BY ZenonT(60), <2>1 DEF Was, Made, Frames
    <2>3. QED
      BY <1>6, <2>1, <2>2
  <1>16. CASE \E l \in Libs : Meet(t, l)
    <2>1. PICK l \in Libs : Meet(t, l)
      BY <1>16
    <2>2. PICK h \in Made, to \in {"meet", "told"} :
              /\ Was(t, h, {"hook", "unhook"}, "meet") /\ l \in h.todo
              /\ (h.fn = "hook" /\ to = "told") \/ (h.fn = "unhook" /\ to = "meet")
              /\ [h EXCEPT !.todo = @ \ {l}, !.pc = to] \in Made
              /\ Moves(t, [h EXCEPT !.todo = @ \ {l}, !.pc = to])
      BY <1>2, <2>1, MeetMoves
    <2> DEFINE g == [h EXCEPT !.todo = @ \ {l}, !.pc = to]
    <2>3. h = f /\ h.pc = "meet" /\ g.pc \in {"meet", "told"} /\ g.fn = h.fn /\ g.arg = h.arg /\ h.fn # "close"
      BY <2>2 DEF Was, Made, Frames
    <2>4. QED
      BY <1>6, <2>2, <2>3
  <1>17. QED
    BY <1>7, <1>8, <1>9, <1>10, <1>11, <1>12, <1>13, <1>14, <1>15, <1>16

\* A library is mapped, or opened again.
LEMMA LoadKept ==
    ASSUME CallInv, NEW t \in Threads, Load(t)
    PROVE  CallInv'
  <1> DEFINE f == Top(t)
             l == f.arg
  <1>1. StackInv /\ CountInv /\ HandleInv /\ tasks \subseteq Tasks
    BY DEF CallInv
  <1>2. PICK to \in {"ctor", "linked"} : Turn(t, {"open"}, "link", to)
    BY <1>1, LinkerTurns
  <1> DEFINE g == [f EXCEPT !.pc = to]
  <1>3. f \in Made /\ g \in Made /\ f.fn = "open" /\ f.pc = "link" /\ Moves(t, g)
    BY <1>2 DEF Turn
  <1>4. /\ refs' = [refs EXCEPT ![l] = @ + 1]
        /\ count' = AddLockCount(t) /\ UNCHANGED tasks
    BY DEF Load, clients
  <1> HIDE DEF f
  <1>5. g.pc = to /\ g.fn = "open"
    BY <1>3 DEF Made, Frames
  <1> HIDE DEF g
  <1>6. g \in Counting /\ f \notin Counting /\ \A m \in Libs : f \notin Closing(m) /\ g \notin Closing(m)
    BY <1>3, <1>5 DEF Counting, Closing
  <1>7. CountInv'
    BY <1>1, <1>3, <1>4, <1>6, CountUp DEF f
  <1>8. l \in Libs /\ refs \in [Libs -> Nat]
    BY <1>1, <1>3 DEF Made, HandleInv
  <1> HIDE DEF l
  <1>9. refs' \in [Libs -> Nat] /\ refs'[l] >= refs[l] /\ \A m \in Libs : m # l => refs'[m] = refs[m]
    BY <1>4, <1>8
  <1>10. HandleInv'
    BY <1>1, <1>3, <1>6, <1>8, <1>9, HandlesKept DEF f
  <1>11. StackInv'
    BY <1>1, <1>3, StackKept
  <1>12. QED
    BY <1>1, <1>4, <1>7, <1>10, <1>11 DEF CallInv

LEMMA LoadedKept ==
    ASSUME CallInv, NEW t \in Threads, Loaded(t)
    PROVE  CallInv'
  <1> DEFINE f == Top(t)
  <1>1. StackInv /\ CountInv /\ HandleInv /\ tasks \subseteq Tasks
    BY DEF CallInv
  <1>2. PICK from \in {"ctor", "linked"}, to \in {"rd", "notify"} : Turn(t, {"open"}, from, to)
    BY <1>1, LinkerTurns
  <1> DEFINE g == [f EXCEPT !.pc = to]
  <1>3. f \in Made /\ g \in Made /\ f.fn = "open" /\ f.pc = from /\ Moves(t, g)
    BY <1>2 DEF Turn
  <1>4. UNCHANGED refs /\ count' = SubLockCount(t) /\ UNCHANGED tasks
    BY DEF Loaded, clients
  <1> HIDE DEF f
  <1>5. g.pc = to /\ g.fn = "open"
    BY <1>3 DEF Made, Frames
  <1> HIDE DEF g
  <1>6. f \in Counting /\ g \notin Counting /\ \A m \in Libs : f \notin Closing(m) /\ g \notin Closing(m)
    BY <1>3, <1>5 DEF Counting, Closing
  <1>7. CountInv'
    BY <1>1, <1>3, <1>4, <1>6, CountDown DEF f
  <1>8. f.arg \in Libs /\ refs \in [Libs -> Nat]
    BY <1>1, <1>3 DEF Made, HandleInv
  <1>9. \A m \in Libs : refs[m] \in Nat /\ refs'[m] >= refs[m]
    BY <1>4, <1>8
  <1>10. HandleInv'
    BY <1>1, <1>3, <1>4, <1>6, <1>8, <1>9, HandlesKept DEF f
  <1>11. StackInv'
    BY <1>1, <1>3, StackKept
  <1>12. QED
    BY <1>1, <1>4, <1>7, <1>10, <1>11 DEF CallInv

\* A dlclose enters the linker,
LEMMA UnlinkKept ==
    ASSUME CallInv, NEW t \in Threads, Unlink(t)
    PROVE  CallInv'
  <1> DEFINE f == Top(t)
  <1>1. StackInv /\ CountInv /\ HandleInv /\ tasks \subseteq Tasks
    BY DEF CallInv
  <1>2. PICK to \in {"dtor", "linked"} : Turn(t, {"close"}, "link", to)
    BY <1>1, LinkerTurns
  <1> DEFINE g == [f EXCEPT !.pc = to]
  <1>3. f \in Made /\ g \in Made /\ f.fn = "close" /\ f.pc = "link" /\ Moves(t, g)
    BY <1>2 DEF Turn
  <1>4. UNCHANGED refs /\ count' = AddLockCount(t) /\ UNCHANGED tasks
    BY DEF Unlink, clients
  <1> HIDE DEF f
  <1>5. g.pc = to /\ g.fn = "close" /\ g.arg = f.arg
    BY <1>3 DEF Made, Frames
  <1> HIDE DEF g
  <1>6. f \notin Counting /\ g \in Counting /\ \A m \in Libs : f \in Closing(m) <=> g \in Closing(m)
    BY <1>3, <1>5 DEF Counting, Closing
  <1>7. CountInv'
    BY <1>1, <1>3, <1>4, <1>6, CountUp DEF f
  <1>8. f.arg \in Libs /\ refs \in [Libs -> Nat]
    BY <1>1, <1>3 DEF Made, HandleInv
  <1>9. \A m \in Libs : refs[m] \in Nat /\ refs'[m] >= refs[m]
    BY <1>4, <1>8
  <1>10. HandleInv'
    BY <1>1, <1>3, <1>4, <1>6, <1>8, <1>9, HandlesKept DEF f
  <1>11. StackInv'
    BY <1>1, <1>3, StackKept
  <1>12. QED
    BY <1>1, <1>4, <1>7, <1>10, <1>11 DEF CallInv

\* and gives its handle back.
LEMMA UnloadKept ==
    ASSUME CallInv, NEW t \in Threads, Unload(t)
    PROVE  CallInv' /\ refs[Top(t).arg] > 0
  <1> DEFINE f == Top(t)
             l == f.arg
  <1>1. StackInv /\ CountInv /\ HandleInv /\ tasks \subseteq Tasks
    BY DEF CallInv
  <1>2. PICK from \in {"dtor", "linked"}, to \in {"elfs", "fin"} : Turn(t, {"close"}, from, to)
    BY <1>1, LinkerTurns
  <1> DEFINE g == [f EXCEPT !.pc = to]
  <1>3. f \in Made /\ g \in Made /\ f.fn = "close" /\ f.pc = from /\ Moves(t, g) /\ stack[t] # <<>>
    BY <1>2 DEF Turn
  <1>4. refs' = [refs EXCEPT ![l] = @ - 1] /\ count' = SubLockCount(t) /\ UNCHANGED tasks
    BY DEF Unload, clients
  <1> HIDE DEF f
  <1>5. g.pc = to /\ g.fn = "close" /\ g.arg = l
    BY <1>3 DEF Made, Frames
  <1>6. l \in Libs /\ refs \in [Libs -> Nat]
    BY <1>1, <1>3 DEF Made, HandleInv
  <1> HIDE DEF g
  <1>7. /\ f \in Counting /\ g \notin Counting /\ f \in Closing(l) /\ g \notin Closing(l)
        /\ \A m \in Libs : m # l => f \notin Closing(m) /\ g \notin Closing(m)
    BY <1>3, <1>5 DEF Counting, Closing
  <1>8. CountInv'
    BY <1>1, <1>3, <1>4, <1>7, CountDown DEF f
  <1> HIDE DEF l
  <1>9. refs[l] > 0
    <2>1. <<t, Depth(t)>> \in Where(Threads, Closing(l))
      BY <1>1, <1>3, <1>7, TopThere DEF f
    <2>2. Closing(l) \in SUBSET Made
      BY DEF Closing
    <2>3. Cardinality(Where(Threads, Closing(l))) \in Nat \ {0}
      BY <1>1, <2>1, <2>2, Countable, FS_EmptySet
    <2>4. QED
      BY <1>1, <1>6, <2>3 DEF HandleInv
  <1>10. refs' \in [Libs -> Nat] /\ refs'[l] >= refs[l] - 1 /\ \A m \in Libs : m # l => refs'[m] = refs[m]
    BY <1>4, <1>6, <1>9
  <1>11. HandleInv'
    BY <1>1, <1>3, <1>6, <1>7, <1>10, HandlesKept DEF f
  <1>12. StackInv'
    BY <1>1, <1>3, StackKept
  <1>13. QED
    BY <1>1, <1>4, <1>8, <1>9, <1>11, <1>12 DEF CallInv, l, f

\* A dlclose is made with a handle that no other dlclose has.
LEMMA CallKept ==
    ASSUME CallInv, NEW t \in Threads, NEW fn \in Functions, Call(t, fn)
    PROVE  CallInv'
  <1>1. StackInv /\ CountInv /\ HandleInv /\ tasks \subseteq Tasks
    BY DEF CallInv
  <1>2. PICK g \in Made, x \in Arguments(fn) :
              /\ g = [fn |-> fn, arg |-> x, pc |-> "start", wr |-> FALSE, todo |-> {}]
              /\ Pushes(t, g)
    BY <1>1, CallPushes
  <1>3. /\ Depth(t) < Nested /\ Place(t) \in Places
        /\ UNCHANGED <<count, refs, tasks>>
    BY DEF Call, linking, clients
  <1>4. g.fn = fn /\ g.arg = x /\ g.pc = "start"
    BY <1>2
  <1> HIDE DEF Call
  <1>5. g \notin Counting
    BY <1>4 DEF Counting
  <1>6. StackInv'
    BY <1>1, <1>2, <1>3, StackKept
  <1>7. \A u \in Threads : Where({u}, Counting)' = Where({u}, Counting)
    BY <1>1, <1>2, <1>5, Stays
  <1>8. CountInv'
    BY <1>1, <1>3, <1>7 DEF CountInv
  <1>9. IsFiniteSet(Where(Threads, Made)')
    BY <1>1, <1>2, Comes DEF HandleInv
  <1>10. ASSUME NEW l \in Libs, g \notin Closing(l)
         PROVE  Cardinality(Where(Threads, Closing(l)))' <= refs[l]
    <2>1. Where(Threads, Closing(l))' = Where(Threads, Closing(l))
      BY <1>1, <1>2, <1>10, Stays
    <2>2. QED
      BY <1>1, <2>1 DEF HandleInv
  <1>11. ASSUME NEW l \in Libs, g \in Closing(l)
         PROVE  Cardinality(Where(Threads, Closing(l)))' <= refs[l]
    <2>1. fn = "close" /\ x = l
      BY <1>4, <1>11 DEF Closing
    <2>2. refs[l] > Cardinality(Pending(l)) /\ refs[l] \in Nat
      BY <1>1, <1>2, <2>1 DEF Arguments, HandleInv
    <2>3. Closing(l) \in SUBSET Made
      BY DEF Closing
    <2>4. Where(Threads, Closing(l)) \subseteq Pending(l)
      <3>1. SUFFICES ASSUME NEW p \in Where(Threads, Closing(l)) PROVE p \in Pending(l)
        OBVIOUS
      <3>2. /\ p \in Threads \X Nat /\ p[2] \in 1..Len(stack[p[1]])
            /\ stack[p[1]][p[2]] \in Closing(l)
        BY DEF Where
      <3>3. p[1] \in Threads /\ p[2] \in Nat /\ p = <<p[1], p[2]>>
            /\ stack[p[1]] \in Seq(Made) /\ Len(stack[p[1]]) <= Nested
        BY <1>1, <3>2 DEF StackInv, Depth
      <3>4. p[2] \in 1..Nested /\ p[2] \in DOMAIN stack[p[1]]
        BY <3>2, <3>3, BoundsType
      <3>5. /\ stack[p[1]][p[2]].arg = l /\ stack[p[1]][p[2]].fn = "close"
            /\ stack[p[1]][p[2]].pc \in {"start", "link", "dtor", "linked"}
        BY <3>2 DEF Closing
      <3>6. p \in Threads \X (1..Nested)
        BY <3>3, <3>4
      <3>7. QED
        BY <3>4, <3>5, <3>6 DEF Pending
    <2>5. Pending(l) \subseteq Where(Threads, Made)
      <3>1. SUFFICES ASSUME NEW p \in Pending(l) PROVE p \in Where(Threads, Made)
        OBVIOUS
      <3>2. p \in Threads \X (1..Nested) /\ p[2] \in DOMAIN stack[p[1]]
        BY DEF Pending
      <3>3. p[1] \in Threads /\ stack[p[1]] \in Seq(Made)
        BY <1>1, <3>2 DEF StackInv
      <3>4. p[2] \in 1..Len(stack[p[1]]) /\ stack[p[1]][p[2]] \in Made
        BY <3>2, <3>3
      <3>5. p \in Threads \X Nat
        BY <3>2, BoundsType
      <3>6. QED
        BY <3>4, <3>5 DEF Where
    <2>6. IsFiniteSet(Pending(l)) /\ Cardinality(Pending(l)) \in Nat
      BY <1>1, <2>5, FS_Subset, FS_CardinalityType DEF HandleInv
    <2>7. IsFiniteSet(Where(Threads, Closing(l)))
          /\ Cardinality(Where(Threads, Closing(l))) \in Nat
          /\ Cardinality(Where(Threads, Closing(l))) <= Cardinality(Pending(l))
      BY <2>4, <2>6, FS_Subset, FS_CardinalityType
    <2>8. Cardinality(Where(Threads, Closing(l))') = Cardinality(Where(Threads, Closing(l))) + 1
      BY <1>1, <1>2, <1>11, <2>7, Comes
    <2>9. QED
      BY <2>2, <2>6, <2>7, <2>8
  <1>12. HandleInv'
    BY <1>1, <1>3, <1>9, <1>10, <1>11 DEF HandleInv
  <1>13. QED
    BY <1>1, <1>3, <1>6, <1>8, <1>12 DEF CallInv

LEMMA CallInit == Init => CallInv
  <1>1. SUFFICES ASSUME Init PROVE CallInv
    OBVIOUS
  <1>2. stack = [t \in Threads |-> <<>>] /\ tasks = {}
    BY <1>1 DEF Init
  <1>3. StackInv
    BY <1>2, BoundsType DEF StackInv, Depth
  <1>4. ASSUME NEW T \in SUBSET Threads, NEW S PROVE Where(T, S) = {}
    BY <1>2 DEF Where
  <1>5. CountInv
    BY <1>1, <1>4, FS_EmptySet DEF Init, CountInv
  <1>6. refs \in [Libs -> Nat]
    BY <1>1 DEF Init
  <1>7. HandleInv
    BY <1>4, <1>6, FS_EmptySet DEF HandleInv
  <1>8. QED
    BY <1>2, <1>3, <1>5, <1>7 DEF CallInv

\* Each step keeps the counts right.
LEMMA CallStep == CallInv /\ [Next]_vars => CallInv'
  <1>1. SUFFICES ASSUME CallInv, [Next]_vars PROVE CallInv'
    OBVIOUS
  <1>2. CASE Next
    <2>1. PICK t \in Threads : (\E fn \in Functions : Call(t, fn)) \/ Step(t)
      BY <1>2 DEF Next
    <2>2. CASE \E fn \in Functions : Call(t, fn)
      BY <1>1, <2>2, CallKept
    <2>3. CASE Load(t) \/ Loaded(t) \/ Unlink(t) \/ Unload(t)
      BY <1>1, <2>3, LoadKept, LoadedKept, UnlinkKept, UnloadKept
    <2>4. CASE Step(t) /\ ~(Load(t) \/ Loaded(t) \/ Unlink(t) \/ Unload(t))
      BY <1>1, <2>4, QuietKept DEF Step
    <2>5. QED
      BY <2>1, <2>2, <2>3, <2>4
  <1>3. CASE UNCHANGED vars
    <2>1. UNCHANGED <<stack, count, refs, tasks>>
      BY <1>3 DEF vars, linking, clients
    <2>2. QED
      BY <1>1, <2>1 DEF CallInv, StackInv, CountInv, HandleInv, Where, Depth
  <1>4. QED
    BY <1>1, <1>2, <1>3

\* The lock count in a thread's TLS is the number of its calls in the linker, which
\* decides who takes the write lock and who refreshes (bh_dl_monitor.c:113, :210),
\* and no call of dlclose is left without a handle of its own to give back.
THEOREM CallInvariant == Spec => []CallInv
  BY CallInit, CallStep, PTL DEF Spec

-----------------------------------------------------------------------------
(***************************************************************************)
(* The lock between dlclose and the readers of the ELF cache.              *)
(***************************************************************************)

\* The call is made inside of one that is in S.
Inside(t, i, S) == \E j \in 1..(i - 1) : stack[t][j] \in S

Destroying == {f \in Made : f.fn = "close" /\ f.pc = "dtor"}

\* A dlclose has the write lock if it is the outermost call in the linker, and so has
\* one that refreshes; there are no readers in a destructor.
Fits(t, i, f) ==
    /\ f.fn = "close" /\ f.pc # "start" => (f.wr <=> ~Inside(t, i, Counting))
    /\ f.fn = "close" /\ f.pc \in {"elfs", "iter", "sync"} => f.wr
    /\ f.fn \in {"hook", "unhook"} => ~Inside(t, i, Destroying)
    /\ f.fn = "open" /\ f.pc \in {"rd", "elfs", "iter", "new", "told"} => ~Inside(t, i, Counting)

FitInv == \A t \in Threads : \A i \in 1..Depth(t) : Fits(t, i, stack[t][i])

\* Calls that hold the lock of dlclose for writing and for reading.
Holding == {f \in Made : f.fn = "close" /\ f.pc # "start" /\ f.wr}
Reading ==
    {f \in Made : \/ f.fn = "open" /\ f.pc \in {"elfs", "iter", "new", "told"}
                  \/ f.fn \in {"hook", "unhook"} /\ f.pc \in {"copy", "meet", "told"}}

HoldInv ==
    /\ lock \in [Locks -> [w : Threads \cup {None}, r : Nat]]
    /\ \A t \in Threads : lock["dlclose"].w = t <=> Where({t}, Holding) # {}

ReadInv ==
    /\ lock["dlclose"].w = None => lock["dlclose"].r = Cardinality(Where(Threads, Reading))
    /\ lock["dlclose"].w # None => lock["dlclose"].r = 0 /\ Where(Threads, Reading) = {}

LockInv == CallInv /\ FitInv /\ HoldInv /\ ReadInv

-----------------------------------------------------------------------------
(***************************************************************************)
(* The ELFs of the ELF manager, and the libraries in the linker.           *)
(***************************************************************************)

Went(l) == <<<<l, tree[l].gen>>, "went">> \in odd
Came(l) == <<<<l, loads[l]>>, "came">> \in odd

\* A dlclose with the write lock that has not looked through the linker's list.
Cleaning == {f \in Holding : f.pc \in {"dtor", "linked", "elfs", "iter"}}

TreeInv ==
    \A l \in Libs :
        \/ tree[l] = NoElf \/ Mapped(l) \/ Went(l)
        \/ refs[l] = 0 /\ tree[l].gen = loads[l] /\ refreshing /\ Where(Threads, Cleaning) # {}

\* Calls after which there is a refresh, and those that are in it.
Refreshing ==
    {f \in Made : \/ f.fn = "open" /\ f.pc \in {"rd", "elfs", "iter"}
                  \/ f.fn = "close" /\ f.pc \in {"elfs", "iter"}}

\* Calls that will bring the task k together with the library l.
Owing(k, l) ==
    {f \in Made : \/ f.fn = "open" /\ l \in f.todo
                  \/ f.fn = "hook" /\ f.arg = k /\ (f.pc \in {"rd", "copy"} \/ l \in f.todo)}

About(k) == {f \in Made : f.fn \in {"hook", "unhook"} /\ f.arg = k}
Removing(k) == {f \in About(k) : f.fn = "unhook" /\ f.pc # "start"}

AgeInv ==
    /\ loads \in [Libs -> Nat] /\ refs \in [Libs -> Nat] /\ DOMAIN tree = Libs /\ DOMAIN hooked = Libs
    /\ \A l \in Libs : tree[l].gen \in Nat /\ tree[l].gen <= loads[l]
    /\ refreshing \in BOOLEAN

GoneInv == \A l \in Libs : refs[l] = 0 \/ tree[l] = NoElf \/ Mapped(l) \/ Went(l)

NewInv ==
    \A l \in Libs : refs[l] > 0 /\ tree[l] = NoElf =>
        \/ Came(l)
        \/ refreshing /\ (Where(Threads, Counting) # {} \/ Where(Threads, Refreshing) # {})

AloneInv ==
    \A k \in Tasks :
        /\ \A p, q \in Where(Threads, About(k)) : p = q
        /\ k \in tasks => Where(Threads, Removing(k)) = {}

OwedInv ==
    \A l \in Libs : \A k \in tasks :
        Mapped(l) /\ tree[l] # NoElf /\ tree[l].by # "close" /\ k \notin hooked[l] =>
            Where(Threads, Owing(k, l)) # {}

HookInv == CallInv /\ AgeInv /\ GoneInv /\ NewInv /\ AloneInv /\ OwedInv

-----------------------------------------------------------------------------
(***************************************************************************)
(* Who holds the lock of dlclose.                                          *)
(***************************************************************************)

\* With a lock count of 0 there is no call in the linker; with one of 1 it is the
\* innermost that is, and no other.
LEMMA CountTells ==
    ASSUME CallInv, NEW t \in Threads
    PROVE  /\ count[t] \in Nat
           /\ count[t] = 0 => \A i \in 1..Depth(t) : stack[t][i] \notin Counting
           /\ count[t] = 0 \/ \E i \in 1..Depth(t) : stack[t][i] \in Counting
           /\ stack[t] # <<>> /\ Top(t) \in Counting =>
                 (count[t] = 1 <=> ~Inside(t, Depth(t), Counting))
  <1> DEFINE W == Where({t}, Counting)
             d == Depth(t)
  <1>1. IsFiniteSet(W) /\ count[t] = Cardinality(W) /\ count[t] \in Nat /\ StackInv
    BY DEF CallInv, CountInv
  <1>2. d \in Nat /\ d = Len(stack[t])
    BY <1>1 DEF StackInv, Depth
  <1>3. \A i \in 1..d : stack[t][i] \in Counting => <<t, i>> \in W
    BY <1>2 DEF Where
  <1>4. \A p \in W : p = <<t, p[2]>> /\ p[2] \in 1..d /\ stack[t][p[2]] \in Counting
    BY <1>2 DEF Where
  <1> HIDE DEF W, d
  <1>5. count[t] = 0 <=> W = {}
    BY <1>1, FS_EmptySet
  <1>6. ASSUME stack[t] # <<>>, Top(t) \in Counting
        PROVE  count[t] = 1 <=> ~Inside(t, d, Counting)
    <2>1. d \in 1..d /\ stack[t][d] \in Counting
      BY <1>1, <1>6, TopMade DEF Top, d, Depth
    <2>2. <<t, d>> \in W
      BY <1>3, <2>1
    <2>3. ASSUME count[t] = 1, Inside(t, d, Counting) PROVE FALSE
      <3>1. PICK j \in 1..(d - 1) : stack[t][j] \in Counting
        BY <2>3 DEF Inside
      <3>2. <<t, j>> \in W /\ j # d
        BY <1>2, <1>3, <3>1
      <3>3. PICK x : W = {x}
        BY <1>1, <2>3, FS_Singleton
      <3>4. <<t, j>> = <<t, d>>
        BY <2>2, <3>2, <3>3
      <3>5. QED
        BY <3>2, <3>4
    <2>4. ASSUME ~Inside(t, d, Counting) PROVE count[t] = 1
      <3>1. \A p \in W : p = <<t, d>>
        <4>1. SUFFICES ASSUME NEW p \in W PROVE p[2] = d
          BY <1>4
        <4>2. p[2] \in 1..d /\ p[2] \notin 1..(d - 1)
          BY <1>4, <2>4 DEF Inside
        <4>3. QED
          BY <1>2, <4>2
      <3>2. W = {<<t, d>>}
        BY <2>2, <3>1
      <3>3. QED
        BY <1>1, <3>2, FS_Singleton
    <2>5. QED
      BY <2>3, <2>4
  <1>7. count[t] = 0 => \A i \in 1..d : stack[t][i] \notin Counting
    BY <1>3, <1>5
  <1>8. count[t] = 0 \/ \E i \in 1..d : stack[t][i] \in Counting
    BY <1>4, <1>5
  <1>9. QED
    BY <1>1, <1>6, <1>7, <1>8 DEF d

\* What an outer call may be.
LEMMA OuterPlace ==
    ASSUME StackInv, NEW t \in Threads, NEW i \in 1..(Depth(t) - 1)
    PROVE  /\ i \in 1..Depth(t) /\ stack[t][i] \in Made
           /\ stack[t][i].pc \in Places
           /\ stack[t][i].fn = "close" => stack[t][i] \in Counting \cap Destroying
  <1>1. stack[t] \in Seq(Made) /\ Depth(t) = Len(stack[t]) /\ Depth(t) \in Nat
    BY DEF StackInv, Depth
  <1>2. stack[t][i].pc \in Places /\ i \in 1..Depth(t)
    BY <1>1 DEF StackInv
  <1>3. stack[t][i] \in Made
    BY <1>1, <1>2
  <1>4. QED
    BY <1>2, <1>3 DEF Made, Places, Counting, Destroying

\* A thread with a call that holds the lock, and where that call is.
LEMMA HolderTop ==
    ASSUME LockInv, NEW t \in Threads, lock["dlclose"].w = t
    PROVE  /\ stack[t] # <<>>
           /\ Top(t) \in Holding \/ Inside(t, Depth(t), Destroying \cap Counting)
  <1>1. StackInv /\ HoldInv
    BY DEF LockInv, CallInv
  <1>2. PICK p \in Where({t}, Holding) : TRUE
    BY <1>1 DEF HoldInv
  <1>3. /\ p[1] = t /\ p[2] \in 1..Depth(t) /\ stack[t][p[2]] \in Holding
        /\ Depth(t) = Len(stack[t]) /\ Depth(t) \in Nat
    BY <1>1, <1>2 DEF Where, Depth, StackInv
  <1>4. CASE p[2] = Depth(t)
    BY <1>3, <1>4 DEF Top, Depth
  <1>5. CASE p[2] # Depth(t)
    <2>1. p[2] \in 1..(Depth(t) - 1) /\ stack[t][p[2]].fn = "close"
      BY <1>3, <1>5 DEF Holding
    <2>2. stack[t][p[2]] \in Destroying \cap Counting
      BY <1>1, <2>1, OuterPlace
    <2>3. QED
      BY <1>3, <2>1, <2>2 DEF Inside, Depth
  <1>6. QED
    BY <1>4, <1>5

\* A thread that holds the lock does not wait for it.
LEMMA NoHolder ==
    ASSUME LockInv, NEW t \in Threads, stack[t] # <<>>,
           \/ Top(t).fn \in {"hook", "unhook"}
           \/ Top(t).fn = "open" /\ Top(t).pc \in {"rd", "elfs", "iter", "new", "told"}
           \/ Top(t).fn = "close" /\ Top(t).pc = "start" /\ count[t] = 0
    PROVE  lock["dlclose"].w # t
  <1>1. SUFFICES ASSUME lock["dlclose"].w = t PROVE FALSE
    OBVIOUS
  <1>2. Inside(t, Depth(t), Destroying \cap Counting)
    BY <1>1, HolderTop DEF Holding
  <1>3. PICK j \in 1..(Depth(t) - 1) : stack[t][j] \in Destroying \cap Counting
    BY <1>2 DEF Inside
  <1>4. Depth(t) \in 1..Depth(t) /\ Depth(t) \in Nat /\ Top(t) = stack[t][Depth(t)]
    BY TopMade DEF LockInv, CallInv, Top
  <1>5. Fits(t, Depth(t), Top(t))
    BY <1>4 DEF LockInv, FitInv
  <1>6. Inside(t, Depth(t), Destroying) /\ Inside(t, Depth(t), Counting)
    BY <1>3 DEF Inside
  <1>7. Top(t).fn = "close" /\ count[t] = 0
    BY <1>5, <1>6 DEF Fits
  <1>8. \A i \in 1..Depth(t) : stack[t][i] \notin Counting
    BY <1>7, CountTells DEF LockInv
  <1>9. QED
    BY <1>3, <1>4, <1>8

\* The calls that are inside of others stay that, and only the innermost has to be
\* looked at.
LEMMA FitsKept ==
    ASSUME StackInv, FitInv, NEW t \in Threads, NEW g,
           \/ Moves(t, g) /\ Fits(t, Depth(t), g)
           \/ Pops(t)
           \/ Pushes(t, g) /\ g.pc = "start"
                /\ (g.fn \in {"hook", "unhook"} => ~Inside(t, Depth(t) + 1, Destroying))
    PROVE  FitInv'
  <1> DEFINE d == Depth(t)
             k == Len(stack'[t])
  <1>1. d = Len(stack[t]) /\ d \in Nat
    BY DEF StackInv, Depth
  <1>2. \A u \in Threads : u # t => stack'[u] = stack[u]
    BY DEF Moves, Pops, Pushes
  <1>3. k \in Nat /\ \A i \in 1..(k - 1) : i \in 1..d /\ stack'[t][i] = stack[t][i]
    BY <1>1 DEF Moves, Pops, Pushes
  <1>4. ASSUME NEW i \in 1..k, NEW S PROVE Inside(t, i, S)' <=> Inside(t, i, S)
    BY <1>3 DEF Inside
  <1>5. ASSUME NEW u \in Threads, u # t, NEW i \in 1..Len(stack'[u]) PROVE Fits(u, i, stack[u][i])'
    <2>1. stack'[u] = stack[u] /\ i \in 1..Len(stack[u])
      BY <1>2, <1>5
    <2>2. Fits(u, i, stack[u][i])
      BY <2>1 DEF FitInv, Depth
    <2>3. \A f : f = stack[u][i] => stack'[u][i] = f
      BY <2>1
    <2>4. QED
      BY <2>1, <2>2 DEF Fits, Inside
  <1> HIDE DEF k, d
  <1>6. ASSUME NEW i \in 1..k, i # k PROVE Fits(t, i, stack[t][i])'
    <2>1. i \in 1..(k - 1)
      BY <1>3, <1>6
    <2>2. stack'[t][i] = stack[t][i] /\ Fits(t, i, stack[t][i])
      BY <1>3, <2>1 DEF FitInv, d
    <2>3. QED
      BY <1>4, <2>2 DEF Fits
  <1>7. ASSUME NEW i \in 1..k, i = k PROVE Fits(t, i, stack[t][i])'
    <2>1. CASE Moves(t, g) /\ Fits(t, d, g)
      <3>1. i = d /\ stack'[t][i] = g
        BY <1>7, <2>1 DEF Moves, k, d
      <3>2. Fits(t, i, g)
        BY <2>1, <3>1
      <3>3. QED
        BY <1>4, <3>1, <3>2 DEF Fits
    <2>2. CASE Pops(t)
      <3>0. k = d - 1 /\ \A j \in 1..(d - 1) : stack'[t][j] = stack[t][j]
        BY <2>2 DEF Pops, k, d
      <3>1. i \in 1..d /\ stack'[t][i] = stack[t][i]
        BY <1>1, <1>7, <3>0
      <3>2. Fits(t, i, stack[t][i])
        BY <3>1 DEF FitInv, d
      <3>3. QED
        BY <1>4, <3>1, <3>2 DEF Fits
    <2>3. CASE Pushes(t, g) /\ g.pc = "start"
               /\ (g.fn \in {"hook", "unhook"} => ~Inside(t, d + 1, Destroying))
      <3>1. i = d + 1 /\ stack'[t][i] = g
        BY <1>7, <2>3 DEF Pushes, k, d
      <3>2. g.fn \in {"hook", "unhook"} => ~Inside(t, i, Destroying)
        BY <2>3, <3>1
      <3>3. QED
        BY <1>4, <2>3, <3>1, <3>2 DEF Fits
    <2>4. QED
      BY <2>1, <2>2, <2>3 DEF d
  <1>8. QED
    <2>1. SUFFICES ASSUME NEW u \in Threads, NEW i \in 1..Len(stack'[u]) PROVE Fits(u, i, stack[u][i])'
      BY DEF FitInv, Depth
    <2>2. QED
      BY <1>5, <1>6, <1>7, <2>1 DEF k

LockType == [Locks -> [w : Threads \cup {None}, r : Nat]]

\* What the functions of bionic do to a lock.
LEMMA LockOps ==
    ASSUME lock \in LockType, NEW x \in Locks, NEW t \in Threads
    PROVE  /\ RdLocked(x, t) \in LockType /\ WrLocked(x, t) \in LockType /\ Unlocked(x, t) \in LockType
           /\ \A y \in Locks : y # x => /\ RdLocked(x, t)[y] = lock[y]
                                        /\ WrLocked(x, t)[y] = lock[y]
                                        /\ Unlocked(x, t)[y] = lock[y]
           /\ RdLocked(x, t)[x].w = lock[x].w
           /\ lock[x].w = None => RdLocked(x, t)[x].r = lock[x].r + 1
           /\ WrLocked(x, t)[x].w = t /\ WrLocked(x, t)[x].r = lock[x].r
           /\ lock[x].w = t => Unlocked(x, t)[x].w = None /\ Unlocked(x, t)[x].r = lock[x].r
           /\ lock[x].w # t => /\ Unlocked(x, t)[x].w = lock[x].w
                               /\ lock[x].r > 0 => Unlocked(x, t)[x].r = lock[x].r - 1
                               /\ lock[x].r = 0 => Unlocked(x, t)[x].r = 0
  <1> DEFINE v == lock[x]
  <1>1. v \in [w : Threads \cup {None}, r : Nat] /\ v.r \in Nat /\ v.w \in Threads \cup {None}
        /\ v = [w |-> v.w, r |-> v.r]
    BY DEF LockType
  <1>2. DOMAIN lock = Locks /\ \A y \in Locks : lock[y] \in [w : Threads \cup {None}, r : Nat]
    BY DEF LockType
  <1>3. ASSUME NEW u \in [w : Threads \cup {None}, r : Nat]
        PROVE  /\ [lock EXCEPT ![x] = u] \in LockType /\ [lock EXCEPT ![x] = u][x] = u
               /\ \A y \in Locks : y # x => [lock EXCEPT ![x] = u][y] = lock[y]
    BY <1>2 DEF LockType
  <1> DEFINE rd == [w |-> v.w, r |-> IF v.w = None THEN v.r + 1 ELSE v.r]
             wr == [w |-> t, r |-> v.r]
             un == IF v.w = t THEN [w |-> None, r |-> v.r]
                   ELSE [w |-> v.w, r |-> IF v.r > 0 THEN v.r - 1 ELSE v.r]
  <1>4. RdLocked(x, t) = [lock EXCEPT ![x] = rd]
    <2>1. RdLocked(x, t) = [lock EXCEPT ![x] = [v EXCEPT !.r = IF v.w = None THEN @ + 1 ELSE @]]
      BY DEF RdLocked
    <2> HIDE DEF v
    <2>2. [v EXCEPT !.r = IF v.w = None THEN @ + 1 ELSE @] = rd
      BY <1>1
    <2>3. QED
      BY <2>1, <2>2
  <1>5. WrLocked(x, t) = [lock EXCEPT ![x] = wr]
    <2>1. WrLocked(x, t) = [lock EXCEPT ![x] = [v EXCEPT !.w = t]]
      BY DEF WrLocked
    <2> HIDE DEF v
    <2>2. [v EXCEPT !.w = t] = wr
      BY <1>1
    <2>3. QED
      BY <2>1, <2>2
  <1>6. Unlocked(x, t) = [lock EXCEPT ![x] = un]
    <2>1. CASE v.w = t
      <3>1. Unlocked(x, t) = [lock EXCEPT ![x] = [v EXCEPT !.w = None]]
        BY <2>1 DEF Unlocked
      <3> HIDE DEF v
      <3>2. [v EXCEPT !.w = None] = un
        BY <1>1, <2>1
      <3>3. QED
        BY <3>1, <3>2
    <2>2. CASE v.w # t
      <3>1. Unlocked(x, t) = [lock EXCEPT ![x] = [v EXCEPT !.r = IF @ > 0 THEN @ - 1 ELSE @]]
        BY <2>2 DEF Unlocked
      <3> HIDE DEF v
      <3>2. [v EXCEPT !.r = IF @ > 0 THEN @ - 1 ELSE @] = un
        BY <1>1, <2>2
      <3>3. QED
        BY <3>1, <3>2
    <2>3. QED
      BY <2>1, <2>2
  <1> HIDE DEF v, LockType
  <1>7. /\ {rd, wr, un} \subseteq [w : Threads \cup {None}, r : Nat]
        /\ rd.w = v.w /\ (v.w = None => rd.r = v.r + 1)
        /\ wr.w = t /\ wr.r = v.r
        /\ v.w = t => un.w = None /\ un.r = v.r
        /\ v.w # t => un.w = v.w /\ (v.r > 0 => un.r = v.r - 1) /\ (v.r = 0 => un.r = 0)
    BY <1>1
  <1> HIDE DEF rd, wr, un
  <1>8. /\ RdLocked(x, t) \in LockType /\ RdLocked(x, t)[x] = rd
        /\ \A y \in Locks : y # x => RdLocked(x, t)[y] = lock[y]
    BY ZenonT(60), <1>3, <1>4, <1>7
  <1>9. /\ WrLocked(x, t) \in LockType /\ WrLocked(x, t)[x] = wr
        /\ \A y \in Locks : y # x => WrLocked(x, t)[y] = lock[y]
    BY ZenonT(60), <1>3, <1>5, <1>7
  <1>10. /\ Unlocked(x, t) \in LockType /\ Unlocked(x, t)[x] = un
         /\ \A y \in Locks : y # x => Unlocked(x, t)[y] = lock[y]
    BY ZenonT(60), <1>3, <1>6, <1>7
  <1> HIDE DEF Locks
  <1>11. QED
    BY <1>7, <1>8, <1>9, <1>10 DEF v

\* The lock of dlclose stays as it is, and so do the calls that hold it.
LEMMA LockStays ==
    ASSUME StackInv, HoldInv, ReadInv, NEW t \in Threads, NEW g,
           lock' \in LockType, lock'["dlclose"] = lock["dlclose"],
           \/ Moves(t, g) /\ (Top(t) \in Holding <=> g \in Holding) /\ (Top(t) \in Reading <=> g \in Reading)
           \/ Pushes(t, g) /\ g \notin Holding \cup Reading
           \/ Pops(t) /\ Top(t) \notin Holding \cup Reading
    PROVE  HoldInv' /\ ReadInv'
  <1>1. \A u \in Threads : Where({u}, Holding)' = Where({u}, Holding)
    BY Stays
  <1>2. Where(Threads, Reading)' = Where(Threads, Reading)
    BY Stays
  <1>3. HoldInv'
    BY <1>1 DEF HoldInv, LockType
  <1>4. ReadInv'
    BY <1>2 DEF ReadInv
  <1>5. QED
    BY <1>3, <1>4

\* A reader comes,
LEMMA ReaderComes ==
    ASSUME LockInv, NEW t \in Threads, NEW g \in Reading \ Holding, Moves(t, g),
           Top(t) \notin Reading \cup Holding,
           CanRead("dlclose", t), lock["dlclose"].w # t, lock' = RdLocked("dlclose", t)
    PROVE  HoldInv' /\ ReadInv'
  <1>1. StackInv /\ HandleInv /\ HoldInv /\ ReadInv /\ lock \in LockType /\ "dlclose" \in Locks
    BY DEF LockInv, CallInv, HoldInv, LockType, Locks
  <1>2. lock["dlclose"].w = None
    BY DEF CanRead
  <1>3. lock' \in LockType /\ lock'["dlclose"].w = None /\ lock'["dlclose"].r = lock["dlclose"].r + 1
    BY <1>1, <1>2, LockOps
  <1>4. \A u \in Threads : Where({u}, Holding)' = Where({u}, Holding)
    BY <1>1, Stays
  <1>5. HoldInv'
    BY <1>1, <1>2, <1>3, <1>4 DEF HoldInv, LockType
  <1>6. Reading \in SUBSET Made
    BY DEF Reading
  <1>7. IsFiniteSet(Where(Threads, Reading))
    BY <1>1, <1>6, Countable
  <1>8. Cardinality(Where(Threads, Reading)') = Cardinality(Where(Threads, Reading)) + 1
    BY <1>1, <1>7, Comes
  <1>9. ReadInv'
    BY <1>1, <1>2, <1>3, <1>8 DEF ReadInv
  <1>10. QED
    BY <1>5, <1>9

\* and leaves.
LEMMA ReaderLeaves ==
    ASSUME LockInv, NEW t \in Threads, stack[t] # <<>>, NEW g,
           (Moves(t, g) /\ g \notin Reading \cup Holding) \/ Pops(t), Top(t) \in Reading \ Holding, lock' = Unlocked("dlclose", t)
    PROVE  HoldInv' /\ ReadInv'
  <1>1. StackInv /\ HandleInv /\ HoldInv /\ ReadInv /\ lock \in LockType /\ "dlclose" \in Locks
    BY DEF LockInv, CallInv, HoldInv, LockType, Locks
  <1>2. <<t, Depth(t)>> \in Where(Threads, Reading)
    BY <1>1, TopThere
  <1>3. lock["dlclose"].w = None
    BY <1>1, <1>2 DEF ReadInv
  <1>4. lock["dlclose"].w # t
    BY <1>3, NoneType
  <1>5. Reading \in SUBSET Made
    BY DEF Reading
  <1>6. IsFiniteSet(Where(Threads, Reading))
    BY <1>1, <1>5, Countable
  <1>7. /\ Cardinality(Where(Threads, Reading)) \in Nat \ {0}
        /\ Cardinality(Where(Threads, Reading)') = Cardinality(Where(Threads, Reading)) - 1
    BY <1>1, <1>6, Leaves
  <1>8. lock["dlclose"].r = Cardinality(Where(Threads, Reading)) /\ lock["dlclose"].r > 0
    BY <1>1, <1>3, <1>7 DEF ReadInv
  <1>9. lock' \in LockType /\ lock'["dlclose"].w = None /\ lock'["dlclose"].r = lock["dlclose"].r - 1
    BY <1>1, <1>3, <1>4, <1>8, LockOps
  <1>10. \A u \in Threads : Where({u}, Holding)' = Where({u}, Holding)
    BY <1>1, Stays
  <1>11. HoldInv'
    BY <1>1, <1>3, <1>9, <1>10 DEF HoldInv, LockType
  <1>12. ReadInv'
    BY <1>7, <1>8, <1>9 DEF ReadInv
  <1>13. QED
    BY <1>11, <1>12

\* A writer comes,
LEMMA WriterComes ==
    ASSUME LockInv, NEW t \in Threads, NEW g \in Holding \ Reading, Moves(t, g),
           Top(t) \notin Reading \cup Holding,
           CanWrite("dlclose", t), lock["dlclose"].w # t, lock' = WrLocked("dlclose", t)
    PROVE  HoldInv' /\ ReadInv'
  <1>1. StackInv /\ HandleInv /\ HoldInv /\ ReadInv /\ lock \in LockType /\ "dlclose" \in Locks
    BY DEF LockInv, CallInv, HoldInv, LockType, Locks
  <1>2. lock["dlclose"].w = None /\ lock["dlclose"].r = 0
    BY DEF CanWrite
  <1>3. lock' \in LockType /\ lock'["dlclose"].w = t /\ lock'["dlclose"].r = 0
    BY <1>1, <1>2, LockOps
  <1>4. \A u \in Threads : u # t => Where({u}, Holding)' = Where({u}, Holding)
    BY <1>1, Stays
  <1>5. Where({t}, Holding)' # {}
    <2>1. Where({t}, Holding)' = Where({t}, Holding) \cup {<<t, Depth(t)>>}
      BY ZenonT(60), <1>1, WhereMoves
    <2>2. QED
      BY <2>1
  <1>6. HoldInv'
    BY <1>1, <1>2, <1>3, <1>4, <1>5, NoneType DEF HoldInv, LockType
  <1>7. Reading \in SUBSET Made
    BY DEF Reading
  <1>8. IsFiniteSet(Where(Threads, Reading))
    BY <1>1, <1>7, Countable
  <1>9. Where(Threads, Reading) = {}
    BY <1>1, <1>2, <1>8, FS_EmptySet DEF ReadInv
  <1>10. Where(Threads, Reading)' = {}
    BY <1>1, <1>9, Stays
  <1>11. ReadInv'
    BY <1>3, <1>10, NoneType DEF ReadInv
  <1>12. QED
    BY <1>6, <1>11

\* and leaves.
LEMMA WriterLeaves ==
    ASSUME LockInv, NEW t \in Threads, stack[t] # <<>>, Pops(t), Top(t) \in Holding \ Reading,
           lock' = Unlocked("dlclose", t)
    PROVE  HoldInv' /\ ReadInv'
  <1>1. StackInv /\ HandleInv /\ HoldInv /\ ReadInv /\ FitInv /\ lock \in LockType /\ "dlclose" \in Locks
    BY DEF LockInv, CallInv, HoldInv, LockType, Locks
  <1>2. <<t, Depth(t)>> \in Where({t}, Holding)
    BY <1>1, TopThere
  <1>3. lock["dlclose"].w = t
    BY <1>1, <1>2 DEF HoldInv
  <1>4. lock["dlclose"].r = 0 /\ Where(Threads, Reading) = {}
    BY <1>1, <1>3, NoneType DEF ReadInv
  <1>5. lock' \in LockType /\ lock'["dlclose"].w = None /\ lock'["dlclose"].r = 0
    BY <1>1, <1>3, <1>4, LockOps
  <1>6. \A u \in Threads : u # t => Where({u}, Holding)' = Where({u}, Holding)
    BY <1>1, Stays
  <1>7. Where({t}, Holding)' = {}
    <2>1. Where({t}, Holding)' = Where({t}, Holding) \ {<<t, Depth(t)>>}
      <3>1. {t} \in SUBSET Threads /\ t \in {t} /\ Top(t) \in Holding
        OBVIOUS
      <3> HIDE DEF Holding
      <3>2. QED
        BY <1>1, <3>1, WherePops
    <2>2. ASSUME NEW p \in Where({t}, Holding) PROVE p = <<t, Depth(t)>>
      <3>1. /\ p = <<t, p[2]>> /\ p[2] \in 1..Depth(t) /\ stack[t][p[2]] \in Holding /\ Depth(t) \in Nat
        BY <1>1, <2>2 DEF Where, Depth, StackInv
      <3>2. ASSUME p[2] # Depth(t) PROVE FALSE
        <4>1. p[2] \in 1..(Depth(t) - 1) /\ stack[t][p[2]].fn = "close"
          BY <3>1, <3>2 DEF Holding
        <4>2. stack[t][p[2]] \in Counting
          BY <1>1, <4>1, OuterPlace
        <4>3. Depth(t) \in 1..Depth(t) /\ Top(t) = stack[t][Depth(t)]
          BY <1>1, TopMade DEF Top
        <4>4. Fits(t, Depth(t), Top(t))
          BY <1>1, <4>3 DEF FitInv
        <4>5. ~Inside(t, Depth(t), Counting)
          BY <4>4 DEF Fits, Holding
        <4>6. QED
          BY <4>1, <4>2, <4>5 DEF Inside
      <3>3. QED
        BY <3>1, <3>2
    <2>3. QED
      BY <2>1, <2>2
  <1>8. HoldInv'
    BY <1>1, <1>3, <1>5, <1>6, <1>7, NoneType DEF HoldInv, LockType
  <1>9. Where(Threads, Reading)' = {}
    BY <1>1, <1>4, Stays
  <1>10. ReadInv'
    BY <1>5, <1>9, FS_EmptySet DEF ReadInv
  <1>11. QED
    BY <1>8, <1>10

-----------------------------------------------------------------------------
(***************************************************************************)
(* The lock of dlclose is as the calls say, when nothing hooks or unhooks  *)
(* in a destructor.                                                        *)
(***************************************************************************)

InRefresh == {"elfs", "iter", "new", "told"}

\* The innermost call goes on and nothing changes for the lock.
LEMMA QuietTurn ==
    ASSUME LockInv, CallInv', NEW t \in Threads, stack[t] # <<>>, NEW f \in Made, NEW g \in Made, f = Top(t),
           Moves(t, g), g.fn = f.fn, g.wr = f.wr,
           f.fn = "open" => /\ g.pc \in InRefresh <=> f.pc \in InRefresh
                            /\ g.pc = "rd" => ~Inside(t, Depth(t), Counting),
           f.fn = "close" => /\ f.pc # "start" /\ g.pc # "start"
                             /\ g.pc \in {"elfs", "iter", "sync"} =>
                                   f.pc \in {"elfs", "iter", "sync"} \/ ~Inside(t, Depth(t), Counting),
           f.fn \in {"hook", "unhook"} => (g.pc \in {"copy", "meet", "told"} <=> f.pc \in {"copy", "meet", "told"}),
           lock' \in LockType, lock'["dlclose"] = lock["dlclose"]
    PROVE  LockInv'
  <1>1. StackInv /\ FitInv /\ HoldInv /\ ReadInv
    BY DEF LockInv, CallInv
  <1>2. Depth(t) \in 1..Depth(t) /\ Top(t) = stack[t][Depth(t)]
    BY <1>1, TopMade DEF Top
  <1>3. Fits(t, Depth(t), f)
    BY <1>1, <1>2 DEF FitInv
  <1>4. Fits(t, Depth(t), g)
    <2>1. g.fn = "close" /\ g.pc # "start" => (g.wr <=> ~Inside(t, Depth(t), Counting))
      BY <1>3 DEF Fits
    <2>2. g.fn = "close" /\ g.pc \in {"elfs", "iter", "sync"} => g.wr
      BY <1>3, <2>1 DEF Fits
    <2>3. g.fn = "open" /\ g.pc \in {"rd", "elfs", "iter", "new", "told"} => ~Inside(t, Depth(t), Counting)
      BY <1>3 DEF Fits, InRefresh
    <2>4. QED
      BY <1>3, <2>1, <2>2, <2>3 DEF Fits
  <1>5. FitInv'
    BY <1>1, <1>4, FitsKept
  <1>6. f \in Holding <=> g \in Holding
    BY DEF Holding
  <1>7. f \in Reading <=> g \in Reading
    BY DEF Reading, InRefresh
  <1>8. HoldInv' /\ ReadInv'
    BY <1>1, <1>6, <1>7, LockStays
  <1>9. QED
    BY <1>5, <1>8 DEF LockInv

\* The innermost call is f, and then it is g.
Goes(t, f, g, fns, from, to) ==
    /\ stack[t] # <<>> /\ f = Top(t) /\ f \in Made /\ g \in Made /\ Moves(t, g)
    /\ f.fn \in fns /\ f.pc = from /\ g.pc = to
    /\ g.fn = f.fn /\ g.arg = f.arg /\ g.wr = f.wr

LEMMA TurnGoes ==
    ASSUME NEW t, NEW fns, NEW from, NEW to, Turn(t, fns, from, to)
    PROVE  \E f, g \in Made : Goes(t, f, g, fns, from, to) /\ g.todo = f.todo
  <1> DEFINE f == Top(t)
             g == [f EXCEPT !.pc = to]
  <1>1. /\ stack[t] # <<>> /\ f \in Made /\ g \in Made /\ Moves(t, g)
        /\ f.fn \in fns /\ f.pc = from
    BY DEF Turn
  <1> HIDE DEF f
  <1>2. g.pc = to /\ g.fn = f.fn /\ g.arg = f.arg /\ g.wr = f.wr /\ g.todo = f.todo
    BY <1>1 DEF Made, Frames
  <1> HIDE DEF g
  <1>3. Goes(t, f, g, fns, from, to)
    BY <1>1, <1>2 DEF Goes, f
  <1>4. QED
    BY <1>1, <1>2, <1>3

\* Locks other than that of dlclose.
LEMMA OtherLocks ==
    ASSUME LockInv, NEW t \in Threads,
           \/ UNCHANGED lock
           \/ \E x \in Locks \ {"dlclose"} : lock' \in {RdLocked(x, t), WrLocked(x, t), Unlocked(x, t)}
    PROVE  lock' \in LockType /\ lock'["dlclose"] = lock["dlclose"]
  <1>1. lock \in LockType /\ "dlclose" \in Locks
    BY DEF LockInv, HoldInv, LockType, Locks
  <1> HIDE DEF LockType, Locks
  <1>2. CASE UNCHANGED lock
    BY <1>1, <1>2
  <1>3. ASSUME NEW x \in Locks, x # "dlclose", lock' \in {RdLocked(x, t), WrLocked(x, t), Unlocked(x, t)}
        PROVE  lock' \in LockType /\ lock'["dlclose"] = lock["dlclose"]
    BY <1>1, <1>3, LockOps
  <1>4. QED
    BY <1>2, <1>3

\* The callbacks, and the original dlopen.
LEMMA OpenHolds ==
    ASSUME LockInv, CallInv', NEW t \in Threads,
           CallCbPre(t) \/ CbPreDone(t) \/ CallCbPost(t) \/ CbPostDone(t) \/ Load(t) \/ LoadFails(t) \/ Loaded(t)
    PROVE  LockInv'
  <1>1. StackInv /\ FitInv /\ HoldInv /\ ReadInv /\ CallInv
    BY DEF LockInv, CallInv
  <1>2. lock' \in LockType /\ lock'["dlclose"] = lock["dlclose"]
    <2>1. UNCHANGED lock \/ lock' \in {RdLocked("cbs", t), Unlocked("cbs", t)}
      BY DEF CallCbPre, CbPreDone, CallCbPost, CbPostDone, Callbacks, Load, LoadFails, Loaded
    <2>2. "cbs" \in Locks \ {"dlclose"}
      BY DEF Locks
    <2>3. QED
      BY <2>1, <2>2, OtherLocks
  <1>3. ASSUME NEW from, NEW to \in {"pre", "link", "post", "ctor", "linked", "notify"},
               Turn(t, {"open"}, from, to), from \notin InRefresh
        PROVE  LockInv'
    <2>1. PICK f \in Made, g \in Made : Goes(t, f, g, {"open"}, from, to)
      BY <1>3, TurnGoes
    <2>2. f = Top(t) /\ f.fn = "open" /\ f.pc = from /\ g.pc = to /\ stack[t] # <<>> /\ Moves(t, g)
          /\ g.fn = f.fn /\ g.wr = f.wr
      BY <2>1 DEF Goes
    <2>3. to \notin InRefresh /\ to # "rd"
      BY <1>3 DEF InRefresh
    <2>4. QED
      BY <1>2, <1>3, <2>2, <2>3, QuietTurn
  <1>4. ASSUME Pops(t), Top(t) \in Made, Top(t).fn = "open", Top(t).pc \in {"notify", "post"}
        PROVE  LockInv'
    <2>1. Top(t) \notin Holding \cup Reading
      BY <1>4 DEF Holding, Reading
    <2>2. FitInv'
      BY <1>1, <1>4, FitsKept
    <2>3. HoldInv' /\ ReadInv'
      BY <1>1, <1>2, <1>4, <2>1, LockStays
    <2>4. QED
      BY <2>2, <2>3 DEF LockInv
  <1>5. CASE CallCbPre(t) \/ CbPreDone(t)
    <2>1. \/ Turn(t, {"open"}, "start", "pre") \/ Turn(t, {"open"}, "start", "link")
          \/ Turn(t, {"open"}, "pre", "link")
      BY <1>1, <1>5, CallbackTurns
    <2>2. QED
      BY <1>3, <2>1 DEF InRefresh
  <1>6. CASE CallCbPost(t) \/ CbPostDone(t)
    <2>1. \/ Turn(t, {"open"}, "notify", "post")
          \/ Pops(t) /\ Top(t) \in Made /\ Top(t).fn = "open" /\ Top(t).pc \in {"notify", "post"}
      BY <1>1, <1>6, CallbackTurns
    <2>2. QED
      BY <1>3, <1>4, <2>1 DEF InRefresh
  <1>7. CASE Load(t) \/ LoadFails(t)
    <2>1. \E to \in {"ctor", "linked", "notify"} : Turn(t, {"open"}, "link", to)
      BY <1>1, <1>7, LinkerTurns
    <2>2. QED
      BY <1>3, <2>1 DEF InRefresh
  <1>8. CASE Loaded(t)
    <2>1. PICK from \in {"ctor", "linked"} : Turn(t, {"open"}, from, IF AfterCall(t) THEN "rd" ELSE "notify")
      BY <1>1, <1>8, LinkerTurns
    <2>2. CASE ~AfterCall(t)
      BY <1>3, <2>1, <2>2 DEF InRefresh
    <2>3. CASE AfterCall(t)
      <3>1. PICK f \in Made, g \in Made : Goes(t, f, g, {"open"}, from, "rd")
        BY <2>1, <2>3, TurnGoes
      <3>2. f = Top(t) /\ f.fn = "open" /\ f.pc = from /\ g.pc = "rd" /\ stack[t] # <<>> /\ Moves(t, g)
            /\ g.fn = f.fn /\ g.wr = f.wr
        BY <3>1 DEF Goes
      <3>3. f \in Counting
        BY <3>2 DEF Counting
      <3>4. ~Inside(t, Depth(t), Counting)
        BY <1>1, <2>3, <3>2, <3>3, CountTells DEF AfterCall
      <3>5. QED
        BY <1>2, <3>2, <3>4, QuietTurn DEF InRefresh
    <2>4. QED
      BY <2>2, <2>3
  <1>9. QED
    BY <1>5, <1>6, <1>7, <1>8

\* The refresh of a dlopen, which holds the lock for reading, and of a dlclose.
LEMMA RefreshHolds ==
    ASSUME LockInv, CallInv', NEW t \in Threads,
           \/ RdLock(t) \/ LockElfs(t) \/ Iterate(t) \/ (\E l \in Libs : NewElf(t, l))
           \/ NewElfTold(t) \/ Refreshed(t)
    PROVE  LockInv'
  <1>1. StackInv /\ FitInv /\ HoldInv /\ ReadInv /\ CallInv /\ lock \in LockType
    BY DEF LockInv, CallInv, HoldInv, LockType
  <1>2. {"elfs", "tasks"} \subseteq Locks \ {"dlclose"}
    BY DEF Locks
  <1>3. CASE RdLock(t)
    <2>1. PICK fns \in {{"open"}, {"hook", "unhook"}}, to \in {"elfs", "copy"} :
             Turn(t, fns, "rd", to) /\ (to = "elfs" <=> fns = {"open"})
      BY <1>1, <1>3, RefreshTurns
    <2>2. PICK f \in Made, g \in Made : Goes(t, f, g, fns, "rd", to)
      BY <2>1, TurnGoes
    <2>3. f = Top(t) /\ f.fn \in fns /\ f.pc = "rd" /\ g.pc = to /\ stack[t] # <<>> /\ Moves(t, g)
          /\ g.fn = f.fn /\ g.wr = f.wr
      BY <2>2 DEF Goes
    <2>4. f.fn \in {"open", "hook", "unhook"} /\ (f.fn = "open" <=> to = "elfs")
      BY <2>1, <2>3
    <2>5. g \in Reading \ Holding /\ f \notin Reading \cup Holding
      BY <2>3, <2>4 DEF Reading, Holding
    <2>6. lock["dlclose"].w # t
      BY <2>3, <2>4, NoHolder
    <2>7. CanRead("dlclose", t) /\ lock' = RdLocked("dlclose", t)
      BY <1>3 DEF RdLock
    <2>8. HoldInv' /\ ReadInv'
      BY <2>3, <2>5, <2>6, <2>7, ReaderComes
    <2>9. Depth(t) \in 1..Depth(t) /\ Top(t) = stack[t][Depth(t)]
      BY <1>1, <2>3, TopMade DEF Top
    <2>10. Fits(t, Depth(t), f)
      BY <1>1, <2>3, <2>9 DEF FitInv
    <2>11. Fits(t, Depth(t), g)
      BY <2>3, <2>4, <2>10 DEF Fits
    <2>12. FitInv'
      BY <1>1, <2>3, <2>11, FitsKept
    <2>13. QED
      BY <2>8, <2>12 DEF LockInv
  <1>4. CASE LockElfs(t)
    <2>1. PICK f \in Made, g \in Made : Goes(t, f, g, {"open", "close"}, "elfs", "iter")
      BY <1>1, <1>4, RefreshTurns, TurnGoes
    <2>2. f = Top(t) /\ f.fn \in {"open", "close"} /\ f.pc = "elfs" /\ g.pc = "iter" /\ stack[t] # <<>>
          /\ Moves(t, g) /\ g.fn = f.fn /\ g.wr = f.wr
      BY <2>1 DEF Goes
    <2>3. lock' \in LockType /\ lock'["dlclose"] = lock["dlclose"]
      BY <1>2, <1>4, OtherLocks DEF LockElfs
    <2>4. QED
      BY <2>2, <2>3, QuietTurn DEF InRefresh
  <1>5. CASE Iterate(t)
    <2>1. PICK f \in Made, g \in Made :
             /\ Was(t, f, {"open", "close"}, "iter") /\ Moves(t, g)
             /\ \/ f.fn = "open" /\ g = [f EXCEPT !.pc = "new", !.todo = Born]
                \/ f.fn = "close" /\ g = [f EXCEPT !.pc = "sync", !.todo = {}]
      BY <1>1, <1>5, IterateMoves
    <2>2. f = Top(t) /\ f.fn \in {"open", "close"} /\ f.pc = "iter" /\ stack[t] # <<>> /\ g.fn = f.fn /\ g.wr = f.wr
          /\ (f.fn = "open" => g.pc = "new") /\ (f.fn = "close" => g.pc = "sync")
      BY <2>1 DEF Was, Made, Frames
    <2>3. lock' \in LockType /\ lock'["dlclose"] = lock["dlclose"]
      BY <1>2, <1>5, OtherLocks DEF Iterate
    <2>4. QED
      BY <2>1, <2>2, <2>3, QuietTurn DEF InRefresh
  <1>6. CASE \E l \in Libs : NewElf(t, l)
    <2>1. PICK l \in Libs : NewElf(t, l)
      BY <1>6
    <2>2. PICK f \in Made, to \in {"new", "told"} :
              /\ Was(t, f, {"open"}, "new")
              /\ [f EXCEPT !.todo = @ \ {l}, !.pc = to] \in Made
              /\ Moves(t, [f EXCEPT !.todo = @ \ {l}, !.pc = to])
      BY <1>1, <2>1, NewElfMoves
    <2> DEFINE g == [f EXCEPT !.todo = @ \ {l}, !.pc = to]
    <2>3. f = Top(t) /\ f.fn = "open" /\ f.pc = "new" /\ stack[t] # <<>> /\ g.fn = f.fn /\ g.wr = f.wr /\ g.pc = to
      BY <2>2 DEF Was, Made, Frames
    <2>4. lock' \in LockType /\ lock'["dlclose"] = lock["dlclose"]
      <3>1. UNCHANGED lock \/ lock' = RdLocked("tasks", t)
        BY <2>1 DEF NewElf
      <3>2. QED
        BY <1>2, <3>1, OtherLocks
    <2> HIDE DEF g
    <2>5. g \in Made /\ Moves(t, g)
      BY <2>2 DEF g
    <2>6. QED
      BY <2>3, <2>4, <2>5, QuietTurn DEF InRefresh
  <1>7. CASE NewElfTold(t)
    <2>1. PICK f \in Made, g \in Made : Goes(t, f, g, {"open"}, "told", "new")
      BY <1>1, <1>7, RefreshTurns, TurnGoes
    <2>2. f = Top(t) /\ f.fn = "open" /\ f.pc = "told" /\ g.pc = "new" /\ stack[t] # <<>>
          /\ Moves(t, g) /\ g.fn = f.fn /\ g.wr = f.wr
      BY <2>1 DEF Goes
    <2>3. lock' \in LockType /\ lock'["dlclose"] = lock["dlclose"]
      BY <1>2, <1>7, OtherLocks DEF NewElfTold
    <2>4. QED
      BY <2>2, <2>3, QuietTurn DEF InRefresh
  <1>8. CASE Refreshed(t)
    <2>1. PICK f \in Made, g \in Made : Goes(t, f, g, {"open"}, "new", "notify")
      BY <1>1, <1>8, RefreshTurns, TurnGoes
    <2>2. f = Top(t) /\ f.fn = "open" /\ f.pc = "new" /\ g.pc = "notify" /\ stack[t] # <<>>
          /\ Moves(t, g) /\ g.fn = f.fn /\ g.wr = f.wr
      BY <2>1 DEF Goes
    <2>3. f \in Reading \ Holding /\ g \notin Reading \cup Holding
      BY <2>2 DEF Reading, Holding
    <2>4. HoldInv' /\ ReadInv'
      BY <1>8, <2>2, <2>3, ReaderLeaves DEF Refreshed
    <2>5. Fits(t, Depth(t), g)
      BY <2>2 DEF Fits
    <2>6. FitInv'
      BY <1>1, <2>2, <2>5, FitsKept
    <2>7. QED
      BY <2>4, <2>6 DEF LockInv
  <1>9. QED
    BY <1>3, <1>4, <1>5, <1>6, <1>7, <1>8

\* dlclose, which holds it for writing.
LEMMA CloseHolds ==
    ASSUME LockInv, CallInv', NEW t \in Threads,
           WrLock(t) \/ Unlink(t) \/ Unload(t) \/ SyncClean(t) \/ Closed(t)
    PROVE  LockInv'
  <1>1. StackInv /\ FitInv /\ HoldInv /\ ReadInv /\ CallInv /\ lock \in LockType
    BY DEF LockInv, CallInv, HoldInv, LockType
  <1>2. CASE WrLock(t)
    <2>1. PICK f \in Made, g \in Made :
              /\ Was(t, f, {"close"}, "start") /\ Moves(t, g)
              /\ g = [f EXCEPT !.pc = "link", !.wr = Outermost(t) /\ lock["dlclose"].w # t]
      BY <1>1, <1>2, WrLockMoves
    <2>2. f = Top(t) /\ f.fn = "close" /\ f.pc = "start" /\ stack[t] # <<>> /\ g.fn = f.fn /\ g.pc = "link"
          /\ g.wr = (Outermost(t) /\ lock["dlclose"].w # t) /\ ~f.wr
      BY <2>1 DEF Was, Made, Frames
    <2>3. Depth(t) \in 1..Depth(t) /\ Top(t) = stack[t][Depth(t)] /\ Depth(t) \in Nat
      BY <1>1, <2>2, TopMade DEF Top
    <2>4. f \notin Reading \cup Holding /\ g \notin Reading /\ (g \in Holding <=> g.wr)
      BY <2>1, <2>2 DEF Reading, Holding
    <2>5. CASE Outermost(t)
      <3>1. lock["dlclose"].w # t
        BY <2>2, <2>5, NoHolder DEF Outermost
      <3>2. g.wr
        BY <2>2, <2>5, <3>1
      <3>3. CanWrite("dlclose", t) /\ lock' = WrLocked("dlclose", t)
        BY <1>2, <2>5 DEF WrLock
      <3>4. HoldInv' /\ ReadInv'
        BY <2>1, <2>2, <2>4, <3>1, <3>2, <3>3, WriterComes
      <3>5. \A i \in 1..Depth(t) : stack[t][i] \notin Counting
        BY <1>1, <2>5, CountTells DEF Outermost
      <3>6. ~Inside(t, Depth(t), Counting)
        BY <2>3, <3>5 DEF Inside
      <3>7. Fits(t, Depth(t), g)
        BY <2>2, <3>2, <3>6 DEF Fits
      <3>8. FitInv'
        BY <1>1, <2>1, <3>7, FitsKept
      <3>9. QED
        BY <3>4, <3>8 DEF LockInv
    <2>6. CASE ~Outermost(t)
      <3>1. ~g.wr
        BY <2>2, <2>6
      <3>2. UNCHANGED lock
        BY <1>2, <2>6 DEF WrLock
      <3>3. HoldInv' /\ ReadInv'
        BY <1>1, <2>1, <2>2, <2>4, <3>1, <3>2, LockStays
      <3>4. PICK i \in 1..Depth(t) : stack[t][i] \in Counting
        BY <1>1, <2>6, CountTells DEF Outermost
      <3>5. f \notin Counting
        BY <2>2 DEF Counting
      <3>6. Inside(t, Depth(t), Counting)
        BY <2>2, <2>3, <3>4, <3>5 DEF Inside
      <3>7. Fits(t, Depth(t), g)
        BY <2>2, <3>1, <3>6 DEF Fits
      <3>8. FitInv'
        BY <1>1, <2>1, <3>7, FitsKept
      <3>9. QED
        BY <3>3, <3>8 DEF LockInv
    <2>7. QED
      BY <2>5, <2>6
  <1>3. CASE Unlink(t)
    <2>1. PICK to \in {"dtor", "linked"} : Turn(t, {"close"}, "link", to)
      BY <1>1, <1>3, LinkerTurns
    <2>2. PICK f \in Made, g \in Made : Goes(t, f, g, {"close"}, "link", to)
      BY <2>1, TurnGoes
    <2>3. f = Top(t) /\ f.fn = "close" /\ f.pc = "link" /\ g.pc = to /\ stack[t] # <<>>
          /\ Moves(t, g) /\ g.fn = f.fn /\ g.wr = f.wr
      BY <2>2 DEF Goes
    <2>4. UNCHANGED lock
      BY <1>3 DEF Unlink
    <2>5. QED
      BY <1>1, <2>3, <2>4, QuietTurn
  <1>4. CASE Unload(t)
    <2>1. PICK from \in {"dtor", "linked"} : Turn(t, {"close"}, from, IF AfterCall(t) THEN "elfs" ELSE "fin")
      BY <1>1, <1>4, LinkerTurns
    <2>2. PICK to \in {"elfs", "fin"} : Turn(t, {"close"}, from, to) /\ (to = "elfs" => AfterCall(t))
      BY <2>1
    <2>3. PICK f \in Made, g \in Made : Goes(t, f, g, {"close"}, from, to)
      BY <2>2, TurnGoes
    <2>4. f = Top(t) /\ f.fn = "close" /\ f.pc = from /\ g.pc = to /\ stack[t] # <<>>
          /\ Moves(t, g) /\ g.fn = f.fn /\ g.wr = f.wr
      BY <2>3 DEF Goes
    <2>5. UNCHANGED lock
      BY <1>4 DEF Unload
    <2>6. f \in Counting
      BY <2>4 DEF Counting
    <2>7. to = "elfs" => ~Inside(t, Depth(t), Counting)
      BY <1>1, <2>2, <2>4, <2>6, CountTells DEF AfterCall
    <2>8. QED
      BY <1>1, <2>4, <2>5, <2>7, QuietTurn
  <1>5. CASE SyncClean(t)
    <2>1. PICK f \in Made, g \in Made : Goes(t, f, g, {"close"}, "sync", "fin")
      BY <1>1, <1>5, CloseTurns, TurnGoes
    <2>2. f = Top(t) /\ f.fn = "close" /\ f.pc = "sync" /\ g.pc = "fin" /\ stack[t] # <<>>
          /\ Moves(t, g) /\ g.fn = f.fn /\ g.wr = f.wr
      BY <2>1 DEF Goes
    <2>3. UNCHANGED lock
      BY <1>5 DEF SyncClean
    <2>4. QED
      BY <1>1, <2>2, <2>3, QuietTurn
  <1>6. CASE Closed(t)
    <2>1. Was(t, Top(t), {"close"}, "fin") /\ Pops(t)
      BY <1>1, <1>6, CloseTurns
    <2>2. stack[t] # <<>> /\ Top(t) \in Made /\ Top(t).fn = "close" /\ Top(t).pc = "fin"
      BY <2>1 DEF Was
    <2>3. Top(t) \notin Reading /\ (Top(t) \in Holding <=> Top(t).wr)
      BY <2>2 DEF Reading, Holding
    <2>4. lock' = IF Top(t).wr THEN Unlocked("dlclose", t) ELSE lock
      BY <1>6 DEF Closed
    <2>5. HoldInv' /\ ReadInv'
      <3>1. CASE Top(t).wr
        BY <2>1, <2>2, <2>3, <2>4, <3>1, WriterLeaves
      <3>2. CASE ~Top(t).wr
        BY <1>1, <2>1, <2>3, <2>4, <3>2, LockStays
      <3>3. QED
        BY <3>1, <3>2
    <2>6. FitInv'
      BY <1>1, <2>1, FitsKept
    <2>7. QED
      BY <2>5, <2>6 DEF LockInv
  <1>7. QED
    BY <1>2, <1>3, <1>4, <1>5, <1>6

\* Hooks and unhooks, which hold it for reading.
LEMMA TaskHolds ==
    ASSUME LockInv, CallInv', NEW t \in Threads,
           \/ Hook(t) \/ Unhook(t) \/ Copy(t) \/ (\E l \in Libs : Meet(t, l))
           \/ MeetTold(t) \/ Met(t) \/ ChangeList(t)
    PROVE  LockInv'
  <1>1. StackInv /\ FitInv /\ HoldInv /\ ReadInv /\ CallInv /\ lock \in LockType
    BY DEF LockInv, CallInv, HoldInv, LockType
  <1>2. ~Met(t) => UNCHANGED lock
    BY DEF Hook, Unhook, Copy, Meet, MeetTold, ChangeList
  <1>3. CASE Hook(t) \/ Unhook(t)
    <2>1. PICK fn \in {"hook", "unhook"} : Turn(t, {fn}, "start", "rd")
      BY <1>1, <1>3, TaskTurns
    <2>2. PICK f \in Made, g \in Made : Goes(t, f, g, {fn}, "start", "rd")
      BY <2>1, TurnGoes
    <2>3. f = Top(t) /\ f.fn \in {"hook", "unhook"} /\ f.pc = "start" /\ g.pc = "rd" /\ stack[t] # <<>>
          /\ Moves(t, g) /\ g.fn = f.fn /\ g.wr = f.wr
      BY <2>2 DEF Goes
    <2>4. UNCHANGED lock
      BY <1>3 DEF Hook, Unhook
    <2>5. QED
      BY <1>1, <2>3, <2>4, QuietTurn
  <1>4. CASE Copy(t)
    <2>1. PICK f \in Made, g \in Made :
              /\ Was(t, f, {"hook", "unhook"}, "copy") /\ Moves(t, g)
              /\ g = [f EXCEPT !.pc = "meet", !.todo = {l \in Libs : tree[l] # NoElf}]
      BY <1>1, <1>4, CopyMoves
    <2>2. f = Top(t) /\ f.fn \in {"hook", "unhook"} /\ f.pc = "copy" /\ stack[t] # <<>> /\ g.fn = f.fn
          /\ g.wr = f.wr /\ g.pc = "meet"
      BY ZenonT(60), <2>1 DEF Was, Made, Frames
    <2>3. UNCHANGED lock
      BY <1>4 DEF Copy
    <2>4. QED
      BY <1>1, <2>1, <2>2, <2>3, QuietTurn
  <1>5. CASE \E l \in Libs : Meet(t, l)
    <2>1. PICK l \in Libs : Meet(t, l)
      BY <1>5
    <2>2. PICK f \in Made, to \in {"meet", "told"} :
              /\ Was(t, f, {"hook", "unhook"}, "meet")
              /\ [f EXCEPT !.todo = @ \ {l}, !.pc = to] \in Made
              /\ Moves(t, [f EXCEPT !.todo = @ \ {l}, !.pc = to])
      BY <1>1, <2>1, MeetMoves
    <2> DEFINE g == [f EXCEPT !.todo = @ \ {l}, !.pc = to]
    <2>3. f = Top(t) /\ f.fn \in {"hook", "unhook"} /\ f.pc = "meet" /\ stack[t] # <<>> /\ g.fn = f.fn
          /\ g.wr = f.wr /\ g.pc = to
      BY <2>2 DEF Was, Made, Frames
    <2>4. UNCHANGED lock
      BY <2>1 DEF Meet
    <2> HIDE DEF g
    <2>5. g \in Made /\ Moves(t, g)
      BY <2>2 DEF g
    <2>6. QED
      BY <1>1, <2>3, <2>4, <2>5, QuietTurn
  <1>6. CASE MeetTold(t)
    <2>1. PICK f \in Made, g \in Made : Goes(t, f, g, {"hook"}, "told", "meet")
      BY <1>1, <1>6, TaskTurns, TurnGoes
    <2>2. f = Top(t) /\ f.fn = "hook" /\ f.pc = "told" /\ g.pc = "meet" /\ stack[t] # <<>>
          /\ Moves(t, g) /\ g.fn = f.fn /\ g.wr = f.wr
      BY <2>1 DEF Goes
    <2>3. UNCHANGED lock
      BY <1>6 DEF MeetTold
    <2>4. QED
      BY <1>1, <2>2, <2>3, QuietTurn
  <1>7. CASE Met(t)
    <2>1. Was(t, Top(t), {"hook", "unhook"}, "meet") /\ Pops(t)
      BY <1>1, <1>7, TaskTurns
    <2>2. stack[t] # <<>> /\ Top(t) \in Reading \ Holding
      BY <2>1 DEF Was, Reading, Holding
    <2>3. lock' = Unlocked("dlclose", t)
      BY <1>7 DEF Met
    <2>5. HoldInv' /\ ReadInv'
      BY <2>1, <2>2, <2>3, ReaderLeaves
    <2>6. FitInv'
      BY <1>1, <2>1, FitsKept
    <2>7. QED
      BY <2>5, <2>6 DEF LockInv
  <1>8. CASE ChangeList(t)
    <2>1. Was(t, Top(t), {"add", "del"}, "start") /\ Pops(t)
      BY <1>1, <1>8, TaskTurns
    <2>2. Top(t) \notin Reading \cup Holding
      BY <2>1 DEF Was, Reading, Holding
    <2>3. UNCHANGED lock
      BY <1>8 DEF ChangeList
    <2>4. HoldInv' /\ ReadInv'
      BY <1>1, <2>1, <2>2, <2>3, LockStays
    <2>5. FitInv'
      BY <1>1, <2>1, FitsKept
    <2>6. QED
      BY <2>4, <2>5 DEF LockInv
  <1>9. QED
    BY <1>3, <1>4, <1>5, <1>6, <1>7, <1>8

\* Code of others makes a call.
LEMMA CallHolds ==
    ASSUME {"dtor"} \X {"hook", "unhook"} \subseteq Barred,
           LockInv, CallInv', NEW t \in Threads, NEW fn \in Functions, Call(t, fn)
    PROVE  LockInv'
  <1>1. StackInv /\ FitInv /\ HoldInv /\ ReadInv /\ CallInv /\ tasks \subseteq Tasks /\ lock \in LockType
    BY DEF LockInv, CallInv, HoldInv, LockType
  <1>2. PICK g \in Made, x \in Arguments(fn) :
              /\ g = [fn |-> fn, arg |-> x, pc |-> "start", wr |-> FALSE, todo |-> {}]
              /\ Pushes(t, g)
    BY <1>1, CallPushes
  <1>3. UNCHANGED lock /\ \A f \in AllFrames(t) : <<f.pc, fn>> \notin Barred
    BY DEF Call
  <1> HIDE DEF Call
  <1>4. g.fn = fn /\ g.pc = "start"
    BY <1>2
  <1>5. g \notin Holding \cup Reading
    BY <1>4 DEF Holding, Reading
  <1>6. HoldInv' /\ ReadInv'
    BY <1>1, <1>2, <1>3, <1>5, LockStays
  <1>7. ASSUME fn \in {"hook", "unhook"}, NEW j \in 1..Depth(t), stack[t][j] \in Destroying
        PROVE  FALSE
    <2>1. stack[t][j] \in AllFrames(t)
      BY <1>1 DEF AllFrames, Depth, StackInv
    <2>2. <<"dtor", fn>> \notin Barred
      BY <1>3, <1>7, <2>1 DEF Destroying
    <2>3. QED
      BY <1>7, <2>2
  <1>8. Depth(t) \in Nat
    BY <1>1 DEF StackInv, Depth
  <1>9. g.fn \in {"hook", "unhook"} => ~Inside(t, Depth(t) + 1, Destroying)
    BY <1>4, <1>7, <1>8 DEF Inside
  <1>10. FitInv'
    BY <1>1, <1>2, <1>4, <1>9, FitsKept
  <1>11. QED
    BY <1>6, <1>10 DEF LockInv

LEMMA LockInit == Init => LockInv
  <1>1. SUFFICES ASSUME Init PROVE LockInv
    OBVIOUS
  <1>2. stack = [t \in Threads |-> <<>>] /\ lock = [x \in Locks |-> [w |-> None, r |-> 0]]
    BY <1>1 DEF Init
  <1>3. ASSUME NEW T \in SUBSET Threads, NEW S PROVE Where(T, S) = {}
    BY <1>2 DEF Where
  <1>4. FitInv
    BY <1>2 DEF FitInv, Depth
  <1>5. lock \in LockType /\ lock["dlclose"].w = None /\ lock["dlclose"].r = 0
    BY <1>2 DEF LockType, Locks
  <1>6. HoldInv
    BY <1>3, <1>5, NoneType DEF HoldInv, LockType
  <1>7. ReadInv
    BY <1>3, <1>5, FS_EmptySet DEF ReadInv
  <1>8. QED
    BY <1>1, <1>4, <1>6, <1>7, CallInit DEF LockInv

LEMMA LockStep ==
    ASSUME {"dtor"} \X {"hook", "unhook"} \subseteq Barred, LockInv, [Next]_vars
    PROVE  LockInv'
  <1>1. CallInv'
    BY CallStep DEF LockInv
  <1>2. CASE Next
    <2>1. PICK t \in Threads : (\E fn \in Functions : Call(t, fn)) \/ Step(t)
      BY <1>2 DEF Next
    <2>2. CASE \E fn \in Functions : Call(t, fn)
      BY <1>1, <2>2, CallHolds
    <2>3. CASE Step(t)
      <3>1. CASE \/ CallCbPre(t) \/ CbPreDone(t) \/ CallCbPost(t) \/ CbPostDone(t)
                 \/ Load(t) \/ LoadFails(t) \/ Loaded(t)
        BY <1>1, <3>1, OpenHolds
      <3>2. CASE \/ RdLock(t) \/ LockElfs(t) \/ Iterate(t) \/ (\E l \in Libs : NewElf(t, l))
                 \/ NewElfTold(t) \/ Refreshed(t)
        BY <1>1, <3>2, RefreshHolds
      <3>3. CASE WrLock(t) \/ Unlink(t) \/ Unload(t) \/ SyncClean(t) \/ Closed(t)
        BY <1>1, <3>3, CloseHolds
      <3>4. CASE \/ Hook(t) \/ Unhook(t) \/ Copy(t) \/ (\E l \in Libs : Meet(t, l))
                 \/ MeetTold(t) \/ Met(t) \/ ChangeList(t)
        BY <1>1, <3>4, TaskHolds
      <3>5. QED
        BY <2>3, <3>1, <3>2, <3>3, <3>4 DEF Step
    <2>4. QED
      BY <2>1, <2>2, <2>3
  <1>3. CASE UNCHANGED vars
    <2>1. UNCHANGED <<stack, lock>>
      BY <1>3 DEF vars
    <2>2. QED
      BY <1>1, <2>1 DEF LockInv, FitInv, Fits, Inside, HoldInv, ReadInv, Where, Depth
  <1>4. QED
    BY <1>2, <1>3

\* Where a call is.
LEMMA FrameThere ==
    ASSUME StackInv, NEW t \in Threads, NEW f \in AllFrames(t)
    PROVE  f \in Made /\ \E i \in 1..Depth(t) : f = stack[t][i] /\ <<t, i>> \in Threads \X Nat
  <1>1. PICK i \in DOMAIN stack[t] : f = stack[t][i]
    BY DEF AllFrames
  <1>2. stack[t] \in Seq(Made)
    BY DEF StackInv
  <1>3. i \in 1..Depth(t) /\ i \in Nat /\ f \in Made
    BY <1>1, <1>2 DEF Depth
  <1>4. QED
    BY <1>1, <1>3

LEMMA FrameWhere ==
    ASSUME StackInv, NEW t \in Threads, NEW f \in AllFrames(t), NEW S, f \in S
    PROVE  Where({t}, S) # {} /\ Where(Threads, S) # {}
  <1>1. PICK i \in 1..Depth(t) : f = stack[t][i] /\ <<t, i>> \in Threads \X Nat
    BY FrameThere
  <1>2. <<t, i>> \in Where({t}, S) /\ <<t, i>> \in Where(Threads, S)
    BY <1>1 DEF Where, Depth
  <1>3. QED
    BY <1>2

LEMMA LockAlone == LockInv => CleanAlone
  <1>1. SUFFICES ASSUME LockInv,
                        NEW t \in Threads, At(t, {"close"}, "sync"),
                        NEW u \in Threads \ {t}, NEW f \in AllFrames(u),
                        f.pc \in {"iter", "new", "told", "copy", "meet"}
                 PROVE  FALSE
    BY DEF CleanAlone
  <1>2. StackInv /\ FitInv /\ HoldInv /\ ReadInv
    BY <1>1 DEF LockInv, CallInv
  <1>3. lock["dlclose"].w = t
    <2>1. stack[t] # <<>> /\ Top(t) \in Made /\ Top(t).fn = "close" /\ Top(t).pc = "sync"
      BY <1>1, <1>2, TopMade DEF At
    <2>2. Depth(t) \in 1..Depth(t) /\ Top(t) = stack[t][Depth(t)]
      BY <1>2, <2>1, TopMade DEF Top
    <2>3. Fits(t, Depth(t), Top(t))
      BY <1>2, <2>2 DEF FitInv
    <2>4. Top(t) \in Holding
      BY <2>1, <2>3 DEF Fits, Holding
    <2>5. <<t, Depth(t)>> \in Where({t}, Holding)
      BY <1>2, <2>1, <2>4, TopThere
    <2>6. QED
      BY <1>2, <2>5 DEF HoldInv
  <1>4. f \in Made /\ u \in Threads
    BY <1>1, <1>2, FrameThere
  <1>5. CASE f \in Reading
    <2>1. Where(Threads, Reading) # {}
      BY <1>1, <1>2, <1>4, <1>5, FrameWhere
    <2>2. QED
      BY <1>2, <1>3, <2>1, NoneType DEF ReadInv
  <1>6. CASE f \notin Reading
    <2>1. f.fn = "close" /\ f.pc = "iter"
      BY <1>1, <1>4, <1>6 DEF Reading, Made, Frames, Functions
    <2>2. PICK i \in 1..Depth(u) : f = stack[u][i]
      BY <1>1, <1>2, <1>4, FrameThere
    <2>3. f.wr
      BY <1>2, <1>4, <2>1, <2>2 DEF FitInv, Fits
    <2>4. f \in Holding
      BY <1>4, <2>1, <2>3 DEF Holding
    <2>5. lock["dlclose"].w = u
      BY <1>1, <1>2, <1>4, <2>4, FrameWhere DEF HoldInv
    <2>6. QED
      BY <1>1, <1>3, <2>5
  <1>7. QED
    BY <1>5, <1>6

\* "if we are in sync-clean status, no other iterate or hooks can be performed at the
\* same time" (bh_elf_manager.c:154), however calls of dlopen and dlclose nest, as long
\* as nothing hooks or unhooks in a destructor.
THEOREM AlwaysCleanAlone ==
    {"dtor"} \X {"hook", "unhook"} \subseteq Barred => (Spec => []CleanAlone)
  <1>1. CASE {"dtor"} \X {"hook", "unhook"} \subseteq Barred
    <2>1. LockInv /\ [Next]_vars => LockInv'
      BY <1>1, LockStep
    <2>2. QED
      BY LockInit, <2>1, LockAlone, PTL DEF Spec
  <1>2. QED
    BY <1>1

-----------------------------------------------------------------------------
(***************************************************************************)
(* Calls that there are, and will be after a step.                         *)
(***************************************************************************)

\* There is a call in S still, or now.
LEMMA SomeStay ==
    ASSUME StackInv, NEW T \in SUBSET Threads, NEW S, NEW t \in Threads, NEW g,
           \/ Moves(t, g) /\ (Top(t) \in S => g \in S)
           \/ Pushes(t, g)
           \/ Pops(t) /\ Top(t) \notin S
    PROVE  Where(T, S) # {} => Where(T, S)' # {}
  <1>1. CASE Moves(t, g) /\ (t \in T => (Top(t) \in S <=> g \in S))
    BY <1>1, WhereMoves
  <1>2. CASE Moves(t, g) /\ t \in T /\ Top(t) \notin S /\ g \in S
    <2>1. Where(T, S)' = Where(T, S) \cup {<<t, Depth(t)>>}
      BY <1>2, WhereMoves
    <2>2. QED
      BY <2>1
  <1>3. CASE Pushes(t, g)
    <2>1. Where(T, S)' \in {Where(T, S), Where(T, S) \cup {<<t, Depth(t) + 1>>}}
      BY <1>3, WherePushes
    <2>2. QED
      BY <2>1
  <1>4. CASE Pops(t) /\ Top(t) \notin S
    BY <1>4, WherePops
  <1>5. QED
    BY <1>1, <1>2, <1>3, <1>4

LEMMA SomeCome ==
    ASSUME StackInv, NEW T \in SUBSET Threads, NEW S, NEW t \in T, NEW g, g \in S,
           Moves(t, g) \/ Pushes(t, g)
    PROVE  Where(T, S)' # {}
  <1> t \in Threads
    OBVIOUS
  <1>1. CASE Moves(t, g) /\ Top(t) \notin S
    <2>1. Where(T, S)' = Where(T, S) \cup {<<t, Depth(t)>>}
      BY <1>1, WhereMoves
    <2>2. QED
      BY <2>1
  <1>2. CASE Moves(t, g) /\ Top(t) \in S
    <2>1. stack[t] # <<>>
      BY <1>2 DEF Moves, Depth
    <2>2. Where(T, S)' = Where(T, S) /\ <<t, Depth(t)>> \in Where(T, S)
      BY <1>2, <2>1, WhereMoves, TopThere
    <2>3. QED
      BY <2>2
  <1>3. CASE Pushes(t, g)
    <2>1. Where(T, S)' = Where(T, S) \cup {<<t, Depth(t) + 1>>}
      BY <1>3, WherePushes
    <2>2. QED
      BY <2>1
  <1>4. QED
    BY <1>1, <1>2, <1>3

\* A call that is not on its way out of the linker, nor in the linker's list, goes on
\* or returns: who cleans, refreshes or owes a hook does it still.
Easy(t, f, g) ==
    /\ stack[t] # <<>> /\ f = Top(t) /\ f \in Made /\ g \in Made /\ f \notin Counting
    /\ \/ /\ Moves(t, g)
          /\ f \in Cleaning => g \in Cleaning
          /\ f \in Refreshing => g \in Refreshing
          /\ \A k \in Tasks : /\ f \in About(k) <=> g \in About(k)
                              /\ f \in Removing(k) <=> g \in Removing(k)
                              /\ \A l \in Libs : f \in Owing(k, l) => g \in Owing(k, l)
       \/ /\ Pops(t) /\ f \notin Cleaning \cup Refreshing
          /\ \A k \in Tasks : \A l \in Libs : f \notin Owing(k, l)

LEMMA EasyMoves ==
    ASSUME StackInv, NEW t \in Threads, NEW f \in Made, NEW g \in Made, stack[t] # <<>>, f = Top(t), Moves(t, g),
           g.fn = f.fn, g.arg = f.arg, g.todo = f.todo,
           f.pc \notin {"ctor", "dtor", "linked", "iter"},
           f.pc # "start" => g.wr = f.wr /\ g.pc # "start",
           f.fn # "close" => g.wr = f.wr,
           f.fn \in {"hook", "unhook"} => f.pc # "start",
           f.fn = "open" /\ f.pc = "rd" => g.pc = "elfs",
           f.pc = "elfs" => g.pc = "iter",
           f.fn = "hook" /\ f.pc \in {"rd", "copy"} => g.pc \in {"rd", "copy"},
           f.fn \in {"hook", "unhook"} => g.pc # "start"
    PROVE  Easy(t, f, g)
  <1>1. f \notin Counting
    BY DEF Counting
  <1>2. f \in Cleaning => g \in Cleaning
    BY DEF Cleaning, Holding
  <1>3. f \in Refreshing => g \in Refreshing
    BY DEF Refreshing, Made
  <1>4. ASSUME NEW k \in Tasks
        PROVE  (f \in About(k) <=> g \in About(k)) /\ (f \in Removing(k) <=> g \in Removing(k))
    BY DEF About, Removing
  <1>5. ASSUME NEW k \in Tasks, NEW l \in Libs
        PROVE  f \in Owing(k, l) => g \in Owing(k, l)
    BY DEF Owing
  <1>6. QED
    BY <1>1, <1>2, <1>3, <1>4, <1>5 DEF Easy

LEMMA EasyPops ==
    ASSUME NEW t \in Threads, NEW f \in Made, stack[t] # <<>>, f = Top(t), Pops(t), f.todo = {},
           f.pc \in {"notify", "post", "fin", "meet", "start"}
    PROVE  Easy(t, f, f)
  <1>1. f \notin Counting \cup Cleaning \cup Refreshing
    BY DEF Counting, Cleaning, Refreshing
  <1>2. \A k \in Tasks : \A l \in Libs : f \notin Owing(k, l)
    BY DEF Owing
  <1>3. QED
    BY <1>1, <1>2 DEF Easy

Unhurried(t) ==
    \/ CallCbPre(t) \/ CbPreDone(t) \/ CallCbPost(t) \/ CbPostDone(t)
    \/ Load(t) \/ LoadFails(t) \/ RdLock(t) \/ LockElfs(t) \/ NewElfTold(t) \/ Refreshed(t)
    \/ WrLock(t) \/ Unlink(t) \/ SyncClean(t) \/ Closed(t) \/ MeetTold(t) \/ Met(t) \/ ChangeList(t)

LEMMA EasySteps ==
    ASSUME StackInv, NEW t \in Threads, Unhurried(t)
    PROVE  \E f, g \in Made : Easy(t, f, g)
  <1>1. ASSUME NEW fns, NEW from, NEW to, Turn(t, fns, from, to),
               fns \in {{"open"}, {"close"}, {"open", "close"}, {"hook", "unhook"}, {"hook"}},
               from \notin {"ctor", "dtor", "linked", "iter"},
               to # "start",
               from = "start" => fns = {"open"},
               from = "rd" => \/ fns = {"open"} /\ to = "elfs"
                              \/ fns = {"hook", "unhook"} /\ to = "copy",
               from = "elfs" => to = "iter",
               from # "copy"
        PROVE  \E f, g \in Made : Easy(t, f, g)
    <2>1. PICK f \in Made, g \in Made : Goes(t, f, g, fns, from, to) /\ g.todo = f.todo
      BY <1>1, TurnGoes
    <2>2. /\ stack[t] # <<>> /\ f = Top(t) /\ Moves(t, g)
          /\ f.fn \in fns /\ f.pc = from /\ g.pc = to
          /\ g.fn = f.fn /\ g.arg = f.arg /\ g.wr = f.wr
      BY <2>1 DEF Goes
    <2>3. /\ f.fn \in {"hook", "unhook"} => f.pc # "start"
          /\ f.fn = "open" /\ f.pc = "rd" => g.pc = "elfs"
          /\ f.fn = "hook" /\ f.pc \in {"rd", "copy"} => g.pc \in {"rd", "copy"}
      <3>1. f.pc = "start" => f.fn = "open"
        BY <1>1, <2>2
      <3>2. f.fn = "open" /\ from = "rd" => to = "elfs"
        BY <1>1, <2>2
      <3>3. f.fn = "hook" /\ from = "rd" => to = "copy"
        BY <1>1, <2>2
      <3>4. QED
        BY <1>1, <2>2, <3>1, <3>2, <3>3
    <2>4. Easy(t, f, g)
      BY <1>1, <2>1, <2>2, <2>3, EasyMoves
    <2>5. QED
      BY <2>4
  <1>2. ASSUME Pops(t), stack[t] # <<>>, Top(t) \in Made, Top(t).todo = {},
               Top(t).pc \in {"notify", "post", "fin", "meet", "start"}
        PROVE  \E f, g \in Made : Easy(t, f, g)
    BY <1>2, EasyPops
  <1>3. CASE CallCbPre(t) \/ CbPreDone(t)
    <2>1. \/ Turn(t, {"open"}, "start", "pre") \/ Turn(t, {"open"}, "start", "link")
          \/ Turn(t, {"open"}, "pre", "link")
      BY <1>3, CallbackTurns
    <2>2. QED
      BY <1>1, <2>1
  <1>4. ASSUME NEW f \in Made, f.fn # "close", f.pc \in {"notify", "post", "start"} PROVE f.todo = {}
    BY <1>4 DEF Made
  <1>5. CASE CallCbPost(t) \/ CbPostDone(t)
    <2>1. \/ Turn(t, {"open"}, "notify", "post")
          \/ /\ Pops(t) /\ Top(t) \in Made /\ Top(t).fn = "open" /\ Top(t).pc \in {"notify", "post"}
             /\ stack[t] # <<>>
      BY <1>5, CallbackTurns DEF CallCbPost, CbPostDone, Callbacks, At
    <2>2. CASE Turn(t, {"open"}, "notify", "post")
      BY <1>1, <2>2
    <2>3. CASE ~Turn(t, {"open"}, "notify", "post")
      BY <1>2, <1>4, <2>1, <2>3
    <2>4. QED
      BY <2>2, <2>3
  <1>6. CASE Load(t) \/ LoadFails(t)
    <2>1. \E to \in {"ctor", "linked", "notify"} : Turn(t, {"open"}, "link", to)
      BY <1>6, LinkerTurns
    <2>2. QED
      BY <1>1, <2>1
  <1>7. CASE RdLock(t)
    <2>1. Turn(t, {"open"}, "rd", "elfs") \/ Turn(t, {"hook", "unhook"}, "rd", "copy")
      BY <1>7, RefreshTurns
    <2>2. QED
      BY <1>1, <2>1
  <1>8. CASE LockElfs(t)
    <2>1. Turn(t, {"open", "close"}, "elfs", "iter")
      BY <1>8, RefreshTurns
    <2>2. QED
      BY <1>1, <2>1
  <1>9. CASE NewElfTold(t)
    <2>1. Turn(t, {"open"}, "told", "new")
      BY <1>9, RefreshTurns
    <2>2. QED
      BY <1>1, <2>1
  <1>10. CASE Refreshed(t)
    <2>1. Turn(t, {"open"}, "new", "notify")
      BY <1>10, RefreshTurns
    <2>2. QED
      BY <1>1, <2>1
  <1>11. CASE WrLock(t)
    <2>1. PICK f \in Made, g \in Made :
              /\ Was(t, f, {"close"}, "start") /\ Moves(t, g)
              /\ g = [f EXCEPT !.pc = "link", !.wr = Outermost(t) /\ lock["dlclose"].w # t]
      BY <1>11, WrLockMoves
    <2>2. f = Top(t) /\ f.fn = "close" /\ f.pc = "start" /\ stack[t] # <<>> /\ g.fn = f.fn /\ g.arg = f.arg
          /\ g.todo = f.todo /\ g.pc = "link"
      BY <2>1 DEF Was, Made, Frames
    <2>3. Easy(t, f, g)
      BY <2>1, <2>2, EasyMoves
    <2>4. QED
      BY <2>3
  <1>12. CASE Unlink(t)
    <2>1. \E to \in {"dtor", "linked"} : Turn(t, {"close"}, "link", to)
      BY <1>12, LinkerTurns
    <2>2. QED
      BY <1>1, <2>1
  <1>13. CASE SyncClean(t)
    <2>1. Turn(t, {"close"}, "sync", "fin")
      BY <1>13, CloseTurns
    <2>2. QED
      BY <1>1, <2>1
  <1>14. CASE Closed(t)
    <2>1. Pops(t) /\ stack[t] # <<>> /\ Top(t) \in Made /\ Top(t).fn = "close" /\ Top(t).pc = "fin"
      BY <1>14, CloseTurns DEF Was
    <2>2. Top(t).todo = {}
      BY <2>1 DEF Made
    <2>3. QED
      BY <1>2, <2>1, <2>2
  <1>15. CASE MeetTold(t)
    <2>1. Turn(t, {"hook"}, "told", "meet")
      BY <1>15, TaskTurns
    <2>2. QED
      BY <1>1, <2>1
  <1>16. CASE Met(t)
    <2>1. Pops(t) /\ stack[t] # <<>> /\ Top(t) \in Made /\ Top(t).todo = {} /\ Top(t).pc = "meet"
      BY <1>16, TaskTurns DEF Was
    <2>2. QED
      BY <1>2, <2>1
  <1>17. CASE ChangeList(t)
    <2>1. Pops(t) /\ stack[t] # <<>> /\ Top(t) \in Made /\ Top(t).pc = "start" /\ Top(t).fn \in {"add", "del"}
      BY <1>17, TaskTurns DEF Was
    <2>2. QED
      BY <1>2, <1>4, <2>1
  <1>18. QED
    BY <1>3, <1>5, <1>6, <1>7, <1>8, <1>9, <1>10, <1>11, <1>12, <1>13, <1>14, <1>15, <1>16, <1>17 DEF Unhurried

-----------------------------------------------------------------------------
(***************************************************************************)
(* An ELF of the ELF manager is that of a mapped library, or a dlclose     *)
(* with the write lock is about to find out that it went.                  *)
(***************************************************************************)

\* Nothing is mapped or unmapped and the ELFs stay.
LEMMA TreeStays ==
    ASSUME TreeInv, UNCHANGED <<refs, loads, tree, odd>>, refreshing => refreshing',
           Where(Threads, Cleaning) # {} => Where(Threads, Cleaning)' # {}
    PROVE  TreeInv'
  BY DEF TreeInv, Mapped, Went, NoElf

LEMMA TreeQuiet ==
    ASSUME CallInv, TreeInv, NEW t \in Threads,
           \/ Unhurried(t) /\ ~Load(t)
           \/ Loaded(t) \/ Hook(t) \/ Unhook(t) \/ Copy(t)
           \/ (\E l \in Libs : NewElf(t, l)) \/ (\E l \in Libs : Meet(t, l))
           \/ (\E fn \in Functions : Call(t, fn))
    PROVE  TreeInv'
  <1>1. UNCHANGED <<refs, loads, tree, odd>> /\ (refreshing => refreshing')
    BY DEF Unhurried, CallCbPre, CbPreDone, CallCbPost, CbPostDone, Callbacks, LoadFails, Loaded, RdLock,
           LockElfs, NewElf, NewElfTold, Refreshed, WrLock, Unlink, SyncClean, Closed, Hook, Unhook, Copy,
           Meet, MeetTold, Met, ChangeList, Call, linking, elves, clients
  <1>2. StackInv /\ tasks \subseteq Tasks
    BY DEF CallInv
  <1>3. ASSUME NEW g, \/ Moves(t, g) /\ (Top(t) \in Cleaning => g \in Cleaning)
                      \/ Pushes(t, g)
                      \/ Pops(t) /\ Top(t) \notin Cleaning
        PROVE  TreeInv'
    <2>1. Where(Threads, Cleaning) # {} => Where(Threads, Cleaning)' # {}
      BY <1>2, <1>3, SomeStay
    <2>2. QED
      BY <1>1, <2>1, TreeStays
  <1>4. CASE Unhurried(t) /\ ~Load(t)
    <2>1. PICK f \in Made, g \in Made : Easy(t, f, g)
      BY <1>2, <1>4, EasySteps
    <2>2. QED
      BY <1>3, <2>1 DEF Easy
  <1>5. CASE Loaded(t)
    <2>1. PICK from \in {"ctor", "linked"} : Turn(t, {"open"}, from, IF AfterCall(t) THEN "rd" ELSE "notify")
      BY <1>2, <1>5, LinkerTurns
    <2>2. Top(t) \notin Cleaning /\ \E g : Moves(t, g)
      BY <2>1 DEF Turn, Cleaning, Holding
    <2>3. QED
      BY <1>3, <2>2
  <1>6. CASE Hook(t) \/ Unhook(t)
    <2>1. PICK fn \in {"hook", "unhook"} : Turn(t, {fn}, "start", "rd")
      BY <1>2, <1>6, TaskTurns
    <2>2. Top(t) \notin Cleaning /\ \E g : Moves(t, g)
      BY <2>1 DEF Turn, Cleaning, Holding
    <2>3. QED
      BY <1>3, <2>2
  <1>7. CASE Copy(t)
    <2>1. Top(t) \notin Cleaning /\ \E g : Moves(t, g)
      BY ZenonT(60), <1>2, <1>7, CopyMoves DEF Was, Cleaning, Holding
    <2>2. QED
      BY <1>3, <2>1
  <1>8. CASE \E l \in Libs : NewElf(t, l)
    <2>1. Top(t) \notin Cleaning /\ \E g : Moves(t, g)
      BY ZenonT(60), <1>2, <1>8, NewElfMoves DEF Was, Cleaning, Holding
    <2>2. QED
      BY <1>3, <2>1
  <1>9. CASE \E l \in Libs : Meet(t, l)
    <2>1. Top(t) \notin Cleaning /\ \E g : Moves(t, g)
      BY <1>2, <1>9, MeetMoves DEF Was, Cleaning, Holding
    <2>2. QED
      BY <1>3, <2>1
  <1>10. CASE \E fn \in Functions : Call(t, fn)
    <2>1. \E g : Pushes(t, g)
      BY <1>2, <1>10, CallPushes
    <2>2. QED
      BY <1>3, <2>1
  <1>11. QED
    BY <1>4, <1>5, <1>6, <1>7, <1>8, <1>9, <1>10

\* A library is mapped: an ELF that is still there under its name went unnoticed.
LEMMA TreeLoad ==
    ASSUME CallInv, TreeInv, NEW t \in Threads, Load(t)
    PROVE  TreeInv'
  <1>1. StackInv /\ refs \in [Libs -> Nat]
    BY DEF CallInv, HandleInv
  <1>2. PICK f \in Made, g \in Made : Easy(t, f, g)
    BY <1>1, EasySteps DEF Unhurried
  <1>3. Where(Threads, Cleaning) # {} => Where(Threads, Cleaning)' # {}
    BY <1>1, <1>2, SomeStay DEF Easy
  <1> DEFINE k == Top(t).arg
  <1>4. /\ refs' = [refs EXCEPT ![k] = @ + 1]
        /\ loads' = [loads EXCEPT ![k] = IF refs[k] = 0 THEN @ + 1 ELSE @]
        /\ UNCHANGED <<tree, refreshing>>
        /\ odd \subseteq odd'
        /\ k \in Reborn => <<<<k, tree[k].gen>>, "went">> \in odd'
    BY DEF Load, clients
  <1>5. k \in Libs
    <2>1. Turn(t, {"open"}, "link", "ctor") \/ Turn(t, {"open"}, "link", "linked")
      BY <1>1, LinkerTurns
    <2>2. QED
      BY <2>1 DEF Turn, Made
  <1> HIDE DEF k
  <1>6. SUFFICES ASSUME NEW l \in Libs
                 PROVE  (\/ tree[l] = NoElf \/ Mapped(l) \/ Went(l)
                         \/ refs[l] = 0 /\ tree[l].gen = loads[l] /\ refreshing /\ Where(Threads, Cleaning) # {})'
    BY DEF TreeInv
  <1>7. \/ tree[l] = NoElf \/ Mapped(l) \/ Went(l)
        \/ refs[l] = 0 /\ tree[l].gen = loads[l] /\ refreshing /\ Where(Threads, Cleaning) # {}
    BY DEF TreeInv
  <1>8. CASE l # k
    <2>1. refs'[l] = refs[l] /\ loads'[l] = loads[l]
      BY <1>4, <1>8
    <2>2. QED
      BY <1>3, <1>4, <1>7, <2>1 DEF Mapped, Went, NoElf
  <1>9. CASE l = k /\ refs[k] = 0
    <2>1. k \in Reborn \/ tree[k] = NoElf
      BY <1>5, <1>9 DEF Reborn
    <2>2. QED
      BY <1>4, <1>9, <2>1 DEF Went, NoElf
  <1>10. CASE l = k /\ refs[k] # 0
    <2>1. refs'[k] = refs[k] + 1 /\ refs[k] \in Nat /\ loads'[k] = loads[k]
      BY <1>1, <1>4, <1>5, <1>10
    <2>2. QED
      BY <1>4, <1>7, <1>10, <2>1 DEF Mapped, Went, NoElf
  <1>11. QED
    BY <1>8, <1>9, <1>10

\* The linker's list is gone through: what is not in it is no longer there.
LEMMA TreeIterate ==
    ASSUME CallInv, TreeInv, NEW t \in Threads, Iterate(t)
    PROVE  TreeInv'
  <1>1. UNCHANGED <<refs, loads, odd>>
        /\ tree' = [l \in Libs |->
                  IF refs[l] = 0 THEN NoElf
                  ELSE IF l \in Born THEN [gen |-> loads[l], by |-> Top(t).fn]
                  ELSE tree[l]]
        /\ refs \in [Libs -> Nat]
    BY DEF Iterate, linking, CallInv, HandleInv
  <1>2. SUFFICES ASSUME NEW l \in Libs PROVE (tree[l] = NoElf \/ Mapped(l) \/ Went(l))'
    BY DEF TreeInv
  <1>3. CASE refs[l] = 0
    BY <1>1, <1>3 DEF NoElf
  <1>4. CASE refs[l] # 0 /\ l \in Born
    <2>1. refs'[l] > 0 /\ tree'[l].gen = loads'[l]
      BY <1>1, <1>4
    <2>2. QED
      BY <2>1 DEF Mapped
  <1>5. CASE refs[l] # 0 /\ l \notin Born
    <2>1. tree'[l] = tree[l]
      BY <1>1, <1>5
    <2>2. tree[l] # NoElf
      BY <1>1, <1>5 DEF Born
    <2>3. Mapped(l) \/ Went(l)
      BY <1>5, <2>2 DEF TreeInv
    <2>4. QED
      BY <1>1, <2>1, <2>3 DEF Mapped, Went
  <1>6. QED
    BY <1>3, <1>4, <1>5

\* A library is unmapped: with the write lock there will be a refresh.
LEMMA TreeUnload ==
    ASSUME LockInv, TreeInv, NEW t \in Threads, Unload(t)
    PROVE  TreeInv'
  <1>1. StackInv /\ CallInv /\ HoldInv /\ FitInv /\ refs \in [Libs -> Nat]
    BY DEF LockInv, CallInv, HandleInv
  <1> DEFINE k == Top(t).arg
  <1>2. PICK from \in {"dtor", "linked"} : Turn(t, {"close"}, from, IF AfterCall(t) THEN "elfs" ELSE "fin")
    BY <1>1, LinkerTurns
  <1>3. PICK to \in {"elfs", "fin"} :
           Turn(t, {"close"}, from, to) /\ to = (IF AfterCall(t) THEN "elfs" ELSE "fin")
    BY <1>2
  <1>4. PICK f \in Made, g \in Made : Goes(t, f, g, {"close"}, from, to)
    BY <1>3, TurnGoes
  <1>5. f = Top(t) /\ f.fn = "close" /\ f.pc = from /\ g.pc = to /\ stack[t] # <<>>
        /\ Moves(t, g) /\ g.fn = f.fn /\ g.wr = f.wr
    BY <1>4 DEF Goes
  <1>6. /\ refs' = [refs EXCEPT ![k] = @ - 1]
        /\ odd' = IF refs[k] = 1 /\ (lock["dlclose"].w # t \/ ~refreshing)
                  THEN odd \cup {<<<<k, loads[k]>>, "went">>} ELSE odd
        /\ UNCHANGED <<loads, tree, refreshing>>
    BY DEF Unload, clients
  <1>7. k \in Libs /\ refs[k] \in Nat \ {0}
    <2>1. refs[k] > 0
      BY <1>1, UnloadKept
    <2>2. k \in Libs
      BY <1>5 DEF Made
    <2>3. QED
      BY <1>1, <2>1, <2>2
  <1> HIDE DEF k
  <1>8. refreshing => (Where(Threads, Cleaning) # {} => Where(Threads, Cleaning)' # {})
    <2>1. SUFFICES ASSUME refreshing PROVE f \in Cleaning => g \in Cleaning
      BY <1>1, <1>5, SomeStay
    <2>2. SUFFICES ASSUME f \in Cleaning PROVE to = "elfs"
      BY <1>5 DEF Cleaning, Holding
    <2>3. f.wr /\ f \in Counting
      BY <1>5, <2>2 DEF Cleaning, Holding, Counting
    <2>4. Depth(t) \in 1..Depth(t) /\ Top(t) = stack[t][Depth(t)]
      BY <1>1, <1>5, TopMade DEF Top
    <2>5. Fits(t, Depth(t), f)
      BY <1>1, <1>5, <2>4 DEF FitInv
    <2>6. ~Inside(t, Depth(t), Counting)
      BY <1>5, <2>3, <2>5 DEF Fits
    <2>7. count[t] = 1
      BY <1>1, <1>5, <2>3, <2>6, CountTells
    <2>8. QED
      BY <1>3, <2>1, <2>7 DEF AfterCall
  <1>9. lock["dlclose"].w = t => Where(Threads, Cleaning) # {}
    <2>1. SUFFICES ASSUME lock["dlclose"].w = t PROVE Where(Threads, Cleaning) # {}
      OBVIOUS
    <2>2. PICK p \in Where({t}, Holding) : TRUE
      BY <1>1, <2>1 DEF HoldInv
    <2>3. p[1] = t /\ p[2] \in 1..Depth(t) /\ stack[t][p[2]] \in Holding /\ p \in Threads \X Nat /\ Depth(t) \in Nat
      BY <1>1, <2>2 DEF Where, Depth, StackInv
    <2>4. stack[t][p[2]] \in Cleaning
      <3>1. CASE p[2] = Depth(t)
        <4>1. stack[t][p[2]] = f
          BY <1>5, <3>1 DEF Top
        <4>2. QED
          BY <1>5, <2>3, <4>1 DEF Cleaning
      <3>2. CASE p[2] # Depth(t)
        <4>1. p[2] \in 1..(Depth(t) - 1) /\ stack[t][p[2]].fn = "close"
          BY <2>3, <3>2 DEF Holding
        <4>2. stack[t][p[2]].pc = "dtor"
          BY <1>1, <4>1, OuterPlace DEF Destroying
        <4>3. QED
          BY <2>3, <4>2 DEF Cleaning
      <3>3. QED
        BY <3>1, <3>2
    <2>5. p \in Where(Threads, Cleaning)
      BY <2>3, <2>4 DEF Where, Depth
    <2>6. QED
      BY <2>5
  <1>10. SUFFICES ASSUME NEW l \in Libs
                  PROVE  (\/ tree[l] = NoElf \/ Mapped(l) \/ Went(l)
                          \/ refs[l] = 0 /\ tree[l].gen = loads[l] /\ refreshing /\ Where(Threads, Cleaning) # {})'
    BY DEF TreeInv
  <1>11. \/ tree[l] = NoElf \/ Mapped(l) \/ Went(l)
         \/ refs[l] = 0 /\ tree[l].gen = loads[l] /\ refreshing /\ Where(Threads, Cleaning) # {}
    BY DEF TreeInv
  <1>12. odd \subseteq odd'
    BY <1>6
  <1>13. CASE l # k
    <2>1. refs'[l] = refs[l]
      BY <1>6, <1>13
    <2>2. QED
      BY <1>6, <1>8, <1>11, <1>12, <2>1 DEF Mapped, Went, NoElf
  <1>14. CASE l = k /\ refs[k] # 1
    <2>1. refs'[l] > 0 /\ refs[l] > 0
      BY <1>1, <1>6, <1>7, <1>14
    <2>2. QED
      BY <1>6, <1>11, <1>12, <2>1 DEF Mapped, Went, NoElf
  <1>15. CASE l = k /\ refs[k] = 1
    <2>1. refs'[l] = 0 /\ refs[l] > 0
      BY <1>1, <1>6, <1>7, <1>15
    <2>2. CASE tree[l] = NoElf \/ Went(l)
      BY <1>6, <1>12, <2>2 DEF Went, NoElf
    <2>3. CASE Mapped(l) /\ (lock["dlclose"].w # t \/ ~refreshing)
      <3>1. <<<<l, loads[l]>>, "went">> \in odd' /\ tree'[l].gen = loads[l]
        BY <1>6, <1>15, <2>3 DEF Mapped
      <3>2. QED
        BY <1>6, <3>1 DEF Went
    <2>4. CASE Mapped(l) /\ lock["dlclose"].w = t /\ refreshing
      <3>1. Where(Threads, Cleaning)' # {} /\ tree'[l].gen = loads'[l] /\ refreshing'
        BY <1>6, <1>8, <1>9, <2>4 DEF Mapped
      <3>2. QED
        BY <2>1, <3>1
    <2>5. QED
      BY <1>11, <2>1, <2>2, <2>3, <2>4
  <1>16. QED
    BY <1>13, <1>14, <1>15

LEMMA TreeInit == Init => TreeInv
  <1>1. SUFFICES ASSUME Init, NEW l \in Libs PROVE tree[l] = NoElf \/ Mapped(l)
    BY DEF TreeInv
  <1>2. /\ tree = [m \in Libs |-> IF m \in Initial THEN [gen |-> 1, by |-> "oneshot"] ELSE NoElf]
        /\ refs = [m \in Libs |-> IF m \in Initial THEN 1 ELSE 0]
        /\ loads = refs
    BY <1>1 DEF Init
  <1>3. CASE l \in Initial
    <2>1. tree[l].gen = 1 /\ refs[l] = 1 /\ loads[l] = 1
      BY <1>1, <1>2, <1>3
    <2>2. QED
      BY <2>1 DEF Mapped
  <1>4. QED
    BY <1>1, <1>2, <1>3

LEMMA TreeStep ==
    ASSUME LockInv, TreeInv, [Next]_vars
    PROVE  TreeInv'
  <1>1. CallInv
    BY DEF LockInv
  <1>2. CASE Next
    <2>1. PICK t \in Threads : (\E fn \in Functions : Call(t, fn)) \/ Step(t)
      BY <1>2 DEF Next
    <2>2. CASE Load(t) \/ Iterate(t) \/ Unload(t)
      BY <1>1, <2>2, TreeLoad, TreeIterate, TreeUnload
    <2>3. CASE ~(Load(t) \/ Iterate(t) \/ Unload(t))
      BY <1>1, <2>1, <2>3, TreeQuiet DEF Step, Unhurried
    <2>4. QED
      BY <2>2, <2>3
  <1>3. CASE UNCHANGED vars
    BY <1>3 DEF vars, linking, elves, clients, TreeInv, Mapped, Went, NoElf, Where
  <1>4. QED
    BY <1>2, <1>3

LEMMA TreeMapped == LockInv /\ TreeInv => ElfsMapped
  <1>1. SUFFICES ASSUME LockInv, TreeInv, NEW t \in Threads, NEW l \in Using(t)
                 PROVE  tree[l] = NoElf \/ Mapped(l) \/ <<<<l, tree[l].gen>>, "went">> \in odd
    BY DEF ElfsMapped
  <1>2. StackInv /\ HoldInv /\ ReadInv
    BY <1>1 DEF LockInv, CallInv
  <1>3. PICK f \in AllFrames(t) : l \in f.todo
    BY <1>1 DEF Using
  <1>4. f \in Made
    BY <1>2, FrameThere
  <1>5. l \in Libs /\ f \in Reading
    BY <1>3, <1>4 DEF Made, Frames, Functions, Reading
  <1>6. Where(Threads, Reading) # {}
    BY <1>2, <1>5, FrameWhere
  <1>7. lock["dlclose"].w = None
    BY <1>2, <1>6 DEF ReadInv
  <1>8. Where(Threads, Cleaning) = {}
    <2>1. SUFFICES ASSUME NEW p \in Where(Threads, Cleaning) PROVE FALSE
      OBVIOUS
    <2>2. p[1] \in Threads /\ p \in Where({p[1]}, Holding)
      BY <2>1 DEF Where, Cleaning
    <2>3. lock["dlclose"].w = p[1]
      BY <1>2, <2>2 DEF HoldInv
    <2>4. QED
      BY <1>7, <2>2, <2>3, NoneType
  <1>9. QED
    BY <1>1, <1>5, <1>8 DEF TreeInv, Went

\* What a refresh or a hook goes through is mapped: a dlclose with the write lock is in
\* no reader's way, and takes its library's ELF with it (bh_elf_manager.c:96).
THEOREM AlwaysElfsMapped ==
    {"dtor"} \X {"hook", "unhook"} \subseteq Barred => (Spec => []ElfsMapped)
  <1>1. CASE {"dtor"} \X {"hook", "unhook"} \subseteq Barred
    <2>1. LockInv /\ TreeInv /\ [Next]_vars => LockInv' /\ TreeInv'
      BY <1>1, LockStep, TreeStep
    <2>2. QED
      BY LockInit, TreeInit, <2>1, TreeMapped, PTL DEF Spec
  <1>2. QED
    BY <1>1

-----------------------------------------------------------------------------
(***************************************************************************)
(* Hooks in all libraries: the parts of the invariant, one by one.         *)
(***************************************************************************)

\* Steps that neither map nor unmap a library and leave the ELFs alone.
LEMMA AgeStays ==
    ASSUME AgeInv, UNCHANGED <<refs, loads, tree>>, DOMAIN hooked' = Libs, refreshing' \in BOOLEAN
    PROVE  AgeInv'
  BY DEF AgeInv

LEMMA GoneStays ==
    ASSUME GoneInv, UNCHANGED <<refs, loads, tree, odd>>
    PROVE  GoneInv'
  BY DEF GoneInv, Mapped, Went, NoElf

LEMMA NewStays ==
    ASSUME NewInv, AgeInv, UNCHANGED <<loads, tree, odd>>, refreshing' \in BOOLEAN, refreshing => refreshing',
           \A l \in Libs : refs'[l] > 0 => refs[l] > 0,
           refreshing /\ (Where(Threads, Counting) # {} \/ Where(Threads, Refreshing) # {}) =>
               (Where(Threads, Counting)' # {} \/ Where(Threads, Refreshing)' # {})
    PROVE  NewInv'
  BY DEF NewInv, Came, NoElf

LEMMA AloneKept ==
    ASSUME StackInv, AloneInv, NEW t \in Threads, NEW g, tasks' \subseteq tasks,
           \/ Moves(t, g) /\ \A k \in Tasks : /\ Top(t) \in About(k) <=> g \in About(k)
                                              /\ g \in Removing(k) /\ k \in tasks' => Top(t) \in Removing(k)
           \/ Pops(t)
           \/ Pushes(t, g) /\ \A k \in Tasks : g \notin About(k)
    PROVE  AloneInv'
  <1>1. ASSUME NEW k \in Tasks
        PROVE  /\ Where(Threads, About(k))' \subseteq Where(Threads, About(k))
               /\ k \in tasks' => Where(Threads, Removing(k))' \subseteq Where(Threads, Removing(k))
    <2> DEFINE A == About(k)
               R == Removing(k)
    <2>0. R \subseteq A
      BY DEF Removing
    <2> HIDE DEF A, R
    <2>1. CASE Pops(t)
      <3>1. Where(Threads, A)' \subseteq Where(Threads, A)
        BY <2>1, WherePops
      <3>2. Where(Threads, R)' \subseteq Where(Threads, R)
        BY <2>1, WherePops
      <3>3. QED
        BY <3>1, <3>2 DEF A, R
    <2>2. CASE Pushes(t, g) /\ g \notin A
      <3>1. Where(Threads, A)' = Where(Threads, A)
        BY <2>2, Stays
      <3>2. Where(Threads, R)' = Where(Threads, R)
        BY <2>0, <2>2, Stays
      <3>3. QED
        BY <3>1, <3>2 DEF A, R
    <2>3. CASE /\ Moves(t, g)
               /\ Top(t) \in A <=> g \in A
               /\ g \in R /\ k \in tasks' => Top(t) \in R
      <3>1. Where(Threads, A)' = Where(Threads, A)
        BY <2>3, Stays
      <3>2. ASSUME k \in tasks' PROVE Where(Threads, R)' \subseteq Where(Threads, R)
        <4>1. CASE Top(t) \in R <=> g \in R
          BY <2>3, <4>1, Stays
        <4>2. CASE Top(t) \in R /\ g \notin R
          <5>1. Where(Threads, R)' = Where(Threads, R) \ {<<t, Depth(t)>>}
            BY ZenonT(60), <2>3, <4>2, WhereMoves
          <5>2. QED
            BY <5>1
        <4>3. QED
          BY <2>3, <3>2, <4>1, <4>2
      <3>3. QED
        BY <3>1, <3>2 DEF A, R
    <2>4. QED
      BY <2>1, <2>2, <2>3 DEF A, R
  <1>2. QED
    BY <1>1 DEF AloneInv

\* A hook that is missing was missing before, and who owes it does it still.
LEMMA OwedKept ==
    ASSUME OwedInv,
           \A l \in Libs : \A k \in tasks' :
               (Mapped(l) /\ tree[l] # NoElf /\ tree[l].by # "close" /\ k \notin hooked[l])' =>
                  \/ Where(Threads, Owing(k, l))' # {}
                  \/ /\ k \in tasks /\ Mapped(l) /\ tree[l] # NoElf /\ tree[l].by # "close" /\ k \notin hooked[l]
                     /\ Where(Threads, Owing(k, l)) # {} => Where(Threads, Owing(k, l))' # {}
    PROVE  OwedInv'
  BY DEF OwedInv

-----------------------------------------------------------------------------
(* The steps. *)

\* Steps that do nothing to libraries, ELFs, hooks and tasks.
LEMMA HookQuiet ==
    ASSUME HookInv, CallInv', NEW t \in Threads, Unhurried(t), ~Load(t)
    PROVE  HookInv'
  <1>1. StackInv /\ AgeInv /\ GoneInv /\ NewInv /\ AloneInv /\ OwedInv
    BY DEF HookInv, CallInv
  <1>2. UNCHANGED <<refs, loads, tree, odd, hooked, tasks, refreshing>>
    BY DEF Unhurried, CallCbPre, CbPreDone, CallCbPost, CbPostDone, Callbacks, LoadFails, RdLock,
           LockElfs, NewElfTold, Refreshed, WrLock, Unlink, SyncClean, Closed,
           MeetTold, Met, ChangeList, linking, elves, clients
  <1>3. PICK f \in Made, g \in Made : Easy(t, f, g)
    BY <1>1, EasySteps
  <1>4. AgeInv'
    BY <1>1, <1>2, AgeStays DEF AgeInv
  <1>5. GoneInv'
    BY <1>1, <1>2, GoneStays
  <1>6. NewInv'
    <2>1. Where(Threads, Counting) # {} => Where(Threads, Counting)' # {}
      BY <1>1, <1>3, SomeStay DEF Easy
    <2>2. Where(Threads, Refreshing) # {} => Where(Threads, Refreshing)' # {}
      BY <1>1, <1>3, SomeStay DEF Easy
    <2>3. refreshing' \in BOOLEAN
      BY <1>1, <1>2 DEF AgeInv
    <2>4. QED
      BY <1>1, <1>2, <2>1, <2>2, <2>3, NewStays
  <1>7. AloneInv'
    BY <1>1, <1>2, <1>3, AloneKept DEF Easy
  <1>8. OwedInv'
    <2>1. ASSUME NEW l \in Libs, NEW k \in Tasks
          PROVE  Where(Threads, Owing(k, l)) # {} => Where(Threads, Owing(k, l))' # {}
      BY <1>1, <1>3, SomeStay DEF Easy
    <2>2. tasks \subseteq Tasks
      BY DEF HookInv, CallInv
    <2>3. QED
      BY <1>1, <1>2, <2>1, <2>2, OwedKept DEF Mapped, NoElf
  <1>9. QED
    BY <1>4, <1>5, <1>6, <1>7, <1>8 DEF HookInv

\* A library is mapped, or opened again.
LEMMA HookLoad ==
    ASSUME HookInv, CallInv', NEW t \in Threads, Load(t)
    PROVE  HookInv'
  <1>1. StackInv /\ AgeInv /\ GoneInv /\ NewInv /\ AloneInv /\ OwedInv /\ tasks \subseteq Tasks
    BY DEF HookInv, CallInv
  <1> DEFINE m == Top(t).arg
  <1>2. /\ refs' = [refs EXCEPT ![m] = @ + 1]
        /\ loads' = [loads EXCEPT ![m] = IF refs[m] = 0 THEN @ + 1 ELSE @]
        /\ hooked' = [hooked EXCEPT ![m] = IF refs[m] = 0 THEN {} ELSE @]
        /\ odd \subseteq odd'
        /\ m \in Early => <<<<m, loads'[m]>>, "came">> \in odd'
        /\ m \in Reborn => <<<<m, tree[m].gen>>, "went">> \in odd'
        /\ UNCHANGED <<tree, tasks, refreshing>>
    BY DEF Load, clients
  <1>3. PICK f \in Made, g \in Made : Easy(t, f, g)
    BY <1>1, EasySteps DEF Unhurried
  <1>4. \E to \in {"ctor", "linked"} : Turn(t, {"open"}, "link", to)
    BY <1>1, LinkerTurns
  <1>5. m \in Libs /\ \E h \in Counting : Moves(t, h)
    <2>1. PICK to \in {"ctor", "linked"} : Turn(t, {"open"}, "link", to)
      BY <1>4
    <2>2. PICK e \in Made, h \in Made : Goes(t, e, h, {"open"}, "link", to)
      BY <2>1, TurnGoes
    <2>3. QED
      BY <2>2 DEF Goes, Counting, Made
  <1> HIDE DEF m
  <1>6. /\ refs[m] \in Nat /\ loads[m] \in Nat /\ refs'[m] = refs[m] + 1
        /\ refs[m] = 0 => loads'[m] = loads[m] + 1 /\ hooked'[m] = {}
        /\ refs[m] # 0 => loads'[m] = loads[m] /\ hooked'[m] = hooked[m]
        /\ \A l \in Libs : l # m => refs'[l] = refs[l] /\ loads'[l] = loads[l] /\ hooked'[l] = hooked[l]
    BY <1>1, <1>2, <1>5 DEF AgeInv
  <1>7. AgeInv'
    <2>1. refs' \in [Libs -> Nat] /\ loads' \in [Libs -> Nat]
      BY <1>1, <1>2, <1>5 DEF AgeInv
    <2>2. \A l \in Libs : loads'[l] >= loads[l] /\ loads[l] \in Nat /\ loads'[l] \in Nat
      BY <1>1, <1>6 DEF AgeInv
    <2>3. QED
      BY <1>1, <1>2, <2>1, <2>2 DEF AgeInv
  <1>8. GoneInv'
    <2>1. SUFFICES ASSUME NEW l \in Libs PROVE (refs[l] = 0 \/ tree[l] = NoElf \/ Mapped(l) \/ Went(l))'
      BY DEF GoneInv
    <2>2. CASE l # m
      BY <1>1, <1>2, <1>6, <2>2 DEF GoneInv, Mapped, Went, NoElf
    <2>3. CASE l = m /\ refs[m] = 0
      <3>1. m \in Reborn \/ tree[m] = NoElf
        BY <1>5, <2>3 DEF Reborn
      <3>2. QED
        BY <1>2, <2>3, <3>1 DEF Went, NoElf
    <2>4. CASE l = m /\ refs[m] # 0
      BY <1>1, <1>2, <1>5, <1>6, <2>4 DEF GoneInv, Mapped, Went, NoElf
    <2>5. QED
      BY <2>2, <2>3, <2>4
  <1>9. NewInv'
    <2>1. SUFFICES ASSUME NEW l \in Libs, refs'[l] > 0, tree'[l] = NoElf
                   PROVE  Came(l)' \/ (refreshing' /\ Where(Threads, Counting)' # {})
      BY DEF NewInv, NoElf
    <2>2. Where(Threads, Counting)' # {}
      BY <1>1, <1>5, SomeCome
    <2>3. SUFFICES ASSUME ~refreshing' PROVE Came(l)'
      BY <2>2
    <2>4. CASE l = m /\ refs[m] = 0
      <3>1. m \in Early
        BY <1>2, <1>5, <2>3, <2>4 DEF Early
      <3>2. QED
        BY <1>2, <2>4, <3>1 DEF Came
    <2>5. CASE ~(l = m /\ refs[m] = 0)
      <3>1. refs[l] > 0 /\ loads'[l] = loads[l] /\ tree[l] = NoElf
        BY <1>2, <1>6, <2>1, <2>5
      <3>2. Came(l)
        BY <1>1, <1>2, <2>3, <3>1 DEF NewInv
      <3>3. QED
        BY <1>2, <3>1, <3>2 DEF Came
    <2>6. QED
      BY <2>4, <2>5
  <1>10. AloneInv'
    BY <1>1, <1>2, <1>3, AloneKept DEF Easy
  <1>11. OwedInv'
    <2>1. ASSUME NEW l \in Libs, NEW k \in Tasks
          PROVE  Where(Threads, Owing(k, l)) # {} => Where(Threads, Owing(k, l))' # {}
      BY <1>1, <1>3, SomeStay DEF Easy
    <2>2. ASSUME NEW l \in Libs, Mapped(l)'
          PROVE  Mapped(l) /\ hooked'[l] = hooked[l]
      <3>1. CASE l # m
        BY <1>2, <1>6, <2>2, <3>1 DEF Mapped
      <3>2. CASE l = m /\ refs[m] # 0
        BY <1>2, <1>6, <2>2, <3>2 DEF Mapped
      <3>3. CASE l = m /\ refs[m] = 0
        <4>1. tree[m].gen = loads[m] + 1 /\ tree[m].gen <= loads[m] /\ tree[m].gen \in Nat
          BY <1>1, <1>2, <1>5, <1>6, <2>2, <3>3 DEF Mapped, AgeInv
        <4>2. QED
          BY <1>6, <4>1
      <3>4. QED
        BY <3>1, <3>2, <3>3
    <2>3. QED
      BY <1>1, <1>2, <2>1, <2>2, OwedKept DEF NoElf
  <1>12. QED
    BY <1>7, <1>8, <1>9, <1>10, <1>11 DEF HookInv

\* A call returns from the linker: another one is still in it, or it refreshes.
LEMMA HookBack ==
    ASSUME HookInv, CallInv', NEW t \in Threads, Loaded(t) \/ Unload(t)
    PROVE  HookInv'
  <1>1. StackInv /\ AgeInv /\ GoneInv /\ NewInv /\ AloneInv /\ OwedInv /\ tasks \subseteq Tasks /\ CallInv
    BY DEF HookInv, CallInv
  <1>2. PICK fn \in {"open", "close"}, from \in {"ctor", "linked", "dtor"}, to \in {"rd", "elfs", "notify", "fin"} :
           /\ Turn(t, {fn}, from, to) /\ (from = "ctor" => fn = "open") /\ (from = "dtor" => fn = "close")
           /\ AfterCall(t) => to = IF fn = "open" THEN "rd" ELSE "elfs"
    <2>1. CASE Loaded(t)
      <3>1. PICK from \in {"ctor", "linked"} : Turn(t, {"open"}, from, IF AfterCall(t) THEN "rd" ELSE "notify")
        BY <1>1, <2>1, LinkerTurns
      <3>2. CASE AfterCall(t)
        BY <3>1, <3>2
      <3>3. CASE ~AfterCall(t)
        BY <3>1, <3>3
      <3>4. QED
        BY <3>2, <3>3
    <2>2. CASE Unload(t)
      <3>1. PICK from \in {"dtor", "linked"} : Turn(t, {"close"}, from, IF AfterCall(t) THEN "elfs" ELSE "fin")
        BY <1>1, <2>2, LinkerTurns
      <3>2. CASE AfterCall(t)
        BY <3>1, <3>2
      <3>3. CASE ~AfterCall(t)
        BY <3>1, <3>3
      <3>4. QED
        BY <3>2, <3>3
    <2>3. QED
      BY <2>1, <2>2
  <1>3. PICK f \in Made, g \in Made : Goes(t, f, g, {fn}, from, to) /\ g.todo = f.todo
    BY <1>2, TurnGoes
  <1>4. /\ stack[t] # <<>> /\ f = Top(t) /\ Moves(t, g)
        /\ f.fn = fn /\ f.pc = from /\ g.pc = to /\ g.fn = f.fn
    BY <1>3 DEF Goes
  <1>5. f \in Counting /\ (AfterCall(t) => g \in Refreshing) /\ f \notin Refreshing
    BY <1>2, <1>4 DEF Counting, Refreshing
  <1>6. /\ UNCHANGED <<loads, tree, hooked, tasks, refreshing>>
        /\ odd \subseteq odd'
        /\ \/ UNCHANGED refs
           \/ Top(t).arg \in Libs /\ refs[Top(t).arg] > 0 /\ refs' = [refs EXCEPT ![Top(t).arg] = @ - 1]
    <2>1. CASE Loaded(t)
      BY <2>1 DEF Loaded, elves, clients
    <2>2. CASE Unload(t)
      <3>1. refs[Top(t).arg] > 0
        BY <1>1, <2>2, UnloadKept
      <3>2. Top(t).arg \in Libs
        BY <1>2, <1>4 DEF Made
      <3>3. QED
        BY <2>2, <3>1, <3>2 DEF Unload, clients
    <2>3. QED
      BY <2>1, <2>2
  <1>7. refs' \in [Libs -> Nat] /\ \A l \in Libs : refs'[l] > 0 => refs[l] > 0
    <2>1. refs \in [Libs -> Nat]
      BY <1>1 DEF AgeInv
    <2>2. refs' \in [Libs -> Nat]
      BY DEF CallInv, HandleInv
    <2>3. QED
      BY <1>6, <2>1, <2>2
  <1>8. AgeInv'
    BY <1>1, <1>6, <1>7 DEF AgeInv
  <1>9. GoneInv'
    <2>1. SUFFICES ASSUME NEW l \in Libs, refs'[l] # 0 PROVE (tree[l] = NoElf \/ Mapped(l) \/ Went(l))'
      BY DEF GoneInv
    <2>2. refs'[l] > 0 /\ refs[l] > 0
      BY <1>7, <2>1
    <2>3. tree[l] = NoElf \/ Mapped(l) \/ Went(l)
      BY <1>1, <2>2 DEF GoneInv
    <2>4. QED
      BY <1>6, <2>2, <2>3 DEF Mapped, Went, NoElf
  <1>10. NewInv'
    <2>1. ASSUME refreshing, Where(Threads, Counting) # {} \/ Where(Threads, Refreshing) # {}
          PROVE  Where(Threads, Counting)' # {} \/ Where(Threads, Refreshing)' # {}
      <3>1. CASE AfterCall(t)
        BY <1>1, <1>4, <1>5, <3>1, SomeCome
      <3>2. CASE ~AfterCall(t)
        <4>1. count[t] # 1
          BY <2>1, <3>2 DEF AfterCall
        <4>2. Inside(t, Depth(t), Counting)
          BY <1>1, <1>4, <1>5, <4>1, CountTells
        <4>3. PICK j \in 1..(Depth(t) - 1) : stack[t][j] \in Counting
          BY <4>2 DEF Inside
        <4>4. Depth(t) \in Nat /\ Depth(t) = Len(stack[t])
          BY <1>1 DEF Depth, StackInv
        <4>5. stack'[t][j] \in Counting /\ j \in 1..Len(stack'[t])
          BY <1>4, <4>3, <4>4 DEF Moves
        <4>6. <<t, j>> \in Where(Threads, Counting)'
          BY <4>5 DEF Where
        <4>7. QED
          BY <4>6
      <3>3. QED
        BY <3>1, <3>2
    <2>2. SUFFICES ASSUME NEW l \in Libs, refs'[l] > 0, tree'[l] = NoElf
                   PROVE  (Came(l) \/ (refreshing /\ (Where(Threads, Counting) # {} \/ Where(Threads, Refreshing) # {})))'
      BY DEF NewInv, NoElf
    <2>3. refs[l] > 0 /\ tree[l] = NoElf
      BY <1>6, <1>7, <2>2
    <2>4. Came(l) \/ (refreshing /\ (Where(Threads, Counting) # {} \/ Where(Threads, Refreshing) # {}))
      BY <1>1, <2>3 DEF NewInv
    <2>5. CASE Came(l)
      BY <1>6, <2>5 DEF Came
    <2>6. CASE refreshing /\ (Where(Threads, Counting) # {} \/ Where(Threads, Refreshing) # {})
      BY <1>6, <2>1, <2>6
    <2>7. QED
      BY <2>4, <2>5, <2>6
  <1>11. AloneInv'
    <2>1. \A k \in Tasks : f \notin About(k) /\ g \notin About(k) /\ g \notin Removing(k)
      BY <1>4 DEF About, Removing
    <2>2. QED
      BY <1>1, <1>4, <1>6, <2>1, AloneKept
  <1>12. OwedInv'
    <2>1. ASSUME NEW l \in Libs, NEW k \in Tasks
          PROVE  Where(Threads, Owing(k, l)) # {} => Where(Threads, Owing(k, l))' # {}
      <3>1. f \in Owing(k, l) => g \in Owing(k, l)
        BY <1>3, <1>4 DEF Owing
      <3>2. QED
        BY <1>1, <1>4, <3>1, SomeStay
    <2>2. \A l \in Libs : Mapped(l)' => Mapped(l)
      BY <1>6, <1>7 DEF Mapped
    <2>3. QED
      BY <1>1, <1>6, <2>1, <2>2, OwedKept DEF NoElf
  <1>13. QED
    BY <1>8, <1>9, <1>10, <1>11, <1>12 DEF HookInv

\* A refresh finds all that is mapped, and after a dlopen all tasks are owed to it.
LEMMA HookIterate ==
    ASSUME HookInv, CallInv', NEW t \in Threads, Iterate(t)
    PROVE  HookInv'
  <1>1. StackInv /\ AgeInv /\ GoneInv /\ NewInv /\ AloneInv /\ OwedInv /\ tasks \subseteq Tasks
    BY DEF HookInv, CallInv
  <1>2. /\ tree' = [l \in Libs |->
                  IF refs[l] = 0 THEN NoElf
                  ELSE IF l \in Born THEN [gen |-> loads[l], by |-> Top(t).fn]
                  ELSE tree[l]]
        /\ UNCHANGED <<refs, loads, hooked, odd, tasks, refreshing>>
    BY DEF Iterate, linking, clients
  <1>3. PICK f \in Made, g \in Made :
             /\ Was(t, f, {"open", "close"}, "iter") /\ Moves(t, g)
             /\ \/ f.fn = "open" /\ g = [f EXCEPT !.pc = "new", !.todo = Born]
                \/ f.fn = "close" /\ g = [f EXCEPT !.pc = "sync", !.todo = {}]
    BY <1>1, IterateMoves
  <1>4. /\ f = Top(t) /\ f.fn \in {"open", "close"} /\ f.pc = "iter" /\ stack[t] # <<>> /\ g.fn = f.fn
        /\ f.fn = "open" => g.todo = Born
    BY <1>3 DEF Was, Made, Frames
  <1>5. refs \in [Libs -> Nat] /\ loads \in [Libs -> Nat]
    BY <1>1 DEF AgeInv
  <1>6. ASSUME NEW l \in Libs
        PROVE  /\ refs[l] = 0 => tree'[l] = NoElf
               /\ l \in Born => tree'[l] = [gen |-> loads[l], by |-> f.fn] /\ tree'[l] # NoElf /\ refs[l] # 0
               /\ refs[l] # 0 /\ l \notin Born => tree'[l] = tree[l] /\ tree[l] # NoElf
    <2>1. refs[l] = 0 => tree'[l] = NoElf
      BY <1>2
    <2>2. l \in Born => refs[l] # 0 /\ tree'[l] = [gen |-> loads[l], by |-> f.fn]
      BY <1>2, <1>4, <1>5 DEF Born
    <2>3. [gen |-> loads[l], by |-> f.fn] # NoElf
      BY <1>4 DEF NoElf
    <2>4. refs[l] # 0 /\ l \notin Born => tree'[l] = tree[l] /\ tree[l] # NoElf
      BY <1>2, <1>5 DEF Born
    <2>5. QED
      BY <2>1, <2>2, <2>3, <2>4
  <1>7. AgeInv'
    <2>1. \A l \in Libs : tree'[l].gen \in Nat /\ tree'[l].gen <= loads[l]
      <3>1. SUFFICES ASSUME NEW l \in Libs PROVE tree'[l].gen \in Nat /\ tree'[l].gen <= loads[l]
        OBVIOUS
      <3>2. tree[l].gen \in Nat /\ tree[l].gen <= loads[l] /\ loads[l] \in Nat
        BY <1>1 DEF AgeInv
      <3>3. NoElf.gen = 0
        BY DEF NoElf
      <3>4. CASE refs[l] = 0
        <4>1. tree'[l] = NoElf
          BY <1>6, <3>4
        <4>2. QED
          BY <3>2, <3>3, <4>1
      <3>5. CASE l \in Born
        <4>1. tree'[l] = [gen |-> loads[l], by |-> f.fn]
          BY <1>6, <3>5
        <4>2. tree'[l].gen = loads[l]
          BY <4>1
        <4>3. QED
          BY <3>2, <4>2
      <3>6. CASE refs[l] # 0 /\ l \notin Born
        <4>1. tree'[l] = tree[l]
          BY <1>6, <3>6
        <4>2. QED
          BY <3>2, <4>1
      <3>7. QED
        BY <3>4, <3>5, <3>6
    <2>2. DOMAIN tree' = Libs
      BY <1>2
    <2>3. QED
      BY <1>1, <1>2, <2>1, <2>2 DEF AgeInv
  <1>8. GoneInv'
    <2>1. SUFFICES ASSUME NEW l \in Libs, refs[l] # 0 PROVE (Mapped(l) \/ Went(l))'
      BY <1>2 DEF GoneInv
    <2>2. CASE l \in Born
      <3>0. tree'[l] = [gen |-> loads[l], by |-> f.fn]
        BY <1>6, <2>2
      <3>1. tree'[l].gen = loads[l] /\ refs[l] > 0
        BY <1>5, <2>1, <3>0
      <3>2. QED
        BY <1>2, <3>1 DEF Mapped
    <2>3. CASE l \notin Born
      <3>1. tree'[l] = tree[l] /\ tree[l] # NoElf
        BY <1>6, <2>1, <2>3
      <3>2. Mapped(l) \/ Went(l)
        BY <1>1, <2>1, <3>1 DEF GoneInv
      <3>3. QED
        BY <1>2, <3>1, <3>2 DEF Mapped, Went
    <2>4. QED
      BY <2>2, <2>3
  <1>9. NewInv'
    <2>1. SUFFICES ASSUME NEW l \in Libs, refs[l] > 0 PROVE tree'[l] # NoElf
      BY <1>2 DEF NewInv, NoElf
    <2>2. refs[l] # 0
      BY <1>5, <2>1
    <2>3. QED
      BY <1>6, <2>2
  <1>10. AloneInv'
    <2>1. \A k \in Tasks : f \notin About(k) /\ g \notin About(k) /\ g \notin Removing(k)
      BY <1>4 DEF About, Removing
    <2>2. QED
      BY <1>1, <1>2, <1>3, <1>4, <2>1, AloneKept
  <1>11. OwedInv'
    <2>1. SUFFICES ASSUME NEW l \in Libs, NEW k \in tasks,
                          Mapped(l)', tree'[l] # NoElf, tree'[l].by # "close", k \notin hooked[l]
                   PROVE  Where(Threads, Owing(k, l))' # {}
      BY <1>2 DEF OwedInv, NoElf
    <2>2. refs[l] # 0
      BY <1>6, <2>1
    <2>3. CASE l \in Born
      <3>0. tree'[l] = [gen |-> loads[l], by |-> f.fn]
        BY <1>6, <2>3
      <3>1. f.fn = "open"
        BY <1>4, <2>1, <3>0
      <3>2. g \in Owing(k, l)
        BY <1>4, <2>3, <3>1 DEF Owing
      <3>3. QED
        BY <1>1, <1>3, <3>2, SomeCome
    <2>4. CASE l \notin Born
      <3>1. tree'[l] = tree[l] /\ tree[l] # NoElf
        BY <1>6, <2>2, <2>4
      <3>2. Mapped(l)
        BY <1>2, <2>1, <3>1 DEF Mapped
      <3>3. Where(Threads, Owing(k, l)) # {}
        BY <1>1, <2>1, <3>1, <3>2 DEF OwedInv
      <3>4. f \notin Owing(k, l)
        BY <1>4 DEF Owing, Made
      <3>5. QED
        BY <1>1, <1>3, <1>4, <3>3, <3>4, SomeStay
    <2>5. QED
      BY <2>3, <2>4
  <1>12. QED
    BY <1>7, <1>8, <1>9, <1>10, <1>11 DEF HookInv

\* The parts of the invariant that are about libraries and ELFs, when those stay, and
\* the innermost call is neither in the linker nor in its list.
LEMMA ElvesStay ==
    ASSUME HookInv, NEW t \in Threads, NEW g,
           UNCHANGED <<refs, loads, tree, odd>>, DOMAIN hooked' = Libs,
           refreshing' \in BOOLEAN, refreshing => refreshing',
           (Moves(t, g) /\ Top(t) \notin Counting \cup Refreshing) \/ Pushes(t, g)
    PROVE  AgeInv' /\ GoneInv' /\ NewInv'
  <1>1. StackInv /\ AgeInv /\ GoneInv /\ NewInv
    BY DEF HookInv, CallInv
  <1>2. Where(Threads, Counting) # {} => Where(Threads, Counting)' # {}
    BY <1>1, SomeStay
  <1>3. Where(Threads, Refreshing) # {} => Where(Threads, Refreshing)' # {}
    BY <1>1, SomeStay
  <1>4. NewInv'
    BY <1>1, <1>2, <1>3, NewStays
  <1>5. QED
    BY <1>1, <1>4, AgeStays, GoneStays

\* Installing hooks takes none away, and the tasks are in a library that is mapped.
LEMMA Installed ==
    ASSUME AgeInv, NEW m \in Libs, NEW ks, Install(m, ks)
    PROVE  /\ DOMAIN hooked' = Libs
           /\ \A l \in Libs : hooked[l] \subseteq hooked'[l]
           /\ Mapped(m) => ks \subseteq hooked'[m]
  BY DEF AgeInv, Install

\* A task is put on the list: it is owed to all libraries.
LEMMA HookHook ==
    ASSUME HookInv, CallInv', NEW t \in Threads, Hook(t)
    PROVE  HookInv'
  <1>1. StackInv /\ AgeInv /\ AloneInv /\ OwedInv /\ tasks \subseteq Tasks
    BY DEF HookInv, CallInv
  <1>2. PICK f \in Made, g \in Made : Goes(t, f, g, {"hook"}, "start", "rd") /\ g.todo = f.todo
    BY <1>1, TaskTurns, TurnGoes
  <1>3. /\ stack[t] # <<>> /\ f = Top(t) /\ Moves(t, g) /\ f.todo = {}
        /\ f.fn = "hook" /\ f.pc = "start" /\ g.pc = "rd" /\ g.fn = "hook" /\ g.arg = f.arg /\ f.arg \in Tasks
    BY <1>2 DEF Goes, Made
  <1>4. /\ UNCHANGED <<refs, loads, tree, odd, hooked>>
        /\ tasks' = tasks \cup {f.arg} /\ refreshing' = TRUE
    BY <1>3 DEF Hook, linking, elves
  <1>5. f \notin Counting \cup Refreshing
    BY <1>3 DEF Counting, Refreshing
  <1>6. AgeInv' /\ GoneInv' /\ NewInv'
    BY <1>1, <1>3, <1>4, <1>5, ElvesStay DEF AgeInv
  <1>7. AloneInv'
    <2>1. ASSUME NEW k \in Tasks
          PROVE  /\ Where(Threads, About(k))' = Where(Threads, About(k))
                 /\ Where(Threads, Removing(k))' = Where(Threads, Removing(k))
      <3>1. f \in About(k) <=> g \in About(k)
        BY <1>3 DEF About
      <3>2. f \notin Removing(k) /\ g \notin Removing(k)
        BY <1>3 DEF Removing
      <3>3. QED
        BY <1>1, <1>3, <3>1, <3>2, Stays
    <2>2. Where(Threads, Removing(f.arg)) = {}
      <3>1. SUFFICES ASSUME NEW p \in Where(Threads, Removing(f.arg)) PROVE FALSE
        OBVIOUS
      <3>2. p \in Where(Threads, About(f.arg)) /\ stack[p[1]][p[2]] \in Removing(f.arg)
        BY <3>1 DEF Where, Removing
      <3>3. f \in About(f.arg)
        BY <1>3 DEF About
      <3>4. <<t, Depth(t)>> \in Where(Threads, About(f.arg))
        BY <1>1, <1>3, <3>3, TopThere
      <3>5. p = <<t, Depth(t)>>
        BY <1>1, <1>3, <3>2, <3>4 DEF AloneInv
      <3>6. stack[p[1]][p[2]] = f
        BY <1>3, <3>5 DEF Top
      <3>7. QED
        BY <1>3, <3>2, <3>6 DEF Removing
    <2>3. QED
      BY <1>1, <1>3, <1>4, <2>1, <2>2 DEF AloneInv
  <1>8. OwedInv'
    <2>1. ASSUME NEW l \in Libs, NEW k \in Tasks
          PROVE  /\ k = f.arg => Where(Threads, Owing(k, l))' # {}
                 /\ Where(Threads, Owing(k, l)) # {} => Where(Threads, Owing(k, l))' # {}
      <3>1. f \notin Owing(k, l) /\ (k = f.arg => g \in Owing(k, l))
        BY <1>2, <1>3 DEF Owing
      <3>2. QED
        BY <1>1, <1>3, <3>1, SomeStay, SomeCome
    <2>2. QED
      BY <1>1, <1>3, <1>4, <2>1, OwedKept DEF Mapped, NoElf
  <1>9. QED
    BY <1>6, <1>7, <1>8 DEF HookInv

\* A task is taken from the list.
LEMMA HookUnhook ==
    ASSUME HookInv, CallInv', NEW t \in Threads, Unhook(t)
    PROVE  HookInv'
  <1>1. StackInv /\ AgeInv /\ AloneInv /\ OwedInv /\ tasks \subseteq Tasks
    BY DEF HookInv, CallInv
  <1>2. PICK f \in Made, g \in Made : Goes(t, f, g, {"unhook"}, "start", "rd") /\ g.todo = f.todo
    BY <1>1, TaskTurns, TurnGoes
  <1>3. /\ stack[t] # <<>> /\ f = Top(t) /\ Moves(t, g) /\ f.todo = {}
        /\ f.fn = "unhook" /\ f.pc = "start" /\ g.pc = "rd" /\ g.fn = "unhook" /\ g.arg = f.arg /\ f.arg \in Tasks
    BY <1>2 DEF Goes, Made
  <1>4. /\ UNCHANGED <<refs, loads, tree, odd, hooked, refreshing>>
        /\ tasks' = tasks \ {f.arg}
    BY <1>3 DEF Unhook, linking, elves
  <1>5. f \notin Counting \cup Refreshing
    BY <1>3 DEF Counting, Refreshing
  <1>6. AgeInv' /\ GoneInv' /\ NewInv'
    BY <1>1, <1>3, <1>4, <1>5, ElvesStay DEF AgeInv
  <1>7. AloneInv'
    <2>1. ASSUME NEW k \in Tasks
          PROVE  /\ f \in About(k) <=> g \in About(k)
                 /\ g \in Removing(k) => k = f.arg
      BY <1>3 DEF About, Removing
    <2>2. QED
      BY <1>1, <1>3, <1>4, <2>1, AloneKept
  <1>8. OwedInv'
    <2>1. ASSUME NEW l \in Libs, NEW k \in Tasks
          PROVE  Where(Threads, Owing(k, l)) # {} => Where(Threads, Owing(k, l))' # {}
      <3>1. f \notin Owing(k, l)
        BY <1>3 DEF Owing
      <3>2. QED
        BY <1>1, <1>3, <3>1, SomeStay
    <2>2. QED
      BY <1>1, <1>4, <2>1, OwedKept DEF Mapped, NoElf
  <1>9. QED
    BY <1>6, <1>7, <1>8 DEF HookInv

\* A new ELF meets all tasks.
LEMMA HookNewElf ==
    ASSUME HookInv, CallInv', NEW t \in Threads, NEW m \in Libs, NewElf(t, m)
    PROVE  HookInv'
  <1>1. StackInv /\ AgeInv /\ AloneInv /\ OwedInv /\ tasks \subseteq Tasks
    BY DEF HookInv, CallInv
  <1>2. PICK f \in Made, to \in {"new", "told"} :
              /\ Was(t, f, {"open"}, "new") /\ m \in f.todo
              /\ [f EXCEPT !.todo = @ \ {m}, !.pc = to] \in Made
              /\ Moves(t, [f EXCEPT !.todo = @ \ {m}, !.pc = to])
    BY <1>1, NewElfMoves
  <1> DEFINE g == [f EXCEPT !.todo = @ \ {m}, !.pc = to]
  <1>3. f = Top(t) /\ f.fn = "open" /\ f.pc = "new" /\ stack[t] # <<>> /\ g.fn = f.fn /\ g.todo = f.todo \ {m}
    BY <1>2 DEF Was, Made, Frames
  <1>4. g \in Made /\ Moves(t, g)
    BY <1>2
  <1> HIDE DEF g
  <1>5. UNCHANGED <<refs, loads, tree, odd, tasks, refreshing>> /\ Install(m, tasks)
    BY DEF NewElf, linking, clients
  <1>6. f \notin Counting \cup Refreshing
    BY <1>3 DEF Counting, Refreshing
  <1>7. DOMAIN hooked' = Libs /\ (\A l \in Libs : hooked[l] \subseteq hooked'[l])
        /\ (Mapped(m) => tasks \subseteq hooked'[m])
    BY <1>1, <1>5, Installed
  <1>8. AgeInv' /\ GoneInv' /\ NewInv'
    <2>1. refreshing' \in BOOLEAN
      BY <1>1, <1>5 DEF AgeInv
    <2>2. QED
      BY <1>1, <1>3, <1>4, <1>5, <1>6, <1>7, <2>1, ElvesStay
  <1>9. AloneInv'
    <2>1. \A k \in Tasks : f \notin About(k) /\ g \notin About(k) /\ g \notin Removing(k)
      BY <1>3 DEF About, Removing
    <2>2. QED
      BY <1>1, <1>3, <1>4, <1>5, <2>1, AloneKept
  <1>10. OwedInv'
    <2>1. ASSUME NEW l \in Libs, l # m, NEW k \in Tasks
          PROVE  Where(Threads, Owing(k, l)) # {} => Where(Threads, Owing(k, l))' # {}
      <3>1. f \in Owing(k, l) => g \in Owing(k, l)
        BY <1>3, <1>4, <2>1 DEF Owing
      <3>2. QED
        BY <1>1, <1>3, <1>4, <3>1, SomeStay
    <2>2. \A l \in Libs : Mapped(l)' <=> Mapped(l)
      BY <1>5 DEF Mapped
    <2>3. QED
      BY <1>1, <1>5, <1>7, <2>1, <2>2, OwedKept DEF NoElf
  <1>11. QED
    BY <1>8, <1>9, <1>10 DEF HookInv

\* A hook or an unhook has the list of ELFs, and goes through it.
LEMMA HookCopy ==
    ASSUME HookInv, CallInv', NEW t \in Threads, Copy(t)
    PROVE  HookInv'
  <1>1. StackInv /\ AgeInv /\ AloneInv /\ OwedInv /\ tasks \subseteq Tasks
    BY DEF HookInv, CallInv
  <1>2. PICK f \in Made, g \in Made :
              /\ Was(t, f, {"hook", "unhook"}, "copy") /\ Moves(t, g)
              /\ g = [f EXCEPT !.pc = "meet", !.todo = {l \in Libs : tree[l] # NoElf}]
    BY <1>1, CopyMoves
  <1>3. /\ f = Top(t) /\ f.fn \in {"hook", "unhook"} /\ f.pc = "copy" /\ stack[t] # <<>> /\ g.fn = f.fn
        /\ g.arg = f.arg /\ g.pc = "meet" /\ g.todo = {l \in Libs : tree[l] # NoElf} /\ f.todo = {}
    BY ZenonT(60), <1>2 DEF Was, Made, Frames
  <1>4. UNCHANGED <<refs, loads, tree, odd, hooked, tasks, refreshing>>
    BY DEF Copy, linking, elves, clients
  <1>5. f \notin Counting \cup Refreshing
    BY <1>3 DEF Counting, Refreshing
  <1>6. AgeInv' /\ GoneInv' /\ NewInv'
    <2>1. refreshing' \in BOOLEAN /\ DOMAIN hooked' = Libs
      BY <1>1, <1>4 DEF AgeInv
    <2>2. QED
      BY <1>1, <1>2, <1>3, <1>4, <1>5, <2>1, ElvesStay
  <1>7. AloneInv'
    <2>1. ASSUME NEW k \in Tasks
          PROVE  /\ f \in About(k) <=> g \in About(k)
                 /\ g \in Removing(k) => f \in Removing(k)
      BY <1>2, <1>3 DEF About, Removing
    <2>2. QED
      BY <1>1, <1>2, <1>3, <1>4, <2>1, AloneKept
  <1>8. OwedInv'
    <2>1. ASSUME NEW l \in Libs, tree[l] # NoElf, NEW k \in Tasks
          PROVE  Where(Threads, Owing(k, l)) # {} => Where(Threads, Owing(k, l))' # {}
      <3>1. f \in Owing(k, l) => g \in Owing(k, l)
        BY <1>3, <2>1 DEF Owing
      <3>2. QED
        BY <1>1, <1>2, <1>3, <3>1, SomeStay
    <2>2. QED
      BY <1>1, <1>4, <2>1, OwedKept DEF Mapped, NoElf
  <1>9. QED
    BY <1>6, <1>7, <1>8 DEF HookInv

LEMMA HookMeet ==
    ASSUME HookInv, CallInv', NEW t \in Threads, NEW m \in Libs, Meet(t, m)
    PROVE  HookInv'
  <1>1. StackInv /\ AgeInv /\ AloneInv /\ OwedInv /\ tasks \subseteq Tasks
    BY DEF HookInv, CallInv
  <1>2. PICK f \in Made, to \in {"meet", "told"} :
              /\ Was(t, f, {"hook", "unhook"}, "meet") /\ m \in f.todo
              /\ (f.fn = "hook" /\ to = "told") \/ (f.fn = "unhook" /\ to = "meet")
              /\ [f EXCEPT !.todo = @ \ {m}, !.pc = to] \in Made
              /\ Moves(t, [f EXCEPT !.todo = @ \ {m}, !.pc = to])
    BY <1>1, MeetMoves
  <1> DEFINE g == [f EXCEPT !.todo = @ \ {m}, !.pc = to]
  <1>3. /\ f = Top(t) /\ f.fn \in {"hook", "unhook"} /\ f.pc = "meet" /\ stack[t] # <<>> /\ f.arg \in Tasks
        /\ g.fn = f.fn /\ g.arg = f.arg /\ g.pc = to /\ g.todo = f.todo \ {m}
    BY <1>2 DEF Was, Made, Frames
  <1>4. g \in Made /\ Moves(t, g)
    BY <1>2
  <1> HIDE DEF g
  <1>5. /\ UNCHANGED <<refs, loads, tree, odd, tasks, refreshing>>
        /\ f.fn = "hook" => Install(m, {f.arg})
        /\ f.fn = "unhook" => hooked' = [hooked EXCEPT ![m] = @ \ {f.arg}]
    BY <1>3 DEF Meet, linking, clients
  <1>6. f \notin Counting \cup Refreshing
    BY <1>3 DEF Counting, Refreshing
  <1>7. f.fn = "hook" => /\ DOMAIN hooked' = Libs /\ (\A l \in Libs : hooked[l] \subseteq hooked'[l])
                         /\ (Mapped(m) => {f.arg} \subseteq hooked'[m])
    BY <1>1, <1>5, Installed
  <1>8. f.fn = "unhook" => DOMAIN hooked' = Libs /\ \A l \in Libs : hooked[l] \ {f.arg} \subseteq hooked'[l]
    BY <1>1, <1>5 DEF AgeInv
  <1>9. AgeInv' /\ GoneInv' /\ NewInv'
    <2>1. refreshing' \in BOOLEAN /\ DOMAIN hooked' = Libs
      BY <1>1, <1>3, <1>5, <1>7, <1>8 DEF AgeInv
    <2>2. QED
      BY <1>1, <1>3, <1>4, <1>5, <1>6, <2>1, ElvesStay
  <1>10. ASSUME NEW k \in Tasks
         PROVE  /\ f \in About(k) <=> g \in About(k)
                /\ f \in Removing(k) <=> g \in Removing(k)
    BY <1>2, <1>3, <1>4 DEF About, Removing
  <1>11. AloneInv'
    BY <1>1, <1>3, <1>4, <1>5, <1>10, AloneKept
  <1>12. f.fn = "unhook" => f.arg \notin tasks
    <2>1. SUFFICES ASSUME f.fn = "unhook" PROVE f.arg \notin tasks
      OBVIOUS
    <2>2. f \in Removing(f.arg)
      BY <1>2, <1>3, <2>1 DEF Removing, About
    <2>3. <<t, Depth(t)>> \in Where(Threads, Removing(f.arg))
      BY <1>1, <1>3, <2>2, TopThere
    <2>4. QED
      BY <1>1, <1>3, <2>3 DEF AloneInv
  <1>13. OwedInv'
    <2>1. ASSUME NEW l \in Libs, NEW k \in Tasks, l # m \/ f.fn = "unhook" \/ k # f.arg
          PROVE  Where(Threads, Owing(k, l)) # {} => Where(Threads, Owing(k, l))' # {}
      <3>1. f \in Owing(k, l) => g \in Owing(k, l)
        BY <1>3, <1>4, <2>1 DEF Owing
      <3>2. QED
        BY <1>1, <1>3, <1>4, <3>1, SomeStay
    <2>2. \A l \in Libs : Mapped(l)' <=> Mapped(l)
      BY <1>5 DEF Mapped
    <2>3. ASSUME NEW l \in Libs, NEW k \in tasks, k \notin hooked'[l] PROVE k \notin hooked[l]
      BY <1>3, <1>7, <1>8, <1>12, <2>3
    <2>4. ASSUME NEW l \in Libs, NEW k \in tasks, l = m, f.fn = "hook", k = f.arg, Mapped(l) PROVE k \in hooked'[l]
      BY <1>7, <2>4
    <2>5. QED
      BY <1>1, <1>3, <1>5, <2>1, <2>2, <2>3, <2>4, OwedKept DEF NoElf
  <1>14. QED
    BY <1>9, <1>11, <1>13 DEF HookInv

\* Code of others makes a call: there is none about the same task.
LEMMA HookCall ==
    ASSUME HookInv, CallInv', NEW t \in Threads, NEW fn \in Functions, Call(t, fn)
    PROVE  HookInv'
  <1>1. StackInv /\ AgeInv /\ AloneInv /\ OwedInv /\ tasks \subseteq Tasks
    BY DEF HookInv, CallInv
  <1>2. PICK g \in Made, x \in Arguments(fn) :
              /\ g = [fn |-> fn, arg |-> x, pc |-> "start", wr |-> FALSE, todo |-> {}]
              /\ Pushes(t, g)
              /\ fn \in {"hook", "unhook"} => \A u \in Threads : \A f \in AllFrames(u) : f.arg # x
    BY <1>1, CallPushes
  <1>3. UNCHANGED <<refs, loads, tree, odd, hooked, tasks, refreshing>>
    BY DEF Call, linking, elves, clients
  <1>4. g.fn = fn /\ g.arg = x /\ g.pc = "start"
    BY <1>2
  <1>5. AgeInv' /\ GoneInv' /\ NewInv'
    <2>1. refreshing' \in BOOLEAN /\ DOMAIN hooked' = Libs
      BY <1>1, <1>3 DEF AgeInv
    <2>2. QED
      BY <1>1, <1>2, <1>3, <2>1, ElvesStay
  <1>6. AloneInv'
    <2>1. ASSUME NEW k \in Tasks
          PROVE  /\ \A p, q \in Where(Threads, About(k))' : p = q
                 /\ Where(Threads, Removing(k))' = Where(Threads, Removing(k))
      <3>1. g \notin Removing(k)
        BY <1>4 DEF Removing
      <3>2. Where(Threads, Removing(k))' = Where(Threads, Removing(k))
        BY <1>1, <1>2, <3>1, Stays
      <3>3. CASE g \notin About(k)
        <4>1. Where(Threads, About(k))' = Where(Threads, About(k))
          BY <1>1, <1>2, <3>3, Stays
        <4>2. QED
          BY <1>1, <3>2, <4>1 DEF AloneInv
      <3>4. CASE g \in About(k)
        <4>1. fn \in {"hook", "unhook"} /\ x = k
          BY <1>4, <3>4 DEF About
        <4>2. Where(Threads, About(k)) = {}
          <5>1. SUFFICES ASSUME NEW p \in Where(Threads, About(k)) PROVE FALSE
            OBVIOUS
          <5>2. p[1] \in Threads /\ p[2] \in 1..Len(stack[p[1]]) /\ stack[p[1]][p[2]].arg = k
            BY <5>1 DEF Where, About
          <5>3. p[2] \in DOMAIN stack[p[1]]
            BY <1>1, <5>2 DEF StackInv
          <5>4. stack[p[1]][p[2]] \in AllFrames(p[1])
            BY <5>3 DEF AllFrames
          <5>5. QED
            BY <1>2, <4>1, <5>2, <5>4
        <4>3. Where(Threads, About(k))' = Where(Threads, About(k)) \cup {<<t, Depth(t) + 1>>}
          BY <1>1, <1>2, <3>4, WherePushes
        <4>4. QED
          BY <3>2, <4>2, <4>3
      <3>5. QED
        BY <3>3, <3>4
    <2>2. QED
      BY <1>1, <1>3, <2>1 DEF AloneInv
  <1>7. OwedInv'
    <2>1. ASSUME NEW l \in Libs, NEW k \in Tasks
          PROVE  Where(Threads, Owing(k, l)) # {} => Where(Threads, Owing(k, l))' # {}
      BY <1>1, <1>2, SomeStay
    <2>2. QED
      BY <1>1, <1>3, <2>1, OwedKept DEF Mapped, NoElf
  <1>8. QED
    BY <1>5, <1>6, <1>7 DEF HookInv

LEMMA HookInit == Init => HookInv
  <1>1. SUFFICES ASSUME Init PROVE HookInv
    OBVIOUS
  <1>2. /\ stack = [t \in Threads |-> <<>>]
        /\ tree = [m \in Libs |-> IF m \in Initial THEN [gen |-> 1, by |-> "oneshot"] ELSE NoElf]
        /\ refs = [m \in Libs |-> IF m \in Initial THEN 1 ELSE 0]
        /\ loads = refs /\ tasks = {} /\ hooked = [l \in Libs |-> {}] /\ refreshing \in BOOLEAN
    BY <1>1 DEF Init
  <1>3. ASSUME NEW l \in Libs
        PROVE  \/ tree[l].gen = 1 /\ refs[l] = 1 /\ loads[l] = 1 /\ tree[l] # NoElf
               \/ tree[l].gen = 0 /\ refs[l] = 0 /\ loads[l] = 0
    BY <1>2, <1>3 DEF NoElf
  <1>4. AgeInv
    BY <1>2, <1>3 DEF AgeInv
  <1>5. GoneInv
    BY <1>3 DEF GoneInv, Mapped
  <1>6. NewInv
    BY <1>3 DEF NewInv
  <1>7. ASSUME NEW T \in SUBSET Threads, NEW S PROVE Where(T, S) = {}
    BY <1>2 DEF Where
  <1>8. AloneInv
    BY <1>2, <1>7 DEF AloneInv
  <1>9. OwedInv
    BY <1>2 DEF OwedInv
  <1>10. QED
    BY <1>1, <1>4, <1>5, <1>6, <1>8, <1>9, CallInit DEF HookInv

LEMMA HookStep ==
    ASSUME HookInv, [Next]_vars
    PROVE  HookInv'
  <1>1. CallInv'
    BY CallStep DEF HookInv
  <1>2. CASE Next
    <2>1. PICK t \in Threads : (\E fn \in Functions : Call(t, fn)) \/ Step(t)
      BY <1>2 DEF Next
    <2>2. CASE \E fn \in Functions : Call(t, fn)
      BY <1>1, <2>2, HookCall
    <2>3. CASE Load(t) \/ Loaded(t) \/ Unload(t) \/ Iterate(t)
      BY <1>1, <2>3, HookLoad, HookBack, HookIterate
    <2>4. CASE \/ (\E l \in Libs : NewElf(t, l)) \/ (\E l \in Libs : Meet(t, l))
               \/ Hook(t) \/ Unhook(t) \/ Copy(t)
      BY <1>1, <2>4, HookNewElf, HookMeet, HookHook, HookUnhook, HookCopy
    <2>5. CASE Unhurried(t) /\ ~Load(t)
      BY <1>1, <2>5, HookQuiet
    <2>6. QED
      BY <2>1, <2>2, <2>3, <2>4, <2>5 DEF Step, Unhurried
  <1>3. CASE UNCHANGED vars
    <2>1. UNCHANGED <<stack, refs, loads, tree, odd, hooked, tasks, refreshing>>
      BY <1>3 DEF vars, linking, elves, clients
    <2>2. ASSUME NEW T, NEW S PROVE Where(T, S)' = Where(T, S)
      BY <2>1 DEF Where
    <2>3. (\A l \in Libs : (Mapped(l)' <=> Mapped(l)) /\ (Went(l)' <=> Went(l)) /\ (Came(l)' <=> Came(l)))
          /\ NoElf' = NoElf
      BY <2>1 DEF Mapped, Went, Came, NoElf
    <2>4. AgeInv'
      BY <2>1 DEF HookInv, AgeInv
    <2>5. GoneInv'
      BY <2>1, <2>3 DEF HookInv, GoneInv
    <2>6. NewInv'
      BY <2>1, <2>2, <2>3 DEF HookInv, NewInv
    <2>7. AloneInv'
      BY <2>1, <2>2 DEF HookInv, AloneInv
    <2>8. OwedInv'
      BY <2>1, <2>2, <2>3 DEF HookInv, OwedInv
    <2>9. QED
      BY <1>1, <2>4, <2>5, <2>6, <2>7, <2>8 DEF HookInv
  <1>4. QED
    BY <1>2, <1>3

LEMMA HookedAll == HookInv => HookedEverywhere
  <1>1. SUFFICES ASSUME HookInv, Busy = {}, NEW l \in Libs, refs[l] # 0
                 PROVE  \/ tasks \subseteq hooked[l]
                        \/ tree[l].by = "close"
                        \/ <<<<l, loads[l]>>, "came">> \in odd
                        \/ <<<<l, tree[l].gen>>, "went">> \in odd
    BY DEF HookedEverywhere
  <1>2. AgeInv /\ GoneInv /\ NewInv /\ OwedInv
    BY <1>1 DEF HookInv
  <1>3. ASSUME NEW S PROVE Where(Threads, S) = {}
    BY <1>1 DEF Where, Busy
  <1>4. refs[l] > 0
    BY <1>1, <1>2 DEF AgeInv
  <1>5. CASE tree[l] = NoElf
    BY <1>2, <1>3, <1>4, <1>5 DEF NewInv, Came
  <1>6. CASE tree[l] # NoElf
    <2>1. Mapped(l) \/ Went(l)
      BY <1>1, <1>2, <1>6 DEF GoneInv
    <2>2. Mapped(l) => tree[l].by = "close" \/ tasks \subseteq hooked[l]
      BY <1>2, <1>3, <1>6 DEF OwedInv
    <2>3. QED
      BY <2>1, <2>2 DEF Went
  <1>7. QED
    BY <1>5, <1>6

\* With no call under way every task is in every mapped library, however the calls
\* nested, but for the three reasons that HookedEverywhere names: a library for which
\* no refresh is due has been found, and an ELF that was found is owed all tasks.
THEOREM AlwaysHookedEverywhere == Spec => []HookedEverywhere
  BY HookInit, HookStep, HookedAll, PTL DEF Spec

-----------------------------------------------------------------------------
(***************************************************************************)
(* Who waits for whom.                                                     *)
(***************************************************************************)

\* The linker is its owner's, who has locked it with each of its calls that are in it.
OwnerInv ==
    /\ linker \in [owner : Threads \cup {None}, n : Nat]
    /\ linker.owner = None <=> linker.n = 0
    /\ \A t \in Threads : count[t] = (IF linker.owner = t THEN linker.n ELSE 0)

\* A call that refreshes, or is about to, is not inside of the linker.
Calm == {f \in Made : f.fn \in {"open", "close"} /\ f.pc \in {"rd", "elfs", "iter"}}
CalmInv == \A t \in Threads : stack[t] # <<>> /\ Top(t) \in Calm => count[t] = 0

\* Calls that have a lock for reading.
Reads(x, fn, pc) ==
    \/ x = "dlclose" /\ fn = "open" /\ pc \in {"elfs", "iter", "new", "told"}
    \/ x = "dlclose" /\ fn \in {"hook", "unhook"} /\ pc \in {"copy", "meet", "told"}
    \/ x = "tasks" /\ fn = "open" /\ pc = "told"
    \/ x = "cbs" /\ fn = "open" /\ pc \in {"pre", "post"}
Users(x) == {f \in Made : Reads(x, f.fn, f.pc)}

\* A lock has no more readers than there are such calls.  It may have less: to unlock
\* it in a destructor may be to unlock it for another.
Shared(x) ==
    /\ lock[x].r <= Cardinality(Where(Threads, Users(x)))
    /\ lock[x].w # None => lock[x].r = 0

SharedInv == lock \in LockType /\ \A x \in Locks : Shared(x)

\* Who has a lock for writing is where it is needed.
WriterInv ==
    /\ lock["tasks"].w = None /\ lock["cbs"].w = None
    /\ \A t \in Threads : lock["elfs"].w = t => At(t, {"open", "close"}, "iter")
    /\ \A t \in Threads : lock["dlclose"].w = t => Where({t}, Holding) # {}

WaitInv == CallInv /\ OwnerInv /\ CalmInv /\ SharedInv /\ WriterInv

\* How many calls are somewhere, before and after a step.
LEMMA ManyKept ==
    ASSUME StackInv, HandleInv, NEW S \in SUBSET Made, NEW t \in Threads, NEW g,
           Moves(t, g) \/ Pushes(t, g) \/ (Pops(t) /\ stack[t] # <<>>)
    PROVE  LET n == Cardinality(Where(Threads, S))
               m == Cardinality(Where(Threads, S)')
           IN  /\ n \in Nat /\ m \in Nat /\ m + 1 >= n
               /\ Moves(t, g) /\ (Top(t) \in S => g \in S) => m >= n
               /\ Pushes(t, g) => m >= n
               /\ Pops(t) /\ Top(t) \notin S => m >= n
               /\ Moves(t, g) /\ Top(t) \notin S /\ g \in S => m = n + 1
  <1> DEFINE n == Cardinality(Where(Threads, S))
             m == Cardinality(Where(Threads, S)')
             Goal == /\ n \in Nat /\ m \in Nat /\ m + 1 >= n
                     /\ Moves(t, g) /\ (Top(t) \in S => g \in S) => m >= n
                     /\ Pushes(t, g) => m >= n
                     /\ Pops(t) /\ Top(t) \notin S => m >= n
                     /\ Moves(t, g) /\ Top(t) \notin S /\ g \in S => m = n + 1
  <1> SUFFICES Goal
    OBVIOUS
  <1>0. ~(Moves(t, g) /\ Pops(t)) /\ ~(Moves(t, g) /\ Pushes(t, g)) /\ ~(Pops(t) /\ Pushes(t, g))
    BY DEF Moves, Pops, Pushes, Depth, StackInv
  <1>1. IsFiniteSet(Where(Threads, S)) /\ n \in Nat
    BY Countable
  <1>2. CASE \/ Moves(t, g) /\ (Top(t) \in S <=> g \in S)
             \/ Pushes(t, g) /\ g \notin S
             \/ Pops(t) /\ Top(t) \notin S
    <2>1. Where(Threads, S)' = Where(Threads, S)
      BY <1>2, Stays
    <2>2. m = n
      BY <2>1
    <2> HIDE DEF n, m
    <2>3. n \in Nat /\ m \in Nat /\ m + 1 >= n /\ m >= n
      BY <1>1, <2>2
    <2>4. QED
      BY <1>0, <1>2, <2>3
  <1>3. CASE (Moves(t, g) /\ Top(t) \notin S /\ g \in S) \/ (Pushes(t, g) /\ g \in S)
    <2>1. m = n + 1
      BY <1>1, <1>3, Comes
    <2> HIDE DEF n, m
    <2>2. n \in Nat /\ m \in Nat /\ m + 1 >= n /\ m >= n
      BY <1>1, <2>1
    <2>3. QED
      BY <1>0, <1>3, <2>1, <2>2
  <1>4. CASE (Moves(t, g) /\ Top(t) \in S /\ g \notin S) \/ (Pops(t) /\ Top(t) \in S)
    <2>1. n \in Nat \ {0} /\ m = n - 1
      BY <1>1, <1>4, Leaves
    <2> HIDE DEF n, m
    <2>2. n \in Nat /\ m \in Nat /\ m + 1 >= n
      BY <2>1
    <2>3. QED
      BY <1>0, <1>4, <2>2
  <1>5. QED
    BY <1>2, <1>3, <1>4

\* A lock that is unlocked, or locked for reading by a call that is counted from then
\* on, or for writing when that may be, has no more readers than there are such calls.
LEMMA LockShared ==
    ASSUME StackInv, HandleInv, lock \in LockType, NEW x \in Locks, NEW t \in Threads, NEW g, Shared(x),
           Moves(t, g) \/ Pushes(t, g) \/ (Pops(t) /\ stack[t] # <<>>),
           \/ /\ lock'[x] = lock[x]
              /\ \/ Moves(t, g) /\ (Top(t) \in Users(x) => g \in Users(x))
                 \/ Pushes(t, g)
                 \/ Pops(t) /\ Top(t) \notin Users(x)
           \/ lock' = RdLocked(x, t) /\ Moves(t, g) /\ Top(t) \notin Users(x) /\ g \in Users(x)
           \/ lock' = Unlocked(x, t)
           \/ lock' = WrLocked(x, t) /\ CanWrite(x, t)
    PROVE  Shared(x)'
  <1> DEFINE S == Users(x)
             n == Cardinality(Where(Threads, S))
             m == Cardinality(Where(Threads, S)')
  <1>1. lock[x].r <= n /\ (lock[x].w # None => lock[x].r = 0)
    BY DEF Shared
  <1>2. lock[x] \in [w : Threads \cup {None}, r : Nat] /\ lock[x].r \in Nat
    BY DEF LockType
  <1>3. S \in SUBSET Made
    BY DEF Users
  <1>4. SUFFICES lock'[x].r <= m /\ (lock'[x].w # None => lock'[x].r = 0)
    BY DEF Shared
  <1> HIDE DEF S
  <1>5. /\ n \in Nat /\ m \in Nat /\ m + 1 >= n
        /\ Moves(t, g) /\ (Top(t) \in S => g \in S) => m >= n
        /\ Pushes(t, g) => m >= n
        /\ Pops(t) /\ Top(t) \notin S => m >= n
        /\ Moves(t, g) /\ Top(t) \notin S /\ g \in S => m = n + 1
    BY <1>3, ManyKept
  <1> HIDE DEF n, m
  <1>6. CASE /\ lock'[x] = lock[x]
             /\ \/ Moves(t, g) /\ (Top(t) \in S => g \in S)
                \/ Pushes(t, g)
                \/ Pops(t) /\ Top(t) \notin S
    <2>1. m >= n
      BY <1>5, <1>6
    <2>2. QED
      BY <1>1, <1>2, <1>5, <1>6, <2>1
  <1>7. CASE lock' = RdLocked(x, t) /\ Moves(t, g) /\ Top(t) \notin S /\ g \in S
    <2>1. m = n + 1
      BY <1>5, <1>7
    <2>2. lock'[x].w = lock[x].w
      BY <1>7, LockOps
    <2>3. CASE lock[x].w = None
      <3>1. lock'[x].r = lock[x].r + 1
        BY <1>7, <2>3, LockOps
      <3>2. QED
        BY <1>1, <1>2, <1>5, <2>1, <2>2, <2>3, <3>1
    <2>4. CASE lock[x].w # None
      <3>1. lock'[x] = lock[x]
        <4>1. lock' = [lock EXCEPT ![x].r = @]
          BY <1>7, <2>4 DEF RdLocked
        <4>2. QED
          BY <1>2, <4>1 DEF LockType
      <3>2. QED
        BY <1>1, <1>2, <1>5, <2>1, <3>1
    <2>5. QED
      BY <2>3, <2>4
  <1>8. CASE lock' = Unlocked(x, t)
    <2>1. CASE lock[x].w = t
      <3>1. lock'[x].w = None /\ lock'[x].r = lock[x].r
        BY <1>8, <2>1, LockOps
      <3>2. lock[x].r = 0
        BY <1>1, <2>1, NoneType
      <3>3. QED
        BY <1>5, <3>1, <3>2
    <2>2. CASE lock[x].w # t
      <3>1. /\ lock'[x].w = lock[x].w
            /\ lock[x].r > 0 => lock'[x].r = lock[x].r - 1
            /\ lock[x].r = 0 => lock'[x].r = 0
        BY <1>8, <2>2, LockOps
      <3>2. QED
        BY <1>1, <1>2, <1>5, <3>1
    <2>3. QED
      BY <2>1, <2>2
  <1>9. CASE lock' = WrLocked(x, t) /\ CanWrite(x, t)
    <2>1. lock'[x].w = t /\ lock'[x].r = lock[x].r
      BY <1>9, LockOps
    <2>2. lock[x].r = 0
      BY <1>1, <1>9, NoneType DEF CanWrite
    <2>3. QED
      BY <1>5, <2>1, <2>2
  <1>10. QED
    BY <1>6, <1>7, <1>8, <1>9 DEF S

\* What a step of a call does to the locks: it goes from f to g, or it returns, and a
\* lock y may be locked or unlocked.
Keeps(t, f, g, x) ==
    \/ Moves(t, g) /\ (f \in Users(x) => g \in Users(x))
    \/ Pops(t) /\ f \notin Users(x)

Turned(t, f, g, y) ==
    \/ UNCHANGED lock /\ Keeps(t, f, g, y) /\ f.pc # "iter"
    \/ lock' = RdLocked(y, t) /\ Moves(t, g) /\ f \notin Users(y) /\ g \in Users(y) /\ f.pc # "iter"
    \/ lock' = Unlocked(y, t) /\ (f.pc = "iter" => y = "elfs")
    \/ /\ lock' = WrLocked(y, t) /\ CanWrite(y, t) /\ Moves(t, g) /\ f.pc # "iter"
       /\ \/ y = "elfs" /\ g.fn \in {"open", "close"} /\ g.pc = "iter"
          \/ y = "dlclose" /\ (g \in Holding \/ lock[y].w = t)

Calmed(t, f, g) ==
    /\ \A u \in Threads : u # t => count'[u] = count[u]
    /\ Moves(t, g) /\ g \in Calm => count'[t] = 0 \/ (f \in Calm /\ count'[t] = count[t])

Acts(t, f, g, y) ==
    /\ stack[t] # <<>> /\ f = Top(t) /\ f \in Made /\ g \in Made
    /\ \/ Moves(t, g) /\ (f \in Holding => g \in Holding)
       \/ Pops(t) /\ (f \in Holding => lock' = Unlocked("dlclose", t))
    /\ \A x \in Locks \ {y} : Keeps(t, f, g, x)
    /\ Turned(t, f, g, y)
    /\ Calmed(t, f, g)

LEMMA SharedKept ==
    ASSUME CallInv, SharedInv, NEW t \in Threads, NEW f \in Made, NEW g \in Made, NEW y \in Locks, Acts(t, f, g, y)
    PROVE  SharedInv'
  <1>1. StackInv /\ HandleInv /\ lock \in LockType /\ (\A x \in Locks : Shared(x))
    BY DEF CallInv, SharedInv
  <1>2. /\ f = Top(t) /\ stack[t] # <<>> /\ (Moves(t, g) \/ Pops(t))
        /\ \A x \in Locks \ {y} : Keeps(t, f, g, x)
        /\ Turned(t, f, g, y)
    BY DEF Acts
  <1>3. lock' \in {lock, RdLocked(y, t), Unlocked(y, t), WrLocked(y, t)}
    BY <1>2 DEF Turned
  <1>4. lock' \in LockType /\ \A x \in Locks \ {y} : lock'[x] = lock[x]
    BY <1>1, <1>3, LockOps
  <1>5. \A x : Keeps(t, f, g, x) => \/ Moves(t, g) /\ (Top(t) \in Users(x) => g \in Users(x))
                                    \/ Pops(t) /\ Top(t) \notin Users(x)
    BY <1>2 DEF Keeps
  <1>6. ASSUME NEW x \in Locks \ {y} PROVE Shared(x)'
    <2>1. lock'[x] = lock[x] /\ Keeps(t, f, g, x)
      BY <1>2, <1>4
    <2>2. QED
      BY <1>1, <1>2, <1>5, <2>1, LockShared
  <1>7. Shared(y)'
    <2>1. CASE UNCHANGED lock /\ Keeps(t, f, g, y)
      BY <1>1, <1>2, <1>5, <2>1, LockShared
    <2>2. CASE lock' = RdLocked(y, t) /\ Moves(t, g) /\ f \notin Users(y) /\ g \in Users(y)
      BY <1>1, <1>2, <2>2, LockShared
    <2>3. CASE lock' = Unlocked(y, t) \/ (lock' = WrLocked(y, t) /\ CanWrite(y, t))
      BY <1>1, <1>2, <2>3, LockShared
    <2>4. QED
      BY <1>2, <2>1, <2>2, <2>3 DEF Turned
  <1>8. QED
    BY <1>4, <1>6, <1>7 DEF SharedInv

LEMMA WriterKept ==
    ASSUME CallInv, SharedInv, WriterInv, NEW t \in Threads, NEW f \in Made, NEW g \in Made, NEW y \in Locks,
           Acts(t, f, g, y)
    PROVE  WriterInv'
  <1>1. StackInv /\ HandleInv /\ lock \in LockType
    BY DEF CallInv, SharedInv
  <1>2. /\ f = Top(t) /\ stack[t] # <<>>
        /\ \/ Moves(t, g) /\ (f \in Holding => g \in Holding)
           \/ Pops(t) /\ (f \in Holding => lock' = Unlocked("dlclose", t))
        /\ Turned(t, f, g, y)
    BY DEF Acts
  <1>3. \A u \in Threads : u # t => stack'[u] = stack[u]
    BY <1>2 DEF Moves, Pops
  <1>4. lock' \in {lock, RdLocked(y, t), Unlocked(y, t), WrLocked(y, t)}
    BY <1>2 DEF Turned
  <1>5. \A x \in Locks \ {y} : lock'[x] = lock[x]
    BY <1>1, <1>4, LockOps
  <1>6. /\ lock'[y].w \in {lock[y].w, None, t}
        /\ lock'[y].w # lock[y].w => lock' = Unlocked(y, t) \/ lock' = WrLocked(y, t)
        /\ lock' = Unlocked(y, t) /\ lock'[y].w # lock[y].w => lock'[y].w = None
        /\ lock' = Unlocked(y, t) => lock'[y].w # t
        /\ lock' = WrLocked(y, t) => lock'[y].w = t
    BY <1>1, <1>4, LockOps, NoneType
  <1>7. {"tasks", "cbs", "elfs", "dlclose"} \subseteq Locks
    BY DEF Locks
  <1>8. ASSUME NEW x \in {"tasks", "cbs"} PROVE lock'[x].w = None
    <2>1. lock[x].w = None
      BY DEF WriterInv
    <2>2. CASE x # y
      BY <1>5, <1>7, <2>1, <2>2
    <2>3. CASE x = y
      <3>1. y \notin {"elfs", "dlclose"}
        BY <2>3
      <3>2. UNCHANGED lock \/ lock' = RdLocked(y, t) \/ lock' = Unlocked(y, t)
        BY <1>2, <3>1 DEF Turned
      <3>3. lock' = RdLocked(y, t) => lock'[y].w = lock[y].w
        BY <1>1, LockOps
      <3>4. QED
        BY <1>6, <2>1, <2>3, <3>2, <3>3
    <2>4. QED
      BY <2>2, <2>3
  <1>9. ASSUME NEW u \in Threads, lock'["elfs"].w = u PROVE At(u, {"open", "close"}, "iter")'
    <2>1. CASE lock["elfs"].w = u /\ u # t
      <3>1. At(u, {"open", "close"}, "iter") /\ stack'[u] = stack[u]
        BY <1>3, <2>1 DEF WriterInv
      <3>2. QED
        BY <3>1 DEF At, Top, Depth
    <2>2. CASE lock["elfs"].w = t /\ u = t
      <3>1. f.pc = "iter"
        BY <1>2, <2>2 DEF WriterInv, At
      <3>2. lock' = Unlocked(y, t) /\ y = "elfs"
        BY <1>2, <3>1 DEF Turned
      <3>3. QED
        BY <1>6, <1>9, <2>2, <3>2
    <2>3. CASE lock["elfs"].w # u
      <3>1. y = "elfs" /\ u # None
        BY <1>5, <1>7, <1>9, <2>3, NoneType
      <3>2. lock' = WrLocked(y, t) /\ u = t /\ lock' # Unlocked(y, t)
        BY <1>6, <1>9, <2>3, <3>1
      <3>3. lock'[y].w # lock[y].w
        BY <1>9, <2>3, <3>1
      <3>4. ~UNCHANGED lock
        BY <3>3
      <3>5. lock' # RdLocked(y, t)
        BY <1>1, <3>3, LockOps
      <3>6. Moves(t, g) /\ g.fn \in {"open", "close"} /\ g.pc = "iter"
        BY <1>2, <3>1, <3>2, <3>4, <3>5 DEF Turned
      <3>7. stack'[t] # <<>> /\ stack'[t][Len(stack'[t])] = g
        BY <1>1, <3>6 DEF Moves, Depth, StackInv
      <3>8. QED
        BY <3>2, <3>6, <3>7 DEF At, Top, Depth
    <2>4. QED
      BY <2>1, <2>2, <2>3
  <1>10. ASSUME NEW u \in Threads, lock'["dlclose"].w = u PROVE Where({u}, Holding)' # {}
    <2>1. CASE lock["dlclose"].w = u /\ u # t
      <3>1. Where({u}, Holding)' = Where({u}, Holding)
        BY <1>1, <1>2, <2>1, Stays
      <3>2. Where({u}, Holding) # {}
        BY <2>1 DEF WriterInv
      <3>3. QED
        BY <3>1, <3>2
    <2>2. CASE lock["dlclose"].w = u /\ u = t
      <3>1. ~(Pops(t) /\ f \in Holding /\ lock' = Unlocked("dlclose", t))
        BY <1>1, <1>7, <1>10, <2>2, LockOps, NoneType
      <3>2. Where({t}, Holding) # {}
        BY <2>2 DEF WriterInv
      <3>3. (Moves(t, g) /\ (f \in Holding => g \in Holding)) \/ (Pops(t) /\ f \notin Holding)
        BY <1>2, <3>1
      <3> HIDE DEF Holding
      <3>4. Where({t}, Holding)' # {}
        BY <1>1, <1>2, <3>2, <3>3, SomeStay
      <3>5. QED
        BY <2>2, <3>4
    <2>3. CASE lock["dlclose"].w # u
      <3>1. y = "dlclose" /\ u # None
        BY <1>5, <1>7, <1>10, <2>3, NoneType
      <3>2. lock' = WrLocked(y, t) /\ u = t /\ lock' # Unlocked(y, t)
        BY <1>6, <1>10, <2>3, <3>1
      <3>3. lock'[y].w # lock[y].w
        BY <1>10, <2>3, <3>1
      <3>4. ~UNCHANGED lock
        BY <3>3
      <3>5. lock' # RdLocked(y, t)
        BY <1>1, <3>3, LockOps
      <3>6. Moves(t, g) /\ (g \in Holding \/ lock[y].w = t)
        BY <1>2, <3>1, <3>2, <3>4, <3>5 DEF Turned
      <3>7. Moves(t, g) /\ g \in Holding
        BY <2>3, <3>1, <3>2, <3>6
      <3> HIDE DEF Holding
      <3>8. Where({t}, Holding)' # {}
        BY <1>1, <3>7, SomeCome
      <3>9. QED
        BY <3>2, <3>8
    <2>4. QED
      BY <2>1, <2>2, <2>3
  <1>11. QED
    BY <1>8, <1>9, <1>10 DEF WriterInv

LEMMA CalmKept ==
    ASSUME CallInv, CalmInv, NEW t \in Threads, NEW f \in Made, NEW g \in Made, NEW y, Acts(t, f, g, y)
    PROVE  CalmInv'
  <1>1. StackInv
    BY DEF CallInv
  <1>2. f = Top(t) /\ stack[t] # <<>> /\ (Moves(t, g) \/ Pops(t)) /\ Calmed(t, f, g)
    BY DEF Acts
  <1>3. \A u \in Threads : u # t => stack'[u] = stack[u] /\ count'[u] = count[u]
    BY <1>2 DEF Moves, Pops, Calmed
  <1>4. ASSUME NEW u \in Threads, u # t PROVE (stack[u] # <<>> /\ Top(u) \in Calm => count[u] = 0)'
    BY <1>3, <1>4 DEF CalmInv, Top, Depth
  <1>5. ASSUME stack'[t] # <<>>, Top(t)' \in Calm PROVE count'[t] = 0
    <2>1. CASE Moves(t, g)
      <3>1. Top(t)' = g
        BY <1>1, <2>1 DEF Moves, Top, Depth, StackInv
      <3>2. count'[t] = 0 \/ (f \in Calm /\ count'[t] = count[t])
        BY <1>2, <1>5, <2>1, <3>1 DEF Calmed
      <3>3. f \in Calm => count[t] = 0
        BY <1>2 DEF CalmInv
      <3>4. QED
        BY <3>2, <3>3
    <2>2. CASE Pops(t)
      <3>1. /\ stack[t] \in Seq(Made) /\ stack'[t] \in Seq(Made) /\ Len(stack'[t]) = Len(stack[t]) - 1
            /\ \A i \in 1..(Len(stack[t]) - 1) : stack'[t][i] = stack[t][i] /\ stack[t][i].pc \in Places
        BY <1>1, <2>2 DEF Pops, Depth, StackInv
      <3>2. Len(stack'[t]) \in 1..(Len(stack[t]) - 1)
        BY <1>5, <3>1
      <3>3. Top(t)' = stack[t][Len(stack'[t])]
        BY <3>1, <3>2 DEF Top, Depth
      <3>4. Top(t)'.pc \in Places
        BY <3>1, <3>2, <3>3
      <3>5. QED
        BY <1>5, <3>4 DEF Calm, Places
    <2>3. QED
      BY <1>2, <2>1, <2>2
  <1>6. QED
    BY <1>4, <1>5 DEF CalmInv

\* A call enters the linker, or it leaves it, or neither.
LEMMA OwnerKept ==
    ASSUME CallInv, OwnerInv, NEW t \in Threads, stack[t] # <<>>,
           \/ UNCHANGED <<count, linker>>
           \/ LinkerFree(t) /\ linker' = LinkerLocked(t) /\ count' = AddLockCount(t)
           \/ Top(t) \in Counting /\ linker' = LinkerUnlocked /\ count' = SubLockCount(t)
    PROVE  OwnerInv'
  <1> DEFINE o == linker.owner
             n == linker.n
  <1>1. /\ linker = [owner |-> o, n |-> n] /\ o \in Threads \cup {None} /\ n \in Nat
        /\ o = None <=> n = 0
        /\ \A u \in Threads : count[u] = (IF o = u THEN n ELSE 0)
    BY DEF OwnerInv
  <1>2. count \in [Threads -> Nat]
    BY DEF CallInv, CountInv
  <1>3. CASE UNCHANGED <<count, linker>>
    BY <1>3 DEF OwnerInv
  <1>4. CASE LinkerFree(t) /\ linker' = LinkerLocked(t) /\ count' = AddLockCount(t)
    <2>1. o \in {None, t} /\ linker' = [owner |-> t, n |-> n + 1] /\ count' = [count EXCEPT ![t] = count[t] + 1]
      BY <1>4 DEF LinkerFree, LinkerLocked, AddLockCount
    <2> HIDE DEF o, n
    <2>2. count[t] = n
      BY <1>1, <2>1, NoneType
    <2>3. \A u \in Threads : count'[u] = IF u = t THEN n + 1 ELSE 0
      BY <1>1, <1>2, <2>1, <2>2, NoneType
    <2>4. linker' \in [owner : Threads \cup {None}, n : Nat] /\ linker'.owner = t /\ linker'.n = n + 1 /\ t # None
          /\ n + 1 # 0
      BY <1>1, <2>1, NoneType
    <2>5. QED
      BY <2>3, <2>4 DEF OwnerInv
  <1>5. CASE Top(t) \in Counting /\ linker' = LinkerUnlocked /\ count' = SubLockCount(t)
    <2>1. count[t] # 0
      <3>1. Depth(t) \in 1..Depth(t) /\ Top(t) = stack[t][Depth(t)]
        BY TopMade DEF Top, CallInv
      <3>2. QED
        BY <1>5, <3>1, CountTells
    <2>2. o = t /\ count[t] = n /\ n \in Nat \ {0}
      BY <1>1, <2>1
    <2>3. linker' = IF n = 1 THEN [owner |-> None, n |-> 0] ELSE [linker EXCEPT !.n = n - 1]
      BY <1>5 DEF LinkerUnlocked
    <2>4. count' = [count EXCEPT ![t] = count[t] - 1]
      BY <1>5 DEF SubLockCount
    <2> HIDE DEF o, n
    <2>5. \A u \in Threads : count'[u] = IF u = t THEN n - 1 ELSE 0
      BY <1>1, <1>2, <2>2, <2>4
    <2>6. CASE n = 1
      <3>1. linker' = [owner |-> None, n |-> 0] /\ \A u \in Threads : count'[u] = 0
        BY <2>3, <2>5, <2>6
      <3>2. QED
        BY <3>1 DEF OwnerInv
    <2>7. CASE n # 1
      <3>1. linker' = [owner |-> t, n |-> n - 1]
        BY <1>1, <2>2, <2>3, <2>7
      <3>2. n - 1 \in Nat /\ n - 1 # 0 /\ t # None
        BY <2>2, <2>7, NoneType
      <3>3. linker' \in [owner : Threads \cup {None}, n : Nat] /\ linker'.owner = t /\ linker'.n = n - 1
        BY <3>1, <3>2
      <3>4. linker'.owner # None /\ linker'.n # 0
        BY <3>2, <3>3
      <3>5. \A u \in Threads : count'[u] = IF linker'.owner = u THEN linker'.n ELSE 0
        BY <2>5, <3>3
      <3>6. QED
        BY <3>3, <3>4, <3>5 DEF OwnerInv
    <2>8. QED
      BY <2>6, <2>7
  <1>6. QED
    BY <1>3, <1>4, <1>5

\* Code of others makes a call.
LEMMA CallWaits ==
    ASSUME WaitInv, NEW t \in Threads, NEW fn \in Functions, Call(t, fn)
    PROVE  OwnerInv' /\ CalmInv' /\ SharedInv' /\ WriterInv'
  <1>1. /\ StackInv /\ HandleInv /\ tasks \subseteq Tasks /\ OwnerInv /\ CalmInv /\ SharedInv /\ WriterInv
        /\ lock \in LockType
    BY DEF WaitInv, CallInv, SharedInv
  <1>2. PICK g \in Made, x \in Arguments(fn) :
              /\ g = [fn |-> fn, arg |-> x, pc |-> "start", wr |-> FALSE, todo |-> {}]
              /\ Pushes(t, g)
    BY <1>1, CallPushes
  <1>3. UNCHANGED <<count, lock, linker>> /\ Place(t) \in Places
    BY DEF Call, linking
  <1> HIDE DEF Call
  <1>4. g.pc = "start"
    BY <1>2
  <1>5. \A u \in Threads : u # t => stack'[u] = stack[u]
    BY <1>2 DEF Pushes
  <1>6. stack'[t] # <<>> /\ Top(t)' = g
    BY <1>1, <1>2 DEF Pushes, Top, Depth, StackInv
  <1>7. OwnerInv'
    BY <1>1, <1>3 DEF OwnerInv
  <1>8. CalmInv'
    <2>1. g \notin Calm
      BY <1>4 DEF Calm
    <2>2. ASSUME NEW u \in Threads, u # t PROVE (stack[u] # <<>> /\ Top(u) \in Calm => count[u] = 0)'
      BY <1>1, <1>3, <1>5, <2>2 DEF CalmInv, Top, Depth
    <2>3. Top(t)' \notin Calm
      BY <1>6, <2>1
    <2>4. QED
      BY <2>2, <2>3 DEF CalmInv
  <1>9. SharedInv'
    <2>1. ASSUME NEW x_1 \in Locks PROVE Shared(x_1)'
      BY <1>1, <1>2, <1>3, LockShared DEF SharedInv
    <2>2. QED
      BY <1>1, <1>3, <2>1 DEF SharedInv
  <1>10. WriterInv'
    <2>1. ASSUME NEW u \in Threads, lock'["elfs"].w = u PROVE At(u, {"open", "close"}, "iter")'
      <3>1. At(u, {"open", "close"}, "iter")
        BY <1>1, <1>3, <2>1 DEF WriterInv
      <3>2. u # t
        BY <1>3, <3>1 DEF At, Place, Places
      <3>3. QED
        BY <1>5, <3>1, <3>2 DEF At, Top, Depth
    <2>2. ASSUME NEW u \in Threads, lock'["dlclose"].w = u PROVE Where({u}, Holding)' # {}
      <3>1. Where({u}, Holding) # {}
        BY <1>1, <1>3, <2>2 DEF WriterInv
      <3> HIDE DEF Holding
      <3>2. {u} \in SUBSET Threads
        OBVIOUS
      <3>3. QED
        BY <1>1, <1>2, <3>1, <3>2, SomeStay
    <2>3. QED
      BY <1>1, <1>3, <2>1, <2>2 DEF WriterInv
  <1>11. QED
    BY <1>7, <1>8, <1>9, <1>10

\* The innermost call turns.
LEMMA GoesActs ==
    ASSUME NEW t \in Threads, NEW fns, NEW from, NEW to, NEW f \in Made, NEW g \in Made, NEW y \in Locks,
           Goes(t, f, g, fns, from, to),
           \A x \in Locks \ {y} : \A fn \in fns : Reads(x, fn, from) => Reads(x, fn, to),
           \/ /\ UNCHANGED lock /\ from # "iter"
              /\ \A fn \in fns : Reads(y, fn, from) => Reads(y, fn, to)
           \/ /\ lock' = RdLocked(y, t) /\ from # "iter"
              /\ \A fn \in fns : ~Reads(y, fn, from) /\ Reads(y, fn, to)
           \/ lock' = Unlocked(y, t) /\ (from = "iter" => y = "elfs")
           \/ /\ y = "elfs" /\ lock' = WrLocked(y, t) /\ CanWrite(y, t) /\ from # "iter"
              /\ to = "iter" /\ fns \subseteq {"open", "close"},
           to # "start",
           \A u \in Threads : u # t => count'[u] = count[u],
           \/ to \notin {"rd", "elfs", "iter"}
           \/ fns \subseteq {"hook", "unhook"}
           \/ fns \subseteq {"open", "close"} /\ from \in {"rd", "elfs", "iter"} /\ count'[t] = count[t]
           \/ count'[t] = 0
    PROVE  Acts(t, f, g, y)
  <1>1. /\ stack[t] # <<>> /\ f = Top(t) /\ Moves(t, g)
        /\ f.fn \in fns /\ f.pc = from /\ g.pc = to
        /\ g.fn = f.fn /\ g.arg = f.arg /\ g.wr = f.wr
    BY DEF Goes
  <1>2. f \in Holding => g \in Holding
    BY <1>1 DEF Holding
  <1>3. \A x : (f \in Users(x) <=> Reads(x, f.fn, from)) /\ (g \in Users(x) <=> Reads(x, f.fn, to))
    BY <1>1 DEF Users
  <1>4. \A x \in Locks \ {y} : Keeps(t, f, g, x)
    BY <1>1, <1>3 DEF Keeps
  <1>5. Turned(t, f, g, y)
    <2>1. CASE /\ UNCHANGED lock /\ from # "iter"
               /\ \A fn \in fns : Reads(y, fn, from) => Reads(y, fn, to)
      BY <1>1, <1>3, <2>1 DEF Turned, Keeps
    <2>2. CASE /\ lock' = RdLocked(y, t) /\ from # "iter"
               /\ \A fn \in fns : ~Reads(y, fn, from) /\ Reads(y, fn, to)
      BY <1>1, <1>3, <2>2 DEF Turned
    <2>3. CASE lock' = Unlocked(y, t) /\ (from = "iter" => y = "elfs")
      BY <1>1, <2>3 DEF Turned
    <2>4. CASE /\ y = "elfs" /\ lock' = WrLocked(y, t) /\ CanWrite(y, t) /\ from # "iter"
               /\ to = "iter" /\ fns \subseteq {"open", "close"}
      BY <1>1, <2>4 DEF Turned
    <2>5. QED
      BY <2>1, <2>2, <2>3, <2>4
  <1>6. Calmed(t, f, g)
    BY <1>1 DEF Calmed, Calm
  <1>7. QED
    BY <1>1, <1>2, <1>4, <1>5, <1>6 DEF Acts

\* It returns.
LEMMA PopsActs ==
    ASSUME NEW t \in Threads, NEW f \in Made, NEW y \in Locks, stack[t] # <<>>, f = Top(t), Pops(t),
           f.fn # "close" \/ ~f.wr \/ lock' = Unlocked("dlclose", t),
           \A x \in Locks \ {y} : ~Reads(x, f.fn, f.pc),
           (UNCHANGED lock /\ ~Reads(y, f.fn, f.pc)) \/ lock' = Unlocked(y, t),
           f.pc # "iter", UNCHANGED count
    PROVE  \E h, g \in Made : Acts(t, h, g, y)
  <1>1. \A x : f \in Users(x) <=> Reads(x, f.fn, f.pc)
    BY DEF Users
  <1>2. (\A x \in Locks \ {y} : Keeps(t, f, f, x)) /\ Turned(t, f, f, y)
    BY <1>1 DEF Keeps, Turned
  <1>3. f \in Holding => lock' = Unlocked("dlclose", t)
    BY DEF Holding
  <1>4. Calmed(t, f, f)
    BY DEF Calmed
  <1>5. Acts(t, f, f, y)
    BY <1>2, <1>3, <1>4 DEF Acts
  <1>6. QED
    BY <1>5

LEMMA GotoGoes ==
    ASSUME StackInv, NEW t \in Threads, NEW fns, NEW from, NEW to, At(t, fns, from), Goto(t, to),
           [Top(t) EXCEPT !.pc = to] \in Made
    PROVE  \E f, g \in Made : Goes(t, f, g, fns, from, to)
  BY Turns, TurnGoes

\* The steps of a dlopen.
LEMMA OpenActs ==
    ASSUME CallInv, NEW t \in Threads,
           \/ CallCbPre(t) \/ CbPreDone(t) \/ CallCbPost(t) \/ CbPostDone(t)
           \/ Load(t) \/ LoadFails(t) \/ Loaded(t)
    PROVE  \E f, g \in Made : \E y \in Locks : Acts(t, f, g, y)
  <1>1. StackInv /\ count \in [Threads -> Nat]
    BY DEF CallInv, CountInv
  <1>2. {"cbs", "tasks", "elfs", "dlclose"} \subseteq Locks
    BY DEF Locks
  <1>3. ASSUME NEW f \in Made, f.fn = "open", f.pc \in {"start", "notify"}, NEW to \in {"pre", "link", "post"}
        PROVE  [f EXCEPT !.pc = to] \in Made
    BY <1>3 DEF Made, Frames, PC
  <1>4. CASE CallCbPre(t) \/ CallCbPost(t)
    <2>1. PICK from \in {"start", "notify"}, to \in {"pre", "post"} :
             /\ At(t, {"open"}, from) /\ UNCHANGED count
             /\ \/ lock' = RdLocked("cbs", t) /\ Goto(t, to)
                \/ UNCHANGED lock /\ (Goto(t, "link") \/ Return(t))
      BY <1>4 DEF CallCbPre, CallCbPost, Callbacks
    <2>2. stack[t] # <<>> /\ Top(t) \in Made /\ Top(t).fn = "open" /\ Top(t).pc = from
      BY <1>1, <2>1, TopMade DEF At
    <2>3. CASE lock' = RdLocked("cbs", t) /\ Goto(t, to)
      <3>1. PICK f \in Made, g \in Made : Goes(t, f, g, {"open"}, from, to)
        BY <1>1, <1>3, <2>1, <2>2, <2>3, GotoGoes
      <3>2. Acts(t, f, g, "cbs")
        BY <1>2, <2>1, <2>3, <3>1, GoesActs DEF Reads
      <3>3. QED
        BY <1>2, <3>2
    <2>4. CASE UNCHANGED lock /\ Goto(t, "link")
      <3>1. PICK f \in Made, g \in Made : Goes(t, f, g, {"open"}, from, "link")
        BY <1>1, <1>3, <2>1, <2>2, <2>4, GotoGoes
      <3>2. Acts(t, f, g, "cbs")
        BY <1>2, <2>1, <2>4, <3>1, GoesActs DEF Reads
      <3>3. QED
        BY <1>2, <3>2
    <2>5. CASE UNCHANGED lock /\ Return(t)
      <3>1. Pops(t)
        BY <1>1, <2>2, <2>5, ReturnPops
      <3>2. QED
        BY <1>2, <2>1, <2>2, <2>5, <3>1, PopsActs DEF Reads
    <2>6. QED
      BY <2>1, <2>3, <2>4, <2>5
  <1>5. CASE CbPreDone(t)
    <2>1. Turn(t, {"open"}, "pre", "link") /\ lock' = Unlocked("cbs", t) /\ UNCHANGED count
      BY <1>1, <1>5, CallbackTurns DEF CbPreDone
    <2>2. PICK f \in Made, g \in Made : Goes(t, f, g, {"open"}, "pre", "link")
      BY <2>1, TurnGoes
    <2>3. Acts(t, f, g, "cbs")
      BY <1>2, <2>1, <2>2, GoesActs DEF Reads
    <2>4. QED
      BY <1>2, <2>3
  <1>6. CASE CbPostDone(t)
    <2>1. /\ Pops(t) /\ Top(t) \in Made /\ Top(t).fn = "open" /\ Top(t).pc = "post" /\ stack[t] # <<>>
          /\ lock' = Unlocked("cbs", t) /\ UNCHANGED count
      BY <1>1, <1>6, CallbackTurns DEF CbPostDone, At
    <2>2. QED
      BY <1>2, <2>1, PopsActs DEF Reads
  <1>7. CASE Load(t) \/ LoadFails(t)
    <2>1. UNCHANGED lock /\ \A u \in Threads : u # t => count'[u] = count[u]
      BY <1>1, <1>7 DEF Load, LoadFails, AddLockCount
    <2>2. PICK to \in {"ctor", "linked", "notify"} : Turn(t, {"open"}, "link", to)
      BY <1>1, <1>7, LinkerTurns
    <2>3. PICK f \in Made, g \in Made : Goes(t, f, g, {"open"}, "link", to)
      BY <2>2, TurnGoes
    <2>4. Acts(t, f, g, "cbs")
      BY <1>2, <2>1, <2>3, GoesActs DEF Reads
    <2>5. QED
      BY <1>2, <2>4
  <1>8. CASE Loaded(t)
    <2>1. UNCHANGED lock /\ count' = [count EXCEPT ![t] = count[t] - 1]
      BY <1>8 DEF Loaded, SubLockCount
    <2>2. PICK from \in {"ctor", "linked"} : Turn(t, {"open"}, from, IF AfterCall(t) THEN "rd" ELSE "notify")
      BY <1>1, <1>8, LinkerTurns
    <2>3. PICK to \in {"rd", "notify"} : Turn(t, {"open"}, from, to) /\ (to = "rd" => count[t] = 1)
      BY <2>2 DEF AfterCall
    <2>4. PICK f \in Made, g \in Made : Goes(t, f, g, {"open"}, from, to)
      BY <2>3, TurnGoes
    <2>5. (\A u \in Threads : u # t => count'[u] = count[u]) /\ (to = "rd" => count'[t] = 0)
      BY <1>1, <2>1, <2>3
    <2>6. Acts(t, f, g, "cbs")
      BY <1>2, <2>1, <2>4, <2>5, GoesActs DEF Reads
    <2>7. QED
      BY <1>2, <2>6
  <1>9. QED
    BY <1>4, <1>5, <1>6, <1>7, <1>8

\* The refresh, and hooks in new ELFs.
LEMMA RefreshActs ==
    ASSUME CallInv, NEW t \in Threads,
           \/ RdLock(t) \/ LockElfs(t) \/ Iterate(t) \/ (\E l \in Libs : NewElf(t, l))
           \/ NewElfTold(t) \/ Refreshed(t)
    PROVE  \E f, g \in Made : \E y \in Locks : Acts(t, f, g, y)
  <1>1. StackInv
    BY DEF CallInv
  <1>2. {"cbs", "tasks", "elfs", "dlclose"} \subseteq Locks
    BY DEF Locks
  <1>3. UNCHANGED count
    BY DEF RdLock, LockElfs, Iterate, NewElf, NewElfTold, Refreshed
  <1>4. CASE RdLock(t)
    <2>1. lock' = RdLocked("dlclose", t)
      BY <1>4 DEF RdLock
    <2>2. Turn(t, {"open"}, "rd", "elfs") \/ Turn(t, {"hook", "unhook"}, "rd", "copy")
      BY <1>1, <1>4, RefreshTurns
    <2>3. CASE Turn(t, {"open"}, "rd", "elfs")
      <3>1. PICK f \in Made, g \in Made : Goes(t, f, g, {"open"}, "rd", "elfs")
        BY <2>3, TurnGoes
      <3>2. Acts(t, f, g, "dlclose")
        BY <1>2, <1>3, <2>1, <3>1, GoesActs DEF Reads
      <3>3. QED
        BY <1>2, <3>2
    <2>4. CASE Turn(t, {"hook", "unhook"}, "rd", "copy")
      <3>1. PICK f \in Made, g \in Made : Goes(t, f, g, {"hook", "unhook"}, "rd", "copy")
        BY <2>4, TurnGoes
      <3>2. Acts(t, f, g, "dlclose")
        BY <1>2, <1>3, <2>1, <3>1, GoesActs DEF Reads
      <3>3. QED
        BY <1>2, <3>2
    <2>5. QED
      BY <2>2, <2>3, <2>4
  <1>5. CASE LockElfs(t)
    <2>1. lock' = WrLocked("elfs", t) /\ CanWrite("elfs", t)
      BY <1>5 DEF LockElfs
    <2>2. Turn(t, {"open", "close"}, "elfs", "iter")
      BY <1>1, <1>5, RefreshTurns
    <2>3. PICK f \in Made, g \in Made : Goes(t, f, g, {"open", "close"}, "elfs", "iter")
      BY <2>2, TurnGoes
    <2>4. Acts(t, f, g, "elfs")
      BY <1>2, <1>3, <2>1, <2>3, GoesActs DEF Reads
    <2>5. QED
      BY <1>2, <2>4
  <1>6. CASE Iterate(t)
    <2>1. lock' = Unlocked("elfs", t)
      BY <1>6 DEF Iterate
    <2>2. PICK f \in Made, g \in Made :
              /\ Was(t, f, {"open", "close"}, "iter") /\ Moves(t, g)
              /\ \/ f.fn = "open" /\ g = [f EXCEPT !.pc = "new", !.todo = Born]
                 \/ f.fn = "close" /\ g = [f EXCEPT !.pc = "sync", !.todo = {}]
      BY <1>1, <1>6, IterateMoves
    <2>3. /\ stack[t] # <<>> /\ f = Top(t) /\ f.pc = "iter" /\ g.fn = f.fn /\ g.arg = f.arg /\ g.wr = f.wr
          /\ (f.fn = "open" /\ g.pc = "new") \/ (f.fn = "close" /\ g.pc = "sync")
      BY <2>2 DEF Was, Made, Frames
    <2>4. CASE f.fn = "open" /\ g.pc = "new"
      <3>1. Goes(t, f, g, {"open"}, "iter", "new")
        BY <2>2, <2>3, <2>4 DEF Goes
      <3>2. Acts(t, f, g, "elfs")
        BY <1>2, <1>3, <2>1, <3>1, GoesActs DEF Reads
      <3>3. QED
        BY <1>2, <3>2
    <2>5. CASE f.fn = "close" /\ g.pc = "sync"
      <3>1. Goes(t, f, g, {"close"}, "iter", "sync")
        BY <2>2, <2>3, <2>5 DEF Goes
      <3>2. Acts(t, f, g, "elfs")
        BY <1>2, <1>3, <2>1, <3>1, GoesActs DEF Reads
      <3>3. QED
        BY <1>2, <3>2
    <2>6. QED
      BY <2>3, <2>4, <2>5
  <1>7. CASE \E l \in Libs : NewElf(t, l)
    <2>1. PICK l \in Libs : NewElf(t, l)
      BY <1>7
    <2> DEFINE f == Top(t)
    <2>2. Was(t, f, {"open"}, "new")
      BY <1>1, <2>1, AtWas DEF NewElf
    <2>3. PICK to \in {"new", "told"} :
             /\ Drop(t, l, to)
             /\ (to = "new" /\ UNCHANGED lock) \/ (to = "told" /\ lock' = RdLocked("tasks", t))
      BY <2>1 DEF NewElf
    <2> HIDE DEF f
    <2> DEFINE g == [f EXCEPT !.todo = @ \ {l}, !.pc = to]
    <2>4. stack[t] # <<>> /\ f = Top(t) /\ f \in Made /\ f.fn = "open" /\ f.pc = "new"
      BY <2>2 DEF Was
    <2>5. g \in Made /\ g.fn = f.fn /\ g.arg = f.arg /\ g.wr = f.wr /\ g.pc = to
      BY <2>4 DEF Made, Frames, PC
    <2>6. Moves(t, g)
      <3>1. Was(t, f, {f.fn}, f.pc)
        BY <2>4 DEF Was
      <3>2. QED
        BY <1>1, <2>3, <2>4, <2>5, <3>1, DropMoves
    <2> HIDE DEF g
    <2>7. Goes(t, f, g, {"open"}, "new", to)
      BY <2>4, <2>5, <2>6 DEF Goes
    <2>8. Acts(t, f, g, "tasks")
      BY <1>2, <1>3, <2>3, <2>4, <2>5, <2>7, GoesActs DEF Reads
    <2>9. QED
      BY <1>2, <2>4, <2>5, <2>8
  <1>8. CASE NewElfTold(t)
    <2>1. lock' = Unlocked("tasks", t)
      BY <1>8 DEF NewElfTold
    <2>2. Turn(t, {"open"}, "told", "new")
      BY <1>1, <1>8, RefreshTurns
    <2>3. PICK f \in Made, g \in Made : Goes(t, f, g, {"open"}, "told", "new")
      BY <2>2, TurnGoes
    <2>4. Acts(t, f, g, "tasks")
      BY <1>2, <1>3, <2>1, <2>3, GoesActs DEF Reads
    <2>5. QED
      BY <1>2, <2>4
  <1>9. CASE Refreshed(t)
    <2>1. lock' = Unlocked("dlclose", t)
      BY <1>9 DEF Refreshed
    <2>2. Turn(t, {"open"}, "new", "notify")
      BY <1>1, <1>9, RefreshTurns
    <2>3. PICK f \in Made, g \in Made : Goes(t, f, g, {"open"}, "new", "notify")
      BY <2>2, TurnGoes
    <2>4. Acts(t, f, g, "dlclose")
      BY <1>2, <1>3, <2>1, <2>3, GoesActs DEF Reads
    <2>5. QED
      BY <1>2, <2>4
  <1>10. QED
    BY <1>4, <1>5, <1>6, <1>7, <1>8, <1>9

\* A dlclose.
LEMMA CloseActs ==
    ASSUME CallInv, NEW t \in Threads,
           WrLock(t) \/ Unlink(t) \/ Unload(t) \/ SyncClean(t) \/ Closed(t)
    PROVE  \E f, g \in Made : \E y \in Locks : Acts(t, f, g, y)
  <1>1. StackInv /\ count \in [Threads -> Nat]
    BY DEF CallInv, CountInv
  <1>2. {"cbs", "tasks", "elfs", "dlclose"} \subseteq Locks
    BY DEF Locks
  <1>3. CASE WrLock(t)
    <2>1. PICK f \in Made, g \in Made :
              /\ Was(t, f, {"close"}, "start") /\ Moves(t, g)
              /\ g = [f EXCEPT !.pc = "link", !.wr = Outermost(t) /\ lock["dlclose"].w # t]
      BY <1>1, <1>3, WrLockMoves
    <2>2. /\ UNCHANGED count
          /\ \/ ~Outermost(t) /\ UNCHANGED lock
             \/ Outermost(t) /\ CanWrite("dlclose", t) /\ lock' = WrLocked("dlclose", t)
      BY <1>3 DEF WrLock
    <2> DEFINE w == Outermost(t) /\ lock["dlclose"].w # t
    <2>3. /\ stack[t] # <<>> /\ f = Top(t) /\ f.fn = "close" /\ f.pc = "start" /\ f.wr = FALSE
          /\ g.fn = "close" /\ g.pc = "link" /\ g.wr = w
      BY <2>1 DEF Was, Made, Frames
    <2>4. f \notin Holding /\ (w => g \in Holding)
      <3>1. w \in BOOLEAN
        OBVIOUS
      <3> HIDE DEF w
      <3>2. QED
        BY <2>3, <3>1 DEF Holding
    <2>5. \A x : f \notin Users(x) /\ g \notin Users(x)
      BY <2>3 DEF Users, Reads
    <2>6. \A x : Keeps(t, f, g, x)
      BY <2>1, <2>5 DEF Keeps
    <2>7. Turned(t, f, g, "dlclose")
      BY <2>1, <2>2, <2>3, <2>4, <2>6 DEF Turned
    <2>8. Calmed(t, f, g)
      BY <2>2, <2>3 DEF Calmed, Calm
    <2>9. Acts(t, f, g, "dlclose")
      BY <2>1, <2>3, <2>4, <2>6, <2>7, <2>8 DEF Acts
    <2>10. QED
      BY <1>2, <2>9
  <1>4. CASE Unlink(t)
    <2>1. UNCHANGED lock /\ \A u \in Threads : u # t => count'[u] = count[u]
      BY <1>1, <1>4 DEF Unlink, AddLockCount
    <2>2. PICK to \in {"dtor", "linked"} : Turn(t, {"close"}, "link", to)
      BY <1>1, <1>4, LinkerTurns
    <2>3. PICK f \in Made, g \in Made : Goes(t, f, g, {"close"}, "link", to)
      BY <2>2, TurnGoes
    <2>4. Acts(t, f, g, "cbs")
      BY <1>2, <2>1, <2>3, GoesActs DEF Reads
    <2>5. QED
      BY <1>2, <2>4
  <1>5. CASE Unload(t)
    <2>1. UNCHANGED lock /\ count' = [count EXCEPT ![t] = count[t] - 1]
      BY <1>5 DEF Unload, SubLockCount
    <2>2. PICK from \in {"dtor", "linked"} : Turn(t, {"close"}, from, IF AfterCall(t) THEN "elfs" ELSE "fin")
      BY <1>1, <1>5, LinkerTurns
    <2>3. PICK to \in {"elfs", "fin"} : Turn(t, {"close"}, from, to) /\ (to = "elfs" => count[t] = 1)
      BY <2>2 DEF AfterCall
    <2>4. PICK f \in Made, g \in Made : Goes(t, f, g, {"close"}, from, to)
      BY <2>3, TurnGoes
    <2>5. (\A u \in Threads : u # t => count'[u] = count[u]) /\ (to = "elfs" => count'[t] = 0)
      BY <1>1, <2>1, <2>3
    <2>6. Acts(t, f, g, "cbs")
      BY <1>2, <2>1, <2>4, <2>5, GoesActs DEF Reads
    <2>7. QED
      BY <1>2, <2>6
  <1>6. CASE SyncClean(t)
    <2>1. UNCHANGED <<lock, count>>
      BY <1>6 DEF SyncClean
    <2>2. Turn(t, {"close"}, "sync", "fin")
      BY <1>1, <1>6, CloseTurns
    <2>3. PICK f \in Made, g \in Made : Goes(t, f, g, {"close"}, "sync", "fin")
      BY <2>2, TurnGoes
    <2>4. Acts(t, f, g, "cbs")
      BY <1>2, <2>1, <2>3, GoesActs DEF Reads
    <2>5. QED
      BY <1>2, <2>4
  <1>7. CASE Closed(t)
    <2>1. /\ Pops(t) /\ stack[t] # <<>> /\ Top(t) \in Made /\ Top(t).fn = "close" /\ Top(t).pc = "fin"
          /\ UNCHANGED count
      BY <1>1, <1>7, CloseTurns DEF Was, Closed
    <2>2. lock' = Unlocked("dlclose", t) \/ (UNCHANGED lock /\ ~Top(t).wr)
      BY <1>7 DEF Closed
    <2>3. QED
      BY <1>2, <2>1, <2>2, PopsActs DEF Reads
  <1>8. QED
    BY <1>3, <1>4, <1>5, <1>6, <1>7

\* Hooks and unhooks, and the list of callbacks.
LEMMA TaskActs ==
    ASSUME CallInv, NEW t \in Threads,
           \/ Hook(t) \/ Unhook(t) \/ Copy(t) \/ (\E l \in Libs : Meet(t, l))
           \/ MeetTold(t) \/ Met(t) \/ ChangeList(t)
    PROVE  \E f, g \in Made : \E y \in Locks : Acts(t, f, g, y)
  <1>1. StackInv
    BY DEF CallInv
  <1>2. {"cbs", "tasks", "elfs", "dlclose"} \subseteq Locks
    BY DEF Locks
  <1>3. UNCHANGED count
    BY DEF Hook, Unhook, Copy, Meet, MeetTold, Met, ChangeList
  <1>4. CASE Hook(t) \/ Unhook(t) \/ MeetTold(t)
    <2>1. UNCHANGED lock
      BY <1>4 DEF Hook, Unhook, MeetTold
    <2>2. \/ Turn(t, {"hook"}, "start", "rd") \/ Turn(t, {"unhook"}, "start", "rd")
          \/ Turn(t, {"hook"}, "told", "meet")
      BY <1>1, <1>4, TaskTurns
    <2>3. PICK fns \in {{"hook"}, {"unhook"}}, from \in {"start", "told"}, to \in {"rd", "meet"} :
             Turn(t, fns, from, to) /\ (to = "meet" <=> from = "told")
      BY <2>2
    <2>4. PICK f \in Made, g \in Made : Goes(t, f, g, fns, from, to)
      BY <2>3, TurnGoes
    <2>5. fns \subseteq {"hook", "unhook"}
      BY <2>3
    <2>6. \A x \in Locks : \A fn \in fns : Reads(x, fn, from) => Reads(x, fn, to)
      BY <2>3, <2>5 DEF Reads
    <2>7. Acts(t, f, g, "cbs")
      BY <1>2, <1>3, <2>1, <2>3, <2>4, <2>5, <2>6, GoesActs
    <2>8. QED
      BY <1>2, <2>7
  <1>5. CASE Copy(t)
    <2>1. UNCHANGED lock
      BY <1>5 DEF Copy
    <2>2. PICK f \in Made, g \in Made :
              /\ Was(t, f, {"hook", "unhook"}, "copy") /\ Moves(t, g)
              /\ g = [f EXCEPT !.pc = "meet", !.todo = {l \in Libs : tree[l] # NoElf}]
      BY <1>1, <1>5, CopyMoves
    <2> DEFINE ls == {l \in Libs : tree[l] # NoElf}
    <2>3. g = [f EXCEPT !.pc = "meet", !.todo = ls]
      BY <2>2
    <2> HIDE DEF ls
    <2>4. g.pc = "meet" /\ g.fn = f.fn /\ g.arg = f.arg /\ g.wr = f.wr
      BY <2>3 DEF Made, Frames
    <2>5. Goes(t, f, g, {"hook", "unhook"}, "copy", "meet")
      BY <2>2, <2>4 DEF Goes, Was
    <2>6. Acts(t, f, g, "cbs")
      BY <1>2, <1>3, <2>1, <2>5, GoesActs DEF Reads
    <2>7. QED
      BY <1>2, <2>6
  <1>6. CASE \E l \in Libs : Meet(t, l)
    <2>1. PICK l \in Libs : Meet(t, l)
      BY <1>6
    <2>2. UNCHANGED lock
      BY <2>1 DEF Meet
    <2>3. PICK f \in Made, to \in {"meet", "told"} :
              /\ Was(t, f, {"hook", "unhook"}, "meet") /\ l \in f.todo
              /\ (f.fn = "hook" /\ to = "told") \/ (f.fn = "unhook" /\ to = "meet")
              /\ [f EXCEPT !.todo = @ \ {l}, !.pc = to] \in Made
              /\ Moves(t, [f EXCEPT !.todo = @ \ {l}, !.pc = to])
      BY <1>1, <2>1, MeetMoves
    <2> DEFINE g == [f EXCEPT !.todo = @ \ {l}, !.pc = to]
    <2>4. g \in Made /\ g.pc = to /\ g.fn = f.fn /\ g.arg = f.arg /\ g.wr = f.wr
      BY <2>3 DEF Made, Frames
    <2>5. Moves(t, g)
      BY <2>3
    <2> HIDE DEF g
    <2>6. Goes(t, f, g, {"hook", "unhook"}, "meet", to)
      BY <2>3, <2>4, <2>5 DEF Goes, Was
    <2>7. Acts(t, f, g, "cbs")
      BY <1>2, <1>3, <2>2, <2>4, <2>6, GoesActs DEF Reads
    <2>8. QED
      BY <1>2, <2>4, <2>7
  <1>7. CASE Met(t)
    <2>1. /\ Pops(t) /\ stack[t] # <<>> /\ Top(t) \in Made /\ Top(t).fn \in {"hook", "unhook"}
          /\ Top(t).pc = "meet" /\ lock' = Unlocked("dlclose", t)
      BY <1>1, <1>7, TaskTurns DEF Was, Met
    <2>2. QED
      BY <1>2, <1>3, <2>1, PopsActs DEF Reads
  <1>8. CASE ChangeList(t)
    <2>1. /\ Pops(t) /\ stack[t] # <<>> /\ Top(t) \in Made /\ Top(t).fn \in {"add", "del"}
          /\ Top(t).pc = "start" /\ UNCHANGED lock
      BY <1>1, <1>8, TaskTurns DEF Was, ChangeList
    <2>2. QED
      BY <1>2, <1>3, <2>1, PopsActs DEF Reads
  <1>9. QED
    BY <1>4, <1>5, <1>6, <1>7, <1>8

LEMMA WaitInit == Init => WaitInv
  <1>1. SUFFICES ASSUME Init PROVE WaitInv
    OBVIOUS
  <1>2. /\ stack = [t \in Threads |-> <<>>] /\ lock = [x \in Locks |-> [w |-> None, r |-> 0]]
        /\ linker = [owner |-> None, n |-> 0] /\ count = [t \in Threads |-> 0]
    BY <1>1 DEF Init
  <1>3. ASSUME NEW T \in SUBSET Threads, NEW S PROVE Where(T, S) = {}
    BY <1>2 DEF Where
  <1>4. OwnerInv
    BY <1>2 DEF OwnerInv
  <1>5. CalmInv
    BY <1>2 DEF CalmInv
  <1>6. lock \in LockType /\ \A x \in Locks : lock[x].w = None /\ lock[x].r = 0
    BY <1>2 DEF LockType
  <1>7. ASSUME NEW x \in Locks PROVE Shared(x)
    <2>1. Where(Threads, Users(x)) = {}
      BY <1>3
    <2>2. Cardinality(Where(Threads, Users(x))) = 0
      BY <2>1, FS_EmptySet
    <2>3. QED
      BY <1>6, <2>2 DEF Shared
  <1>8. WriterInv
    BY <1>6, NoneType DEF WriterInv, Locks
  <1>9. QED
    BY <1>1, <1>4, <1>5, <1>6, <1>7, <1>8, CallInit DEF WaitInv, SharedInv

\* How the linker and the lock count change.
LEMMA OwnerSteps ==
    ASSUME CallInv, OwnerInv, NEW t \in Threads, Step(t)
    PROVE  OwnerInv'
  <1>1. stack[t] # <<>>
    BY ZenonT(60) DEF Step, CallCbPre, CbPreDone, CallCbPost, CbPostDone, Callbacks, Load, LoadFails, Loaded, RdLock, LockElfs,
           Iterate, NewElf, NewElfTold, Refreshed, WrLock, Unlink, Unload, SyncClean, Closed, Hook, Unhook, Copy,
           Meet, MeetTold, Met, ChangeList, At, Place
  <1>2. CASE Load(t) \/ Unlink(t)
    <2>1. LinkerFree(t) /\ linker' = LinkerLocked(t) /\ count' = AddLockCount(t)
      BY <1>2 DEF Load, Unlink
    <2>2. QED
      BY <1>1, <2>1, OwnerKept
  <1>3. CASE Loaded(t) \/ Unload(t)
    <2>1. linker' = LinkerUnlocked /\ count' = SubLockCount(t)
      BY <1>3 DEF Loaded, Unload
    <2>2. Top(t) \in Made
      BY <1>1, TopMade DEF CallInv
    <2>3. \/ Top(t).fn = "open" /\ Top(t).pc \in {"ctor", "linked"}
          \/ Top(t).fn = "close" /\ Top(t).pc \in {"dtor", "linked"}
      BY <1>1, <1>3 DEF Loaded, Unload, Place
    <2>4. Top(t) \in Counting
      BY <2>2, <2>3 DEF Counting
    <2>5. QED
      BY <1>1, <2>1, <2>4, OwnerKept
  <1>4. CASE ~(Load(t) \/ Unlink(t) \/ Loaded(t) \/ Unload(t))
    <2>1. UNCHANGED <<count, linker>>
      BY <1>4 DEF Step, CallCbPre, CbPreDone, CallCbPost, CbPostDone, Callbacks, LoadFails, RdLock, LockElfs, Iterate,
           NewElf, NewElfTold, Refreshed, WrLock, SyncClean, Closed, Hook, Unhook, Copy, Meet, MeetTold, Met,
           ChangeList, linking
    <2>2. QED
      BY <1>1, <2>1, OwnerKept
  <1>5. QED
    BY <1>2, <1>3, <1>4

LEMMA WaitStep == WaitInv /\ [Next]_vars => WaitInv'
  <1>1. SUFFICES ASSUME WaitInv, [Next]_vars PROVE WaitInv'
    OBVIOUS
  <1>2. CallInv /\ OwnerInv /\ CalmInv /\ SharedInv /\ WriterInv /\ CallInv'
    BY <1>1, CallStep DEF WaitInv
  <1>3. CASE Next
    <2>1. PICK t \in Threads : (\E fn \in Functions : Call(t, fn)) \/ Step(t)
      BY <1>3 DEF Next
    <2>2. CASE \E fn \in Functions : Call(t, fn)
      BY <1>1, <1>2, <2>2, CallWaits DEF WaitInv
    <2>3. CASE Step(t)
      <3>1. OwnerInv'
        BY <1>2, <2>3, OwnerSteps
      <3>2. \E f, g \in Made : \E y \in Locks : Acts(t, f, g, y)
        <4>1. CASE \/ CallCbPre(t) \/ CbPreDone(t) \/ CallCbPost(t) \/ CbPostDone(t)
                   \/ Load(t) \/ LoadFails(t) \/ Loaded(t)
          BY <1>2, <4>1, OpenActs
        <4>2. CASE \/ RdLock(t) \/ LockElfs(t) \/ Iterate(t) \/ (\E l \in Libs : NewElf(t, l))
                   \/ NewElfTold(t) \/ Refreshed(t)
          BY <1>2, <4>2, RefreshActs
        <4>3. CASE WrLock(t) \/ Unlink(t) \/ Unload(t) \/ SyncClean(t) \/ Closed(t)
          BY <1>2, <4>3, CloseActs
        <4>4. CASE \/ Hook(t) \/ Unhook(t) \/ Copy(t) \/ (\E l \in Libs : Meet(t, l))
                   \/ MeetTold(t) \/ Met(t) \/ ChangeList(t)
          BY <1>2, <4>4, TaskActs
        <4>5. QED
          BY <2>3, <4>1, <4>2, <4>3, <4>4 DEF Step
      <3>3. SharedInv' /\ WriterInv' /\ CalmInv'
        BY <1>2, <3>2, SharedKept, WriterKept, CalmKept
      <3>4. QED
        BY <1>2, <3>1, <3>3 DEF WaitInv
    <2>4. QED
      BY <2>1, <2>2, <2>3
  <1>4. CASE UNCHANGED vars
    <2>1. UNCHANGED <<stack, lock, linker, count>>
      BY <1>4 DEF vars, linking
    <2>2. OwnerInv' /\ CalmInv'
      BY <1>2, <2>1 DEF OwnerInv, CalmInv, Top, Depth
    <2>3. \A T, S : Where(T, S)' = Where(T, S)
      BY <2>1 DEF Where
    <2>4. SharedInv' /\ WriterInv'
      BY <1>2, <2>1 DEF SharedInv, Shared, WriterInv, Where, At, Top, Depth
    <2>5. QED
      BY <1>2, <2>2, <2>4 DEF WaitInv
  <1>5. QED
    BY <1>1, <1>3, <1>4

\* The innermost call is made inside of the outer ones.
LEMMA NestsPair ==
    ASSUME StackInv, NEW t \in Threads, stack[t] # <<>>, NEW i \in 1..(Depth(t) - 1)
    PROVE  <<stack[t][i].pc, Top(t).fn>> \in Nests(t)
  <1>1. Depth(t) \in DOMAIN stack[t] /\ Top(t) = stack[t][Depth(t)]
    BY TopMade DEF Top
  <1>2. QED
    BY <1>1 DEF Nests

\* A call that is somewhere is the innermost of its thread, or that one is made inside
\* of it.
LEMMA FrameTop ==
    ASSUME StackInv, NEW t \in Threads, NEW S, Where({t}, S) # {}
    PROVE  /\ stack[t] # <<>>
           /\ \/ Top(t) \in S
              \/ \E f \in S : f.pc \in Places /\ <<f.pc, Top(t).fn>> \in Nests(t)
  <1>1. PICK p \in Where({t}, S) : TRUE
    OBVIOUS
  <1>2. /\ p[2] \in 1..Depth(t) /\ stack[t][p[2]] \in S
        /\ Depth(t) = Len(stack[t]) /\ Depth(t) \in Nat
    BY <1>1 DEF Where, Depth, StackInv
  <1>3. stack[t] # <<>>
    BY <1>2
  <1>4. CASE p[2] = Depth(t)
    BY <1>2, <1>3, <1>4 DEF Top
  <1>5. CASE p[2] # Depth(t)
    <2>1. p[2] \in 1..(Depth(t) - 1)
      BY <1>2, <1>5
    <2>2. <<stack[t][p[2]].pc, Top(t).fn>> \in Nests(t) /\ stack[t][p[2]].pc \in Places
      BY <1>3, <2>1, NestsPair, OuterPlace
    <2>3. QED
      BY <1>2, <1>3, <2>2
  <1>6. QED
    BY <1>4, <1>5

\* A call in the linker, or one that is made inside of it, waits for nothing.
LEMMA OwnerReady ==
    ASSUME WaitInv, ~AtRisk, NEW t \in Threads, linker.owner = t
    PROVE  stack[t] # <<>> /\ Ready(t)
  <1>1. StackInv /\ CallInv /\ CalmInv /\ lock["tasks"].w = None /\ lock["cbs"].w = None
    BY DEF WaitInv, CallInv, WriterInv
  <1>2. count[t] # 0 /\ LinkerFree(t)
    BY NoneType DEF WaitInv, OwnerInv, LinkerFree
  <1>3. PICK i \in 1..Depth(t) : stack[t][i] \in Counting
    BY <1>1, <1>2, CountTells
  <1>4. Depth(t) \in Nat
    BY <1>1 DEF StackInv, Depth
  <1>5. <<t, i>> \in Where({t}, Counting)
    BY <1>3, <1>4 DEF Where, Depth
  <1>6. /\ stack[t] # <<>>
        /\ \/ Top(t) \in Counting
           \/ \E f \in Counting : f.pc \in Places /\ <<f.pc, Top(t).fn>> \in Nests(t)
    BY <1>1, <1>5, FrameTop
  <1>7. Top(t) \in Made
    BY <1>1, <1>6, TopMade
  <1>8. CASE Top(t) \in Counting
    BY <1>6, <1>8 DEF Counting, Ready
  <1>9. CASE \E f \in Counting : f.pc \in Places /\ <<f.pc, Top(t).fn>> \in Nests(t)
    <2>1. PICK f \in Counting : f.pc \in Places /\ <<f.pc, Top(t).fn>> \in Nests(t)
      BY <1>9
    <2>2. f.pc \in {"ctor", "dtor"}
      BY <2>1 DEF Counting, Places
    <2>3. <<f.pc, Top(t).fn>> \notin Risky
      BY <1>6, <2>1 DEF AtRisk, Busy
    <2>4. Top(t).fn \in {"open", "close"}
      BY <1>7, <2>2, <2>3 DEF Risky, Made, Frames, Functions
    <2>5. Top(t).pc \notin {"rd", "elfs", "iter"}
      BY <1>1, <1>2, <1>6, <1>7, <2>4 DEF CalmInv, Calm
    <2>6. Top(t).pc # "copy" /\ ~Outermost(t) /\ CanRead("tasks", t) /\ CanRead("cbs", t)
      BY <1>1, <1>2, <1>7, <2>4 DEF Made, Outermost, CanRead
    <2>7. QED
      BY <1>2, <1>6, <2>4, <2>5, <2>6 DEF Ready
  <1>10. QED
    BY <1>6, <1>8, <1>9

\* The call that refreshes under the lock of the tree waits for nothing but the linker.
LEMMA RefreshReady ==
    ASSUME WaitInv, linker.owner = None, NEW t \in Threads, lock["elfs"].w = t
    PROVE  stack[t] # <<>> /\ Ready(t)
  <1>1. At(t, {"open", "close"}, "iter")
    BY DEF WaitInv, WriterInv
  <1>2. LinkerFree(t)
    BY DEF LinkerFree
  <1>3. QED
    BY <1>1, <1>2 DEF At, Ready

\* With no one in the linker or in a refresh, the holder of the lock of dlclose waits
\* for nothing.
LEMMA HolderReady ==
    ASSUME WaitInv, ~AtRisk, linker.owner = None, lock["elfs"] = [w |-> None, r |-> 0],
           NEW t \in Threads, lock["dlclose"].w = t
    PROVE  stack[t] # <<>> /\ Ready(t)
  <1>1. StackInv /\ lock["tasks"].w = None /\ lock["cbs"].w = None /\ Where({t}, Holding) # {}
    BY DEF WaitInv, CallInv, WriterInv
  <1>2. /\ LinkerFree(t) /\ CanRead("tasks", t) /\ CanRead("cbs", t)
        /\ CanRead("elfs", t) /\ CanWrite("elfs", t) /\ CanRead("dlclose", t) /\ CanWrite("dlclose", t)
    BY <1>1 DEF LinkerFree, CanRead, CanWrite
  <1>3. /\ stack[t] # <<>>
        /\ \/ Top(t) \in Holding
           \/ \E f \in Holding : f.pc \in Places /\ <<f.pc, Top(t).fn>> \in Nests(t)
    BY <1>1, FrameTop
  <1>4. CASE Top(t) \in Holding
    BY <1>2, <1>3, <1>4 DEF Holding, Ready
  <1>5. CASE \E f \in Holding : f.pc \in Places /\ <<f.pc, Top(t).fn>> \in Nests(t)
    <2>1. PICK f \in Holding : f.pc \in Places /\ <<f.pc, Top(t).fn>> \in Nests(t)
      BY <1>5
    <2>2. f.pc = "dtor"
      BY <2>1 DEF Holding, Made, Places
    <2>3. <<f.pc, Top(t).fn>> \notin Risky
      BY <1>3, <2>1 DEF AtRisk, Busy
    <2>4. Top(t).fn \notin {"hook", "unhook", "add", "del"}
      BY <2>2, <2>3 DEF Risky
    <2>5. QED
      BY <1>2, <1>3, <2>4 DEF Ready
  <1>6. QED
    BY <1>3, <1>4, <1>5

\* A lock that has readers is held by a call.
LEMMA UserThere ==
    ASSUME WaitInv, NEW x \in Locks, lock[x].r # 0
    PROVE  \E t \in Threads :
              /\ stack[t] # <<>> /\ Top(t) \in Made
              /\ \/ Top(t) \in Users(x)
                 \/ \E f \in Users(x) : f.pc \in Places /\ <<f.pc, Top(t).fn>> \in Nests(t)
  <1>1. StackInv /\ HandleInv /\ lock \in LockType /\ Shared(x)
    BY DEF WaitInv, CallInv, SharedInv
  <1>2. Users(x) \in SUBSET Made
    BY DEF Users
  <1>3. Where(Threads, Users(x)) # {}
    <2>1. SUFFICES ASSUME Where(Threads, Users(x)) = {} PROVE FALSE
      OBVIOUS
    <2>2. Cardinality(Where(Threads, Users(x))) = 0
      BY <2>1, FS_EmptySet
    <2>3. lock[x].r \in Nat
      BY <1>1 DEF LockType
    <2>4. QED
      BY <1>1, <2>2, <2>3 DEF Shared
  <1>4. PICK p \in Where(Threads, Users(x)) : TRUE
    BY <1>3
  <1>5. p[1] \in Threads /\ p \in {p[1]} \X Nat /\ p \in Where({p[1]}, Users(x))
    BY <1>4 DEF Where
  <1> DEFINE S == Users(x)
             t == p[1]
  <1>6. Where({t}, S) # {} /\ t \in Threads
    BY <1>5
  <1> HIDE DEF S, t
  <1>7. /\ stack[t] # <<>>
        /\ \/ Top(t) \in S
           \/ \E f \in S : f.pc \in Places /\ <<f.pc, Top(t).fn>> \in Nests(t)
    BY <1>1, <1>6, FrameTop
  <1>8. Top(t) \in Made
    BY <1>1, <1>6, <1>7, TopMade
  <1>9. QED
    BY <1>6, <1>7, <1>8 DEF S

\* When some calls are under way, one of them has what it waits for.
LEMMA SomeReady ==
    ASSUME WaitInv, Busy # {}, ~AtRisk
    PROVE  \E t \in Busy : Ready(t)
  <1>1. SUFFICES ASSUME \A t \in Threads : stack[t] # <<>> => ~Ready(t)
                 PROVE  FALSE
    BY DEF Busy
  <1>2. /\ StackInv /\ lock \in LockType /\ lock["tasks"].w = None /\ lock["cbs"].w = None
        /\ {"dlclose", "cbs", "elfs", "tasks"} \subseteq Locks
        /\ linker.owner \in Threads \cup {None}
    BY DEF WaitInv, CallInv, SharedInv, WriterInv, Locks, OwnerInv
  <1>3. \A x \in Locks : lock[x] \in [w : Threads \cup {None}, r : Nat]
    BY <1>2 DEF LockType
  <1>4. linker.owner = None
    BY <1>1, <1>2, OwnerReady
  <1>5. lock["elfs"] = [w |-> None, r |-> 0]
    <2>1. lock["elfs"].w = None
      BY <1>1, <1>2, <1>3, <1>4, RefreshReady
    <2>2. Users("elfs") = {}
      BY DEF Users, Reads
    <2>3. lock["elfs"].r = 0
      BY <1>2, <2>2, UserThere
    <2>4. QED
      BY <1>2, <1>3, <2>1, <2>3
  <1>6. lock["dlclose"].w = None
    BY <1>1, <1>2, <1>3, <1>4, <1>5, HolderReady
  <1>7. ASSUME NEW t \in Threads
        PROVE  /\ LinkerFree(t) /\ CanRead("tasks", t) /\ CanRead("cbs", t) /\ CanRead("dlclose", t)
               /\ CanRead("elfs", t) /\ CanWrite("elfs", t)
    BY <1>2, <1>4, <1>5, <1>6 DEF LinkerFree, CanRead, CanWrite
  <1>8. ASSUME NEW t \in Threads, stack[t] # <<>>
        PROVE  \/ Top(t).fn = "close" /\ Top(t).pc = "start"
               \/ Top(t).fn \in {"hook", "unhook"} /\ Top(t).pc = "start"
               \/ Top(t).fn \in {"add", "del"}
    BY <1>1, <1>7, <1>8 DEF Ready
  <1>9. ASSUME NEW x \in Locks, lock[x].r # 0
        PROVE  \E t \in Threads : \E f \in Users(x) :
                  /\ stack[t] # <<>> /\ Top(t) \in Made
                  /\ f.pc \in Places /\ <<f.pc, Top(t).fn>> \notin Risky
    <2>1. PICK t \in Threads :
              /\ stack[t] # <<>> /\ Top(t) \in Made
              /\ \/ Top(t) \in Users(x)
                 \/ \E f \in Users(x) : f.pc \in Places /\ <<f.pc, Top(t).fn>> \in Nests(t)
      BY <1>9, UserThere
    <2>2. Top(t) \notin Users(x)
      BY <1>8, <2>1 DEF Users, Reads
    <2>3. PICK f \in Users(x) : f.pc \in Places /\ <<f.pc, Top(t).fn>> \in Nests(t)
      BY <2>1, <2>2
    <2>4. <<f.pc, Top(t).fn>> \notin Risky
      BY <2>1, <2>3 DEF AtRisk, Busy
    <2>5. QED
      BY <2>1, <2>3, <2>4
  <1>10. lock["dlclose"].r = 0 /\ lock["tasks"].r = 0
    <2>1. SUFFICES ASSUME NEW x \in {"dlclose", "tasks"}, lock[x].r # 0
                   PROVE  FALSE
      OBVIOUS
    <2>2. PICK t \in Threads, f \in Users(x) :
              /\ stack[t] # <<>> /\ Top(t) \in Made
              /\ f.pc \in Places /\ <<f.pc, Top(t).fn>> \notin Risky
      BY <1>2, <1>9, <2>1
    <2>3. f.pc = "told"
      BY <2>2 DEF Users, Reads, Places
    <2>4. Top(t).fn \notin {"hook", "unhook", "add", "del", "close"}
      BY <2>2, <2>3 DEF Risky
    <2>5. QED
      BY <1>8, <2>2, <2>4
  <1>11. ASSUME NEW t \in Threads, stack[t] # <<>>
         PROVE  Top(t).fn \in {"add", "del"}
    <2>1. CanWrite("dlclose", t) /\ CanWrite("tasks", t)
      BY <1>2, <1>3, <1>6, <1>10 DEF CanWrite
    <2>2. Top(t) \in Made
      BY <1>2, <1>11, TopMade
    <2>3. QED
      BY <1>1, <1>7, <1>8, <1>11, <2>1, <2>2 DEF Ready
  <1>12. lock["cbs"].r = 0
    <2>1. SUFFICES ASSUME lock["cbs"].r # 0 PROVE FALSE
      OBVIOUS
    <2>2. PICK t \in Threads, f \in Users("cbs") :
              /\ stack[t] # <<>> /\ Top(t) \in Made
              /\ f.pc \in Places /\ <<f.pc, Top(t).fn>> \notin Risky
      BY <1>2, <1>9, <2>1
    <2>3. f.pc \in {"pre", "post"}
      BY <2>2 DEF Users, Reads
    <2>4. Top(t).fn \notin {"add", "del"}
      BY <2>2, <2>3 DEF Risky
    <2>5. QED
      BY <1>11, <2>2, <2>4
  <1>13. PICK t \in Threads : stack[t] # <<>>
    BY DEF Busy
  <1>14. Top(t).fn \in {"add", "del"} /\ CanWrite("cbs", t) /\ Top(t) \in Made
    BY <1>2, <1>3, <1>11, <1>12, <1>13, TopMade DEF CanWrite
  <1>15. Ready(t)
    BY <1>14 DEF Ready, Made
  <1>16. QED
    BY <1>1, <1>13, <1>15

LEMMA WaitsHold == Spec => []WaitInv
  <1>1. Init => WaitInv
    BY WaitInit
  <1>2. WaitInv /\ [Next]_vars => WaitInv'
    BY WaitStep
  <1>3. QED
    BY <1>1, <1>2, PTL DEF Spec

\* While calls of dlopen and dlclose, hooks, unhooks and changes of the callbacks are
\* under way, one of them has all that it waits for, however deep they nest and in as
\* many threads as there are, unless code of others called one of the functions that
\* it must not call where it is.
THEOREM SomeoneReady == Spec => [](Busy # {} /\ ~AtRisk => \E t \in Busy : Ready(t))
  <1>1. WaitInv => (Busy # {} /\ ~AtRisk => \E t \in Busy : Ready(t))
    BY SomeReady
  <1>2. QED
    BY <1>1, WaitsHold, PTL

\* The calls wait for each other in a circle only when they were made in one of those
\* places, if a call that has what it waits for goes on (dlopen and dlclose of
\* bh_dl_monitor.c, with the locks in them).
THEOREM WaitsByRisk == Spec /\ []ReadyGoesOn => []StuckByRisk
  <1>1. WaitInv /\ ReadyGoesOn => StuckByRisk
    <2>1. SUFFICES ASSUME WaitInv, ReadyGoesOn, Stuck, ~AtRisk PROVE FALSE
      BY DEF StuckByRisk
    <2>2. PICK t \in Busy : Ready(t)
      BY <2>1, SomeReady DEF Stuck
    <2>3. QED
      BY <2>1, <2>2 DEF ReadyGoesOn, Stuck, Busy
  <1>2. QED
    BY <1>1, WaitsHold, PTL
=============================================================================
