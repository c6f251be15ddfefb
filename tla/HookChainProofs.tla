-------------------------- MODULE HookChainProofs --------------------------
(***************************************************************************)
(* Proofs about HookChain, for every set of threads, slots, originals,     *)
(* proxies and tasks, every depth of nesting and every number of frames.   *)
(***************************************************************************)
EXTENDS HookChain, SequenceTheorems, WellFoundedInduction, TLAPS

(***************************************************************************)
(* Lemmas about sequences, in the form the actions use them.               *)
(***************************************************************************)

\* Replacing the last element of a sequence changes nothing else.
LEMMA ReplaceLast ==
    ASSUME NEW S, NEW s \in Seq(S), s # <<>>, NEW e \in S
    PROVE  LET r == [s EXCEPT ![Len(s)] = e]
           IN /\ r \in Seq(S)
              /\ r # <<>>
              /\ Len(r) = Len(s)
              /\ r[Len(r)] = e
              /\ \A i \in 1..Len(s) : i # Len(s) => r[i] = s[i]
  <1>1. Len(s) \in 1..Len(s)
    BY EmptySeq, LenProperties
  <1>2. QED
    BY <1>1, ExceptSeq, EmptySeq

\* Dropping the last element of a sequence changes nothing else.
LEMMA FrontOfSeq ==
    ASSUME NEW S, NEW s \in Seq(S), s # <<>>
    PROVE  /\ Front(s) \in Seq(S)
           /\ Len(Front(s)) = Len(s) - 1
           /\ \A i \in 1..(Len(s) - 1) : Front(s)[i] = s[i]
  <1> DEFINE m == Len(s) - 1
  <1>1. Len(s) \in Nat \ {0} /\ m \in Nat
    BY EmptySeq
  <1>2. \A i \in 1..m : s[i] \in S
    BY <1>1, ElementOfSeq
  <1>3. /\ SubSeq(s, 1, m) \in Seq(S)
        /\ Len(SubSeq(s, 1, m)) = m
        /\ \A i \in 1..m : SubSeq(s, 1, m)[i] = s[i]
    <2> HIDE DEF m
    <2>1. 1 \in Int /\ m \in Int
      BY <1>1
    <2>2. /\ SubSeq(s, 1, m) \in Seq(S)
          /\ Len(SubSeq(s, 1, m)) = IF 1 <= m THEN m - 1 + 1 ELSE 0
          /\ \A i \in 1..(m - 1 + 1) : SubSeq(s, 1, m)[i] = s[1 + i - 1]
      BY <2>1, <1>2, SubSeqProperties
    <2>3. m - 1 + 1 = m /\ \A i \in 1..m : 1 + i - 1 = i
      BY <1>1
    <2>4. QED
      BY <1>1, <2>2, <2>3
  <1>4. QED
    BY <1>1, <1>3 DEF Front

\* A non-empty set of node indices has a newest node: of the numbers n - i, for
\* i in the set, one is minimal.
LEMMA NewestNode ==
    ASSUME NEW n \in Nat, NEW S, S \subseteq 1..n, S # {}
    PROVE  /\ Newest(S) \in S
           /\ \A i \in S : i <= Newest(S)
  <1> DEFINE T == {n - i : i \in S}
  <1>1. T \subseteq Nat /\ T # {}
    <2>1. PICK i \in S : TRUE
      OBVIOUS
    <2>2. n - i \in T
      BY <2>1
    <2>3. \A j \in S : n - j \in Nat
      OBVIOUS
    <2>4. QED
      BY <2>2, <2>3
  <1>2. PICK x \in T : \A y \in T : ~ (<<y, x>> \in OpToRel(<, Nat))
    BY <1>1, NatLessThanWellFounded, WFMin
  <1>3. \A y \in T : ~ (y < x)
    BY <1>1, <1>2 DEF OpToRel
  <1>4. PICK i \in S : x = n - i
    BY <1>2
  <1>5. \A j \in S : j <= i
    BY <1>3, <1>4
  <1>6. QED
    BY <1>4, <1>5 DEF Newest

\* A function on 1..n is a sequence of length n.
LEMMA FunctionIsSeq ==
    ASSUME NEW S, NEW n \in Nat, NEW f \in [1..n -> S]
    PROVE  f \in Seq(S) /\ Len(f) = n
  OBVIOUS

-----------------------------------------------------------------------------
(***************************************************************************)
(* What TypeOK says of the parts of the state the actions look at.         *)
(***************************************************************************)

\* The innermost call of a thread, and the thread's stack without it or with
\* another call in its place, have their types.
LEMMA TopTypes ==
    ASSUME TypeOK, NEW t \in Threads, stack[t] # <<>>
    PROVE  /\ Len(stack[t]) \in Nat \ {0}
           /\ DOMAIN stack[t] = 1..Len(stack[t])
           /\ Top(t) \in Call
           /\ WithoutTop(t) \in [Threads -> Seq(Call)]
           /\ \A c \in Call : WithTop(t, c) \in [Threads -> Seq(Call)]
  <1>1. stack[t] \in Seq(Call) /\ stack \in [Threads -> Seq(Call)]
    BY DEF TypeOK
  <1>2. Len(stack[t]) \in Nat \ {0} /\ DOMAIN stack[t] = 1..Len(stack[t])
    BY <1>1, EmptySeq, LenProperties
  <1>3. Top(t) \in Call
    BY <1>1, <1>2, ElementOfSeq DEF Top
  <1>4. Front(stack[t]) \in Seq(Call)
    BY <1>1, FrontOfSeq
  <1>5. \A c \in Call : [stack[t] EXCEPT ![Len(stack[t])] = c] \in Seq(Call)
    BY <1>1, ReplaceLast
  <1>6. QED
    BY <1>1, <1>2, <1>3, <1>4, <1>5 DEF WithTop, WithoutTop

\* The nodes a walk looks at.
LEMMA NodeTypes ==
    ASSUME TypeOK, NEW h \in Hooks
    PROVE  /\ chain[h] \in Seq(Node)
           /\ Len(chain[h]) \in Nat
           /\ DOMAIN chain[h] = 1..Len(chain[h])
           /\ \A i \in 1..Len(chain[h]) :
                /\ chain[h][i] \in Node
                /\ chain[h][i].func \in Funcs
                /\ chain[h][i].task \in Tasks
                /\ chain[h][i].enabled \in BOOLEAN
  <1>1. chain[h] \in Seq(Node)
    BY DEF TypeOK
  <1>2. \A i \in 1..Len(chain[h]) : chain[h][i] \in Node
    BY <1>1, ElementOfSeq
  <1>3. QED
    BY <1>1, <1>2, LenProperties DEF Node

\* The position at which CALL_PREV resumes lies in the list it searched.
LEMMA AfterType ==
    ASSUME NEW h, NEW n \in Nat, NEW f
    PROVE  After(h, n, f) \in Nat /\ After(h, n, f) <= n
  <1> DEFINE at == {i \in 1..n : chain[h][i].func = f}
  <1>1. CASE at = {}
    BY <1>1 DEF After
  <1>2. CASE at # {}
    <2>1. Newest(at) \in 1..n
      <3> at \subseteq 1..n
        OBVIOUS
      <3> HIDE DEF at
      <3> QED
        BY <1>2, NewestNode
    <2>2. QED
      BY <1>2, <2>1 DEF After
  <1>3. QED
    BY <1>1, <1>2

\* The bytehook stack of a thread, its top, and what a pop leaves of it.
LEMMA FrameTypes ==
    ASSUME TypeOK, NEW t \in Threads
    PROVE  /\ frames[t] \in Seq(Frame)
           /\ Len(frames[t]) \in Nat
           /\ DOMAIN frames[t] = 1..Len(frames[t])
           /\ frames[t] # <<>> => /\ Len(frames[t]) # 0
                                  /\ Cur(t) \in Frame
                                  /\ Front(frames[t]) \in Seq(Frame)
           /\ PopStack(t) \in Seq(Frame)
  <1>1. frames[t] \in Seq(Frame)
    BY DEF TypeOK
  <1>2. Len(frames[t]) \in Nat /\ DOMAIN frames[t] = 1..Len(frames[t])
    BY <1>1, LenProperties
  <1>3. ASSUME frames[t] # <<>>
        PROVE  Len(frames[t]) # 0 /\ Cur(t) \in Frame /\ Front(frames[t]) \in Seq(Frame)
    <2>1. Len(frames[t]) \in 1..Len(frames[t])
      BY <1>1, <1>3, EmptySeq
    <2>2. QED
      BY <1>1, <1>3, <2>1, ElementOfSeq, FrontOfSeq DEF Cur
  <1>4. QED
    BY <1>1, <1>2, <1>3 DEF PopStack

-----------------------------------------------------------------------------
(***************************************************************************)
(* The calls and the frames of one thread.                                 *)
(*                                                                         *)
(* TypeOK is not inductive: a proxy is looked up in the list that the      *)
(* frame on top of the bytehook stack names, so its type depends on that   *)
(* frame being the one the call pushed.  ThreadOK says so of the lists ch, *)
(* a bytehook stack fr and the calls st of its thread.                     *)
(***************************************************************************)

\* What the mode of a call says of its active proxies and of its frame.
ModeShape(c) ==
    /\ c.mode \in {"scan", "bypass"} => c.fs = <<>> /\ c.frame = 0
    /\ c.mode = "push" => c.fs # <<>> /\ c.frame = 0
    /\ c.mode \in {"run", "prev", "after"} => c.fs # <<>> /\ c.frame > 0
    /\ c.mode = "orig" => (c.fs = <<>> <=> c.frame = 0)

CallOK(ch, fr, c) ==
    /\ c \in Call
    /\ c.idx <= Len(ch[c.hook])
    /\ ch[c.hook] # <<>>
    /\ c.ret[1] = "call"
    /\ ModeShape(c)
    /\ c.frame > 0 =>
          /\ c.frame \in 1..Len(fr)
          /\ fr[c.frame].hook = c.hook
          /\ fr[c.frame].orig = OrigOf[c.hook]
          /\ fr[c.frame].ret = c.ret
          /\ fr[c.frame].head \in 1..Len(ch[c.hook])

ThreadOK(ch, fr, st) ==
    /\ fr \in Seq(Frame)
    /\ st \in Seq(Call)
    /\ \A i \in 1..Len(st) : CallOK(ch, fr, st[i])
    /\ \A k \in 1..Len(fr) : \E i \in 1..Len(st) : st[i].frame = k
    /\ \A i, j \in 1..Len(st) :
          i < j /\ st[i].frame > 0 /\ st[j].frame > 0 => st[i].frame < st[j].frame

\* A framed call on top owns the frame on top.
LEMMA TopFrame ==
    ASSUME NEW ch, NEW fr, NEW st, ThreadOK(ch, fr, st), st # <<>>, st[Len(st)].frame > 0
    PROVE  /\ st[Len(st)].frame = Len(fr)
           /\ fr # <<>>
           /\ Len(fr) \in Nat \ {0}
  <1>1. Len(st) \in 1..Len(st) /\ Len(st) \in Nat
    BY EmptySeq, LenProperties DEF ThreadOK
  <1>2. st[Len(st)].frame \in 1..Len(fr) /\ Len(fr) \in Nat
    BY <1>1, LenProperties DEF ThreadOK, CallOK
  <1>3. PICK i \in 1..Len(st) : st[i].frame = Len(fr)
    BY <1>2 DEF ThreadOK
  <1>4. CASE i = Len(st)
    BY <1>2, <1>3, <1>4, EmptySeq
  <1>5. CASE i < Len(st)
    <2>1. st[i].frame > 0
      BY <1>2, <1>3
    <2>2. st[i].frame < st[Len(st)].frame
      BY <1>1, <1>5, <2>1 DEF ThreadOK
    <2>3. QED
      BY <1>2, <1>3, <2>2
  <1>6. QED
    BY <1>1, <1>4, <1>5

\* The innermost call goes on, with the frame it has or without one.
LEMMA CallGoesOn ==
    ASSUME NEW ch, NEW fr, NEW st, ThreadOK(ch, fr, st), st # <<>>,
           NEW c, CallOK(ch, fr, c), c.frame = st[Len(st)].frame
    PROVE  ThreadOK(ch, fr, [st EXCEPT ![Len(st)] = c])
  <1> DEFINE r == [st EXCEPT ![Len(st)] = c]
  <1>1. c \in Call /\ st \in Seq(Call) /\ fr \in Seq(Frame)
    BY DEF CallOK, ThreadOK
  <1>2. /\ r \in Seq(Call)
        /\ Len(r) = Len(st)
        /\ r[Len(st)] = c
        /\ \A i \in 1..Len(st) : i # Len(st) => r[i] = st[i]
    BY <1>1, ReplaceLast
  <1> HIDE DEF r
  <1>3. \A i \in 1..Len(r) : CallOK(ch, fr, r[i])
    BY <1>2 DEF ThreadOK
  <1>4. \A i \in 1..Len(st) : r[i].frame = st[i].frame
    BY <1>2
  <1>5. ThreadOK(ch, fr, r)
    BY <1>1, <1>2, <1>3, <1>4 DEF ThreadOK
  <1>6. QED
    BY <1>5 DEF r

\* A call begins.
LEMMA CallBegins ==
    ASSUME NEW ch, NEW fr, NEW st, ThreadOK(ch, fr, st), NEW c, CallOK(ch, fr, c), c.frame = 0
    PROVE  ThreadOK(ch, fr, Append(st, c))
  <1> DEFINE r == Append(st, c)
  <1>1. c \in Call /\ st \in Seq(Call) /\ fr \in Seq(Frame)
    BY DEF CallOK, ThreadOK
  <1>2. /\ r \in Seq(Call)
        /\ Len(st) \in Nat
        /\ Len(r) = Len(st) + 1
        /\ r[Len(st) + 1] = c
        /\ \A i \in 1..Len(st) : r[i] = st[i]
    BY <1>1, AppendProperties, LenProperties
  <1> HIDE DEF r
  <1>3. \A i \in 1..Len(r) : i \in 1..Len(st) \/ i = Len(st) + 1
    BY <1>2
  <1>4. \A i \in 1..Len(r) : CallOK(ch, fr, r[i])
    BY <1>2, <1>3 DEF ThreadOK
  <1>5. \A k \in 1..Len(fr) : \E i \in 1..Len(r) : r[i].frame = k
    <2>1. TAKE k \in 1..Len(fr)
    <2>2. PICK i \in 1..Len(st) : st[i].frame = k
      BY DEF ThreadOK
    <2>3. QED
      BY <1>2, <2>2
  <1>6. \A i, j \in 1..Len(r) :
            i < j /\ r[i].frame > 0 /\ r[j].frame > 0 => r[i].frame < r[j].frame
    <2>1. TAKE i, j \in 1..Len(r)
    <2>2. HAVE i < j /\ r[i].frame > 0 /\ r[j].frame > 0
    <2>3. i \in 1..Len(st) /\ j \in 1..Len(st)
      <3>1. ~(c.frame > 0)
        OBVIOUS
      <3>2. j # Len(st) + 1
        BY <1>2, <2>2, <3>1
      <3>3. QED
        BY <1>2, <1>3, <2>2, <3>2
    <2>4. r[i] = st[i] /\ r[j] = st[j]
      BY <1>2, <2>3
    <2>5. QED
      BY <2>2, <2>3, <2>4 DEF ThreadOK
  <1>7. ThreadOK(ch, fr, r)
    BY <1>1, <1>2, <1>4, <1>5, <1>6 DEF ThreadOK
  <1>8. QED
    BY <1>7 DEF r

\* The lists and the calls change, but no call gets or loses a frame.
LEMMA SameFrames ==
    ASSUME NEW ch, NEW dh, NEW fr, NEW st, NEW su, ThreadOK(ch, fr, st),
           su \in Seq(Call), Len(su) = Len(st),
           \A i \in 1..Len(st) : su[i].frame = st[i].frame,
           \A i \in 1..Len(su) : CallOK(dh, fr, su[i])
    PROVE  ThreadOK(dh, fr, su)
  <1>1. \A k \in 1..Len(fr) : \E i \in 1..Len(su) : su[i].frame = k
    <2>1. TAKE k \in 1..Len(fr)
    <2>2. PICK i \in 1..Len(st) : st[i].frame = k
      BY DEF ThreadOK
    <2>3. QED
      BY <2>2
  <1>2. QED
    BY <1>1 DEF ThreadOK

\* The innermost call pushes a frame.
LEMMA CallPushes ==
    ASSUME NEW ch, NEW fr, NEW st, ThreadOK(ch, fr, st), st # <<>>, st[Len(st)].frame = 0,
           NEW f \in Frame, NEW c, CallOK(ch, Append(fr, f), c), c.frame = Len(fr) + 1
    PROVE  ThreadOK(ch, Append(fr, f), [st EXCEPT ![Len(st)] = c])
  <1> DEFINE r == [st EXCEPT ![Len(st)] = c]
  <1> DEFINE g == Append(fr, f)
  <1>1. c \in Call /\ st \in Seq(Call) /\ fr \in Seq(Frame)
    BY DEF CallOK, ThreadOK
  <1>2. /\ r \in Seq(Call)
        /\ Len(r) = Len(st)
        /\ Len(st) \in Nat \ {0}
        /\ r[Len(st)] = c
        /\ \A i \in 1..Len(st) : i # Len(st) => r[i] = st[i]
    BY <1>1, ReplaceLast, EmptySeq
  <1>3. /\ g \in Seq(Frame)
        /\ Len(fr) \in Nat
        /\ Len(g) = Len(fr) + 1
        /\ \A i \in 1..Len(fr) : g[i] = fr[i]
    BY <1>1, AppendProperties, LenProperties
  <1>0. CallOK(ch, g, c)
    OBVIOUS
  <1> HIDE DEF r, g
  <1>4. \A i \in 1..Len(st) : st[i].frame > 0 => st[i].frame \in 1..Len(fr)
    BY DEF ThreadOK, CallOK
  <1>5. \A i \in 1..Len(st) : i # Len(st) => CallOK(ch, g, st[i])
    <2>1. TAKE i \in 1..Len(st)
    <2>2. CallOK(ch, fr, st[i])
      BY DEF ThreadOK
    <2>3. QED
      BY <1>3, <2>2 DEF CallOK
  <1>6. \A i \in 1..Len(r) : CallOK(ch, g, r[i])
    BY <1>0, <1>2, <1>5
  <1>7. \A k \in 1..Len(g) : \E i \in 1..Len(r) : r[i].frame = k
    <2>1. TAKE k \in 1..Len(g)
    <2>2. CASE k = Len(fr) + 1
      BY <1>2, <2>2
    <2>3. CASE k \in 1..Len(fr)
      <3>1. PICK i \in 1..Len(st) : st[i].frame = k
        BY <2>3 DEF ThreadOK
      <3>2. i # Len(st)
        BY <2>3, <3>1
      <3>3. QED
        BY <1>2, <3>1, <3>2
    <2>4. QED
      BY <1>3, <2>2, <2>3
  <1>8. \A i, j \in 1..Len(r) :
            i < j /\ r[i].frame > 0 /\ r[j].frame > 0 => r[i].frame < r[j].frame
    <2>1. TAKE i, j \in 1..Len(r)
    <2>2. HAVE i < j /\ r[i].frame > 0 /\ r[j].frame > 0
    <2>3. i # Len(st) /\ i \in 1..Len(st) /\ r[i] = st[i]
      BY <1>2, <2>2
    <2>4. CASE j = Len(st)
      BY <1>2, <1>3, <1>4, <2>2, <2>3, <2>4
    <2>5. CASE j # Len(st)
      <3>1. r[j] = st[j] /\ j \in 1..Len(st)
        BY <1>2, <2>5
      <3>2. QED
        BY <2>2, <2>3, <3>1 DEF ThreadOK
    <2>6. QED
      BY <2>4, <2>5
  <1>9. ThreadOK(ch, g, r)
    BY <1>2, <1>3, <1>6, <1>7, <1>8 DEF ThreadOK
  <1>10. QED
    BY <1>9 DEF r, g

\* The innermost call returns: it takes its frame with it, if it has one.
LEMMA CallReturns ==
    ASSUME NEW ch, NEW fr, NEW st, ThreadOK(ch, fr, st), st # <<>>
    PROVE  /\ st[Len(st)].frame = 0 => ThreadOK(ch, fr, Front(st))
           /\ st[Len(st)].frame > 0 => ThreadOK(ch, Front(fr), Front(st))
  <1> DEFINE r == Front(st)
  <1> DEFINE g == Front(fr)
  <1>1. st \in Seq(Call) /\ fr \in Seq(Frame)
    BY DEF ThreadOK
  <1>2. /\ r \in Seq(Call)
        /\ Len(st) \in Nat \ {0}
        /\ Len(r) = Len(st) - 1
        /\ \A i \in 1..(Len(st) - 1) : r[i] = st[i]
    BY <1>1, FrontOfSeq, EmptySeq
  <1> HIDE DEF r
  <1>3. \A i \in 1..Len(r) : i \in 1..Len(st) /\ i < Len(st) /\ r[i] = st[i]
    BY <1>2
  <1>4. Len(st) \in 1..Len(st)
    BY <1>2
  <1>5. \A i, j \in 1..Len(r) :
            i < j /\ r[i].frame > 0 /\ r[j].frame > 0 => r[i].frame < r[j].frame
    BY <1>3 DEF ThreadOK
  <1>6. ASSUME st[Len(st)].frame = 0
        PROVE  ThreadOK(ch, fr, r)
    <2>1. \A i \in 1..Len(r) : CallOK(ch, fr, r[i])
      BY <1>3 DEF ThreadOK
    <2>2. \A k \in 1..Len(fr) : \E i \in 1..Len(r) : r[i].frame = k
      <3>1. TAKE k \in 1..Len(fr)
      <3>2. PICK i \in 1..Len(st) : st[i].frame = k
        BY DEF ThreadOK
      <3>3. i # Len(st)
        BY <1>6, <3>2
      <3>4. i \in 1..Len(r) /\ r[i] = st[i]
        BY <1>2, <3>3
      <3>5. QED
        BY <3>2, <3>4
    <2>3. QED
      BY <1>1, <1>2, <1>5, <2>1, <2>2 DEF ThreadOK
  <1>7. ASSUME st[Len(st)].frame > 0
        PROVE  ThreadOK(ch, g, r)
    <2>1. st[Len(st)].frame = Len(fr) /\ fr # <<>> /\ Len(fr) \in Nat \ {0}
      BY <1>7, TopFrame
    <2>2. /\ g \in Seq(Frame)
          /\ Len(g) = Len(fr) - 1
          /\ \A i \in 1..(Len(fr) - 1) : g[i] = fr[i]
      BY <1>1, <2>1, FrontOfSeq
    <2> HIDE DEF g
    <2>3. \A i \in 1..Len(r) : r[i].frame > 0 => r[i].frame \in 1..(Len(fr) - 1)
      <3>1. TAKE i \in 1..Len(r)
      <3>2. HAVE r[i].frame > 0
      <3>3. r[i] = st[i] /\ i \in 1..Len(st) /\ i < Len(st)
        BY <1>3
      <3>4. r[i].frame < Len(fr)
        BY <1>4, <1>7, <2>1, <3>2, <3>3 DEF ThreadOK
      <3>5. r[i].frame \in 1..Len(fr)
        BY <3>2, <3>3 DEF ThreadOK, CallOK
      <3>6. QED
        BY <2>1, <3>4, <3>5
    <2>4. \A i \in 1..Len(r) : CallOK(ch, g, r[i])
      <3>1. TAKE i \in 1..Len(r)
      <3>2. CallOK(ch, fr, r[i])
        BY <1>3 DEF ThreadOK
      <3>3. r[i].frame > 0 => r[i].frame \in 1..Len(g) /\ g[r[i].frame] = fr[r[i].frame]
        BY <2>2, <2>3
      <3>4. QED
        BY <3>2, <3>3 DEF CallOK
    <2>5. \A k \in 1..Len(g) : \E i \in 1..Len(r) : r[i].frame = k
      <3>1. TAKE k \in 1..Len(g)
      <3>2. k \in 1..Len(fr) /\ k < Len(fr)
        BY <2>1, <2>2
      <3>3. PICK i \in 1..Len(st) : st[i].frame = k
        BY <3>2 DEF ThreadOK
      <3>4. i # Len(st)
        BY <2>1, <3>2, <3>3
      <3>5. i \in 1..Len(r) /\ r[i] = st[i]
        BY <1>2, <3>4
      <3>6. QED
        BY <3>3, <3>5
    <2>6. QED
      BY <1>2, <1>5, <2>2, <2>4, <2>5 DEF ThreadOK
  <1>8. QED
    BY <1>6, <1>7 DEF r

-----------------------------------------------------------------------------
(***************************************************************************)
(* Every action keeps the types and the calls of every thread in order.    *)
(***************************************************************************)

CallInv == TypeOK /\ \A t \in Threads : ThreadOK(chain, frames[t], stack[t])

\* A step of one thread that leaves its own calls in order.
LEMMA OneThread ==
    ASSUME CallInv, NEW t \in Threads, UNCHANGED <<chain, task>>,
           tls' \in [Threads -> BOOLEAN],
           frames' \in [Threads -> Seq(Frame)],
           stack' \in [Threads -> Seq(Call)],
           \A u \in Threads \ {t} : frames'[u] = frames[u] /\ stack'[u] = stack[u],
           ThreadOK(chain, frames'[t], stack'[t])
    PROVE  CallInv'
  <1>1. TypeOK'
    BY DEF CallInv, TypeOK
  <1>2. \A u \in Threads : ThreadOK(chain', frames'[u], stack'[u])
    BY DEF CallInv
  <1>3. QED
    BY <1>1, <1>2 DEF CallInv

\* A step that takes the innermost call of a thread on, its frames unchanged.
LEMMA GoesOn ==
    ASSUME CallInv, NEW t \in Threads, stack[t] # <<>>,
           UNCHANGED <<chain, task, tls, frames>>,
           NEW c, CallOK(chain, frames[t], c), c.frame = Top(t).frame,
           stack' = WithTop(t, c)
    PROVE  CallInv'
  <1>1. TypeOK /\ ThreadOK(chain, frames[t], stack[t])
    BY DEF CallInv
  <1>2. c \in Call
    BY DEF CallOK
  <1>3. stack' \in [Threads -> Seq(Call)]
    BY <1>1, <1>2, TopTypes
  <1>4. stack'[t] = [stack[t] EXCEPT ![Len(stack[t])] = c]
    BY <1>1 DEF WithTop, TypeOK
  <1>5. ThreadOK(chain, frames[t], stack'[t])
    BY <1>1, <1>4, CallGoesOn DEF Top
  <1>6. \A u \in Threads \ {t} : stack'[u] = stack[u]
    BY <1>1 DEF WithTop, TypeOK
  <1>7. tls' \in [Threads -> BOOLEAN] /\ frames' \in [Threads -> Seq(Frame)]
    BY <1>1 DEF TypeOK
  <1>8. QED
    BY <1>3, <1>5, <1>6, <1>7, OneThread

\* A step that begins a call.
LEMMA Begins ==
    ASSUME CallInv, NEW t \in Threads, NEW h \in Hooks, NEW m \in {"scan", "bypass"},
           MayCall(t, h), UNCHANGED <<chain, task, frames>>,
           tls' \in [Threads -> BOOLEAN],
           stack' = [stack EXCEPT ![t] = Append(@, NewCall(t, h, m))]
    PROVE  CallInv'
  <1>1. TypeOK /\ ThreadOK(chain, frames[t], stack[t])
    BY DEF CallInv
  <1> DEFINE c == NewCall(t, h, m)
  <1>2. Caller(t) \in Funcs \cup Origs \cup {App}
    <2>1. CASE stack[t] = <<>>
      BY <2>1 DEF Caller
    <2>2. CASE stack[t] # <<>> /\ ~(Top(t).mode \in {"run", "after"})
      BY <1>1, <2>2, TopTypes, OrigOfType DEF Caller, Call
    <2>3. CASE stack[t] # <<>> /\ Top(t).mode \in {"run", "after"}
      <3>0. Len(stack[t]) \in 1..Len(stack[t])
        BY <1>1, <2>3, TopTypes
      <3>1. CallOK(chain, frames[t], Top(t))
        BY <1>1, <3>0 DEF ThreadOK, Top
      <3>2. Top(t).fs \in Seq(Funcs) /\ Top(t).fs # <<>>
        BY <2>3, <3>1 DEF CallOK, ModeShape, Call
      <3>3. Len(Top(t).fs) \in 1..Len(Top(t).fs)
        BY <3>2, EmptySeq
      <3>4. Proxy(t) \in Funcs
        BY <3>2, <3>3, ElementOfSeq DEF Proxy
      <3>5. QED
        BY <2>3, <3>4 DEF Caller
    <2>4. QED
      BY <2>1, <2>2, <2>3
  <1>3. <<>> \in Seq(Funcs) /\ EnabledFuncs(h) \in SUBSET Funcs
    BY EmptySeq DEF EnabledFuncs
  <1>4. c \in Call
    BY <1>1, <1>2, <1>3, NodeTypes DEF NewCall, Call, Site, Mode
  <1>5. CallOK(chain, frames[t], c) /\ c.frame = 0
    BY <1>1, <1>4, NodeTypes DEF CallOK, NewCall, ModeShape, MayCall
  <1> HIDE DEF c
  <1>6. ThreadOK(chain, frames[t], Append(stack[t], c))
    BY <1>1, <1>5, CallBegins
  <1>7. stack'[t] = Append(stack[t], c) /\ \A u \in Threads \ {t} : stack'[u] = stack[u]
    BY <1>1 DEF TypeOK, c
  <1>8. stack' \in [Threads -> Seq(Call)] /\ frames' \in [Threads -> Seq(Frame)]
    BY <1>1, <1>4, AppendProperties DEF TypeOK, c
  <1>9. QED
    BY <1>6, <1>7, <1>8, OneThread

\* A step of a task: lists only grow, and of a call only 'due' may change.
LEMMA WriterStep ==
    ASSUME CallInv, UNCHANGED <<tls, frames>>,
           task' \in [Tasks -> {"new", "live", "unhooking", "dead"}],
           chain' \in [Hooks -> Seq(Node)],
           \A h \in Hooks : Len(chain[h]) <= Len(chain'[h]),
           stack' \in [Threads -> Seq(Call)],
           \A t \in Threads :
              /\ Len(stack'[t]) = Len(stack[t])
              /\ \A i \in 1..Len(stack[t]) :
                    LET c == stack[t][i]
                        d == stack'[t][i]
                    IN /\ d.hook = c.hook /\ d.ret = c.ret /\ d.mode = c.mode
                       /\ d.idx = c.idx /\ d.fs = c.fs /\ d.frame = c.frame
    PROVE  CallInv'
  <1>1. TypeOK'
    BY DEF CallInv, TypeOK
  <1>2. \A h \in Hooks : /\ Len(chain[h]) \in Nat /\ Len(chain'[h]) \in Nat
                         /\ chain[h] # <<>> => chain'[h] # <<>>
    BY LenProperties, EmptySeq DEF CallInv, TypeOK
  <1>3. ASSUME NEW t \in Threads
        PROVE  ThreadOK(chain', frames[t], stack'[t])
    <2>1. ThreadOK(chain, frames[t], stack[t])
      BY DEF CallInv
    <2>2. /\ stack'[t] \in Seq(Call)
          /\ Len(stack'[t]) = Len(stack[t])
          /\ \A i \in 1..Len(stack[t]) :
                LET c == stack[t][i]
                    d == stack'[t][i]
                IN /\ d \in Call
                   /\ d.hook = c.hook /\ d.ret = c.ret /\ d.mode = c.mode
                   /\ d.idx = c.idx /\ d.fs = c.fs /\ d.frame = c.frame
      BY ElementOfSeq
    <2>3. ASSUME NEW c \in Call, NEW d \in Call, CallOK(chain, frames[t], c),
                 d.hook = c.hook, d.ret = c.ret, d.mode = c.mode,
                 d.idx = c.idx, d.fs = c.fs, d.frame = c.frame
          PROVE  CallOK(chain', frames[t], d)
      <3>1. c.hook \in Hooks /\ c.idx \in Nat
        BY DEF Call
      <3>2. ModeShape(d)
        BY <2>3 DEF CallOK, ModeShape
      <3>3. d.idx <= Len(chain'[d.hook])
        BY <1>2, <2>3, <3>1 DEF CallOK
      <3>4. chain'[d.hook] # <<>> /\ d.ret[1] = "call"
        BY <1>2, <2>3, <3>1 DEF CallOK
      <3>5. ASSUME d.frame > 0
            PROVE  /\ d.frame \in 1..Len(frames[t])
                   /\ frames[t][d.frame].hook = d.hook
                   /\ frames[t][d.frame].orig = OrigOf[d.hook]
                   /\ frames[t][d.frame].ret = d.ret
                   /\ frames[t][d.frame].head \in 1..Len(chain'[d.hook])
        BY <1>2, <2>3, <3>1, <3>5 DEF CallOK
      <3>6. QED
        BY <3>2, <3>3, <3>4, <3>5 DEF CallOK
    <2>4. \A i \in 1..Len(stack'[t]) : CallOK(chain', frames[t], stack'[t][i])
      <3>1. TAKE i \in 1..Len(stack'[t])
      <3>2. CallOK(chain, frames[t], stack[t][i])
        BY <2>1, <2>2 DEF ThreadOK
      <3>3. stack[t][i] \in Call
        BY <3>2 DEF CallOK
      <3>4. QED
        BY ZenonT(60), <2>2, <2>3, <3>2, <3>3
    <2>5. \A i \in 1..Len(stack[t]) : stack'[t][i].frame = stack[t][i].frame
      BY <2>2
    <2>6. QED
      BY <2>1, <2>2, <2>4, <2>5, SameFrames
  <1>4. QED
    BY <1>1, <1>3 DEF CallInv

\* The innermost call of a thread, as every action of the thread uses it.
LEMMA TopOK ==
    ASSUME CallInv, NEW t \in Threads, stack[t] # <<>>
    PROVE  /\ TypeOK
           /\ ThreadOK(chain, frames[t], stack[t])
           /\ CallOK(chain, frames[t], Top(t))
           /\ Top(t) \in Call
           /\ Top(t).hook \in Hooks
           /\ Top(t).idx \in Nat
           /\ Top(t).fs \in Seq(Funcs)
           /\ Top(t).idx <= Len(chain[Top(t).hook])
           /\ Top(t).frame \in Nat
           /\ Top(t).due \in SUBSET Funcs
  <1>1. TypeOK /\ ThreadOK(chain, frames[t], stack[t])
    BY DEF CallInv
  <1>2. Len(stack[t]) \in 1..Len(stack[t])
    BY <1>1, TopTypes
  <1>3. CallOK(chain, frames[t], Top(t))
    BY <1>1, <1>2 DEF ThreadOK, Top
  <1>4. QED
    BY <1>1, <1>3 DEF CallOK, Call

\* A call with a frame finds its own frame on top of the bytehook stack.
LEMMA CurOfTop ==
    ASSUME CallInv, NEW t \in Threads, stack[t] # <<>>, Top(t).frame > 0
    PROVE  /\ Top(t).frame = Len(frames[t])
           /\ frames[t] # <<>>
           /\ Cur(t).hook = Top(t).hook
           /\ Cur(t).ret = Top(t).ret
           /\ Cur(t).head \in 1..Len(chain[Top(t).hook])
  <1>1. Top(t).frame = Len(frames[t]) /\ frames[t] # <<>>
    BY TopOK, TopFrame DEF Top
  <1>2. QED
    BY <1>1, TopOK DEF CallOK, Cur

\* A call begins, walking the chain or bypassing it.
LEMMA EnterKeeps ==
    ASSUME CallInv, NEW t \in Threads, NEW h \in Hooks, Enter(t, h) \/ EnterNoStack(t, h)
    PROVE  CallInv'
  <1>1. tls \in [Threads -> BOOLEAN]
    BY DEF CallInv, TypeOK
  <1>2. CASE Enter(t, h) /\ Recursive(t, h)
    BY <1>1, <1>2, Begins DEF Enter
  <1>3. CASE Enter(t, h) /\ ~Recursive(t, h)
    BY <1>1, <1>3, Begins DEF Enter
  <1>4. CASE EnterNoStack(t, h)
    BY <1>1, <1>4, Begins DEF EnterNoStack
  <1>5. QED
    BY <1>2, <1>3, <1>4

\* push_stack finds an enabled proxy.
LEMMA ScanHitKeeps ==
    ASSUME CallInv, NEW t \in Threads, ScanHit(t)
    PROVE  CallInv'
  <1> DEFINE c == Top(t)
  <1> DEFINE f == chain[c.hook][c.idx].func
  <1> DEFINE d == [c EXCEPT !.mode = "push", !.fs = <<f>>]
  <1>1. /\ stack[t] # <<>> /\ c.mode = "scan" /\ c.idx > 0
        /\ stack' = WithTop(t, d) /\ UNCHANGED <<chain, task, tls, frames>>
    BY DEF ScanHit, InCall
  <1>2. CallOK(chain, frames[t], c) /\ c \in Call
    BY <1>1, TopOK
  <1>3. f \in Funcs
    BY <1>1, TopOK, NodeTypes
  <1>4. <<f>> \in Seq(Funcs) /\ <<f>> # <<>>
    BY <1>3, EmptySeq
  <1>5. c.frame = 0
    BY <1>1, <1>2 DEF CallOK, ModeShape
  <1>6. /\ d \in Call /\ d.hook = c.hook /\ d.ret = c.ret /\ d.mode = "push" /\ d.idx = c.idx
        /\ d.fs = <<f>> /\ d.frame = 0
    BY <1>2, <1>4, <1>5 DEF Call, Mode
  <1>7. CallOK(chain, frames[t], d)
    BY <1>2, <1>4, <1>6 DEF CallOK, ModeShape
  <1> HIDE DEF d
  <1>8. QED
    BY <1>1, <1>5, <1>6, <1>7, GoesOn

\* push_stack has no room for a frame.
LEMMA PushFullKeeps ==
    ASSUME CallInv, NEW t \in Threads, PushFull(t)
    PROVE  CallInv'
  <1> DEFINE c == Top(t)
  <1> DEFINE d == [c EXCEPT !.mode = "bypass", !.fs = <<>>]
  <1>1. /\ stack[t] # <<>> /\ c.mode = "push"
        /\ stack' = WithTop(t, d) /\ UNCHANGED <<chain, task, tls, frames>>
    BY DEF PushFull, InCall
  <1>2. CallOK(chain, frames[t], c) /\ c \in Call
    BY <1>1, TopOK
  <1>3. c.frame = 0
    BY <1>1, <1>2 DEF CallOK, ModeShape
  <1>4. /\ d \in Call /\ d.hook = c.hook /\ d.ret = c.ret /\ d.mode = "bypass" /\ d.idx = c.idx
        /\ d.fs = <<>> /\ d.frame = 0
    BY <1>2, <1>3, EmptySeq DEF Call, Mode
  <1>5. CallOK(chain, frames[t], d)
    BY <1>2, <1>4 DEF CallOK, ModeShape
  <1> HIDE DEF d
  <1>6. QED
    BY <1>1, <1>3, <1>4, <1>5, GoesOn

\* get_prev_func resumes in the list of the call that asks.
LEMMA CallPrevKeeps ==
    ASSUME CallInv, NEW t \in Threads, CallPrev(t)
    PROVE  CallInv'
  <1> DEFINE c == Top(t)
  <1> DEFINE n == After(Cur(t).hook, Cur(t).head, Proxy(t))
  <1> DEFINE d == [c EXCEPT !.mode = "prev", !.idx = n]
  <1>1. /\ stack[t] # <<>> /\ c.mode = "run"
        /\ stack' = WithTop(t, d) /\ UNCHANGED <<chain, task, tls, frames>>
    BY DEF CallPrev, InCall
  <1>2. CallOK(chain, frames[t], c) /\ c \in Call /\ c.hook \in Hooks
    BY <1>1, TopOK
  <1>3. c.frame > 0 /\ c.fs # <<>>
    BY <1>1, <1>2 DEF CallOK, ModeShape
  <1>4. Cur(t).hook = c.hook /\ Cur(t).head \in 1..Len(chain[c.hook])
    BY <1>1, <1>3, CurOfTop
  <1>5. n \in Nat /\ n <= Len(chain[c.hook])
    <2>1. Len(chain[c.hook]) \in Nat
      BY <1>1, <1>2, TopOK, NodeTypes
    <2>2. Cur(t).head \in Nat /\ Cur(t).head <= Len(chain[c.hook])
      BY <1>4, <2>1
    <2>3. n \in Nat /\ n <= Cur(t).head
      BY <2>2, AfterType
    <2>4. QED
      BY <2>1, <2>2, <2>3
  <1> HIDE DEF n
  <1>6. /\ d \in Call /\ d.hook = c.hook /\ d.ret = c.ret /\ d.mode = "prev" /\ d.idx = n
        /\ d.fs = c.fs /\ d.frame = c.frame
    BY <1>2, <1>5 DEF Call, Mode
  <1>7. CallOK(chain, frames[t], d)
    BY <1>2, <1>3, <1>5, <1>6 DEF CallOK, ModeShape
  <1> HIDE DEF d
  <1>8. QED
    BY <1>1, <1>6, <1>7, GoesOn

\* get_prev_func finds an enabled proxy.
LEMMA PrevHitKeeps ==
    ASSUME CallInv, NEW t \in Threads, PrevHit(t)
    PROVE  CallInv'
  <1> DEFINE c == Top(t)
  <1> DEFINE f == chain[Cur(t).hook][c.idx].func
  <1> DEFINE d == [c EXCEPT !.mode = "run", !.fs = Append(@, f)]
  <1>1. /\ stack[t] # <<>> /\ c.mode = "prev" /\ c.idx > 0
        /\ stack' = WithTop(t, d) /\ UNCHANGED <<chain, task, tls, frames>>
    BY DEF PrevHit, InCall
  <1>2. CallOK(chain, frames[t], c) /\ c \in Call /\ c.hook \in Hooks /\ c.fs \in Seq(Funcs)
    BY <1>1, TopOK
  <1>3. c.frame > 0
    BY <1>1, <1>2 DEF CallOK, ModeShape
  <1>4. Cur(t).hook = c.hook
    BY <1>1, <1>3, CurOfTop
  <1>5. f \in Funcs
    BY <1>1, <1>4, TopOK, NodeTypes
  <1> HIDE DEF f
  <1>6. Append(c.fs, f) \in Seq(Funcs) /\ Append(c.fs, f) # <<>>
    BY <1>2, <1>5, AppendProperties
  <1>7. /\ d \in Call /\ d.hook = c.hook /\ d.ret = c.ret /\ d.mode = "run" /\ d.idx = c.idx
        /\ d.fs = Append(c.fs, f) /\ d.frame = c.frame
    BY <1>2, <1>6 DEF Call, Mode
  <1>8. CallOK(chain, frames[t], d)
    BY <1>2, <1>3, <1>6, <1>7 DEF CallOK, ModeShape
  <1>9. stack' = WithTop(t, d)
    BY <1>1 DEF f
  <1> HIDE DEF d
  <1>10. QED
    BY <1>1, <1>7, <1>8, <1>9, GoesOn

\* A walk passes a disabled node.
LEMMA SkipKeeps ==
    ASSUME CallInv, NEW t \in Threads, Skip(t)
    PROVE  CallInv'
  <1> DEFINE c == Top(t)
  <1> DEFINE d == [c EXCEPT !.idx = @ - 1]
  <1>1. /\ stack[t] # <<>> /\ c.mode \in {"scan", "prev"} /\ c.idx > 0
        /\ stack' = WithTop(t, d) /\ UNCHANGED <<chain, task, tls, frames>>
    BY DEF Skip, InCall
  <1>2. CallOK(chain, frames[t], c) /\ c \in Call /\ c.idx \in Nat /\ c.hook \in Hooks
    BY <1>1, TopOK
  <1>3. Len(chain[c.hook]) \in Nat
    BY <1>1, <1>2, TopOK, NodeTypes
  <1>4. c.idx - 1 \in Nat
    BY <1>1, <1>2
  <1>5. /\ d \in Call /\ d.hook = c.hook /\ d.ret = c.ret /\ d.mode = c.mode /\ d.idx = c.idx - 1
        /\ d.fs = c.fs /\ d.frame = c.frame
    BY <1>2, <1>4 DEF Call
  <1>6. d.idx <= Len(chain[d.hook])
    BY <1>2, <1>3, <1>5 DEF CallOK
  <1>7. CallOK(chain, frames[t], d)
    BY <1>2, <1>5, <1>6 DEF CallOK, ModeShape
  <1> HIDE DEF d
  <1>8. QED
    BY <1>1, <1>5, <1>7, GoesOn

\* A walk reaches the end of its list.
LEMMA WalkEndKeeps ==
    ASSUME CallInv, NEW t \in Threads, WalkEnd(t)
    PROVE  CallInv'
  <1> DEFINE c == Top(t)
  <1> DEFINE d == [c EXCEPT !.mode = "orig"]
  <1>1. /\ stack[t] # <<>> /\ c.mode \in {"scan", "prev"}
        /\ stack' = WithTop(t, d) /\ UNCHANGED <<chain, task, tls, frames>>
    BY DEF WalkEnd, InCall
  <1>2. CallOK(chain, frames[t], c) /\ c \in Call /\ c.frame \in Nat
    BY <1>1, TopOK
  <1>3. c.fs = <<>> <=> c.frame = 0
    BY <1>1, <1>2 DEF CallOK, ModeShape
  <1>4. /\ d \in Call /\ d.hook = c.hook /\ d.ret = c.ret /\ d.mode = "orig" /\ d.idx = c.idx
        /\ d.fs = c.fs /\ d.frame = c.frame
    BY <1>2 DEF Call, Mode
  <1>5. CallOK(chain, frames[t], d)
    BY <1>2, <1>3, <1>4 DEF CallOK, ModeShape
  <1> HIDE DEF d
  <1>6. QED
    BY <1>1, <1>4, <1>5, GoesOn

\* push_stack pushes a frame.
LEMMA PushKeeps ==
    ASSUME CallInv, NEW t \in Threads, Push(t)
    PROVE  CallInv'
  <1> DEFINE c == Top(t)
  <1> DEFINE f == [hook |-> c.hook, head |-> Len(chain[c.hook]),
                   orig |-> OrigOf[c.hook], ret |-> c.ret]
  <1> DEFINE d == [c EXCEPT !.mode = "run", !.frame = Len(frames[t]) + 1]
  <1>1. /\ stack[t] # <<>> /\ c.mode = "push"
        /\ frames' = [frames EXCEPT ![t] = Append(@, f)]
        /\ stack' = WithTop(t, d) /\ UNCHANGED <<chain, task, tls>>
    BY DEF Push, InCall
  <1>2. /\ CallOK(chain, frames[t], c) /\ c \in Call /\ c.hook \in Hooks
        /\ TypeOK /\ ThreadOK(chain, frames[t], stack[t])
    BY <1>1, TopOK
  <1>3. c.fs # <<>> /\ c.frame = 0
    BY <1>1, <1>2 DEF CallOK, ModeShape
  <1>4. frames[t] \in Seq(Frame) /\ Len(frames[t]) \in Nat
    BY <1>2, FrameTypes
  <1>5. Len(chain[c.hook]) \in Nat \ {0}
    BY <1>2, NodeTypes, EmptySeq DEF CallOK
  <1>6. f \in Frame
    <2>1. c.ret \in Site
      BY <1>2 DEF Call
    <2>2. QED
      BY <1>2, <1>5, <2>1, OrigOfType DEF Frame
  <1>7. /\ d \in Call /\ d.hook = c.hook /\ d.ret = c.ret /\ d.mode = "run" /\ d.idx = c.idx
        /\ d.fs = c.fs /\ d.frame = Len(frames[t]) + 1
    <2>1. Len(frames[t]) + 1 \in Nat
      BY <1>4
    <2>2. QED
      BY <1>2, <2>1 DEF Call, Mode
  <1>8. /\ Append(frames[t], f) \in Seq(Frame)
        /\ Len(Append(frames[t], f)) = Len(frames[t]) + 1
        /\ Append(frames[t], f)[Len(frames[t]) + 1] = f
    BY <1>4, <1>6, AppendProperties
  <1>9. f.hook = c.hook /\ f.orig = OrigOf[c.hook] /\ f.ret = c.ret /\ f.head = Len(chain[c.hook])
    OBVIOUS
  <1> HIDE DEF d, f
  <1>10. d.frame \in 1..Len(Append(frames[t], f)) /\ d.frame > 0
    BY <1>4, <1>7, <1>8
  <1>11. CallOK(chain, Append(frames[t], f), d)
    BY <1>2, <1>3, <1>5, <1>7, <1>8, <1>9, <1>10 DEF CallOK, ModeShape
  <1>12. frames'[t] = Append(frames[t], f) /\ \A u \in Threads \ {t} : frames'[u] = frames[u]
    BY <1>1, <1>2 DEF TypeOK
  <1>13. /\ stack'[t] = [stack[t] EXCEPT ![Len(stack[t])] = d]
         /\ \A u \in Threads \ {t} : stack'[u] = stack[u]
    BY <1>1, <1>2 DEF TypeOK, WithTop
  <1>14. stack[t][Len(stack[t])].frame = 0
    BY <1>3 DEF Top
  <1>15. ThreadOK(chain, frames'[t], stack'[t])
    BY <1>1, <1>2, <1>6, <1>7, <1>11, <1>12, <1>13, <1>14, CallPushes
  <1>16. stack' \in [Threads -> Seq(Call)] /\ frames' \in [Threads -> Seq(Frame)]
    BY <1>1, <1>2, <1>7, <1>8, TopTypes DEF TypeOK
  <1>17. QED
    BY <1>1, <1>2, <1>12, <1>13, <1>15, <1>16, OneThread DEF TypeOK

\* A call returns to the code that made it.
LEMMA ReturnKeeps ==
    ASSUME CallInv, NEW t \in Threads, stack[t] # <<>>,
           UNCHANGED <<chain, task, tls>>,
           stack' = WithoutTop(t),
           frames' = IF Top(t).frame = 0 THEN frames
                     ELSE [frames EXCEPT ![t] = Front(frames[t])]
    PROVE  CallInv'
  <1>1. /\ TypeOK /\ ThreadOK(chain, frames[t], stack[t]) /\ Top(t).frame \in Nat
        /\ WithoutTop(t) \in [Threads -> Seq(Call)]
    BY TopOK, TopTypes
  <1>2. stack'[t] = Front(stack[t]) /\ \A u \in Threads \ {t} : stack'[u] = stack[u]
    BY <1>1 DEF TypeOK, WithoutTop
  <1>3. CASE Top(t).frame = 0
    <2>1. ThreadOK(chain, frames'[t], stack'[t])
      BY <1>1, <1>2, <1>3, CallReturns DEF Top
    <2>2. QED
      BY <1>1, <1>2, <1>3, <2>1, OneThread DEF TypeOK
  <1>4. CASE Top(t).frame > 0
    <2>1. frames[t] # <<>>
      BY <1>4, CurOfTop
    <2>2. Front(frames[t]) \in Seq(Frame)
      BY <1>1, <2>1, FrameTypes
    <2>3. /\ frames'[t] = Front(frames[t]) /\ \A u \in Threads \ {t} : frames'[u] = frames[u]
          /\ frames' \in [Threads -> Seq(Frame)]
      BY <1>1, <1>4, <2>2 DEF TypeOK
    <2>4. ThreadOK(chain, frames'[t], stack'[t])
      BY <1>1, <1>2, <1>4, <2>3, CallReturns DEF Top
    <2>5. QED
      BY <1>1, <1>2, <2>3, <2>4, OneThread DEF TypeOK
  <1>5. QED
    BY <1>1, <1>3, <1>4

\* The original returns to a proxy or to the caller.
LEMMA OrigReturnsKeeps ==
    ASSUME CallInv, NEW t \in Threads, OrigReturns(t)
    PROVE  CallInv'
  <1> DEFINE c == Top(t)
  <1>1. /\ stack[t] # <<>> /\ c.mode \in {"orig", "bypass"}
        /\ UNCHANGED <<chain, task, tls, frames>>
    BY DEF OrigReturns, InCall
  <1>2. CallOK(chain, frames[t], c) /\ c \in Call /\ c.frame \in Nat
    BY <1>1, TopOK
  <1>3. CASE c.fs = <<>>
    <2>1. c.frame = 0
      BY <1>1, <1>2, <1>3 DEF CallOK, ModeShape
    <2>2. stack' = WithoutTop(t)
      BY <1>3 DEF OrigReturns
    <2>3. QED
      BY <1>1, <2>1, <2>2, ReturnKeeps
  <1>4. CASE c.fs # <<>>
    <2> DEFINE d == [c EXCEPT !.mode = "after"]
    <2>1. stack' = WithTop(t, d)
      BY <1>4 DEF OrigReturns
    <2>2. c.frame > 0
      BY <1>1, <1>2, <1>4 DEF CallOK, ModeShape
    <2>3. /\ d \in Call /\ d.hook = c.hook /\ d.ret = c.ret /\ d.mode = "after" /\ d.idx = c.idx
          /\ d.fs = c.fs /\ d.frame = c.frame
      BY <1>2 DEF Call, Mode
    <2>4. CallOK(chain, frames[t], d)
      BY <1>2, <1>4, <2>2, <2>3 DEF CallOK, ModeShape
    <2> HIDE DEF d
    <2>5. QED
      BY <1>1, <2>1, <2>3, <2>4, GoesOn
  <1>5. QED
    BY <1>3, <1>4

\* The frame goes with the proxy that the call itself entered, and with no other:
\* the return address of the others is a CALL_PREV, that of a frame never is.
LEMMA ProxyReturnsKeeps ==
    ASSUME CallInv, NEW t \in Threads, ProxyReturns(t)
    PROVE  CallInv'
  <1> DEFINE c == Top(t)
  <1>1. /\ stack[t] # <<>> /\ c.mode \in {"run", "after"}
        /\ frames' = [frames EXCEPT ![t] = PopStack(t)]
        /\ UNCHANGED <<chain, task, tls>>
    BY DEF ProxyReturns, InCall
  <1>2. /\ CallOK(chain, frames[t], c) /\ c \in Call /\ c.fs \in Seq(Funcs) /\ c.frame \in Nat
        /\ TypeOK
    BY <1>1, TopOK
  <1>3. c.frame > 0 /\ c.fs # <<>> /\ c.ret[1] = "call"
    BY <1>1, <1>2 DEF CallOK, ModeShape
  <1>4. frames[t] # <<>> /\ Cur(t).ret = c.ret
    BY <1>1, <1>3, CurOfTop
  <1>5. CASE Len(c.fs) = 1
    <2>1. PopStack(t) = Front(frames[t])
      BY <1>4, <1>5 DEF PopStack, ReturnAddress
    <2>2. stack' = WithoutTop(t)
      BY <1>5 DEF ProxyReturns
    <2>3. c.frame # 0
      BY <1>2, <1>3
    <2>4. frames' = [frames EXCEPT ![t] = Front(frames[t])]
      BY <1>1, <2>1
    <2>5. QED
      BY <1>1, <2>2, <2>3, <2>4, ReturnKeeps
  <1>6. CASE Len(c.fs) # 1
    <2> DEFINE d == [c EXCEPT !.mode = "after", !.fs = Front(@)]
    <2>1. ReturnAddress(t)[1] = "prev"
      BY <1>6 DEF ReturnAddress
    <2>2. PopStack(t) = frames[t]
      BY <1>3, <1>4, <2>1 DEF PopStack
    <2>3. frames' = frames
      BY <1>1, <1>2, <2>2 DEF TypeOK
    <2>4. stack' = WithTop(t, d)
      BY <1>6 DEF ProxyReturns
    <2>5. Front(c.fs) \in Seq(Funcs) /\ Len(Front(c.fs)) = Len(c.fs) - 1 /\ Len(c.fs) \in Nat \ {0}
      BY <1>2, <1>3, FrontOfSeq, EmptySeq
    <2>6. Front(c.fs) # <<>>
      <3>1. Len(Front(c.fs)) # 0
        BY <1>6, <2>5
      <3>2. Len(<<>>) = 0
        BY EmptySeq
      <3>3. QED
        BY <3>1, <3>2
    <2>7. /\ d \in Call /\ d.hook = c.hook /\ d.ret = c.ret /\ d.mode = "after" /\ d.idx = c.idx
          /\ d.fs = Front(c.fs) /\ d.frame = c.frame
      BY <1>2, <2>5 DEF Call, Mode
    <2>8. CallOK(chain, frames[t], d)
      BY <1>2, <1>3, <2>6, <2>7 DEF CallOK, ModeShape
    <2> HIDE DEF d
    <2>9. QED
      BY <1>1, <2>3, <2>4, <2>7, <2>8, GoesOn
  <1>7. QED
    BY <1>5, <1>6

\* The thread exits inside an original.
LEMMA ExitKeeps ==
    ASSUME CallInv, NEW t \in Threads, ThreadExit(t)
    PROVE  CallInv'
  <1>1. TypeOK
    BY DEF CallInv
  <1>2. /\ UNCHANGED <<chain, task>>
        /\ tls' \in [Threads -> BOOLEAN]
        /\ frames' = [frames EXCEPT ![t] = <<>>]
        /\ stack' = [stack EXCEPT ![t] = <<>>]
    BY <1>1 DEF ThreadExit, TypeOK
  <1>3. /\ frames'[t] = <<>> /\ stack'[t] = <<>>
        /\ frames' \in [Threads -> Seq(Frame)]
        /\ stack' \in [Threads -> Seq(Call)]
        /\ \A u \in Threads \ {t} : frames'[u] = frames[u] /\ stack'[u] = stack[u]
    BY <1>1, <1>2, EmptySeq DEF TypeOK
  <1>4. ThreadOK(chain, <<>>, <<>>)
    BY EmptySeq DEF ThreadOK
  <1>5. QED
    BY <1>2, <1>3, <1>4, OneThread

\* A task is registered, unregistered or freed.
LEMMA TaskKeeps ==
    ASSUME CallInv, NEW k \in Tasks, Register(k) \/ Unregister(k) \/ Retire(k)
    PROVE  CallInv'
  <1>1. TypeOK /\ UNCHANGED <<chain, tls, frames, stack>>
    BY DEF CallInv, Register, Unregister, Retire
  <1>2. task' \in [Tasks -> {"new", "live", "unhooking", "dead"}]
    BY DEF CallInv, TypeOK, Register, Unregister, Retire
  <1>3. \A h \in Hooks : Len(chain[h]) <= Len(chain'[h])
    BY <1>1, NodeTypes
  <1>4. chain' \in [Hooks -> Seq(Node)] /\ stack' \in [Threads -> Seq(Call)]
    BY <1>1 DEF TypeOK
  <1>5. QED
    BY <1>1, <1>2, <1>3, <1>4, WriterStep

\* A task enables a node it disabled before.
LEMMA ReEnableKeeps ==
    ASSUME CallInv, NEW h \in Hooks, NEW k \in Tasks, ReEnable(h, k)
    PROVE  CallInv'
  <1>1. TypeOK /\ UNCHANGED <<task, tls, frames, stack>>
    BY DEF CallInv, ReEnable
  <1>2. PICK i \in 1..Len(chain[h]) : chain' = [chain EXCEPT ![h][i].enabled = TRUE]
    BY <1>1, NodeTypes DEF ReEnable, NodesOf
  <1> DEFINE n == [chain[h][i] EXCEPT !.enabled = TRUE]
  <1> DEFINE l == [chain[h] EXCEPT ![i] = n]
  <1>3. n \in Node
    BY ZenonT(60), <1>1, NodeTypes DEF Node
  <1>4. l \in Seq(Node) /\ Len(l) = Len(chain[h])
    <2> HIDE DEF n
    <2>1. QED
      BY <1>1, <1>3, NodeTypes, ExceptSeq
  <1>5. chain' = [chain EXCEPT ![h] = l]
    BY <1>2
  <1> HIDE DEF l
  <1>6. chain' \in [Hooks -> Seq(Node)]
    BY <1>1, <1>4, <1>5 DEF TypeOK
  <1>7. \A g \in Hooks : Len(chain[g]) <= Len(chain'[g])
    <2>1. \A g \in Hooks : Len(chain'[g]) = Len(chain[g])
      BY <1>1, <1>4, <1>5 DEF TypeOK
    <2>2. QED
      BY <1>1, <2>1, NodeTypes
  <1>8. stack' \in [Threads -> Seq(Call)] /\ task' \in [Tasks -> {"new", "live", "unhooking", "dead"}]
    BY <1>1 DEF TypeOK
  <1>9. QED
    BY <1>1, <1>6, <1>7, <1>8, WriterStep

\* A task adds a node.
LEMMA CreateKeeps ==
    ASSUME CallInv, NEW h \in Hooks, NEW k \in Tasks, Create(h, k)
    PROVE  CallInv'
  <1> DEFINE n == [func |-> FuncOf[k], task |-> k, enabled |-> TRUE]
  <1>1. TypeOK /\ UNCHANGED <<task, tls, frames, stack>>
    BY DEF CallInv, Create
  <1>2. chain' = [chain EXCEPT ![h] = Append(chain[h], n)]
    BY DEF Create
  <1>3. n \in Node
    BY FuncOfType DEF Node
  <1> HIDE DEF n
  <1>4. /\ Append(chain[h], n) \in Seq(Node)
        /\ Len(Append(chain[h], n)) = Len(chain[h]) + 1
    BY <1>1, <1>3, NodeTypes, AppendProperties
  <1>5. chain' \in [Hooks -> Seq(Node)]
    BY <1>1, <1>2, <1>4 DEF TypeOK
  <1>6. \A g \in Hooks : Len(chain[g]) <= Len(chain'[g])
    <2>1. \A g \in Hooks : Len(chain'[g]) = Len(chain[g]) \/ Len(chain'[g]) = Len(chain[g]) + 1
      BY <1>1, <1>2, <1>4 DEF TypeOK
    <2>2. QED
      BY <1>1, <2>1, NodeTypes
  <1>7. stack' \in [Threads -> Seq(Call)] /\ task' \in [Tasks -> {"new", "live", "unhooking", "dead"}]
    BY <1>1 DEF TypeOK
  <1>8. QED
    BY <1>1, <1>5, <1>6, <1>7, WriterStep

\* The list that bh_hook_del_func leaves.
LEMMA DelFuncChain ==
    ASSUME TypeOK, NEW h \in Hooks, NEW k \in Tasks, DelFunc(h, k)
    PROVE  /\ chain' \in [Hooks -> Seq(Node)]
           /\ \A g \in Hooks : Len(chain'[g]) = Len(chain[g])
           /\ \A g \in Hooks \ {h} : chain'[g] = chain[g]
           /\ \A i \in 1..Len(chain[h]) :
                /\ chain'[h][i].func = chain[h][i].func
                /\ chain'[h][i].task = chain[h][i].task
                /\ chain'[h][i].enabled <=> chain[h][i].enabled /\ chain[h][i].func # FuncOf[k]
  <1> DEFINE l == [i \in DOMAIN chain[h] |->
                     IF chain[h][i].func = FuncOf[k]
                     THEN [chain[h][i] EXCEPT !.enabled = FALSE] ELSE chain[h][i]]
  <1>1. chain' = [chain EXCEPT ![h] = l]
    BY DEF DelFunc
  <1>2. \A i \in 1..Len(chain[h]) :
            /\ l[i] \in Node
            /\ l[i].func = chain[h][i].func
            /\ l[i].task = chain[h][i].task
            /\ l[i].enabled <=> chain[h][i].enabled /\ chain[h][i].func # FuncOf[k]
    <2>1. TAKE i \in 1..Len(chain[h])
    <2>2. chain[h][i] \in Node /\ i \in DOMAIN chain[h] /\ chain[h][i].enabled \in BOOLEAN
      BY NodeTypes
    <2>3. CASE chain[h][i].func = FuncOf[k]
      <3> DEFINE n == [chain[h][i] EXCEPT !.enabled = FALSE]
      <3>1. l[i] = n
        BY <2>2, <2>3
      <3>2. n \in Node /\ n.func = chain[h][i].func /\ n.task = chain[h][i].task /\ n.enabled = FALSE
        BY <2>2 DEF Node
      <3> HIDE DEF n, l
      <3>3. QED
        BY <2>3, <3>1, <3>2
    <2>4. CASE chain[h][i].func # FuncOf[k]
      <3>1. l[i] = chain[h][i]
        BY <2>2, <2>4
      <3> HIDE DEF l
      <3>2. QED
        BY <2>2, <2>4, <3>1
    <2>5. QED
      BY <2>3, <2>4
  <1>3. l \in Seq(Node) /\ Len(l) = Len(chain[h])
    <2>1. l \in [1..Len(chain[h]) -> Node]
      BY <1>2, NodeTypes
    <2> HIDE DEF l
    <2>2. QED
      BY <2>1, NodeTypes, FunctionIsSeq
  <1> HIDE DEF l
  <1>4. QED
    BY <1>1, <1>2, <1>3 DEF TypeOK

\* A task disables its proxy.
LEMMA DelFuncKeeps ==
    ASSUME CallInv, NEW h \in Hooks, NEW k \in Tasks, DelFunc(h, k)
    PROVE  CallInv'
  <1>1. TypeOK /\ UNCHANGED <<task, tls, frames>>
    BY DEF CallInv, DelFunc
  <1>2. chain' \in [Hooks -> Seq(Node)] /\ \A g \in Hooks : Len(chain'[g]) = Len(chain[g])
    BY <1>1, DelFuncChain
  <1>3. \A g \in Hooks : Len(chain[g]) <= Len(chain'[g])
    BY <1>1, <1>2, NodeTypes
  <1> DEFINE S(t) == [i \in DOMAIN stack[t] |->
                        IF stack[t][i].hook = h
                        THEN [stack[t][i] EXCEPT !.due = @ \ {FuncOf[k]}]
                        ELSE stack[t][i]]
  <1>4. stack' = [t \in Threads |-> S(t)]
    BY DEF DelFunc
  <1>5. ASSUME NEW t \in Threads
        PROVE  /\ S(t) \in Seq(Call)
               /\ Len(S(t)) = Len(stack[t])
               /\ \A i \in 1..Len(stack[t]) :
                     LET c == stack[t][i]
                         d == S(t)[i]
                     IN /\ d.hook = c.hook /\ d.ret = c.ret /\ d.mode = c.mode
                        /\ d.idx = c.idx /\ d.fs = c.fs /\ d.frame = c.frame
    <2>1. stack[t] \in Seq(Call) /\ Len(stack[t]) \in Nat /\ DOMAIN stack[t] = 1..Len(stack[t])
      BY <1>1, LenProperties DEF TypeOK
    <2>2. \A i \in 1..Len(stack[t]) :
            LET c == stack[t][i]
                d == S(t)[i]
            IN /\ d \in Call
               /\ d.hook = c.hook /\ d.ret = c.ret /\ d.mode = c.mode
               /\ d.idx = c.idx /\ d.fs = c.fs /\ d.frame = c.frame
      <3>1. TAKE i \in 1..Len(stack[t])
      <3>2. stack[t][i] \in Call /\ i \in DOMAIN stack[t]
        BY <2>1, ElementOfSeq
      <3>3. QED
        BY <3>2 DEF Call
    <2>3. S(t) \in [1..Len(stack[t]) -> Call]
      BY <2>1, <2>2
    <2>4. S(t) \in Seq(Call) /\ Len(S(t)) = Len(stack[t])
      <3> HIDE DEF S
      <3>1. QED
        BY <2>1, <2>3, FunctionIsSeq
    <2>5. QED
      BY <2>2, <2>4
  <1> HIDE DEF S
  <1>6. stack' \in [Threads -> Seq(Call)] /\ task' \in [Tasks -> {"new", "live", "unhooking", "dead"}]
    BY <1>1, <1>4, <1>5 DEF TypeOK
  <1>7. QED
    BY <1>1, <1>2, <1>3, <1>4, <1>5, <1>6, WriterStep

-----------------------------------------------------------------------------
(***************************************************************************)
(* The theorems about calls and frames.                                    *)
(***************************************************************************)

\* CallInv is inductive.
THEOREM CallInvariant == Spec => []CallInv
  <1>1. Init => CallInv
    <2>1. SUFFICES ASSUME Init PROVE CallInv
      OBVIOUS
    <2>2. <<>> \in Seq(Node) /\ <<>> \in Seq(Frame) /\ <<>> \in Seq(Call)
      BY EmptySeq
    <2>3. TypeOK
      BY <2>1, <2>2 DEF Init, TypeOK
    <2>4. ThreadOK(chain, <<>>, <<>>)
      BY <2>2, EmptySeq DEF ThreadOK
    <2>5. \A t \in Threads : ThreadOK(chain, frames[t], stack[t])
      BY <2>1, <2>4 DEF Init
    <2>6. QED
      BY <2>3, <2>5 DEF CallInv
  <1>2. CallInv /\ [Next]_vars => CallInv'
    <2>1. SUFFICES ASSUME CallInv, [Next]_vars PROVE CallInv'
      OBVIOUS
    <2>2. CASE UNCHANGED vars
      BY <2>1, <2>2 DEF CallInv, TypeOK, vars
    <2>3. ASSUME NEW k \in Tasks, Register(k) \/ Unregister(k) \/ Retire(k)
          PROVE  CallInv'
      BY <2>1, <2>3, TaskKeeps
    <2>4. ASSUME NEW k \in Tasks, NEW h \in Hooks, ReEnable(h, k) \/ Create(h, k) \/ DelFunc(h, k)
          PROVE  CallInv'
      BY <2>1, <2>4, ReEnableKeeps, CreateKeeps, DelFuncKeeps
    <2>5. ASSUME NEW t \in Threads, NEW h \in Hooks, Enter(t, h) \/ EnterNoStack(t, h)
          PROVE  CallInv'
      BY <2>1, <2>5, EnterKeeps
    <2>6. ASSUME NEW t \in Threads, Engine(t)
          PROVE  CallInv'
      BY <2>1, <2>6, ScanHitKeeps, PushKeeps, PushFullKeeps, PrevHitKeeps, SkipKeeps, WalkEndKeeps
         DEF Engine
    <2>7. ASSUME NEW t \in Threads,
                 CallPrev(t) \/ OrigReturns(t) \/ ProxyReturns(t) \/ ThreadExit(t)
          PROVE  CallInv'
      BY <2>1, <2>7, CallPrevKeeps, OrigReturnsKeeps, ProxyReturnsKeeps, ExitKeeps
    <2>8. QED
      BY <2>1, <2>2, <2>3, <2>4, <2>5, <2>6, <2>7 DEF Next, Writer, Reader
  <1>3. QED
    BY <1>1, <1>2, PTL DEF Spec

\* Every variable keeps its type.
THEOREM TypeCorrect == Spec => []TypeOK
  <1>1. CallInv => TypeOK
    BY DEF CallInv
  <1>2. QED
    BY <1>1, CallInvariant, PTL

\* Whatever a thread does, its frames are those of the calls it is inside of, so
\* CALL_PREV and the scope guard of a proxy always act on the frame of the call
\* that runs the proxy.
THEOREM FramesMatch == Spec => []FramesMatchCalls
  <1>1. CallInv => FramesMatchCalls
    <2>1. SUFFICES ASSUME CallInv, NEW t \in Threads
                   PROVE  /\ \A i \in DOMAIN stack[t] :
                                LET c == stack[t][i]
                                IN c.frame > 0 =>
                                      /\ c.frame \in DOMAIN frames[t]
                                      /\ frames[t][c.frame].hook = c.hook
                                      /\ frames[t][c.frame].orig = OrigOf[c.hook]
                                      /\ frames[t][c.frame].ret = c.ret
                                      /\ frames[t][c.frame].head \in 1..Len(chain[c.hook])
                          /\ \A k \in DOMAIN frames[t] : \E i \in DOMAIN stack[t] : stack[t][i].frame = k
                          /\ \A i, j \in DOMAIN stack[t] :
                                i < j /\ stack[t][i].frame > 0 /\ stack[t][j].frame > 0
                                => stack[t][i].frame < stack[t][j].frame
                          /\ InCall(t, {"run", "prev", "after"}) => Top(t).frame = Len(frames[t])
      BY DEF FramesMatchCalls
    <2>2. /\ ThreadOK(chain, frames[t], stack[t])
          /\ DOMAIN frames[t] = 1..Len(frames[t])
          /\ DOMAIN stack[t] = 1..Len(stack[t])
      BY <2>1, LenProperties DEF CallInv, TypeOK
    <2>3. ASSUME InCall(t, {"run", "prev", "after"})
          PROVE  Top(t).frame = Len(frames[t])
      <3>1. stack[t] # <<>> /\ Top(t).mode \in {"run", "prev", "after"}
        BY <2>3 DEF InCall
      <3>2. Top(t).frame > 0
        BY <2>1, <3>1, TopOK DEF CallOK, ModeShape
      <3>3. QED
        BY <2>1, <3>1, <3>2, CurOfTop
    <2>4. QED
      BY <2>2, <2>3 DEF ThreadOK, CallOK
  <1>2. QED
    BY <1>1, CallInvariant, PTL

-----------------------------------------------------------------------------
(***************************************************************************)
(* The lists of nodes.                                                     *)
(*                                                                         *)
(* OldNodesOver is inductive only together with the reason why a new node  *)
(* may be put in front of an old one of the same proxy: the task of the    *)
(* old one is over, because two tasks never install a proxy at once.       *)
(***************************************************************************)

Active(k) == task[k] \in {"live", "unhooking"}

Exclusive == \A j, k \in Tasks : FuncOf[j] = FuncOf[k] /\ Active(j) /\ Active(k) => j = k

Owned ==
    \A h \in Hooks : \A i \in 1..Len(chain[h]) :
        /\ chain[h][i].func = FuncOf[chain[h][i].task]
        /\ task[chain[h][i].task] # "new"

Ordered ==
    \A h \in Hooks : \A i, j \in 1..Len(chain[h]) :
        i < j /\ chain[h][i].func = chain[h][j].func
        => ~chain[h][i].enabled /\ task[chain[h][i].task] = "dead"

ListInv == TypeOK /\ Exclusive /\ Owned /\ Ordered

\* A thread inside the engine changes no list and no task.
LEMMA ReaderKeepsLists ==
    ASSUME NEW t \in Threads, Reader(t)
    PROVE  UNCHANGED <<chain, task>>
  <1>1. ASSUME NEW h \in Hooks, Enter(t, h) \/ EnterNoStack(t, h)
        PROVE  UNCHANGED <<chain, task>>
    BY <1>1 DEF Enter, EnterNoStack
  <1>2. CASE Engine(t)
    BY <1>2 DEF Engine, ScanHit, Push, PushFull, PrevHit, Skip, WalkEnd
  <1>3. CASE CallPrev(t) \/ OrigReturns(t) \/ ProxyReturns(t) \/ ThreadExit(t)
    BY <1>3 DEF CallPrev, OrigReturns, ProxyReturns, ThreadExit
  <1>4. QED
    BY <1>1, <1>2, <1>3 DEF Reader

\* A task is registered, unregistered or freed: no node belongs to a new task, and
\* a task that is over stays so.
LEMMA TaskKeepsLists ==
    ASSUME ~Rehook, ListInv, TypeOK', NEW k \in Tasks, Register(k) \/ Unregister(k) \/ Retire(k)
    PROVE  ListInv'
  <1>1. TypeOK /\ Exclusive /\ Owned /\ Ordered /\ UNCHANGED chain
    BY DEF ListInv, Register, Unregister, Retire
  <1>2. /\ \A j \in Tasks \ {k} : task'[j] = task[j]
        /\ task'[k] # "new" /\ task[k] # "dead"
    BY <1>1 DEF TypeOK, Register, Unregister, Retire
  <1>3. Exclusive'
    <2>1. CASE Register(k)
      <3>1. \A j \in Tasks : FuncOf[j] = FuncOf[k] => ~Active(j)
        BY <2>1 DEF Register, Active
      <3>2. QED
        BY <1>1, <1>2, <3>1 DEF Exclusive, Active
    <2>2. CASE Unregister(k) \/ Retire(k)
      <3>1. Active(k)
        BY <2>2 DEF Unregister, Retire, Active
      <3>2. QED
        BY <1>1, <1>2, <3>1 DEF Exclusive, Active
    <2>3. QED
      BY <2>1, <2>2
  <1>4. \A h \in Hooks : \A i \in 1..Len(chain[h]) : chain[h][i].task \in Tasks
    BY <1>1, NodeTypes
  <1>5. Owned'
    BY <1>1, <1>2, <1>4 DEF Owned
  <1>6. Ordered'
    BY <1>1, <1>2, <1>4 DEF Ordered
  <1>7. QED
    BY <1>3, <1>5, <1>6 DEF ListInv

\* A proxy no node of which is enabled gets a node at the end of the list.
LEMMA CreateKeepsLists ==
    ASSUME ListInv, TypeOK', NEW h \in Hooks, NEW k \in Tasks, Create(h, k)
    PROVE  ListInv'
  <1> DEFINE n == [func |-> FuncOf[k], task |-> k, enabled |-> TRUE]
  <1> DEFINE m == Len(chain[h])
  <1>1. /\ TypeOK /\ Exclusive /\ Owned /\ Ordered /\ UNCHANGED task
        /\ task[k] = "live" /\ EnabledAt(h, FuncOf[k]) = {} /\ NodesOf(h, k) = {}
        /\ chain' = [chain EXCEPT ![h] = Append(chain[h], n)]
    BY DEF ListInv, Create
  <1>2. n.func = FuncOf[k] /\ n.task = k
    OBVIOUS
  <1>3. n \in Node
    BY FuncOfType DEF Node
  <1> HIDE DEF n
  <1>4. /\ m \in Nat
        /\ Len(chain'[h]) = m + 1
        /\ chain'[h][m + 1] = n
        /\ \A i \in 1..m : chain'[h][i] = chain[h][i]
        /\ \A g \in Hooks \ {h} : chain'[g] = chain[g]
    <2>1. chain'[h] = Append(chain[h], n)
      BY <1>1 DEF TypeOK
    <2>2. QED
      BY <1>1, <1>3, <2>1, NodeTypes, AppendProperties DEF TypeOK
  <1> HIDE DEF m
  <1>5. \A i \in 1..Len(chain'[h]) : i \in 1..m \/ i = m + 1
    BY <1>4
  <1>6. \A i \in 1..m : chain[h][i].func = FuncOf[k] =>
            ~chain[h][i].enabled /\ task[chain[h][i].task] = "dead"
    <2>1. SUFFICES ASSUME NEW i \in 1..m, chain[h][i].func = FuncOf[k]
                   PROVE  ~chain[h][i].enabled /\ task[chain[h][i].task] = "dead"
      OBVIOUS
    <2>2. i \in DOMAIN chain[h] /\ chain[h][i].task \in Tasks /\ i \in 1..Len(chain[h])
      BY <1>1, NodeTypes DEF m
    <2>3. ~chain[h][i].enabled /\ chain[h][i].task # k
      BY <1>1, <2>1, <2>2 DEF EnabledAt, NodesOf
    <2>4. ~Active(chain[h][i].task)
      BY <1>1, <2>1, <2>2, <2>3 DEF Exclusive, Owned, Active
    <2>5. QED
      BY <1>1, <2>2, <2>3, <2>4 DEF Owned, Active, TypeOK
  <1>7. Exclusive'
    BY <1>1 DEF Exclusive, Active
  <1>8. Owned'
    <2>1. SUFFICES ASSUME NEW g \in Hooks, NEW i \in 1..Len(chain'[g])
                   PROVE  chain'[g][i].func = FuncOf[chain'[g][i].task] /\ task[chain'[g][i].task] # "new"
      BY <1>1 DEF Owned
    <2>2. CASE g # h
      BY <1>1, <1>4, <2>2 DEF Owned
    <2>3. CASE g = h /\ i = m + 1
      BY <1>1, <1>2, <1>4, <2>3
    <2>4. CASE g = h /\ i \in 1..m
      BY <1>1, <1>4, <2>4 DEF Owned, m
    <2>5. QED
      BY <1>5, <2>2, <2>3, <2>4
  <1>9. Ordered'
    <2>1. SUFFICES ASSUME NEW g \in Hooks, NEW i \in 1..Len(chain'[g]), NEW j \in 1..Len(chain'[g]),
                          i < j, chain'[g][i].func = chain'[g][j].func
                   PROVE  ~chain'[g][i].enabled /\ task[chain'[g][i].task] = "dead"
      BY <1>1 DEF Ordered
    <2>2. CASE g # h
      BY <1>1, <1>4, <2>1, <2>2 DEF Ordered
    <2>3. CASE g = h
      <3>1. i \in 1..m /\ chain'[h][i] = chain[h][i]
        BY <1>4, <2>1, <2>3
      <3>2. CASE j = m + 1
        BY <1>2, <1>4, <1>6, <2>1, <2>3, <3>1, <3>2
      <3>3. CASE j \in 1..m
        BY <1>1, <1>4, <2>1, <2>3, <3>1, <3>3 DEF Ordered, m
      <3>4. QED
        BY <1>5, <2>3, <3>2, <3>3
    <2>4. QED
      BY <2>2, <2>3
  <1>10. QED
    BY <1>7, <1>8, <1>9 DEF ListInv

\* The node that is enabled again is the newest of its proxy: its task is not over.
LEMMA ReEnableKeepsLists ==
    ASSUME ListInv, TypeOK', NEW h \in Hooks, NEW k \in Tasks, ReEnable(h, k)
    PROVE  ListInv'
  <1>1. /\ TypeOK /\ Exclusive /\ Owned /\ Ordered /\ UNCHANGED task /\ task[k] = "live"
    BY DEF ListInv, ReEnable
  <1>2. PICK i \in NodesOf(h, k) : chain' = [chain EXCEPT ![h][i].enabled = TRUE]
    BY DEF ReEnable
  <1>3. i \in 1..Len(chain[h]) /\ chain[h][i].func = FuncOf[k] /\ chain[h][i].task = k
    BY <1>1, <1>2, NodeTypes DEF NodesOf
  <1> DEFINE n == [chain[h][i] EXCEPT !.enabled = TRUE]
  <1>4. n \in Node /\ n.func = FuncOf[k] /\ n.task = k
    BY <1>1, <1>3, NodeTypes DEF Node
  <1>5. chain'[h] = [chain[h] EXCEPT ![i] = n] /\ \A g \in Hooks \ {h} : chain'[g] = chain[g]
    BY <1>1, <1>2 DEF TypeOK
  <1> HIDE DEF n
  <1>6. /\ Len(chain'[h]) = Len(chain[h])
        /\ chain'[h][i] = n
        /\ \A j \in 1..Len(chain[h]) : j # i => chain'[h][j] = chain[h][j]
    BY <1>1, <1>3, <1>4, <1>5, NodeTypes, ExceptSeq
  <1>7. \A j \in 1..Len(chain[h]) : /\ chain'[h][j].func = chain[h][j].func
                                    /\ chain'[h][j].task = chain[h][j].task
    BY <1>3, <1>4, <1>6
  <1>8. \A j \in 1..Len(chain[h]) : i < j => chain[h][j].func # FuncOf[k]
    BY <1>1, <1>3 DEF Ordered
  <1>9. Exclusive'
    BY <1>1 DEF Exclusive, Active
  <1>10. Owned'
    BY <1>1, <1>5, <1>6, <1>7 DEF Owned
  <1>11. Ordered'
    <2>1. SUFFICES ASSUME NEW g \in Hooks, NEW j \in 1..Len(chain'[g]), NEW l \in 1..Len(chain'[g]),
                          j < l, chain'[g][j].func = chain'[g][l].func
                   PROVE  ~chain'[g][j].enabled /\ task[chain'[g][j].task] = "dead"
      BY <1>1 DEF Ordered
    <2>2. CASE g # h
      BY <1>1, <1>5, <2>1, <2>2 DEF Ordered
    <2>3. CASE g = h
      <3>1. j # i
        BY <1>3, <1>6, <1>7, <1>8, <2>1, <2>3
      <3>2. chain'[h][j] = chain[h][j]
        BY <1>6, <2>3, <3>1
      <3>3. QED
        BY <1>1, <1>6, <1>7, <2>1, <2>3, <3>2 DEF Ordered
    <2>4. QED
      BY <2>2, <2>3
  <1>12. QED
    BY <1>9, <1>10, <1>11 DEF ListInv

\* Nodes are disabled, never enabled.
LEMMA DelFuncKeepsLists ==
    ASSUME ListInv, TypeOK', NEW h \in Hooks, NEW k \in Tasks, DelFunc(h, k)
    PROVE  ListInv'
  <1>1. TypeOK /\ Exclusive /\ Owned /\ Ordered /\ UNCHANGED task
    BY DEF ListInv, DelFunc
  <1>2. \A g \in Hooks : Len(chain'[g]) = Len(chain[g])
    BY <1>1, DelFuncChain
  <1>3. \A g \in Hooks : \A i \in 1..Len(chain[g]) :
            /\ chain'[g][i].func = chain[g][i].func
            /\ chain'[g][i].task = chain[g][i].task
            /\ chain'[g][i].enabled => chain[g][i].enabled
    BY <1>1, DelFuncChain
  <1>4. Exclusive'
    BY <1>1 DEF Exclusive, Active
  <1>5. Owned'
    BY <1>1, <1>2, <1>3 DEF Owned
  <1>6. Ordered'
    BY <1>1, <1>2, <1>3 DEF Ordered
  <1>7. QED
    BY <1>4, <1>5, <1>6 DEF ListInv

\* In the list of a slot every node but the newest of a proxy is disabled, and its
\* task is over: bh_trampo_get_prev_func may look a proxy up by its address.
THEOREM OldNodes == Spec => []OldNodesOver
  <1> DEFINE Inv == ~Rehook => ListInv
  <1>1. Init => Inv
    <2>1. SUFFICES ASSUME Init PROVE ListInv
      OBVIOUS
    <2>2. <<>> \in Seq(Node) /\ <<>> \in Seq(Frame) /\ <<>> \in Seq(Call) /\ Len(<<>>) = 0
      BY EmptySeq
    <2>3. TypeOK
      BY <2>1, <2>2 DEF Init, TypeOK
    <2>4. Exclusive
      BY <2>1 DEF Init, Exclusive, Active
    <2>5. Owned /\ Ordered
      BY <2>1, <2>2 DEF Init, Owned, Ordered
    <2>6. QED
      BY <2>3, <2>4, <2>5 DEF ListInv
  <1>2. Inv /\ TypeOK' /\ [Next]_vars => Inv'
    <2>1. SUFFICES ASSUME ~Rehook, ListInv, TypeOK', [Next]_vars PROVE ListInv'
      OBVIOUS
    <2>2. CASE UNCHANGED <<chain, task>>
      BY <2>1, <2>2 DEF ListInv, Exclusive, Owned, Ordered, Active
    <2>3. CASE UNCHANGED vars
      BY <2>2, <2>3 DEF vars
    <2>4. CASE Writer
      BY <2>1, <2>4, TaskKeepsLists, CreateKeepsLists, ReEnableKeepsLists, DelFuncKeepsLists DEF Writer
    <2>5. ASSUME NEW t \in Threads, Reader(t)
          PROVE  ListInv'
      BY <2>2, <2>5, ReaderKeepsLists
    <2>6. QED
      BY <2>1, <2>3, <2>4, <2>5 DEF Next
  <1>3. TypeOK /\ Inv => OldNodesOver
    <2>1. SUFFICES ASSUME ~Rehook, TypeOK, ListInv PROVE OldNodesOver
      BY DEF OldNodesOver
    <2>2. Ordered
      BY <2>1 DEF ListInv
    <2>3. \A h \in Hooks : DOMAIN chain[h] = 1..Len(chain[h])
      BY <2>1, NodeTypes
    <2>4. QED
      BY <2>2, <2>3 DEF Ordered, OldNodesOver
  <1>4. QED
    BY <1>1, <1>2, <1>3, TypeCorrect, PTL DEF Spec

\* A node that comes to be enabled is the only one of its proxy that is: both walks of
\* bh_hook_add_func are over the whole list.
LEMMA EnabledStaysSingle ==
    ASSUME TypeOK, TypeOK', OneEnabledPerFunc, NEW h \in Hooks, NEW f \in Funcs,
           EnabledAt(h, f) = {}, NEW i \in Nat,
           \A g \in Hooks : DOMAIN chain[g] \subseteq DOMAIN chain'[g],
           \A g \in Hooks : \A j \in DOMAIN chain'[g] :
              \/ /\ j \in DOMAIN chain[g]
                 /\ chain'[g][j].func = chain[g][j].func
                 /\ chain'[g][j].enabled => chain[g][j].enabled
              \/ g = h /\ j = i /\ chain'[g][j].func = f
    PROVE  OneEnabledPerFunc'
  <1>1. SUFFICES ASSUME NEW g \in Hooks, NEW m \in DOMAIN chain'[g], NEW n \in DOMAIN chain'[g],
                        m < n, chain'[g][m].func = chain'[g][n].func,
                        chain'[g][m].enabled, chain'[g][n].enabled
                 PROVE  FALSE
    BY DEF OneEnabledPerFunc
  <1> DEFINE Old(j) == /\ j \in DOMAIN chain[g]
                       /\ chain'[g][j].func = chain[g][j].func
                       /\ chain[g][j].enabled
  <1>2. m \in Nat /\ n \in Nat
    <2>1. \A l \in Hooks : DOMAIN chain'[l] = 1..Len(chain'[l]) /\ Len(chain'[l]) \in Nat
      BY LenProperties DEF TypeOK
    <2>2. QED
      BY <2>1
  <1>3. Old(m) \/ (g = h /\ m = i /\ chain'[g][m].func = f)
    BY <1>1
  <1>4. Old(n) \/ (g = h /\ n = i /\ chain'[g][n].func = f)
    BY <1>1
  <1>5. CASE Old(m) /\ Old(n)
    BY <1>1, <1>5 DEF OneEnabledPerFunc
  <1>6. CASE Old(m) /\ g = h /\ chain'[g][n].func = f
    <2>1. m \in EnabledAt(h, f)
      BY <1>1, <1>6 DEF EnabledAt
    <2>2. QED
      BY <2>1
  <1>7. CASE Old(n) /\ g = h /\ chain'[g][m].func = f
    <2>1. n \in EnabledAt(h, f)
      BY <1>1, <1>7 DEF EnabledAt
    <2>2. QED
      BY <2>1
  <1>8. QED
    BY <1>1, <1>2, <1>3, <1>4, <1>5, <1>6, <1>7

\* Whatever is hooked, unhooked and hooked again, by one client or by several, a proxy
\* is enabled at most once in the list of a slot.
THEOREM OneEnabled == Spec => []OneEnabledPerFunc
  <1>1. Init => OneEnabledPerFunc
    <2>1. SUFFICES ASSUME Init PROVE OneEnabledPerFunc
      OBVIOUS
    <2>2. \A h \in Hooks : DOMAIN chain[h] = {}
      BY <2>1 DEF Init
    <2>3. QED
      BY <2>2 DEF OneEnabledPerFunc
  <1>2. OneEnabledPerFunc /\ TypeOK /\ TypeOK' /\ [Next]_vars => OneEnabledPerFunc'
    <2>1. SUFFICES ASSUME OneEnabledPerFunc, TypeOK, TypeOK', [Next]_vars PROVE OneEnabledPerFunc'
      OBVIOUS
    <2>2. CASE UNCHANGED chain
      BY <2>1, <2>2 DEF OneEnabledPerFunc
    <2>3. ASSUME NEW k \in Tasks, NEW h \in Hooks, Create(h, k)
          PROVE  OneEnabledPerFunc'
      <3> DEFINE n == [func |-> FuncOf[k], task |-> k, enabled |-> TRUE]
      <3>1. n \in Node /\ n.func = FuncOf[k] /\ FuncOf[k] \in Funcs
        BY FuncOfType DEF Node
      <3>2. chain' = [chain EXCEPT ![h] = Append(chain[h], n)] /\ EnabledAt(h, FuncOf[k]) = {}
        BY <2>3 DEF Create
      <3> HIDE DEF n
      <3>3. /\ chain'[h] = Append(chain[h], n)
            /\ \A g \in Hooks \ {h} : chain'[g] = chain[g]
        BY <2>1, <3>2 DEF TypeOK
      <3>4. /\ Len(chain[h]) \in Nat /\ DOMAIN chain[h] = 1..Len(chain[h])
            /\ DOMAIN chain'[h] = 1..(Len(chain[h]) + 1)
            /\ chain'[h][Len(chain[h]) + 1] = n
            /\ \A j \in 1..Len(chain[h]) : chain'[h][j] = chain[h][j]
        <4>1. chain'[h] \in Seq(Node) /\ Len(chain'[h]) = Len(chain[h]) + 1
          BY <2>1, <3>1, <3>3, NodeTypes, AppendProperties
        <4>2. QED
          BY <2>1, <3>1, <3>3, <4>1, NodeTypes, AppendProperties, LenProperties
      <3>5. \A j \in DOMAIN chain'[h] : j \in DOMAIN chain[h] \/ j = Len(chain[h]) + 1
        BY <3>4
      <3>6. QED
        BY <2>1, <3>1, <3>2, <3>3, <3>4, <3>5, EnabledStaysSingle
    <2>4. ASSUME NEW k \in Tasks, NEW h \in Hooks, ReEnable(h, k)
          PROVE  OneEnabledPerFunc'
      <3>1. EnabledAt(h, FuncOf[k]) = {} /\ FuncOf[k] \in Funcs
        BY <2>4, FuncOfType DEF ReEnable
      <3>2. PICK i \in NodesOf(h, k) : chain' = [chain EXCEPT ![h][i].enabled = TRUE]
        BY <2>4 DEF ReEnable
      <3>3. i \in DOMAIN chain[h] /\ chain[h][i].func = FuncOf[k]
        BY <3>2 DEF NodesOf
      <3>4. DOMAIN chain[h] = 1..Len(chain[h]) /\ chain[h][i] \in Node
        BY <2>1, <3>3, NodeTypes
      <3>5. /\ chain'[h] = [chain[h] EXCEPT ![i] = [chain[h][i] EXCEPT !.enabled = TRUE]]
            /\ \A g \in Hooks \ {h} : chain'[g] = chain[g]
        BY <2>1, <3>2 DEF TypeOK
      <3>6. /\ DOMAIN chain'[h] = DOMAIN chain[h]
            /\ chain'[h][i].func = FuncOf[k]
            /\ \A j \in DOMAIN chain[h] : j # i => chain'[h][j] = chain[h][j]
        BY <3>3, <3>4, <3>5 DEF Node
      <3>7. i \in Nat
        BY <3>3, <3>4
      <3>8. \A g \in Hooks : DOMAIN chain[g] \subseteq DOMAIN chain'[g]
        BY <3>5, <3>6
      <3>9. \A g \in Hooks : \A j \in DOMAIN chain'[g] :
              \/ /\ j \in DOMAIN chain[g]
                 /\ chain'[g][j].func = chain[g][j].func
                 /\ chain'[g][j].enabled => chain[g][j].enabled
              \/ g = h /\ j = i /\ chain'[g][j].func = FuncOf[k]
        BY <3>5, <3>6
      <3>10. QED
        BY <2>1, <3>1, <3>7, <3>8, <3>9, EnabledStaysSingle
    <2>5. ASSUME NEW k \in Tasks, NEW h \in Hooks, DelFunc(h, k)
          PROVE  OneEnabledPerFunc'
      <3>1. \A g \in Hooks : DOMAIN chain'[g] = DOMAIN chain[g]
        <4>1. \A g \in Hooks : Len(chain'[g]) = Len(chain[g])
          BY <2>1, <2>5, DelFuncChain
        <4>2. \A g \in Hooks : /\ DOMAIN chain[g] = 1..Len(chain[g])
                               /\ DOMAIN chain'[g] = 1..Len(chain'[g])
          BY <2>1, LenProperties DEF TypeOK
        <4>3. QED
          BY <4>1, <4>2
      <3>2. \A g \in Hooks : \A j \in DOMAIN chain[g] :
                /\ chain'[g][j].func = chain[g][j].func
                /\ chain'[g][j].enabled => chain[g][j].enabled
        BY <2>1, <2>5, NodeTypes, DelFuncChain
      <3>3. QED
        BY <2>1, <3>1, <3>2 DEF OneEnabledPerFunc
    <2>6. ASSUME NEW k \in Tasks, Register(k) \/ Unregister(k) \/ Retire(k)
          PROVE  OneEnabledPerFunc'
      BY <2>2, <2>6 DEF Register, Unregister, Retire
    <2>7. ASSUME NEW t \in Threads, Reader(t)
          PROVE  OneEnabledPerFunc'
      BY <2>2, <2>7, ReaderKeepsLists
    <2>8. CASE UNCHANGED vars
      BY <2>2, <2>8 DEF vars
    <2>9. QED
      BY <2>1, <2>3, <2>4, <2>5, <2>6, <2>7, <2>8 DEF Next, Writer
  <1>3. QED
    BY <1>1, <1>2, TypeCorrect, PTL DEF Spec

-----------------------------------------------------------------------------
(***************************************************************************)
(* Reentry.                                                                *)
(*                                                                         *)
(* Two calls of one original never both run proxies: push_stack looks for  *)
(* the original among the frames when a call begins, a call that runs      *)
(* proxies has a frame, and a thread makes no other call between that look *)
(* and the push of the frame.                                              *)
(***************************************************************************)

Walking == {"scan", "push", "prev"}

Nested(fr, st) ==
    /\ \A i \in 1..Len(st) : st[i].mode \in Walking => i = Len(st)
    /\ \A i \in 1..Len(st) : st[i].mode \in {"scan", "push"} =>
            \A k \in 1..Len(fr) : fr[k].orig # OrigOf[st[i].hook]
    /\ \A m, n \in 1..Len(st) :
            m < n /\ OrigOf[st[m].hook] = OrigOf[st[n].hook] => st[m].fs = <<>> \/ st[n].fs = <<>>

NestInv == \A t \in Threads : Nested(frames[t], stack[t])

\* The innermost call goes on.  If it enters a proxy now, no other call of its
\* original runs one.
LEMMA NestGoesOn ==
    ASSUME NEW fr, NEW st \in Seq(Call), Nested(fr, st), st # <<>>, NEW gr,
           NEW c \in Call, c.hook = st[Len(st)].hook,
           c.mode \in {"scan", "push"} => st[Len(st)].mode \in {"scan", "push"} /\ gr = fr,
           c.fs # <<>> =>
              \/ st[Len(st)].fs # <<>>
              \/ \A m \in 1..Len(st) : m # Len(st) /\ OrigOf[st[m].hook] = OrigOf[c.hook] => st[m].fs = <<>>
    PROVE  Nested(gr, [st EXCEPT ![Len(st)] = c])
  <1> DEFINE r == [st EXCEPT ![Len(st)] = c]
  <1>1. /\ Len(r) = Len(st)
        /\ Len(st) \in 1..Len(st)
        /\ r[Len(st)] = c
        /\ \A i \in 1..Len(st) : i # Len(st) => r[i] = st[i]
    BY ReplaceLast, EmptySeq, LenProperties
  <1> HIDE DEF r
  <1>2. \A i \in 1..Len(r) : r[i].mode \in Walking => i = Len(r)
    BY <1>1 DEF Nested
  <1>3. \A i \in 1..Len(r) : r[i].mode \in {"scan", "push"} =>
            \A k \in 1..Len(gr) : gr[k].orig # OrigOf[r[i].hook]
    <2>1. SUFFICES ASSUME NEW i \in 1..Len(r), r[i].mode \in {"scan", "push"}
                   PROVE  \A k \in 1..Len(gr) : gr[k].orig # OrigOf[r[i].hook]
      OBVIOUS
    <2>2. i = Len(st) /\ r[i] = c
      BY <1>1, <1>2, <2>1 DEF Walking
    <2>3. QED
      BY <1>1, <2>1, <2>2 DEF Nested
  <1>4. \A m, n \in 1..Len(r) :
            m < n /\ OrigOf[r[m].hook] = OrigOf[r[n].hook] => r[m].fs = <<>> \/ r[n].fs = <<>>
    <2>1. SUFFICES ASSUME NEW m \in 1..Len(r), NEW n \in 1..Len(r), m < n,
                          OrigOf[r[m].hook] = OrigOf[r[n].hook]
                   PROVE  r[m].fs = <<>> \/ r[n].fs = <<>>
      OBVIOUS
    <2>2. m # Len(st) /\ r[m] = st[m] /\ m \in 1..Len(st) /\ n \in 1..Len(st)
      BY <1>1, <2>1
    <2>3. CASE n = Len(st)
      BY <1>1, <2>1, <2>2, <2>3 DEF Nested
    <2>4. CASE n # Len(st)
      <3>1. r[n] = st[n]
        BY <1>1, <2>2, <2>4
      <3>2. QED
        BY <2>1, <2>2, <3>1 DEF Nested
    <2>5. QED
      BY <2>3, <2>4
  <1>5. Nested(gr, r)
    BY <1>2, <1>3, <1>4 DEF Nested
  <1>6. QED
    BY <1>5 DEF r

\* A call begins inside one that is in a proxy or in an original.
LEMMA NestBegins ==
    ASSUME NEW fr, NEW st \in Seq(Call), Nested(fr, st), NEW c \in Call,
           st # <<>> => st[Len(st)].mode \notin Walking,
           c.fs = <<>>,
           c.mode \in {"scan", "push"} => \A k \in 1..Len(fr) : fr[k].orig # OrigOf[c.hook]
    PROVE  Nested(fr, Append(st, c))
  <1> DEFINE r == Append(st, c)
  <1>1. /\ Len(st) \in Nat
        /\ Len(r) = Len(st) + 1
        /\ r[Len(st) + 1] = c
        /\ \A i \in 1..Len(st) : r[i] = st[i]
    BY AppendProperties, LenProperties
  <1> HIDE DEF r
  <1>2. \A i \in 1..Len(r) : i \in 1..Len(st) \/ i = Len(st) + 1
    BY <1>1
  <1>3. \A i \in 1..Len(st) : st[i].mode \notin Walking
    <2>1. SUFFICES ASSUME NEW i \in 1..Len(st), st[i].mode \in Walking
                   PROVE  FALSE
      OBVIOUS
    <2>2. i = Len(st) /\ st # <<>>
      BY <2>1, EmptySeq DEF Nested
    <2>3. QED
      BY <2>1, <2>2
  <1>4. \A i \in 1..Len(r) : r[i].mode \in Walking => i = Len(r)
    BY <1>1, <1>2, <1>3
  <1>5. \A i \in 1..Len(r) : r[i].mode \in {"scan", "push"} =>
            \A k \in 1..Len(fr) : fr[k].orig # OrigOf[r[i].hook]
    BY <1>1, <1>2, <1>3 DEF Walking
  <1>6. \A m, n \in 1..Len(r) :
            m < n /\ OrigOf[r[m].hook] = OrigOf[r[n].hook] => r[m].fs = <<>> \/ r[n].fs = <<>>
    <2>1. SUFFICES ASSUME NEW m \in 1..Len(r), NEW n \in 1..Len(r), m < n,
                          OrigOf[r[m].hook] = OrigOf[r[n].hook]
                   PROVE  r[m].fs = <<>> \/ r[n].fs = <<>>
      OBVIOUS
    <2>2. CASE n = Len(st) + 1
      BY <1>1, <2>2
    <2>3. CASE n \in 1..Len(st)
      <3>1. m \in 1..Len(st)
        BY <1>1, <2>1, <2>3
      <3>2. QED
        BY <1>1, <2>1, <2>3, <3>1 DEF Nested
    <2>4. QED
      BY <1>2, <2>2, <2>3
  <1>7. Nested(fr, r)
    BY <1>4, <1>5, <1>6 DEF Nested
  <1>8. QED
    BY <1>7 DEF r

\* The innermost call returns.
LEMMA NestReturns ==
    ASSUME NEW fr, NEW st \in Seq(Call), Nested(fr, st), st # <<>>, NEW gr
    PROVE  Nested(gr, Front(st))
  <1> DEFINE r == Front(st)
  <1>1. /\ Len(st) \in Nat \ {0}
        /\ Len(r) = Len(st) - 1
        /\ \A i \in 1..(Len(st) - 1) : r[i] = st[i]
    BY FrontOfSeq, EmptySeq
  <1> HIDE DEF r
  <1>2. \A i \in 1..Len(r) : i \in 1..Len(st) /\ i # Len(st) /\ r[i] = st[i]
    BY <1>1
  <1>3. \A i \in 1..Len(r) : r[i].mode \notin Walking
    BY <1>2 DEF Nested
  <1>4. \A m, n \in 1..Len(r) :
            m < n /\ OrigOf[r[m].hook] = OrigOf[r[n].hook] => r[m].fs = <<>> \/ r[n].fs = <<>>
    BY <1>2 DEF Nested
  <1>5. Nested(gr, r)
    BY <1>3, <1>4 DEF Nested, Walking
  <1>6. QED
    BY <1>5 DEF r

\* A proxy is found for a call: no other call of the same original runs one.
LEMMA FoundProxyIsFirst ==
    ASSUME CallInv, NestInv, NEW t \in Threads, stack[t] # <<>>, Top(t).mode = "scan"
    PROVE  \A m \in 1..Len(stack[t]) :
              m # Len(stack[t]) /\ OrigOf[stack[t][m].hook] = OrigOf[Top(t).hook] => stack[t][m].fs = <<>>
  <1>1. SUFFICES ASSUME NEW m \in 1..Len(stack[t]), m # Len(stack[t]),
                        OrigOf[stack[t][m].hook] = OrigOf[Top(t).hook],
                        stack[t][m].fs # <<>>
                 PROVE  FALSE
    OBVIOUS
  <1>2. /\ Nested(frames[t], stack[t])
        /\ ThreadOK(chain, frames[t], stack[t])
        /\ Len(stack[t]) \in 1..Len(stack[t])
    BY TopOK, TopTypes DEF NestInv
  <1>3. CallOK(chain, frames[t], stack[t][m]) /\ stack[t][m] \in Call
    BY <1>2 DEF ThreadOK, CallOK
  <1>4. stack[t][m].mode \notin Walking
    BY <1>1, <1>2 DEF Nested
  <1>5. stack[t][m].mode \in {"run", "after", "orig"}
    BY <1>1, <1>3, <1>4 DEF CallOK, ModeShape, Walking, Call, Mode
  <1>6. stack[t][m].frame # 0 /\ stack[t][m].frame \in Nat
    BY <1>1, <1>3, <1>5 DEF CallOK, ModeShape, Call
  <1>7. /\ stack[t][m].frame \in 1..Len(frames[t])
        /\ frames[t][stack[t][m].frame].orig = OrigOf[stack[t][m].hook]
    BY <1>3, <1>6 DEF CallOK
  <1>8. QED
    BY SMTT(40), <1>1, <1>2, <1>7 DEF Nested, Top

\* A step of one thread that takes its innermost call on.
LEMMA NestStep ==
    ASSUME CallInv, NestInv, NEW t \in Threads, stack[t] # <<>>, NEW c \in Call,
           stack' = WithTop(t, c),
           \A u \in Threads \ {t} : frames'[u] = frames[u],
           c.hook = Top(t).hook,
           c.mode \in {"scan", "push"} => Top(t).mode \in {"scan", "push"} /\ frames'[t] = frames[t],
           c.fs # <<>> =>
              \/ Top(t).fs # <<>>
              \/ \A m \in 1..Len(stack[t]) :
                    m # Len(stack[t]) /\ OrigOf[stack[t][m].hook] = OrigOf[c.hook] => stack[t][m].fs = <<>>
    PROVE  NestInv'
  <1>1. stack[t] \in Seq(Call) /\ Nested(frames[t], stack[t]) /\ TypeOK
    BY DEF CallInv, TypeOK, NestInv
  <1>2. /\ stack'[t] = [stack[t] EXCEPT ![Len(stack[t])] = c]
        /\ \A u \in Threads \ {t} : stack'[u] = stack[u]
    BY <1>1 DEF WithTop, TypeOK
  <1>3. Nested(frames'[t], stack'[t])
    BY <1>1, <1>2, NestGoesOn DEF Top
  <1>4. QED
    BY <1>2, <1>3 DEF NestInv

\* A step of one thread that ends its innermost call.
LEMMA NestReturnStep ==
    ASSUME CallInv, NestInv, NEW t \in Threads, stack[t] # <<>>,
           stack' = WithoutTop(t),
           \A u \in Threads \ {t} : frames'[u] = frames[u]
    PROVE  NestInv'
  <1>1. stack[t] \in Seq(Call) /\ Nested(frames[t], stack[t]) /\ TypeOK
    BY DEF CallInv, TypeOK, NestInv
  <1>2. /\ stack'[t] = Front(stack[t])
        /\ \A u \in Threads \ {t} : stack'[u] = stack[u]
    BY <1>1 DEF WithoutTop, TypeOK
  <1>3. Nested(frames'[t], stack'[t])
    BY <1>1, <1>2, NestReturns
  <1>4. QED
    BY <1>2, <1>3 DEF NestInv

\* A call begins, as a recursive one or not.
LEMMA EnterNests ==
    ASSUME CallInv, CallInv', NestInv, NEW t \in Threads, NEW h \in Hooks,
           Enter(t, h) \/ EnterNoStack(t, h)
    PROVE  NestInv'
  <1>1. /\ MayCall(t, h) /\ UNCHANGED frames
        /\ stack[t] \in Seq(Call) /\ Nested(frames[t], stack[t]) /\ TypeOK
    BY DEF Enter, EnterNoStack, CallInv, TypeOK, NestInv
  <1>2. PICK m \in {"scan", "bypass"} :
            /\ stack' = [stack EXCEPT ![t] = Append(@, NewCall(t, h, m))]
            /\ m = "scan" => ~Recursive(t, h)
    BY DEF Enter, EnterNoStack
  <1> DEFINE c == NewCall(t, h, m)
  <1>3. c.fs = <<>> /\ c.hook = h /\ c.mode = m
    BY DEF NewCall
  <1> HIDE DEF c
  <1>4. stack'[t] = Append(stack[t], c) /\ \A u \in Threads \ {t} : stack'[u] = stack[u]
    BY <1>1, <1>2 DEF TypeOK, c
  <1>5. c \in Call
    <2>1. stack'[t] \in Seq(Call)
      BY DEF CallInv, TypeOK
    <2>2. Len(stack[t]) \in Nat
      BY <1>1, LenProperties
    <2>3. Len(stack'[t]) = Len(stack[t]) + 1 /\ stack'[t][Len(stack[t]) + 1] = c
      BY <1>1, <1>4, <2>2
    <2>4. QED
      BY <2>1, <2>2, <2>3, ElementOfSeq
  <1>6. c.mode \in {"scan", "push"} => \A k \in 1..Len(frames[t]) : frames[t][k].orig # OrigOf[c.hook]
    BY <1>1, <1>2, <1>3, FrameTypes DEF Recursive
  <1>7. stack[t] # <<>> => stack[t][Len(stack[t])].mode \notin Walking
    BY <1>1 DEF MayCall, InCall, Top, Walking
  <1>8. Nested(frames[t], stack'[t])
    BY <1>1, <1>3, <1>4, <1>5, <1>6, <1>7, NestBegins
  <1>9. QED
    BY <1>1, <1>4, <1>8 DEF NestInv

\* The steps inside the engine.
LEMMA EngineNests ==
    ASSUME CallInv, NestInv, NEW t \in Threads, Engine(t)
    PROVE  NestInv'
  <1> DEFINE c == Top(t)
  <1>1. stack[t] # <<>>
    BY DEF Engine, ScanHit, Push, PushFull, PrevHit, Skip, WalkEnd, InCall
  <1>2. /\ TypeOK /\ c \in Call /\ c.hook \in Hooks /\ c.fs \in Seq(Funcs) /\ c.idx \in Nat
        /\ CallOK(chain, frames[t], c)
    BY <1>1, TopOK
  <1>3. ASSUME ScanHit(t) PROVE NestInv'
    <2> DEFINE f == chain[c.hook][c.idx].func
    <2> DEFINE d == [c EXCEPT !.mode = "push", !.fs = <<f>>]
    <2>1. c.mode = "scan" /\ c.idx > 0 /\ stack' = WithTop(t, d) /\ UNCHANGED frames
      BY <1>3 DEF ScanHit, InCall
    <2>2. f \in Funcs
      BY <1>1, <1>2, <2>1, TopOK, NodeTypes
    <2>3. <<f>> \in Seq(Funcs)
      BY <2>2
    <2>4. d \in Call /\ d.hook = c.hook /\ d.mode = "push"
      BY <1>2, <2>3 DEF Call, Mode
    <2> HIDE DEF d
    <2>5. QED
      BY <1>1, <2>1, <2>4, FoundProxyIsFirst, NestStep
  <1>4. ASSUME Push(t) PROVE NestInv'
    <2> DEFINE d == [c EXCEPT !.mode = "run", !.frame = Len(frames[t]) + 1]
    <2>1. c.mode = "push" /\ stack' = WithTop(t, d) /\ \A u \in Threads \ {t} : frames'[u] = frames[u]
      BY <1>2, <1>4 DEF Push, InCall, TypeOK
    <2>2. Len(frames[t]) + 1 \in Nat
      BY <1>2, FrameTypes
    <2>3. d \in Call /\ d.hook = c.hook /\ d.mode = "run" /\ d.fs = c.fs
      BY <1>2, <2>2 DEF Call, Mode
    <2>4. c.fs # <<>>
      BY <1>2, <2>1 DEF CallOK, ModeShape
    <2> HIDE DEF d
    <2>5. QED
      BY <1>1, <2>1, <2>3, <2>4, NestStep
  <1>5. ASSUME PushFull(t) PROVE NestInv'
    <2> DEFINE d == [c EXCEPT !.mode = "bypass", !.fs = <<>>]
    <2>1. stack' = WithTop(t, d) /\ UNCHANGED frames
      BY <1>5 DEF PushFull
    <2>2. d \in Call /\ d.hook = c.hook /\ d.mode = "bypass" /\ d.fs = <<>>
      BY <1>2, EmptySeq DEF Call, Mode
    <2> HIDE DEF d
    <2>3. QED
      BY <1>1, <2>1, <2>2, NestStep
  <1>6. ASSUME PrevHit(t) PROVE NestInv'
    <2> DEFINE f == chain[Cur(t).hook][c.idx].func
    <2> DEFINE d == [c EXCEPT !.mode = "run", !.fs = Append(@, f)]
    <2>1. c.mode = "prev" /\ c.idx > 0 /\ stack' = WithTop(t, d) /\ UNCHANGED frames
      BY <1>6 DEF PrevHit, InCall
    <2>2. c.fs # <<>> /\ c.frame > 0
      BY <1>2, <2>1 DEF CallOK, ModeShape
    <2>3. f \in Funcs
      <3>1. Cur(t).hook = c.hook
        BY <1>1, <2>2, CurOfTop
      <3>2. QED
        BY <1>1, <1>2, <2>1, <3>1, TopOK, NodeTypes
    <2> HIDE DEF f
    <2>4. Append(c.fs, f) \in Seq(Funcs)
      BY <1>2, <2>3, AppendProperties
    <2>5. d \in Call /\ d.hook = c.hook /\ d.mode = "run"
      BY <1>2, <2>4 DEF Call, Mode
    <2>6. stack' = WithTop(t, d)
      BY <2>1 DEF f
    <2> HIDE DEF d
    <2>7. QED
      BY <1>1, <2>1, <2>2, <2>5, <2>6, NestStep
  <1>7. ASSUME Skip(t) PROVE NestInv'
    <2> DEFINE d == [c EXCEPT !.idx = @ - 1]
    <2>1. c.idx > 0 /\ stack' = WithTop(t, d) /\ UNCHANGED frames
      BY <1>7 DEF Skip
    <2>2. c.idx - 1 \in Nat
      BY <1>2, <2>1
    <2>3. d \in Call /\ d.hook = c.hook /\ d.mode = c.mode /\ d.fs = c.fs
      BY <1>2, <2>2 DEF Call
    <2> HIDE DEF d
    <2>4. QED
      BY <1>1, <2>1, <2>3, NestStep
  <1>8. ASSUME WalkEnd(t) PROVE NestInv'
    <2> DEFINE d == [c EXCEPT !.mode = "orig"]
    <2>1. stack' = WithTop(t, d) /\ UNCHANGED frames
      BY <1>8 DEF WalkEnd
    <2>2. d \in Call /\ d.hook = c.hook /\ d.mode = "orig" /\ d.fs = c.fs
      BY <1>2 DEF Call, Mode
    <2> HIDE DEF d
    <2>3. QED
      BY <1>1, <2>1, <2>2, NestStep
  <1>9. QED
    BY <1>3, <1>4, <1>5, <1>6, <1>7, <1>8 DEF Engine

\* The steps of the proxies and of the originals.
LEMMA ClientNests ==
    ASSUME CallInv, NestInv, NEW t \in Threads,
           CallPrev(t) \/ OrigReturns(t) \/ ProxyReturns(t) \/ ThreadExit(t)
    PROVE  NestInv'
  <1> DEFINE c == Top(t)
  <1>1. stack[t] # <<>>
    BY DEF CallPrev, OrigReturns, ProxyReturns, ThreadExit, InCall
  <1>2. /\ TypeOK /\ c \in Call /\ c.hook \in Hooks /\ c.fs \in Seq(Funcs)
        /\ CallOK(chain, frames[t], c)
    BY <1>1, TopOK
  <1>3. ASSUME CallPrev(t) PROVE NestInv'
    <2> DEFINE n == After(Cur(t).hook, Cur(t).head, Proxy(t))
    <2> DEFINE d == [c EXCEPT !.mode = "prev", !.idx = n]
    <2>1. c.mode = "run" /\ stack' = WithTop(t, d) /\ UNCHANGED frames
      BY <1>3 DEF CallPrev, InCall
    <2>2. c.frame > 0 /\ c.fs # <<>>
      BY <1>2, <2>1 DEF CallOK, ModeShape
    <2>3. Cur(t).head \in Nat
      BY <1>1, <2>2, CurOfTop
    <2>4. n \in Nat
      BY <2>3, AfterType
    <2> HIDE DEF n
    <2>5. d \in Call /\ d.hook = c.hook /\ d.mode = "prev"
      BY <1>2, <2>4 DEF Call, Mode
    <2> HIDE DEF d
    <2>6. QED
      BY <1>1, <2>1, <2>2, <2>5, NestStep
  <1>4. ASSUME OrigReturns(t) PROVE NestInv'
    <2>1. UNCHANGED frames
      BY <1>4 DEF OrigReturns
    <2>2. CASE c.fs = <<>>
      BY <1>1, <1>4, <2>1, <2>2, NestReturnStep DEF OrigReturns
    <2>3. CASE c.fs # <<>>
      <3> DEFINE d == [c EXCEPT !.mode = "after"]
      <3>1. stack' = WithTop(t, d)
        BY <1>4, <2>3 DEF OrigReturns
      <3>2. d \in Call /\ d.hook = c.hook /\ d.mode = "after"
        BY <1>2 DEF Call, Mode
      <3> HIDE DEF d
      <3>3. QED
        BY <1>1, <2>1, <2>3, <3>1, <3>2, NestStep
    <2>4. QED
      BY <2>2, <2>3
  <1>5. ASSUME ProxyReturns(t) PROVE NestInv'
    <2>1. c.mode \in {"run", "after"} /\ \A u \in Threads \ {t} : frames'[u] = frames[u]
      BY <1>2, <1>5 DEF ProxyReturns, InCall, TypeOK
    <2>2. c.fs # <<>>
      BY <1>2, <2>1 DEF CallOK, ModeShape
    <2>3. CASE Len(c.fs) = 1
      BY <1>1, <1>5, <2>1, <2>3, NestReturnStep DEF ProxyReturns
    <2>4. CASE Len(c.fs) # 1
      <3> DEFINE d == [c EXCEPT !.mode = "after", !.fs = Front(@)]
      <3>1. stack' = WithTop(t, d)
        BY <1>5, <2>4 DEF ProxyReturns
      <3>2. Front(c.fs) \in Seq(Funcs)
        BY <1>2, <2>2, FrontOfSeq
      <3>3. d \in Call /\ d.hook = c.hook /\ d.mode = "after"
        BY <1>2, <3>2 DEF Call, Mode
      <3> HIDE DEF d
      <3>4. QED
        BY <1>1, <2>1, <2>2, <3>1, <3>3, NestStep
    <2>5. QED
      BY <2>3, <2>4
  <1>6. ASSUME ThreadExit(t) PROVE NestInv'
    <2>1. /\ stack'[t] = <<>>
          /\ \A u \in Threads \ {t} : frames'[u] = frames[u] /\ stack'[u] = stack[u]
      BY <1>2, <1>6 DEF ThreadExit, TypeOK
    <2>2. Nested(frames'[t], <<>>)
      BY EmptySeq DEF Nested
    <2>3. QED
      BY <2>1, <2>2 DEF NestInv
  <1>7. QED
    BY <1>3, <1>4, <1>5, <1>6

\* A task changes of a call only 'due'.
LEMMA WriterNests ==
    ASSUME CallInv, NestInv, Writer
    PROVE  NestInv'
  <1>1. TypeOK
    BY DEF CallInv
  <1>2. CASE UNCHANGED <<frames, stack>>
    BY <1>2 DEF NestInv
  <1>3. ASSUME NEW h \in Hooks, NEW k \in Tasks, DelFunc(h, k)
        PROVE  NestInv'
    <2>1. UNCHANGED frames
      BY <1>3 DEF DelFunc
    <2>2. ASSUME NEW t \in Threads
          PROVE  Nested(frames[t], stack'[t])
      <3> DEFINE s == [i \in DOMAIN stack[t] |->
                        IF stack[t][i].hook = h
                        THEN [stack[t][i] EXCEPT !.due = @ \ {FuncOf[k]}]
                        ELSE stack[t][i]]
      <3>1. stack'[t] = s
        BY <1>3 DEF DelFunc
      <3>2. stack[t] \in Seq(Call) /\ Len(stack[t]) \in Nat /\ DOMAIN stack[t] = 1..Len(stack[t])
        BY <1>1, LenProperties DEF TypeOK
      <3>3. \A i \in 1..Len(stack[t]) :
              /\ s[i] \in Call
              /\ s[i].hook = stack[t][i].hook
              /\ s[i].mode = stack[t][i].mode
              /\ s[i].fs = stack[t][i].fs
        <4>1. TAKE i \in 1..Len(stack[t])
        <4>2. stack[t][i] \in Call /\ i \in DOMAIN stack[t]
          BY <3>2, ElementOfSeq
        <4>3. QED
          BY <4>2 DEF Call
      <3>4. s \in [1..Len(stack[t]) -> Call]
        BY <3>2, <3>3
      <3> HIDE DEF s
      <3>5. Len(s) = Len(stack[t])
        BY <3>2, <3>4, FunctionIsSeq
      <3>6. Nested(frames[t], stack[t])
        BY DEF NestInv
      <3>7. Nested(frames[t], s)
        BY SMTT(40), <3>3, <3>5, <3>6 DEF Nested
      <3>8. QED
        BY <3>1, <3>7
    <2>3. QED
      BY <2>1, <2>2 DEF NestInv
  <1>4. QED
    BY <1>2, <1>3 DEF Writer, Register, Unregister, Retire, ReEnable, Create

\* A thread that is inside a proxy of an original enters no proxy of the same
\* original again, through whatever slot it calls it.
THEOREM Reentry == Spec => []NoReentry
  <1>1. Init => NestInv
    <2>1. SUFFICES ASSUME Init PROVE NestInv
      OBVIOUS
    <2>2. \A fr : Nested(fr, <<>>)
      BY EmptySeq DEF Nested
    <2>3. QED
      BY <2>1, <2>2 DEF Init, NestInv
  <1>2. CallInv /\ CallInv' /\ NestInv /\ [Next]_vars => NestInv'
    <2>1. SUFFICES ASSUME CallInv, CallInv', NestInv, [Next]_vars PROVE NestInv'
      OBVIOUS
    <2>2. CASE UNCHANGED vars
      BY <2>1, <2>2 DEF NestInv, vars
    <2>3. CASE Writer
      BY <2>1, <2>3, WriterNests
    <2>4. ASSUME NEW t \in Threads, Reader(t)
          PROVE  NestInv'
      BY <2>1, <2>4, EnterNests, EngineNests, ClientNests DEF Reader
    <2>5. QED
      BY <2>1, <2>2, <2>3, <2>4 DEF Next
  <1>3. CallInv /\ NestInv => NoReentry
    <2>1. SUFFICES ASSUME CallInv, NestInv PROVE NoReentry
      OBVIOUS
    <2>2. \A t \in Threads : DOMAIN stack[t] = 1..Len(stack[t])
      BY <2>1, LenProperties DEF CallInv, TypeOK
    <2>3. QED
      BY <2>1, <2>2 DEF NestInv, Nested, NoReentry
  <1>4. QED
    BY <1>1, <1>2, <1>3, CallInvariant, PTL DEF Spec
-----------------------------------------------------------------------------
(***************************************************************************)
(* Walks.                                                                  *)
(*                                                                         *)
(* Covers: a proxy that is enabled ever since a call began has run, or an  *)
(* enabled node of it lies ahead of the walk.  It holds however often      *)
(* proxies are hooked.  Once: if they are hooked once, every proxy that    *)
(* has run lies behind the walk, because the look-up of the running proxy  *)
(* by its address finds the node the walk came from (OldNodes).            *)
(***************************************************************************)

Serves(l, f, i) == l[i].func = f /\ l[i].enabled

Ran(c) == {c.fs[i] : i \in 1..Len(c.fs)}

Ahead(l, c, n) == \A f \in c.due : f \in Ran(c) \/ \E i \in 1..n : Serves(l, f, i)

Covers(l, fr, c) ==
    /\ c.mode \in {"scan", "prev"} => Ahead(l, c, c.idx)
    /\ c.mode \in {"push", "run"} =>
          /\ c.idx > 0
          /\ l[c.idx].func = c.fs[Len(c.fs)]
          /\ Ahead(l, c, c.idx - 1)
    /\ c.mode \in {"run", "prev"} => c.idx <= fr[c.frame].head
    /\ c.mode = "push" => Len(c.fs) = 1
    /\ c.mode = "orig" => c.due \subseteq Ran(c)

Behind(l, c, n) == \A i \in 1..n : \E m \in (c.idx + 1)..Len(l) : l[m].func = c.fs[i]

Once(l, fr, c) ==
    /\ \A i, j \in 1..Len(c.fs) : c.fs[i] = c.fs[j] => i = j
    /\ c.mode = "prev" => Behind(l, c, Len(c.fs))
    /\ c.mode = "run" /\ Len(c.fs) > 1 =>
          /\ Behind(l, c, Len(c.fs) - 1)
          /\ \A m \in (c.idx + 1)..fr[c.frame].head : l[m].func # c.fs[Len(c.fs)]

WalkOK(l, fr, c) == Covers(l, fr, c) /\ (~Rehook => Once(l, fr, c))

WalkInv ==
    \A t \in Threads : \A i \in 1..Len(stack[t]) :
        WalkOK(chain[stack[t][i].hook], frames[t], stack[t][i])

\* A call that walks no list and runs no proxy yet, or none any more.
LEMMA IdleWalk ==
    ASSUME NEW l, NEW fr, NEW c,
           c.mode \in {"after", "bypass"},
           ~Rehook => \A i, j \in 1..Len(c.fs) : c.fs[i] = c.fs[j] => i = j
    PROVE  WalkOK(l, fr, c)
  BY DEF WalkOK, Covers, Once

\* A walk depends on the frame of its call only, and on the head in it.
LEMMA WalkFrame ==
    ASSUME NEW ch, NEW fr, NEW gr, NEW c \in Call, CallOK(ch, fr, c), NEW l, WalkOK(l, fr, c),
           c.frame > 0 => gr[c.frame] = fr[c.frame]
    PROVE  WalkOK(l, gr, c)
  <1>1. c.mode \in {"run", "prev"} => c.frame > 0
    BY DEF CallOK, ModeShape
  <1>2. c.mode \in {"run", "prev"} => gr[c.frame] = fr[c.frame]
    BY <1>1
  <1>3. Covers(l, gr, c)
    BY <1>2 DEF WalkOK, Covers
  <1>4. ~Rehook => Once(l, gr, c)
    BY <1>2 DEF WalkOK, Once
  <1>5. QED
    BY <1>3, <1>4 DEF WalkOK

\* A step of one thread that takes its innermost call on: the frames of its other
\* calls stay.
LEMMA WalkStep ==
    ASSUME CallInv, WalkInv, NEW t \in Threads, stack[t] # <<>>, UNCHANGED chain,
           NEW c \in Call, stack' = WithTop(t, c),
           \A u \in Threads \ {t} : frames'[u] = frames[u],
           \A k \in 1..Len(frames[t]) : frames'[t][k] = frames[t][k],
           WalkOK(chain[c.hook], frames'[t], c)
    PROVE  WalkInv'
  <1>1. /\ stack[t] \in Seq(Call) /\ ThreadOK(chain, frames[t], stack[t]) /\ TypeOK
    BY DEF CallInv, TypeOK
  <1>2. /\ stack'[t] = [stack[t] EXCEPT ![Len(stack[t])] = c]
        /\ \A u \in Threads \ {t} : stack'[u] = stack[u]
    BY <1>1 DEF WithTop, TypeOK
  <1>3. /\ Len(stack'[t]) = Len(stack[t])
        /\ stack'[t][Len(stack[t])] = c
        /\ \A i \in 1..Len(stack[t]) : i # Len(stack[t]) => stack'[t][i] = stack[t][i]
    BY <1>1, <1>2, ReplaceLast
  <1>4. ASSUME NEW i \in 1..Len(stack[t]), i # Len(stack[t])
        PROVE  WalkOK(chain[stack'[t][i].hook], frames'[t], stack'[t][i])
    <2> DEFINE d == stack[t][i]
    <2>1. d = stack'[t][i]
      BY SMTT(40), <1>3, <1>4
    <2>2. CallOK(chain, frames[t], d) /\ d \in Call /\ WalkOK(chain[d.hook], frames[t], d)
      BY <1>1, <1>4 DEF ThreadOK, CallOK, WalkInv
    <2> HIDE DEF d
    <2>3. d.frame > 0 => d.frame \in 1..Len(frames[t])
      BY <2>2 DEF CallOK
    <2>4. WalkOK(chain[d.hook], frames'[t], d)
      BY <2>2, <2>3, WalkFrame
    <2>5. QED
      BY <2>1, <2>4
  <1>5. \A i \in 1..Len(stack'[t]) : WalkOK(chain[stack'[t][i].hook], frames'[t], stack'[t][i])
    BY <1>3, <1>4
  <1>6. SUFFICES ASSUME NEW u \in Threads, NEW i \in 1..Len(stack'[u])
                 PROVE  WalkOK(chain[stack'[u][i].hook], frames'[u], stack'[u][i])
    BY DEF WalkInv
  <1>7. CASE u = t
    BY <1>5, <1>6, <1>7
  <1>8. CASE u # t
    BY <1>2, <1>6, <1>8 DEF WalkInv
  <1>9. QED
    BY <1>7, <1>8

\* A step of one thread that ends its innermost call, with its frame.
LEMMA WalkReturnStep ==
    ASSUME CallInv, WalkInv, NEW t \in Threads, stack[t] # <<>>, UNCHANGED chain,
           stack' = WithoutTop(t),
           \A u \in Threads \ {t} : frames'[u] = frames[u],
           \/ frames'[t] = frames[t]
           \/ Top(t).frame > 0 /\ frames'[t] = Front(frames[t])
    PROVE  WalkInv'
  <1>1. /\ stack[t] \in Seq(Call) /\ ThreadOK(chain, frames[t], stack[t]) /\ TypeOK
        /\ Len(stack[t]) \in Nat \ {0}
    BY EmptySeq DEF CallInv, TypeOK
  <1>2. /\ stack'[t] = Front(stack[t])
        /\ \A u \in Threads \ {t} : stack'[u] = stack[u]
    BY <1>1 DEF WithoutTop, TypeOK
  <1>3. /\ Len(stack'[t]) = Len(stack[t]) - 1
        /\ \A i \in 1..(Len(stack[t]) - 1) : stack'[t][i] = stack[t][i]
    BY <1>1, <1>2, FrontOfSeq
  <1>4. ASSUME NEW i \in 1..Len(stack'[t])
        PROVE  WalkOK(chain[stack'[t][i].hook], frames'[t], stack'[t][i])
    <2> DEFINE d == stack[t][i]
    <2>1. d = stack'[t][i] /\ i \in 1..Len(stack[t]) /\ i < Len(stack[t])
      BY SMTT(40), <1>1, <1>3, <1>4
    <2>2. CallOK(chain, frames[t], d) /\ d \in Call /\ WalkOK(chain[d.hook], frames[t], d)
      BY <1>1, <2>1 DEF ThreadOK, CallOK, WalkInv
    <2>3. d.frame > 0 /\ Top(t).frame > 0 => d.frame < Top(t).frame
      BY SMTT(40), <1>1, <2>1 DEF ThreadOK, Top
    <2> HIDE DEF d
    <2>4. d.frame > 0 => d.frame \in 1..Len(frames[t])
      BY <2>2 DEF CallOK
    <2>5. d.frame > 0 => frames'[t][d.frame] = frames[t][d.frame]
      <3>1. CASE frames'[t] = frames[t]
        BY <3>1
      <3>2. CASE Top(t).frame > 0 /\ frames'[t] = Front(frames[t])
        <4>1. Top(t).frame = Len(frames[t]) /\ frames[t] # <<>>
          BY <3>2, CurOfTop
        <4>2. \A k \in 1..(Len(frames[t]) - 1) : frames'[t][k] = frames[t][k]
          BY <1>1, <3>2, <4>1, FrameTypes, FrontOfSeq
        <4>3. Len(frames[t]) \in Nat
          BY <1>1, FrameTypes
        <4>4. QED
          BY <2>3, <2>4, <3>2, <4>1, <4>2, <4>3
      <3>3. QED
        BY <3>1, <3>2
    <2>6. WalkOK(chain[d.hook], frames'[t], d)
      BY <2>2, <2>5, WalkFrame
    <2>7. QED
      BY <2>1, <2>6
  <1>5. SUFFICES ASSUME NEW u \in Threads, NEW i \in 1..Len(stack'[u])
                 PROVE  WalkOK(chain[stack'[u][i].hook], frames'[u], stack'[u][i])
    BY DEF WalkInv
  <1>6. CASE u = t
    BY <1>4, <1>5, <1>6
  <1>7. CASE u # t
    BY <1>2, <1>5, <1>7 DEF WalkInv
  <1>8. QED
    BY <1>6, <1>7

\* A call begins: every enabled proxy has a node ahead of the walk, which starts at
\* the newest one.
LEMMA EnterWalks ==
    ASSUME CallInv, CallInv', WalkInv, NEW t \in Threads, NEW h \in Hooks,
           Enter(t, h) \/ EnterNoStack(t, h)
    PROVE  WalkInv'
  <1>1. /\ UNCHANGED <<chain, frames>>
        /\ stack[t] \in Seq(Call) /\ TypeOK /\ Len(stack[t]) \in Nat
    BY LenProperties DEF Enter, EnterNoStack, CallInv, TypeOK
  <1>2. PICK m \in {"scan", "bypass"} : stack' = [stack EXCEPT ![t] = Append(@, NewCall(t, h, m))]
    BY DEF Enter, EnterNoStack
  <1> DEFINE c == NewCall(t, h, m)
  <1>3. /\ c.hook = h /\ c.mode = m /\ c.idx = Len(chain[h]) /\ c.fs = <<>>
        /\ c.due = EnabledFuncs(h)
    BY DEF NewCall
  <1> HIDE DEF c
  <1>4. /\ Len(stack'[t]) = Len(stack[t]) + 1
        /\ stack'[t][Len(stack[t]) + 1] = c
        /\ \A i \in 1..Len(stack[t]) : stack'[t][i] = stack[t][i]
        /\ \A u \in Threads \ {t} : stack'[u] = stack[u]
    <2>1. stack'[t] = Append(stack[t], c) /\ \A u \in Threads \ {t} : stack'[u] = stack[u]
      BY <1>1, <1>2 DEF TypeOK, c
    <2>2. QED
      BY <1>1, <2>1
  <1>5. Len(c.fs) = 0
    BY <1>3, EmptySeq
  <1>6. Ahead(chain[h], c, c.idx)
    <2>1. SUFFICES ASSUME NEW f \in c.due PROVE \E i \in 1..c.idx : Serves(chain[h], f, i)
      BY DEF Ahead
    <2>2. PICK i \in DOMAIN chain[h] : chain[h][i].func = f /\ chain[h][i].enabled
      BY <1>3, <2>1 DEF EnabledFuncs, EnabledAt
    <2>3. i \in 1..c.idx
      BY <1>1, <1>3, <2>2, NodeTypes
    <2>4. QED
      BY <2>2, <2>3 DEF Serves
  <1>7. WalkOK(chain[h], frames[t], c)
    BY <1>3, <1>5, <1>6 DEF WalkOK, Covers, Once, Behind
  <1>8. SUFFICES ASSUME NEW u \in Threads, NEW i \in 1..Len(stack'[u])
                 PROVE  WalkOK(chain[stack'[u][i].hook], frames[u], stack'[u][i])
    BY <1>1 DEF WalkInv
  <1>9. CASE u # t
    BY <1>4, <1>8, <1>9 DEF WalkInv
  <1>10. CASE u = t /\ i \in 1..Len(stack[t])
    BY <1>4, <1>10 DEF WalkInv
  <1>11. CASE u = t /\ i = Len(stack[t]) + 1
    BY <1>3, <1>4, <1>7, <1>11
  <1>12. QED
    BY <1>1, <1>4, <1>8, <1>9, <1>10, <1>11

\* The walk of the innermost call.
LEMMA TopWalk ==
    ASSUME CallInv, WalkInv, NEW t \in Threads, stack[t] # <<>>
    PROVE  WalkOK(chain[Top(t).hook], frames[t], Top(t))
  <1>1. Len(stack[t]) \in 1..Len(stack[t])
    BY TopOK, TopTypes
  <1>2. QED
    BY <1>1 DEF WalkInv, Top

\* push_stack finds an enabled proxy: it is the newest that is due, or not due.
LEMMA ScanHitWalks ==
    ASSUME CallInv, WalkInv, NEW t \in Threads, ScanHit(t)
    PROVE  WalkInv'
  <1> DEFINE c == Top(t)
  <1> DEFINE l == chain[c.hook]
  <1> DEFINE f == l[c.idx].func
  <1> DEFINE d == [c EXCEPT !.mode = "push", !.fs = <<f>>]
  <1>1. /\ stack[t] # <<>> /\ c.mode = "scan" /\ c.idx > 0
        /\ stack' = WithTop(t, d) /\ UNCHANGED <<chain, task, tls, frames>>
    BY DEF ScanHit, InCall
  <1>2. c \in Call /\ c.hook \in Hooks /\ c.idx \in Nat /\ WalkOK(l, frames[t], c)
    BY <1>1, TopOK, TopWalk
  <1>3. <<f>> \in Seq(Funcs)
    <2>1. f \in Funcs
      BY <1>1, TopOK, NodeTypes
    <2>2. QED
      BY <2>1
  <1>4. /\ d \in Call /\ d.hook = c.hook /\ d.mode = "push" /\ d.idx = c.idx
        /\ d.fs = <<f>> /\ d.due = c.due
    BY <1>2, <1>3 DEF Call, Mode
  <1>5. Len(d.fs) = 1 /\ d.fs[1] = f
    BY <1>4
  <1>6. Ahead(l, c, c.idx)
    BY <1>1, <1>2 DEF WalkOK, Covers
  <1> HIDE DEF d, c
  <1>7. Ahead(l, d, d.idx - 1)
    <2>1. SUFFICES ASSUME NEW g \in c.due, g \notin Ran(d)
                   PROVE  \E i \in 1..(c.idx - 1) : Serves(l, g, i)
      BY <1>4 DEF Ahead
    <2>2. g # f
      BY <1>5, <2>1 DEF Ran
    <2>3. Ran(c) = {}
      <3>1. c.fs = <<>>
        BY <1>1, TopOK DEF c, CallOK, ModeShape
      <3>2. Len(c.fs) = 0
        BY <3>1, EmptySeq
      <3>3. QED
        BY <3>2 DEF Ran
    <2>4. PICK i \in 1..c.idx : Serves(l, g, i)
      BY <1>6, <2>1, <2>3 DEF Ahead
    <2>5. i # c.idx
      BY <2>2, <2>4 DEF Serves
    <2>6. QED
      BY <1>2, <2>4, <2>5
  <1>8. WalkOK(l, frames[t], d)
    <2>1. Covers(l, frames[t], d)
      BY <1>1, <1>4, <1>5, <1>7 DEF Covers
    <2>2. Once(l, frames[t], d)
      BY <1>4, <1>5 DEF Once
    <2>3. QED
      BY <2>1, <2>2 DEF WalkOK
  <1>9. QED
    BY <1>1, <1>4, <1>8, WalkStep

\* push_stack pushes a frame: the list it copies holds the node it found, and may
\* hold newer ones.
LEMMA PushWalks ==
    ASSUME CallInv, WalkInv, NEW t \in Threads, Push(t)
    PROVE  WalkInv'
  <1> DEFINE c == Top(t)
  <1> DEFINE l == chain[c.hook]
  <1> DEFINE f == [hook |-> c.hook, head |-> Len(l), orig |-> OrigOf[c.hook], ret |-> c.ret]
  <1> DEFINE d == [c EXCEPT !.mode = "run", !.frame = Len(frames[t]) + 1]
  <1>1. /\ stack[t] # <<>> /\ c.mode = "push"
        /\ frames' = [frames EXCEPT ![t] = Append(@, f)]
        /\ stack' = WithTop(t, d) /\ UNCHANGED <<chain, task, tls>>
    BY DEF Push, InCall
  <1>2. /\ c \in Call /\ c.hook \in Hooks /\ c.idx \in Nat /\ WalkOK(l, frames[t], c)
        /\ TypeOK /\ ThreadOK(chain, frames[t], stack[t]) /\ CallOK(chain, frames[t], c)
        /\ c.fs \in Seq(Funcs)
    BY <1>1, TopOK, TopWalk
  <1>3. frames[t] \in Seq(Frame) /\ Len(frames[t]) \in Nat
    BY <1>2, FrameTypes
  <1>4. /\ d \in Call /\ d.hook = c.hook /\ d.mode = "run" /\ d.idx = c.idx
        /\ d.fs = c.fs /\ d.due = c.due /\ d.frame = Len(frames[t]) + 1
    <2>1. Len(frames[t]) + 1 \in Nat
      BY <1>3
    <2>2. QED
      BY <1>2, <2>1 DEF Call, Mode
  <1>5. f.head = Len(l)
    OBVIOUS
  <1>6. /\ frames'[t] = Append(frames[t], f)
        /\ \A u \in Threads \ {t} : frames'[u] = frames[u]
    BY <1>1, <1>2 DEF TypeOK
  <1> HIDE DEF f, d
  <1>7. /\ frames'[t][d.frame].head = Len(l)
        /\ \A k \in 1..Len(frames[t]) : frames'[t][k] = frames[t][k]
    BY <1>3, <1>4, <1>5, <1>6
  <1>8. c.idx <= Len(l)
    BY <1>2 DEF CallOK
  <1>9. Ran(d) = Ran(c)
    BY <1>4 DEF Ran
  <1>10. Len(c.fs) = 1
    BY <1>1, <1>2 DEF WalkOK, Covers
  <1> HIDE DEF c, l
  <1>11. Covers(l, frames'[t], d)
    BY <1>1, <1>2, <1>4, <1>7, <1>8, <1>9 DEF Covers, WalkOK, Ahead
  <1>12. Once(l, frames'[t], d)
    BY <1>4, <1>10 DEF Once
  <1>13. WalkOK(l, frames'[t], d)
    BY <1>11, <1>12 DEF WalkOK
  <1>14. QED
    BY <1>1, <1>4, <1>6, <1>7, <1>13, WalkStep DEF c, l

\* CALL_PREV resumes after the newest node of the running proxy, which the walk has
\* not passed yet or came from.
LEMMA CallPrevWalks ==
    ASSUME CallInv, WalkInv, NEW t \in Threads, CallPrev(t)
    PROVE  WalkInv'
  <1> DEFINE c == Top(t)
  <1> DEFINE l == chain[c.hook]
  <1> DEFINE f == c.fs[Len(c.fs)]
  <1> DEFINE head == Cur(t).head
  <1> DEFINE at == {i \in 1..head : l[i].func = f}
  <1> DEFINE n == Newest(at)
  <1> DEFINE d == [c EXCEPT !.mode = "prev", !.idx = After(Cur(t).hook, Cur(t).head, Proxy(t))]
  <1>1. /\ stack[t] # <<>> /\ c.mode = "run"
        /\ stack' = WithTop(t, d) /\ UNCHANGED <<chain, task, tls, frames>>
    BY DEF CallPrev, InCall
  <1>2. /\ c \in Call /\ c.hook \in Hooks /\ c.idx \in Nat /\ WalkOK(l, frames[t], c)
        /\ CallOK(chain, frames[t], c) /\ TypeOK /\ c.fs \in Seq(Funcs)
    BY <1>1, TopOK, TopWalk
  <1>3. c.frame > 0 /\ c.fs # <<>> /\ Len(c.fs) \in Nat \ {0}
    BY <1>1, <1>2, EmptySeq DEF CallOK, ModeShape
  <1>4. /\ Cur(t).hook = c.hook /\ head \in 1..Len(l) /\ Len(l) \in Nat
        /\ frames[t][c.frame].head = head
    BY <1>1, <1>2, <1>3, CurOfTop, NodeTypes DEF Cur
  <1>5. /\ c.idx > 0 /\ c.idx <= head /\ l[c.idx].func = f /\ Ahead(l, c, c.idx - 1)
    BY <1>1, <1>2, <1>4 DEF WalkOK, Covers
  <1>6. c.idx \in at
    BY <1>2, <1>4, <1>5
  <1>7. n \in at /\ c.idx <= n
    <2>1. at \subseteq 1..head /\ head \in Nat
      BY <1>4
    <2> HIDE DEF at
    <2>2. QED
      BY <1>6, <2>1, NewestNode
  <1>8. After(Cur(t).hook, Cur(t).head, Proxy(t)) = n - 1
    <2>1. Proxy(t) = f
      BY DEF Proxy
    <2>2. QED
      BY SMTT(40), <1>4, <1>6, <2>1 DEF After
  <1>9. n \in 1..head /\ l[n].func = f
    BY ZenonT(60), <1>7
  <1> HIDE DEF n
  <1>10. /\ d \in Call /\ d.hook = c.hook /\ d.mode = "prev" /\ d.idx = n - 1
         /\ d.fs = c.fs /\ d.due = c.due /\ d.frame = c.frame
    <2>1. n - 1 \in Nat
      BY <1>4, <1>9
    <2>2. QED
      BY <1>2, <1>8, <2>1 DEF Call, Mode
  <1>11. Ran(d) = Ran(c)
    BY <1>10 DEF Ran
  <1>12. /\ n \in Nat /\ c.idx \in Nat /\ head \in Nat /\ n <= head /\ c.idx <= n
         /\ Len(c.fs) \in Nat /\ Len(l) \in Nat /\ head <= Len(l) /\ n > 0
    BY <1>2, <1>3, <1>4, <1>7, <1>9
  <1>13. ~Rehook => \A i, j \in 1..Len(c.fs) : c.fs[i] = c.fs[j] => i = j
    BY <1>2 DEF WalkOK, Once
  <1>14. ~Rehook /\ Len(c.fs) > 1 => Behind(l, c, Len(c.fs) - 1) /\ n = c.idx
    <2>1. SUFFICES ASSUME ~Rehook, Len(c.fs) > 1
                   PROVE  Behind(l, c, Len(c.fs) - 1) /\ n = c.idx
      OBVIOUS
    <2>2. /\ Behind(l, c, Len(c.fs) - 1)
          /\ \A m \in (c.idx + 1)..head : l[m].func # f
      BY <1>1, <1>2, <1>4, <2>1 DEF WalkOK, Once
    <2>3. ~(n > c.idx)
      BY <1>9, <1>12, <2>2
    <2>4. QED
      BY <1>12, <2>2, <2>3
  <1> HIDE DEF c, d, l, head, at
  <1>15. Covers(l, frames[t], d)
    <2>1. Ahead(l, d, n - 1)
      <3>1. SUFFICES ASSUME NEW g \in c.due, g \notin Ran(c)
                     PROVE  \E i \in 1..(n - 1) : Serves(l, g, i)
        BY <1>10, <1>11 DEF Ahead
      <3>2. PICK i \in 1..(c.idx - 1) : Serves(l, g, i)
        BY <1>5, <3>1 DEF Ahead
      <3>3. i \in 1..(n - 1)
        BY <1>12, <3>2
      <3>4. QED
        BY <3>2, <3>3
    <2>2. d.idx <= frames[t][d.frame].head
      BY <1>4, <1>10, <1>12
    <2>3. QED
      BY <1>10, <2>1, <2>2 DEF Covers
  <1>16. ~Rehook => Once(l, frames[t], d)
    <2>1. SUFFICES ASSUME ~Rehook PROVE Behind(l, d, Len(d.fs))
      BY <1>10, <1>13 DEF Once
    <2>2. SUFFICES ASSUME NEW i \in 1..Len(c.fs)
                   PROVE  \E m \in n..Len(l) : l[m].func = c.fs[i]
      <3>1. d.idx + 1 = n
        BY <1>10, <1>12
      <3>2. QED
        BY <1>10, <3>1 DEF Behind
    <2>3. CASE i = Len(c.fs)
      <3>1. n \in n..Len(l)
        BY <1>12
      <3>2. QED
        BY <1>9, <2>3, <3>1 DEF f
    <2>4. CASE i # Len(c.fs)
      <3>1. Len(c.fs) > 1 /\ i \in 1..(Len(c.fs) - 1)
        BY <1>12, <2>4
      <3>2. n = c.idx /\ \E m \in (c.idx + 1)..Len(l) : l[m].func = c.fs[i]
        BY <1>14, <2>1, <3>1 DEF Behind
      <3>3. PICK m \in (c.idx + 1)..Len(l) : l[m].func = c.fs[i]
        BY <3>2
      <3>4. m \in n..Len(l)
        BY <1>12, <3>2, <3>3
      <3>5. QED
        BY <3>3, <3>4
    <2>5. QED
      BY <2>3, <2>4
  <1>17. WalkOK(l, frames[t], d)
    BY <1>15, <1>16 DEF WalkOK
  <1>18. QED
    BY <1>1, <1>10, <1>17, WalkStep DEF c, d, l

\* get_prev_func finds an enabled proxy: no newer node has it, so it is none of those
\* that have run.
LEMMA PrevHitWalks ==
    ASSUME CallInv, WalkInv, OldNodesOver, NEW t \in Threads, PrevHit(t)
    PROVE  WalkInv'
  <1> DEFINE c == Top(t)
  <1> DEFINE l == chain[c.hook]
  <1> DEFINE f == l[c.idx].func
  <1> DEFINE d == [c EXCEPT !.mode = "run", !.fs = Append(@, f)]
  <1>0. c.frame > 0 /\ stack[t] # <<>> /\ c.mode = "prev" /\ c.idx > 0
    BY TopOK DEF PrevHit, InCall, CallOK, ModeShape
  <1>1. Cur(t).hook = c.hook /\ frames[t][c.frame].head = Cur(t).head /\ Cur(t).head \in 1..Len(l)
    BY <1>0, CurOfTop DEF Cur
  <1>2. /\ l[c.idx].enabled
        /\ stack' = WithTop(t, d) /\ UNCHANGED <<chain, task, tls, frames>>
    BY <1>1 DEF PrevHit
  <1>3. /\ c \in Call /\ c.hook \in Hooks /\ c.idx \in Nat /\ WalkOK(l, frames[t], c)
        /\ CallOK(chain, frames[t], c) /\ TypeOK /\ c.fs \in Seq(Funcs) /\ c.idx <= Len(l)
    BY <1>0, TopOK, TopWalk
  <1>4. f \in Funcs /\ Len(l) \in Nat /\ DOMAIN l = 1..Len(l) /\ Len(c.fs) \in Nat
    BY <1>0, <1>3, NodeTypes, LenProperties
  <1>5. /\ Ahead(l, c, c.idx) /\ c.idx <= frames[t][c.frame].head
    BY <1>0, <1>3 DEF WalkOK, Covers
  <1>6. ~Rehook => /\ \A i, j \in 1..Len(c.fs) : c.fs[i] = c.fs[j] => i = j
                   /\ Behind(l, c, Len(c.fs))
    BY <1>0, <1>3 DEF WalkOK, Once
  <1>7. ~Rehook => \A m \in (c.idx + 1)..Len(l) : l[m].func # f
    <2>1. SUFFICES ASSUME ~Rehook, NEW m \in (c.idx + 1)..Len(l), l[m].func = f PROVE FALSE
      OBVIOUS
    <2>2. c.idx \in DOMAIN l /\ m \in DOMAIN l /\ c.idx < m
      BY <1>0, <1>3, <1>4
    <2>3. ~l[c.idx].enabled
      BY <1>3, <2>1, <2>2 DEF OldNodesOver
    <2>4. QED
      BY <1>2, <2>3
  <1>8. Append(c.fs, f) \in Seq(Funcs) /\ Append(c.fs, f) # <<>>
    BY <1>3, <1>4, AppendProperties
  <1>9. /\ d \in Call /\ d.hook = c.hook /\ d.mode = "run" /\ d.idx = c.idx
        /\ d.fs = Append(c.fs, f) /\ d.due = c.due /\ d.frame = c.frame
    BY <1>3, <1>8 DEF Call, Mode
  <1> HIDE DEF d
  <1>10. /\ Len(d.fs) = Len(c.fs) + 1
         /\ d.fs[Len(c.fs) + 1] = f
         /\ \A i \in 1..Len(c.fs) : d.fs[i] = c.fs[i]
    BY <1>3, <1>4, <1>9, AppendProperties
  <1>11. frames[t][c.frame].head \in Nat /\ frames[t][c.frame].head <= Len(l)
    BY <1>1, <1>4
  <1> HIDE DEF c, l, f
  <1>12. Covers(l, frames[t], d)
    <2>1. Ahead(l, d, d.idx - 1)
      <3>1. SUFFICES ASSUME NEW g \in c.due, g \notin Ran(d)
                     PROVE  \E i \in 1..(c.idx - 1) : Serves(l, g, i)
        BY <1>9 DEF Ahead
      <3>2. g # f /\ g \notin Ran(c)
        BY <1>4, <1>10, <3>1 DEF Ran
      <3>3. PICK i \in 1..c.idx : Serves(l, g, i)
        BY <1>5, <3>1, <3>2 DEF Ahead
      <3>4. i # c.idx
        BY <3>2, <3>3 DEF Serves, f
      <3>5. QED
        BY <1>3, <3>3, <3>4
    <2>2. d.idx > 0 /\ l[d.idx].func = d.fs[Len(d.fs)] /\ d.idx <= frames[t][d.frame].head
      BY <1>0, <1>5, <1>9, <1>10 DEF f
    <2>3. QED
      BY <1>9, <2>1, <2>2 DEF Covers
  <1>13. ~Rehook => Once(l, frames[t], d)
    <2>1. SUFFICES ASSUME ~Rehook PROVE Once(l, frames[t], d)
      OBVIOUS
    <2>2. \A i \in 1..Len(c.fs) : c.fs[i] # f
      <3>1. SUFFICES ASSUME NEW i \in 1..Len(c.fs), c.fs[i] = f PROVE FALSE
        OBVIOUS
      <3>2. PICK m \in (c.idx + 1)..Len(l) : l[m].func = c.fs[i]
        BY <1>6, <2>1 DEF Behind
      <3>3. QED
        BY <1>7, <2>1, <3>1, <3>2
    <2>3. \A i, j \in 1..Len(d.fs) : d.fs[i] = d.fs[j] => i = j
      <3>1. TAKE i, j \in 1..Len(d.fs)
      <3>2. HAVE d.fs[i] = d.fs[j]
      <3>3. /\ i \in 1..Len(c.fs) \/ i = Len(c.fs) + 1
            /\ j \in 1..Len(c.fs) \/ j = Len(c.fs) + 1
        BY <1>4, <1>10
      <3>4. QED
        BY <1>6, <1>10, <2>1, <2>2, <3>2, <3>3
    <2>4. Len(d.fs) - 1 = Len(c.fs)
      BY <1>4, <1>10
    <2>5. Behind(l, d, Len(d.fs) - 1)
      BY <1>6, <1>9, <1>10, <2>1, <2>4 DEF Behind
    <2>6. \A m \in (d.idx + 1)..frames[t][d.frame].head : l[m].func # d.fs[Len(d.fs)]
      BY <1>3, <1>4, <1>7, <1>9, <1>10, <1>11, <2>1
    <2>7. QED
      BY <1>9, <2>3, <2>5, <2>6 DEF Once
  <1>14. WalkOK(l, frames[t], d)
    BY <1>12, <1>13 DEF WalkOK
  <1>15. QED
    BY <1>0, <1>2, <1>9, <1>14, WalkStep DEF c, l, f

\* The other steps inside the engine: no room for a frame, a disabled node, the end of
\* the list.
LEMMA EngineWalks ==
    ASSUME CallInv, WalkInv, OldNodesOver, NEW t \in Threads, Engine(t)
    PROVE  WalkInv'
  <1> DEFINE c == Top(t)
  <1> DEFINE l == chain[c.hook]
  <1>1. stack[t] # <<>>
    BY DEF Engine, ScanHit, Push, PushFull, PrevHit, Skip, WalkEnd, InCall
  <1>2. /\ c \in Call /\ c.hook \in Hooks /\ c.idx \in Nat /\ c.fs \in Seq(Funcs)
        /\ CallOK(chain, frames[t], c) /\ WalkOK(l, frames[t], c)
    BY <1>1, TopOK, TopWalk
  <1>3. ASSUME PushFull(t) PROVE WalkInv'
    <2> DEFINE d == [c EXCEPT !.mode = "bypass", !.fs = <<>>]
    <2>1. stack' = WithTop(t, d) /\ UNCHANGED <<chain, frames>>
      BY <1>3 DEF PushFull
    <2>2. d \in Call /\ d.mode = "bypass" /\ d.fs = <<>>
      BY <1>2, EmptySeq DEF Call, Mode
    <2> HIDE DEF d
    <2>3. Len(d.fs) = 0
      BY <2>2, EmptySeq
    <2>4. WalkOK(chain[d.hook], frames[t], d)
      BY <2>2, <2>3, IdleWalk
    <2>5. QED
      BY <1>1, <2>1, <2>2, <2>4, WalkStep
  <1>4. ASSUME Skip(t) PROVE WalkInv'
    <2> DEFINE d == [c EXCEPT !.idx = @ - 1]
    <2>1. /\ c.mode \in {"scan", "prev"} /\ c.idx > 0
          /\ stack' = WithTop(t, d) /\ UNCHANGED <<chain, frames>>
      BY <1>4 DEF Skip, InCall
    <2>2. ~l[c.idx].enabled
      <3>1. c.mode = "prev" => Cur(t).hook = c.hook
        BY <1>1, <1>2, CurOfTop DEF CallOK, ModeShape
      <3>2. QED
        BY <1>4, <2>1, <3>1 DEF Skip, WalkHook
    <2>3. c.idx - 1 \in Nat
      BY <1>2, <2>1
    <2>4. /\ d \in Call /\ d.hook = c.hook /\ d.mode = c.mode /\ d.idx = c.idx - 1
          /\ d.fs = c.fs /\ d.due = c.due /\ d.frame = c.frame
      BY <1>2, <2>3 DEF Call
    <2>5. Ran(d) = Ran(c)
      BY <2>4 DEF Ran
    <2>6. c.mode = "prev" => frames[t][c.frame].head \in Nat
      <3>1. SUFFICES ASSUME c.mode = "prev" PROVE frames[t][c.frame].head \in Nat
        OBVIOUS
      <3>2. c.frame > 0
        BY <1>2, <3>1 DEF CallOK, ModeShape
      <3>3. QED
        BY <1>2, <3>2 DEF CallOK
    <2> HIDE DEF d, c, l
    <2>7. Covers(l, frames[t], d)
      <3>1. Ahead(l, c, c.idx) /\ (c.mode = "prev" => c.idx <= frames[t][c.frame].head)
        BY <1>2, <2>1 DEF WalkOK, Covers
      <3>2. Ahead(l, d, d.idx)
        <4>1. SUFFICES ASSUME NEW g \in c.due, g \notin Ran(c)
                       PROVE  \E i \in 1..(c.idx - 1) : Serves(l, g, i)
          BY <2>4, <2>5 DEF Ahead
        <4>2. PICK i \in 1..c.idx : Serves(l, g, i)
          BY <3>1, <4>1 DEF Ahead
        <4>3. i # c.idx
          BY <2>2, <4>2 DEF Serves
        <4>4. QED
          BY <1>2, <4>2, <4>3
      <3>3. d.mode = "prev" => d.idx <= frames[t][d.frame].head
        BY <1>2, <2>4, <2>6, <3>1
      <3>4. QED
        BY <2>1, <2>4, <3>2, <3>3 DEF Covers
    <2>8. ~Rehook => Once(l, frames[t], d)
      <3>1. SUFFICES ASSUME ~Rehook PROVE Once(l, frames[t], d)
        OBVIOUS
      <3>2. /\ \A i, j \in 1..Len(c.fs) : c.fs[i] = c.fs[j] => i = j
            /\ c.mode = "prev" => Behind(l, c, Len(c.fs))
        BY <1>2, <3>1 DEF WalkOK, Once
      <3>3. c.mode = "prev" => Behind(l, d, Len(d.fs))
        <4>1. \A m : m \in (c.idx + 1)..Len(l) => m \in (d.idx + 1)..Len(l)
          BY <1>2, <2>4
        <4>2. QED
          BY <2>4, <3>2, <4>1 DEF Behind
      <3>4. QED
        BY <2>1, <2>4, <3>2, <3>3 DEF Once
    <2>9. WalkOK(l, frames[t], d)
      BY <2>7, <2>8 DEF WalkOK
    <2>10. QED
      BY <1>1, <2>1, <2>4, <2>9, WalkStep DEF c, l
  <1>5. ASSUME WalkEnd(t) PROVE WalkInv'
    <2> DEFINE d == [c EXCEPT !.mode = "orig"]
    <2>1. /\ c.mode \in {"scan", "prev"} /\ c.idx = 0
          /\ stack' = WithTop(t, d) /\ UNCHANGED <<chain, frames>>
      BY <1>5 DEF WalkEnd, InCall
    <2>2. /\ d \in Call /\ d.hook = c.hook /\ d.mode = "orig"
          /\ d.fs = c.fs /\ d.due = c.due
      BY <1>2 DEF Call, Mode
    <2> HIDE DEF d, c, l
    <2>3. d.due \subseteq Ran(d)
      <3>1. Ahead(l, c, 0) /\ Ran(d) = Ran(c)
        BY <1>2, <2>1, <2>2 DEF WalkOK, Covers, Ran
      <3>2. QED
        BY <2>2, <3>1 DEF Ahead
    <2>4. Covers(l, frames[t], d)
      BY <2>2, <2>3 DEF Covers
    <2>5. ~Rehook => Once(l, frames[t], d)
      BY <1>2, <2>2 DEF WalkOK, Once
    <2>6. QED
      BY <1>1, <2>1, <2>2, <2>4, <2>5, WalkStep DEF c, l, WalkOK
  <1>6. QED
    BY <1>3, <1>4, <1>5, ScanHitWalks, PushWalks, PrevHitWalks DEF Engine

\* The steps of the proxies and of the originals.
LEMMA ClientWalks ==
    ASSUME CallInv, WalkInv, NEW t \in Threads,
           CallPrev(t) \/ OrigReturns(t) \/ ProxyReturns(t) \/ ThreadExit(t)
    PROVE  WalkInv'
  <1> DEFINE c == Top(t)
  <1>1. stack[t] # <<>>
    BY DEF CallPrev, OrigReturns, ProxyReturns, ThreadExit, InCall
  <1>2. /\ TypeOK /\ c \in Call /\ c.fs \in Seq(Funcs) /\ c.frame \in Nat
        /\ CallOK(chain, frames[t], c)
    BY <1>1, TopOK
  <1>3. ~Rehook => \A i, j \in 1..Len(c.fs) : c.fs[i] = c.fs[j] => i = j
    BY <1>1, TopWalk DEF WalkOK, Once
  <1>4. ASSUME OrigReturns(t) PROVE WalkInv'
    <2>1. UNCHANGED <<chain, frames>>
      BY <1>4 DEF OrigReturns
    <2>2. CASE c.fs = <<>>
      BY <1>1, <1>4, <2>1, <2>2, WalkReturnStep DEF OrigReturns
    <2>3. CASE c.fs # <<>>
      <3> DEFINE d == [c EXCEPT !.mode = "after"]
      <3>1. stack' = WithTop(t, d)
        BY <1>4, <2>3 DEF OrigReturns
      <3>2. d \in Call /\ d.mode = "after" /\ d.fs = c.fs
        BY <1>2 DEF Call, Mode
      <3> HIDE DEF d
      <3>3. WalkOK(chain[d.hook], frames[t], d)
        BY <1>3, <3>2, IdleWalk
      <3>4. QED
        BY <1>1, <2>1, <3>1, <3>2, <3>3, WalkStep
    <2>4. QED
      BY <2>2, <2>3
  <1>5. ASSUME ProxyReturns(t) PROVE WalkInv'
    <2>1. /\ c.mode \in {"run", "after"} /\ UNCHANGED chain
          /\ frames'[t] = PopStack(t)
          /\ \A u \in Threads \ {t} : frames'[u] = frames[u]
      BY <1>2, <1>5 DEF ProxyReturns, InCall, TypeOK
    <2>2. c.fs # <<>> /\ c.frame > 0
      BY <1>2, <2>1 DEF CallOK, ModeShape
    <2>3. CASE Len(c.fs) = 1
      <3>1. frames'[t] = frames[t] \/ frames'[t] = Front(frames[t])
        BY <2>1 DEF PopStack
      <3>2. stack' = WithoutTop(t)
        BY <1>5, <2>3 DEF ProxyReturns
      <3>3. QED
        BY <1>1, <2>1, <2>2, <3>1, <3>2, WalkReturnStep
    <2>4. CASE Len(c.fs) # 1
      <3> DEFINE d == [c EXCEPT !.mode = "after", !.fs = Front(@)]
      <3>1. stack' = WithTop(t, d)
        BY <1>5, <2>4 DEF ProxyReturns
      <3>2. /\ Front(c.fs) \in Seq(Funcs) /\ Len(Front(c.fs)) = Len(c.fs) - 1
            /\ \A i \in 1..(Len(c.fs) - 1) : Front(c.fs)[i] = c.fs[i]
            /\ Len(c.fs) \in Nat
        BY <1>2, <2>2, FrontOfSeq, LenProperties
      <3>3. d \in Call /\ d.mode = "after" /\ d.fs = Front(c.fs)
        BY <1>2, <3>2 DEF Call, Mode
      <3>4. frames'[t] = frames[t]
        <4>1. ReturnAddress(t)[1] = "prev"
          BY <2>4 DEF ReturnAddress
        <4>2. frames[t] # <<>> /\ Cur(t).ret = c.ret /\ c.ret[1] = "call"
          BY <1>1, <1>2, <2>2, CurOfTop DEF CallOK
        <4>3. QED
          BY <2>1, <4>1, <4>2 DEF PopStack
      <3> HIDE DEF d, c
      <3>5. ~Rehook => \A i, j \in 1..Len(d.fs) : d.fs[i] = d.fs[j] => i = j
        <4>1. \A i \in 1..Len(d.fs) : i \in 1..Len(c.fs) /\ d.fs[i] = c.fs[i]
          BY <3>2, <3>3
        <4>2. QED
          BY <1>3, <4>1
      <3>6. WalkOK(chain[d.hook], frames'[t], d)
        BY <3>3, <3>5, IdleWalk
      <3>7. QED
        BY <1>1, <2>1, <3>1, <3>3, <3>4, <3>6, WalkStep
    <2>5. QED
      BY <2>3, <2>4
  <1>6. ASSUME ThreadExit(t) PROVE WalkInv'
    <2>1. /\ stack'[t] = <<>> /\ UNCHANGED chain
          /\ \A u \in Threads \ {t} : frames'[u] = frames[u] /\ stack'[u] = stack[u]
      BY <1>2, <1>6 DEF ThreadExit, TypeOK
    <2>2. Len(stack'[t]) = 0
      BY SMTT(40), <2>1, EmptySeq
    <2>3. QED
      BY <2>1, <2>2 DEF WalkInv
  <1>7. QED
    BY <1>4, <1>5, <1>6, CallPrevWalks

\* A step of a task: nodes keep their proxies and places, and a proxy stays due only
\* while its nodes stay enabled.
LEMMA WalkWriterStep ==
    ASSUME CallInv, WalkInv, UNCHANGED frames,
           \A h \in Hooks :
              /\ Len(chain[h]) <= Len(chain'[h]) /\ Len(chain'[h]) \in Nat
              /\ \A i \in 1..Len(chain[h]) : chain'[h][i].func = chain[h][i].func,
           \A t \in Threads :
              /\ Len(stack'[t]) = Len(stack[t])
              /\ \A i \in 1..Len(stack[t]) :
                    LET c == stack[t][i]
                        d == stack'[t][i]
                    IN /\ d.hook = c.hook /\ d.mode = c.mode /\ d.idx = c.idx
                       /\ d.fs = c.fs /\ d.frame = c.frame /\ d.due \subseteq c.due
                       /\ \A n \in 1..Len(chain[c.hook]) : chain[c.hook][n].func \in d.due =>
                             (chain[c.hook][n].enabled => chain'[c.hook][n].enabled)
    PROVE  WalkInv'
  <1>1. SUFFICES ASSUME NEW t \in Threads, NEW i \in 1..Len(stack[t])
                 PROVE  WalkOK(chain'[stack'[t][i].hook], frames[t], stack'[t][i])
    BY SMTT(40) DEF WalkInv
  <1> DEFINE c == stack[t][i]
  <1> DEFINE d == stack'[t][i]
  <1> DEFINE l == chain[c.hook]
  <1> DEFINE m == chain'[c.hook]
  <1>2. CallOK(chain, frames[t], c) /\ c \in Call /\ WalkOK(l, frames[t], c) /\ TypeOK
    BY SMTT(40) DEF CallInv, ThreadOK, CallOK, WalkInv
  <1>3. /\ c.hook \in Hooks /\ c.idx \in Nat /\ c.idx <= Len(l) /\ Len(l) \in Nat
        /\ Len(c.fs) \in Nat
    <2>1. c.hook \in Hooks /\ c.idx \in Nat /\ c.fs \in Seq(Funcs)
      BY <1>2 DEF Call
    <2>2. QED
      BY <1>2, <2>1, NodeTypes, LenProperties DEF CallOK
  <1>4. /\ d.hook = c.hook /\ d.mode = c.mode /\ d.idx = c.idx
        /\ d.fs = c.fs /\ d.frame = c.frame /\ d.due \subseteq c.due
        /\ \A n \in 1..Len(l) : l[n].func \in d.due => (l[n].enabled => m[n].enabled)
    OBVIOUS
  <1>5. Len(l) <= Len(m) /\ Len(m) \in Nat /\ \A n \in 1..Len(l) : m[n].func = l[n].func
    BY SMTT(40), <1>3
  <1>6. Ran(d) = Ran(c)
    BY SMTT(40), <1>4 DEF Ran
  <1>7. c.frame > 0 => frames[t][c.frame].head \in 1..Len(l)
    BY SMTT(40), <1>2 DEF CallOK
  <1>8. c.mode \in {"run", "prev"} => c.frame > 0
    BY <1>2 DEF CallOK, ModeShape
  <1> HIDE DEF c, d, l, m
  <1>9. ASSUME NEW n \in Nat, n <= Len(l), Ahead(l, c, n) PROVE Ahead(m, d, n)
    <2>1. SUFFICES ASSUME NEW f \in d.due, f \notin Ran(c)
                   PROVE  \E j \in 1..n : Serves(m, f, j)
      BY <1>6 DEF Ahead
    <2>2. PICK j \in 1..n : Serves(l, f, j)
      BY <1>4, <1>9, <2>1 DEF Ahead
    <2>3. j \in 1..Len(l)
      BY <1>3, <1>9
    <2>4. QED
      BY <1>4, <1>5, <2>2, <2>3 DEF Serves
  <1>10. ASSUME NEW n \in Nat, Behind(l, c, n) PROVE Behind(m, d, n)
    <2>1. SUFFICES ASSUME NEW j \in 1..n PROVE \E p \in (c.idx + 1)..Len(m) : m[p].func = c.fs[j]
      BY <1>4 DEF Behind
    <2>2. PICK p \in (c.idx + 1)..Len(l) : l[p].func = c.fs[j]
      BY <1>10 DEF Behind
    <2>3. p \in 1..Len(l) /\ p \in (c.idx + 1)..Len(m)
      BY <1>3, <1>5
    <2>4. QED
      BY <1>5, <2>2, <2>3
  <1>11. Covers(m, frames[t], d)
    <2>1. c.mode \in {"scan", "prev"} => Ahead(m, d, c.idx)
      BY <1>2, <1>3, <1>9 DEF WalkOK, Covers
    <2>2. c.mode \in {"push", "run"} =>
            c.idx > 0 /\ m[c.idx].func = c.fs[Len(c.fs)] /\ Ahead(m, d, c.idx - 1)
      <3>1. SUFFICES ASSUME c.mode \in {"push", "run"}
                     PROVE  c.idx > 0 /\ m[c.idx].func = c.fs[Len(c.fs)] /\ Ahead(m, d, c.idx - 1)
        OBVIOUS
      <3>2. c.idx > 0 /\ l[c.idx].func = c.fs[Len(c.fs)] /\ Ahead(l, c, c.idx - 1)
        BY <1>2, <3>1 DEF WalkOK, Covers
      <3>3. c.idx \in 1..Len(l) /\ c.idx - 1 \in Nat /\ c.idx - 1 <= Len(l)
        BY <1>3, <3>2
      <3>4. QED
        BY <1>5, <1>9, <3>2, <3>3
    <2>3. c.mode = "orig" => d.due \subseteq Ran(d)
      BY <1>2, <1>4, <1>6 DEF WalkOK, Covers
    <2>4. QED
      BY <1>2, <1>4, <2>1, <2>2, <2>3 DEF WalkOK, Covers
  <1>12. ~Rehook => Once(m, frames[t], d)
    <2>1. SUFFICES ASSUME ~Rehook PROVE Once(m, frames[t], d)
      OBVIOUS
    <2>2. Once(l, frames[t], c)
      BY <1>2, <2>1 DEF WalkOK
    <2>3. c.mode = "prev" => Behind(m, d, Len(c.fs))
      BY <1>3, <1>10, <2>2 DEF Once
    <2>4. c.mode = "run" /\ Len(c.fs) > 1 => Behind(m, d, Len(c.fs) - 1)
      <3>1. Len(c.fs) > 1 => Len(c.fs) - 1 \in Nat
        BY <1>3
      <3>2. QED
        BY <1>10, <2>2, <3>1 DEF Once
    <2>5. c.mode = "run" /\ Len(c.fs) > 1 =>
            \A n \in (c.idx + 1)..frames[t][c.frame].head : m[n].func # c.fs[Len(c.fs)]
      <3>1. SUFFICES ASSUME c.mode = "run", Len(c.fs) > 1,
                            NEW n \in (c.idx + 1)..frames[t][c.frame].head
                     PROVE  m[n].func # c.fs[Len(c.fs)]
        OBVIOUS
      <3>2. l[n].func # c.fs[Len(c.fs)]
        BY <2>2, <3>1 DEF Once
      <3>3. n \in 1..Len(l)
        BY <1>3, <1>7, <1>8, <3>1
      <3>4. QED
        BY <1>5, <3>2, <3>3
    <2>6. QED
      BY <1>4, <2>2, <2>3, <2>4, <2>5 DEF Once
  <1>13. QED
    BY <1>4, <1>11, <1>12 DEF WalkOK, c, d, l, m

\* The tasks that change a list or nothing of a call.
LEMMA AddWalks ==
    ASSUME CallInv, CallInv', WalkInv, NEW k \in Tasks,
           \/ Register(k) \/ Unregister(k) \/ Retire(k)
           \/ \E h \in Hooks : ReEnable(h, k) \/ Create(h, k)
    PROVE  WalkInv'
  <1>1. TypeOK /\ TypeOK' /\ UNCHANGED <<frames, stack>>
    BY DEF CallInv, Register, Unregister, Retire, ReEnable, Create
  <1>2. \A g \in Hooks : Len(chain[g]) \in Nat /\ Len(chain'[g]) \in Nat
    BY <1>1, LenProperties DEF TypeOK
  <1> DEFINE Kept(g) ==
        /\ Len(chain[g]) <= Len(chain'[g])
        /\ \A i \in 1..Len(chain[g]) :
              /\ chain'[g][i].func = chain[g][i].func
              /\ chain[g][i].enabled => chain'[g][i].enabled
  <1>3. ASSUME NEW g \in Hooks, chain'[g] = chain[g] PROVE Kept(g)
    BY <1>2, <1>3
  <1>4. \A g \in Hooks : Kept(g)
    <2>1. CASE Register(k) \/ Unregister(k) \/ Retire(k)
      BY <1>3, <2>1 DEF Register, Unregister, Retire
    <2>2. ASSUME NEW h \in Hooks, ReEnable(h, k) PROVE \A g \in Hooks : Kept(g)
      <3>1. PICK i \in 1..Len(chain[h]) : chain' = [chain EXCEPT ![h][i].enabled = TRUE]
        BY <1>1, <2>2, NodeTypes DEF ReEnable, NodesOf
      <3> DEFINE n == [chain[h][i] EXCEPT !.enabled = TRUE]
      <3>2. n \in Node /\ n.func = chain[h][i].func /\ n.enabled = TRUE
        BY <1>1, NodeTypes DEF Node
      <3>3. chain'[h] = [chain[h] EXCEPT ![i] = n] /\ \A g \in Hooks \ {h} : chain'[g] = chain[g]
        BY <1>1, <3>1 DEF TypeOK
      <3> HIDE DEF n
      <3>4. /\ Len(chain'[h]) = Len(chain[h])
            /\ chain'[h][i] = n
            /\ \A j \in 1..Len(chain[h]) : j # i => chain'[h][j] = chain[h][j]
        BY <1>1, <3>2, <3>3, NodeTypes, ExceptSeq
      <3>5. Kept(h)
        BY <1>2, <3>2, <3>4
      <3>6. QED
        BY <1>3, <3>3, <3>5
    <2>3. ASSUME NEW h \in Hooks, Create(h, k) PROVE \A g \in Hooks : Kept(g)
      <3> DEFINE n == [func |-> FuncOf[k], task |-> k, enabled |-> TRUE]
      <3>1. n \in Node
        BY FuncOfType DEF Node
      <3>2. chain' = [chain EXCEPT ![h] = Append(chain[h], n)]
        BY <2>3 DEF Create
      <3> HIDE DEF n
      <3>3. chain'[h] = Append(chain[h], n) /\ \A g \in Hooks \ {h} : chain'[g] = chain[g]
        BY <1>1, <3>2 DEF TypeOK
      <3>4. /\ Len(chain'[h]) = Len(chain[h]) + 1
            /\ \A j \in 1..Len(chain[h]) : chain'[h][j] = chain[h][j]
        BY <1>1, <3>1, <3>3, NodeTypes, AppendProperties
      <3>5. Len(chain[h]) <= Len(chain'[h])
        BY <1>2, <3>4
      <3>6. Kept(h)
        <4>1. ASSUME NEW j \in 1..Len(chain[h])
              PROVE  /\ chain'[h][j].func = chain[h][j].func
                     /\ chain[h][j].enabled => chain'[h][j].enabled
          <5>1. chain'[h][j] = chain[h][j]
            BY <3>4
          <5>2. QED
            BY <5>1, Zenon
        <4>2. QED
          BY <3>5, <4>1
      <3>7. QED
        BY <1>3, <3>3, <3>6
    <2>4. QED
      BY <2>1, <2>2, <2>3
  <1> HIDE DEF Kept
  <1>5. \A g \in Hooks :
           /\ Len(chain[g]) <= Len(chain'[g]) /\ Len(chain'[g]) \in Nat
           /\ \A i \in 1..Len(chain[g]) : chain'[g][i].func = chain[g][i].func
    BY <1>2, <1>4 DEF Kept
  <1>6. ASSUME NEW t \in Threads, NEW i \in 1..Len(stack[t])
        PROVE  \A n \in 1..Len(chain[stack[t][i].hook]) :
                  chain[stack[t][i].hook][n].enabled => chain'[stack[t][i].hook][n].enabled
    <2>1. stack[t][i].hook \in Hooks
      <3>1. stack[t][i] \in Call
        BY <1>1, ElementOfSeq DEF TypeOK
      <3>2. QED
        BY <3>1 DEF Call
    <2>2. QED
      BY <1>4, <2>1 DEF Kept
  <1>7. QED
    BY <1>1, <1>5, <1>6, WalkWriterStep

\* A task disables its proxy, and no call has it due in that list any more.
LEMMA DelFuncWalks ==
    ASSUME CallInv, CallInv', WalkInv, NEW h \in Hooks, NEW k \in Tasks, DelFunc(h, k)
    PROVE  WalkInv'
  <1>1. TypeOK /\ TypeOK' /\ UNCHANGED <<task, tls, frames>>
    BY DEF CallInv, DelFunc
  <1>2. /\ \A g \in Hooks : Len(chain'[g]) = Len(chain[g]) /\ Len(chain[g]) \in Nat
        /\ \A g \in Hooks \ {h} : chain'[g] = chain[g]
        /\ \A i \in 1..Len(chain[h]) :
              /\ chain'[h][i].func = chain[h][i].func
              /\ chain'[h][i].enabled <=> chain[h][i].enabled /\ chain[h][i].func # FuncOf[k]
    BY <1>1, DelFuncChain, NodeTypes
  <1> DEFINE S(t) == [i \in DOMAIN stack[t] |->
                        IF stack[t][i].hook = h
                        THEN [stack[t][i] EXCEPT !.due = @ \ {FuncOf[k]}]
                        ELSE stack[t][i]]
  <1>3. stack' = [t \in Threads |-> S(t)]
    BY DEF DelFunc
  <1>4. ASSUME NEW t \in Threads
        PROVE  /\ Len(S(t)) = Len(stack[t])
               /\ \A i \in 1..Len(stack[t]) :
                     LET c == stack[t][i]
                         d == S(t)[i]
                     IN /\ d.hook = c.hook /\ d.mode = c.mode /\ d.idx = c.idx
                        /\ d.fs = c.fs /\ d.frame = c.frame /\ d.due \subseteq c.due
                        /\ c.hook = h => FuncOf[k] \notin d.due
    <2>1. stack[t] \in Seq(Call) /\ Len(stack[t]) \in Nat /\ DOMAIN stack[t] = 1..Len(stack[t])
      BY <1>1, LenProperties DEF TypeOK
    <2>2. \A i \in 1..Len(stack[t]) :
            LET c == stack[t][i]
                d == S(t)[i]
            IN /\ d \in Call
               /\ d.hook = c.hook /\ d.mode = c.mode /\ d.idx = c.idx
               /\ d.fs = c.fs /\ d.frame = c.frame /\ d.due \subseteq c.due
               /\ c.hook = h => FuncOf[k] \notin d.due
      <3>1. TAKE i \in 1..Len(stack[t])
      <3>2. stack[t][i] \in Call /\ i \in DOMAIN stack[t]
        BY <2>1, ElementOfSeq
      <3>3. QED
        BY <3>2 DEF Call
    <2>3. S(t) \in [1..Len(stack[t]) -> Call]
      BY <2>1, <2>2
    <2>4. Len(S(t)) = Len(stack[t])
      <3> HIDE DEF S
      <3>1. QED
        BY <2>1, <2>3, FunctionIsSeq
    <2>5. QED
      BY <2>2, <2>4
  <1> HIDE DEF S
  <1>5. \A g \in Hooks :
           /\ Len(chain[g]) <= Len(chain'[g]) /\ Len(chain'[g]) \in Nat
           /\ \A i \in 1..Len(chain[g]) : chain'[g][i].func = chain[g][i].func
    BY <1>2
  <1>6. ASSUME NEW t \in Threads
        PROVE  /\ Len(stack'[t]) = Len(stack[t])
               /\ \A i \in 1..Len(stack[t]) :
                     LET c == stack[t][i]
                         d == stack'[t][i]
                     IN /\ d.hook = c.hook /\ d.mode = c.mode /\ d.idx = c.idx
                        /\ d.fs = c.fs /\ d.frame = c.frame /\ d.due \subseteq c.due
                        /\ \A n \in 1..Len(chain[c.hook]) : chain[c.hook][n].func \in d.due =>
                              (chain[c.hook][n].enabled => chain'[c.hook][n].enabled)
    <2>1. stack'[t] = S(t)
      BY <1>3
    <2>2. ASSUME NEW i \in 1..Len(stack[t])
          PROVE  \A n \in 1..Len(chain[stack[t][i].hook]) :
                    chain[stack[t][i].hook][n].func \in stack'[t][i].due =>
                       (chain[stack[t][i].hook][n].enabled => chain'[stack[t][i].hook][n].enabled)
      <3>1. stack[t][i].hook \in Hooks
        <4>1. stack[t][i] \in Call
          BY <1>1, ElementOfSeq DEF TypeOK
        <4>2. QED
          BY <4>1 DEF Call
      <3>2. CASE stack[t][i].hook # h
        BY <1>2, <3>1, <3>2
      <3>3. CASE stack[t][i].hook = h
        BY <1>2, <1>4, <2>1, <3>3
      <3>4. QED
        BY <3>2, <3>3
    <2>3. QED
      BY SMTT(40), <1>4, <2>1, <2>2
  <1>7. QED
    BY <1>1, <1>5, <1>6, WalkWriterStep

\* WalkInv is inductive, given what is proved of calls and of lists.
THEOREM WalkInvariant == Spec => []WalkInv
  <1>1. Init => WalkInv
    <2>1. SUFFICES ASSUME Init PROVE WalkInv
      OBVIOUS
    <2>2. \A t \in Threads : Len(stack[t]) = 0
      BY <2>1, EmptySeq DEF Init
    <2>3. QED
      BY <2>2 DEF WalkInv
  <1>2. CallInv /\ CallInv' /\ OldNodesOver /\ WalkInv /\ [Next]_vars => WalkInv'
    <2>1. SUFFICES ASSUME CallInv, CallInv', OldNodesOver, WalkInv, [Next]_vars PROVE WalkInv'
      OBVIOUS
    <2>2. CASE UNCHANGED vars
      BY <2>1, <2>2 DEF WalkInv, vars
    <2>3. CASE Writer
      BY <2>1, <2>3, AddWalks, DelFuncWalks DEF Writer
    <2>4. ASSUME NEW t \in Threads, Reader(t)
          PROVE  WalkInv'
      BY <2>1, <2>4, EnterWalks, EngineWalks, ClientWalks DEF Reader
    <2>5. QED
      BY <2>1, <2>2, <2>3, <2>4 DEF Next
  <1>3. QED
    BY <1>1, <1>2, CallInvariant, OldNodes, PTL DEF Spec

\* A call that reaches the original by its walk has run every proxy that was enabled
\* from its beginning on, whatever tasks hook and unhook meanwhile, the same proxies
\* again included.
THEOREM NothingSkipped == Spec => []NoHookSkipped
  <1>1. CallInv /\ WalkInv => NoHookSkipped
    <2>1. SUFFICES ASSUME CallInv, WalkInv, NEW t \in Threads, NEW n \in DOMAIN stack[t],
                          stack[t][n].mode = "orig"
                   PROVE  stack[t][n].due \subseteq
                             {stack[t][n].fs[i] : i \in DOMAIN stack[t][n].fs}
      BY DEF NoHookSkipped
    <2>2. n \in 1..Len(stack[t]) /\ stack[t][n] \in Call
      BY <2>1, LenProperties, ElementOfSeq DEF CallInv, TypeOK
    <2>3. stack[t][n].due \subseteq Ran(stack[t][n])
      BY <2>1, <2>2 DEF WalkInv, WalkOK, Covers
    <2>4. DOMAIN stack[t][n].fs = 1..Len(stack[t][n].fs)
      BY <2>2, LenProperties DEF Call
    <2>5. QED
      BY <2>3, <2>4 DEF Ran
  <1>2. QED
    BY <1>1, CallInvariant, WalkInvariant, PTL

\* If clients hook no proxy that they have hooked already, no call enters a proxy twice,
\* so none circles in the list for ever.
THEOREM NothingTwice == ~Rehook => (Spec => []NoProxyTwice)
  <1>1. CASE ~Rehook
    <2>1. CallInv /\ WalkInv => NoProxyTwice
      <3>1. SUFFICES ASSUME CallInv, WalkInv, NEW t \in Threads, NEW n \in DOMAIN stack[t]
                     PROVE  \A i, j \in DOMAIN stack[t][n].fs :
                               stack[t][n].fs[i] = stack[t][n].fs[j] => i = j
        BY DEF NoProxyTwice
      <3>2. n \in 1..Len(stack[t]) /\ stack[t][n] \in Call
        BY <3>1, LenProperties, ElementOfSeq DEF CallInv, TypeOK
      <3>3. Once(chain[stack[t][n].hook], frames[t], stack[t][n])
        BY <1>1, <3>1, <3>2 DEF WalkInv, WalkOK
      <3>4. DOMAIN stack[t][n].fs = 1..Len(stack[t][n].fs)
        BY <3>2, LenProperties DEF Call
      <3>5. QED
        BY <3>3, <3>4 DEF Once
    <2>2. QED
      BY <2>1, CallInvariant, WalkInvariant, PTL
  <1>2. QED
    BY <1>1
=============================================================================
