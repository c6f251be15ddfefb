------------------------------ MODULE Analyzer ------------------------------
(***************************************************************************)
(* What HiMemAnalyzer makes of the lines that Recorder writes: the         *)
(* handlers that read a line, the removal of released blocks and the two   *)
(* clusterings of BarPlotMaker, and the running total of LinePlotMaker.    *)
(*                                                                         *)
(* The makers go through the whole log after the run.  Each is a fold over *)
(* its lines, so the model carries their lists along from line to line: in *)
(* every state they are those of a log that ends there.  Drawing is left   *)
(* out.                                                                    *)
(***************************************************************************)
EXTENDS Recorder, SequencesExt

CONSTANTS
    SiteOf,     \* SiteOf[t]: length, prot, flag and stack of t's allocations
    Frames,     \* lines of stacks
    Long,       \* those of more than 150 characters
    FirstOf,    \* FirstOf[f]: the first line that TextWrapper makes of f
    Cut,        \* part of a segment, at the end of a log that was cut short
    MaxBars,    \* bound on the allocation lines charted at a time
    MaxTotal    \* bound on the total of a log with mmap lines, when a call begins

Site == [length : Nat \ {0}, prot : Nat, flag : Nat, stack : Seq(Frames)]

ASSUME LongType == Long \subseteq Frames /\ DOMAIN FirstOf = Long
ASSUME SiteType == \A t \in Threads : SiteOf[t] \in Site
ASSUME BoundsType == MaxBars \in Nat \ {0} /\ MaxTotal \in Nat

Lengths == {SiteOf[t].length : t \in Threads}

VARIABLES
    bars,       \* BarPlotMaker: newEventList
    allocs,     \* LinePlotMaker: allocList
    total       \* LinePlotMaker: totalLength

charts == <<bars, allocs, total>>

-----------------------------------------------------------------------------
(***************************************************************************)
(* Reading: a line is the sequence of its segments.                        *)
(***************************************************************************)

\* stackAutoWrap: the long lines, wrapped; the others are not in the result.
StackAutoWrap(frames) == IF frames = Cut THEN <<>> ELSE SelectSeq(frames, LAMBDA f : f \in Long)

\* "site", the call it came from, is recorded for the properties only.
Event(type, addr, length, prot, flag, frames, site) ==
    [type |-> type, address |-> addr, length |-> length, prot |-> prot, flag |-> flag,
     stack |-> frames, site |-> site]
None == Event("none", Null, 0, 0, 0, <<>>, Null)

\* Mutant of HandleAlloc: a line is taken as soon as it has a length.
HandleAllocShort(line, site) ==
    IF line[1] = "alloc" /\ Len(line) >= 3
    THEN Event("alloc", line[2], line[3], 0, 0,
               IF Len(line) = 3 THEN <<>> ELSE StackAutoWrap(line[4]), site)
    ELSE None

HandleAlloc(line, site) ==
    IF line[1] = "alloc" /\ Len(line) >= 4
    THEN Event("alloc", line[2], line[3], 0, 0, StackAutoWrap(line[4]), site)
    ELSE None

HandleMmap(line, site) ==
    IF line[1] = "mmap" /\ Len(line) > 6
    THEN Event("mmap", line[2], line[3], line[4], line[5],
               IF Len(line) = 8 THEN StackAutoWrap(line[8]) ELSE <<>>, site)
    ELSE None

HandleMunmap(line) ==
    IF line[1] = "munmap" /\ Len(line) >= 3
    THEN Event("munmap", line[2], line[3], 0, 0, <<>>, Null)
    ELSE None

HandleFree(line) ==
    IF line[1] = "free" /\ Len(line) >= 2
    THEN Event("free", line[2], 0, 0, 0, <<>>, Null)
    ELSE None

\* handleLineFromFile: the first handler that makes an event of the line.
HandleLine(line, site) ==
    LET tried == <<HandleMmap(line, site), HandleMunmap(line), HandleAlloc(line, site),
                   HandleFree(line)>>
        made == {i \in DOMAIN tried : tried[i] # None}
    IN IF made = {} THEN None ELSE tried[Min(made)]

\* postOnMalloc, postOnMmap: the allocation line that t is about to write.
AllocLine(t) ==
    LET s == SiteOf[t]
    IN IF op[t].kind = "heap"
       THEN <<"alloc", op[t].addr, s.length, s.stack>>
       ELSE <<"mmap", op[t].addr, s.length, s.prot, s.flag, "fd", "link", s.stack>>

\* postOnFree, postOnMunmap.  A munmap is of the whole block: of the length of its mmap
\* line, if there is one.
EndLines(t) ==
    LET a == op[t].addr
        known == ~op[t].exit /\ a # Null /\ recorder[a] # Null
    IN IF op[t].kind = "heap"
       THEN {<<"free", a>>}
       ELSE {<<"munmap", a, l, <<>> >> : l \in IF known THEN {SiteOf[recorder[a]].length}
                                                        ELSE Lengths}

Lines(t) == IF pc[t] = "line" THEN {AllocLine(t)} ELSE EndLines(t)

-----------------------------------------------------------------------------
(***************************************************************************)
(* Matching of releases and allocations.                                   *)
(***************************************************************************)

\* Mutant of Same: the address is not compared.
SameNoAddress(d, e) ==
    /\ d.length = e.length /\ d.prot = e.prot /\ d.flag = e.flag
    /\ d.type = e.type /\ d.stack = e.stack

\* Event.__eq__
Same(d, e) ==
    /\ d.address = e.address
    /\ d.length = e.length /\ d.prot = e.prot /\ d.flag = e.flag
    /\ d.type = e.type /\ d.stack = e.stack

At(list, a) == {i \in DOMAIN list : list[i].address = a}

\* The latest event of the address is looked for; list.remove then takes the first that
\* equals it.
RemoveLatest(list, a) ==
    IF At(list, a) = {}
    THEN list
    ELSE LET found == list[Max(At(list, a))]
         IN RemoveAt(list, Min({i \in DOMAIN list : Same(list[i], found)}))

\* adjustForMunmap
AdjustForMunmap(list, e) ==
    CASE e.type \in {"mmap", "alloc"} -> Append(list, e)
      [] e.type \in {"munmap", "free"} -> RemoveLatest(list, e.address)
      [] OTHER -> list

\* LinePlotMaker: the allocations that free lines are matched with.
PopAllocs(list, e) ==
    CASE e.type = "alloc" -> Append(list, e)
      [] e.type = "free" -> RemoveLatest(list, e.address)
      [] OTHER -> list

\* Mutant of Change: the list is searched from its beginning.
ChangeFirst(list, e) ==
    CASE e.type \in {"mmap", "alloc"} -> e.length
      [] e.type = "munmap" -> -e.length
      [] e.type = "free" /\ At(list, e.address) # {} -> -list[Min(At(list, e.address))].length
      [] OTHER -> 0

\* LinePlotMaker: what a line adds to the total.
Change(list, e) ==
    CASE e.type \in {"mmap", "alloc"} -> e.length
      [] e.type = "munmap" -> -e.length
      [] e.type = "free" /\ At(list, e.address) # {} -> -list[Max(At(list, e.address))].length
      [] OTHER -> 0

-----------------------------------------------------------------------------
(***************************************************************************)
(* Clusters.                                                               *)
(***************************************************************************)

\* getStackFirstLine.  A long line is wrapped, so a stack that is not empty has two lines.
StackFirstLine(frames) == IF frames = <<>> THEN <<>> ELSE <<FirstOf[frames[1]]>>

\* AggEvent.__eq__: isSameMask and isSameStack
Alike(d, e, expand) ==
    /\ d.prot = e.prot /\ d.flag = e.flag
    /\ expand => d.length = e.length /\ d.stack = e.stack
    /\ StackFirstLine(d.stack) = StackFirstLine(e.stack)

\* aggItemGrowth on the first cluster that equals the event, or a new one.
Join(clusters, e, expand) ==
    LET same == {i \in DOMAIN clusters : Alike(clusters[i][1], e, expand)}
    IN IF same = {} THEN Append(clusters, <<e>>)
                    ELSE [clusters EXCEPT ![Min(same)] = Append(@, e)]

\* BarPlotMaker.flatEventList
Clusters(expand) == FoldLeft(LAMBDA cs, e : Join(cs, e, expand), <<>>, bars)

-----------------------------------------------------------------------------
ChartInit == Init /\ bars = <<>> /\ allocs = <<>> /\ total = 0

Read(e) ==
    /\ bars' = AdjustForMunmap(bars, e)
    /\ allocs' = PopAllocs(allocs, e)
    /\ total' = total + Change(allocs, e)

\* A failed allocation is one more line that nothing removes.
BarsRoom == Len(bars) + Cardinality({t \in Threads : pc[t] \in {"got", "line"}}) < MaxBars

\* Lines of unmapped stacks, which no line says were mapped, would take the total anywhere.
TotalRoom == mode = {"heap"} \/ total \in 0..MaxTotal

\* A step of the recorder; if it writes a line, the charts take it up.
ChartNext ==
    /\ Next
    /\ \A t \in Threads : pc[t] = "idle" =>
           /\ pc'[t] = "got" => BarsRoom
           /\ pc'[t] \in {"got", "endline"} => TotalRoom
    /\ \/ \E t \in Threads :
             /\ pc[t] \in {"line", "endline"} /\ pc'[t] # pc[t]
             /\ \E l \in Lines(t) : Read(HandleLine(l, t))
       \/ /\ \A t \in Threads : pc[t] \in {"line", "endline"} => pc'[t] = pc[t]
          /\ UNCHANGED charts

ChartSpec == ChartInit /\ [][ChartNext]_<<vars, charts>>

-----------------------------------------------------------------------------
(***************************************************************************)
(* Properties.                                                             *)
(***************************************************************************)

\* The bar chart shows the memory in use: every logged block that its own thread still
\* holds is in it, with the parameters and the stack of that thread, and nothing else is
\* at an address but what ended where the log could not learn of it.
BarsShowMemory ==
    \A a \in Addrs :
        /\ mem[a] \in Kinds /\ recorder[a] # Null =>
               LET t == recorder[a]
                   type == IF mem[a] = "heap" THEN "alloc" ELSE "mmap"
               IN \E i \in At(bars, a) : /\ bars[i].type = type
                                         /\ bars[i].length = SiteOf[t].length
                                         /\ bars[i].stack = StackAutoWrap(SiteOf[t].stack)
        /\ LET inUse == mem[a] \in Kinds
                        \/ \E t \in Threads : pc[t] = "endline" /\ op[t].addr = a
           IN Cardinality(At(bars, a)) > (IF inUse THEN 1 ELSE 0)
                  => \E k \in Kinds : a \in missed[k]

SumOf(list) == FoldLeft(LAMBDA sum, e : sum + e.length, 0, list)

\* The three charts of a log of malloc and free agree: the line ends at what the bars add
\* up to, though the two makers match free lines in lists of their own.
LineEndsAtBars == mode = {"heap"} => total = SumOf(bars)

\* What is left of a line when the process is killed: some of its segments, the last one
\* whole or in part.
CutOff(line) ==
    {SubSeq(line, 1, n) : n \in DOMAIN line}
        \cup {Append(SubSeq(line, 1, n - 1), Cut) : n \in DOMAIN line}

\* An allocation line that was cut off is either not charted or charted with its whole
\* address and length: no handler takes a number that the log ended in.
CutAllocsWhole ==
    \A t \in Threads : pc[t] = "line" =>
        \A line \in CutOff(AllocLine(t)) :
            LET e == HandleLine(line, t)
            IN e # None => e.address = op[t].addr /\ e.length = SiteOf[t].length

\* README: the clusters of the fine chart have the same length, prot, flag and stack.
ExactClusters ==
    LET clusters == Clusters(TRUE) IN
    \A c \in DOMAIN clusters : \A i, j \in DOMAIN clusters[c] :
        SiteOf[clusters[c][i].site].stack = SiteOf[clusters[c][j].site].stack
=============================================================================
