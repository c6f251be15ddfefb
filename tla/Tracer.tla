------------------------------- MODULE Tracer -------------------------------
(***************************************************************************)
(* The log file of HiMem (mem_tracer.cpp): proxies on the stacks of the    *)
(* application's threads write lines to it without a lock of their own,    *)
(* while a thread of the application starts the recording (init), flushes  *)
(* it (memFlush) and ends it (deInit).                                     *)
(*                                                                         *)
(* dumpFile is a plain global, read without synchronisation: a thread that *)
(* has found it set may use the value it found or read it again.  What a   *)
(* stream does that is used after fclose is not defined: the model notes   *)
(* the use ('misused') and goes no further.  The stream itself is external *)
(* (stdio): one call on it is one step.                                    *)
(***************************************************************************)
EXTENDS Integers, FiniteSetsExt

CONSTANTS
    Threads,        \* threads whose calls are recorded
    Sizes,          \* sizes of lines
    FlushThreshold, \* FLUSH_THRESHOLD
    StreamSize,     \* size of the buffer of a stream
    FileMax         \* bound on the recordings of a run

ASSUME SizesType == Sizes \subseteq 1..StreamSize /\ Sizes # {} /\ IsFiniteSet(Sizes)
ASSUME NumbersType == {FlushThreshold, StreamSize, FileMax} \subseteq Nat \ {0}

Files == 1..FileMax
None == 0       \* nullptr

VARIABLES
    dumpFile,   \* the stream, or None
    closed,     \* the streams given to fclose
    buffer,     \* buffer[f]: bytes written to stream f that its file does not have yet
    wroteSize,  \* bytes counted since the last reset
    hooked,     \* the proxies are installed
    place,         \* where a thread is
    found,      \* the dumpFile that it found
    line,       \* the size of its line
    main,       \* where the thread is that starts and ends the recording
    created,    \* how many files were created
    misused     \* history: a closed stream was used, or nullptr written to

file == <<dumpFile, closed, buffer, created>>
writers == <<wroteSize, place, found, line>>
logVars == <<file, hooked, writers, main, misused>>

\*   out      not in a proxy
\*   proxy    in a proxy, before writeLine
\*   write    dumpFile was found set
\*   count    written, not yet counted
\*   compare  counted
\*   flush    wroteSize was over the threshold
\*   reset    flushed
Places == {"out", "proxy", "write", "count", "compare", "flush", "reset"}

\*   off       before init, after deInit
\*   started   in init, the file is created
\*   on        recording
\*   unhooked  in deInit, the proxies are removed
\*   flushed, fclosed  in tracerDestroy
MainPlaces == {"off", "started", "on", "unhooked", "flushed", "fclosed"}

WroteMax == FlushThreshold + Cardinality(Threads) * Max(Sizes)

LogTypeOK ==
    /\ dumpFile \in Files \cup {None}
    /\ closed \subseteq Files
    /\ buffer \in [Files -> 0..StreamSize]
    /\ wroteSize \in 0..WroteMax
    /\ hooked \in BOOLEAN
    /\ place \in [Threads -> Places]
    /\ found \in [Threads -> Files \cup {None}]
    /\ line \in [Threads -> Sizes \cup {0}]
    /\ main \in MainPlaces
    /\ created \in 0..FileMax
    /\ misused \in BOOLEAN

LogInit ==
    /\ dumpFile = None /\ closed = {}
    /\ buffer = [f \in Files |-> 0]
    /\ wroteSize = 0
    /\ hooked = FALSE
    /\ place = [t \in Threads |-> "out"]
    /\ found = [t \in Threads |-> None]
    /\ line = [t \in Threads |-> 0]
    /\ main = "off"
    /\ created = 0
    /\ misused = FALSE

-----------------------------------------------------------------------------
(***************************************************************************)
(* A proxy writes a line.                                                  *)
(***************************************************************************)

GoTo(t, label) == place' = [place EXCEPT ![t] = label]
Leave(t) ==
    /\ GoTo(t, "out")
    /\ found' = [found EXCEPT ![t] = None]
    /\ line' = [line EXCEPT ![t] = 0]

\* A call of a hooked function enters its proxy.
Enter(t) ==
    /\ place[t] = "out" /\ hooked
    /\ GoTo(t, "proxy")
    /\ UNCHANGED <<file, hooked, wroteSize, found, line, main, misused>>

\* writeLine finds the file closed, or open.
Check(t) ==
    /\ place[t] = "proxy"
    /\ IF dumpFile = None
       THEN Leave(t)
       ELSE /\ GoTo(t, "write")
            /\ found' = [found EXCEPT ![t] = dumpFile]
            /\ UNCHANGED line
    /\ UNCHANGED <<file, hooked, wroteSize, main, misused>>

\* stdio: what does not fit in the buffer goes to the file with all that is in it.
Buffered(n) == IF n > StreamSize THEN n - StreamSize ELSE n

\* fwrite.
Write(t, n) ==
    /\ place[t] = "write"
    /\ \E f \in {found[t], dumpFile} :
          IF f = None \/ f \in closed
          THEN misused' = TRUE /\ UNCHANGED <<buffer, place, line>>
          ELSE /\ buffer' = [buffer EXCEPT ![f] = Buffered(@ + n)]
               /\ line' = [line EXCEPT ![t] = n]
               /\ GoTo(t, "count")
               /\ UNCHANGED misused
    /\ UNCHANGED <<dumpFile, closed, created, hooked, wroteSize, found, main>>

Count(t) ==
    /\ place[t] = "count"
    /\ wroteSize' = wroteSize + line[t]
    /\ GoTo(t, "compare")
    /\ UNCHANGED <<file, hooked, found, line, main, misused>>

\* Mutant of Compare: the count is not kept from one line to the next.
CompareAndReset(t) ==
    /\ place[t] = "compare"
    /\ IF wroteSize > FlushThreshold
       THEN GoTo(t, "flush") /\ UNCHANGED <<wroteSize, found, line>>
       ELSE Leave(t) /\ wroteSize' = 0
    /\ UNCHANGED <<file, hooked, main, misused>>

Compare(t) ==
    /\ place[t] = "compare"
    /\ IF wroteSize > FlushThreshold
       THEN GoTo(t, "flush") /\ UNCHANGED <<found, line>>
       ELSE Leave(t)
    /\ UNCHANGED <<file, hooked, wroteSize, main, misused>>

\* fflush(dumpFile); of nullptr it flushes every open stream, and none is open.
Flush(t) ==
    /\ place[t] = "flush"
    /\ \/ /\ dumpFile \in closed
          /\ misused' = TRUE
          /\ UNCHANGED <<buffer, place>>
       \/ /\ dumpFile \notin closed
          /\ buffer' = [f \in Files |-> IF f = dumpFile THEN 0 ELSE buffer[f]]
          /\ GoTo(t, "reset")
          /\ UNCHANGED misused
    /\ UNCHANGED <<dumpFile, closed, created, hooked, wroteSize, found, line, main>>

Reset(t) ==
    /\ place[t] = "reset"
    /\ wroteSize' = 0
    /\ Leave(t)
    /\ UNCHANGED <<file, hooked, main, misused>>

WriteLine(t) ==
    \/ Check(t)
    \/ \E n \in Sizes : Write(t, n)
    \/ Count(t)
    \/ Compare(t)
    \/ Flush(t)
    \/ Reset(t)

-----------------------------------------------------------------------------
(***************************************************************************)
(* init, memFlush and deInit.                                              *)
(***************************************************************************)

\* createFile; fopen may fail, and the recording goes on without a file.
Create ==
    /\ main = "off" /\ created < FileMax
    /\ main' = "started"
    /\ created' = created + 1
    /\ dumpFile' \in {created', None}
    /\ UNCHANGED <<closed, buffer, hooked, writers, misused>>

\* do_hook.
Hook ==
    /\ main = "started"
    /\ main' = "on" /\ hooked' = TRUE
    /\ UNCHANGED <<file, writers, misused>>

\* memFlush.
FlushToFile ==
    /\ main = "on" /\ dumpFile # None
    /\ buffer' = [buffer EXCEPT ![dumpFile] = 0]
    /\ UNCHANGED <<dumpFile, closed, created, hooked, writers, main, misused>>

\* clear_hook: calls that are in a proxy go on there.
ClearHook ==
    /\ main = "on"
    /\ main' = "unhooked" /\ hooked' = FALSE
    /\ UNCHANGED <<file, writers, misused>>

\* Mutant of Destroy: the stream is dropped without fclose.
DestroyAndForget ==
    /\ main = "unhooked"
    /\ main' = "off"
    /\ dumpFile' = None
    /\ UNCHANGED <<closed, buffer, created, hooked, writers, misused>>

\* tracerDestroy begins.
Destroy ==
    /\ main = "unhooked"
    /\ IF dumpFile = None
       THEN main' = "off" /\ UNCHANGED buffer
       ELSE main' = "flushed" /\ buffer' = [buffer EXCEPT ![dumpFile] = 0]
    /\ UNCHANGED <<dumpFile, closed, created, hooked, writers, misused>>

\* fclose writes what has come into the buffer since.
Close ==
    /\ main = "flushed"
    /\ main' = "fclosed"
    /\ closed' = closed \cup {dumpFile}
    /\ buffer' = [buffer EXCEPT ![dumpFile] = 0]
    /\ UNCHANGED <<dumpFile, created, hooked, writers, misused>>

Clear ==
    /\ main = "fclosed"
    /\ main' = "off"
    /\ dumpFile' = None
    /\ UNCHANGED <<closed, buffer, created, hooked, writers, misused>>

Control == Create \/ Hook \/ FlushToFile \/ ClearHook \/ Destroy \/ Close \/ Clear

LogNext ==
    /\ ~misused
    /\ Control \/ \E t \in Threads : Enter(t) \/ WriteLine(t)

LogSpec == LogInit /\ [][LogNext]_logVars

\* A thread in writeLine gets on with it.
LogFairSpec == LogSpec /\ \A t \in Threads : WF_logVars(~misused /\ WriteLine(t))

-----------------------------------------------------------------------------
(***************************************************************************)
(* Properties.                                                             *)
(***************************************************************************)

\* When a recording has ended, its file has every line that was written to the stream
\* before fclose, those of proxies still running included.
LinesSaved == main = "off" => \A f \in Files : buffer[f] = 0

\* While lines keep coming, some thread flushes them again and again, whatever counts
\* of others a reset of wroteSize drops.
FlushGoesOn ==
    []~misused /\ []<>(\E t \in Threads : place[t] = "count")
        => []<>(\E t \in Threads : place[t] = "reset")

=============================================================================
