-------------------------------- MODULE SymTab --------------------------------
(***************************************************************************)
(* Functions of the system that no library exports are found by name in    *)
(* the .symtab of the ELF that has them: those of the linker by bhook      *)
(* (bh_dl.c, bh_linker.c), and Thread::DumpJavaStack of libart.so by HiMem *)
(* with xDL (mem_stack.cpp, xdl.c, xdl_iterate.c).                         *)
(*                                                                         *)
(* An ELF is mapped from its base on; its program headers are read there,  *)
(* and its sections from the file, which may be unreadable or cut short.   *)
(* Section n is sections[n]; 0 is the null section.  A section has a type, *)
(* a name, the number of the section it is linked to, and is inside of the *)
(* file or not; a symbol table has symbols, and .gnu_debugdata an ELF of   *)
(* its own or NoElf, if it cannot be decompressed.  String tables are      *)
(* terminated, so that strncmp up to their end compares whole names.       *)
(***************************************************************************)
EXTENDS Integers, Sequences, SequencesExt

CONSTANTS
    NoElf,      \* what a damaged .gnu_debugdata holds
    NoTable     \* no symbol table could be loaded

Null == 0       \* NULL, as an address
Sections(elf) == DOMAIN elf.sections

LowestLoad(elf) == CHOOSE v \in elf.loads : \A w \in elf.loads : v <= w
LoadBias(elf) == elf.base - LowestLoad(elf)

\* A symbol table that is linked to a string table.
IsSymtab(elf, n) ==
    LET s == elf.sections[n]
    IN  /\ s.type = "symtab" /\ s.name = ".symtab"
        /\ s.link \in Sections(elf)
        /\ elf.sections[s.link].type = "strtab"

\* Both of them can be read.
Inside(elf, n) ==
    elf.sections[n].inside /\ elf.sections[elf.sections[n].link].inside

FirstSection(elf, Will(_)) == SelectInSeq([n \in Sections(elf) |-> n], Will)

\* The names of sections are in a section of the file, which xDL makes sure of.
NamesInside(elf) == elf.shstrndx \in Sections(elf) /\ elf.sections[elf.shstrndx].inside

-----------------------------------------------------------------------------
(* bh_dl.c. *)

\* The null section is empty, and nothing is read of it.  A number that is none of a
\* section is not refused: bhook would read past the table.
BhNamesInside(elf) == elf.shstrndx # 0 /\ elf.sections[elf.shstrndx].inside

\* bh_dl_load_symtab: the first table will do, or there is none.
BhSymtab(elf) ==
    LET n == FirstSection(elf, LAMBDA i : IsSymtab(elf, i))
    IN  IF ~elf.readable \/ ~elf.headers \/ ~BhNamesInside(elf) \/ n = 0 THEN NoTable
        ELSE IF Inside(elf, n) THEN elf.sections[n].syms ELSE NoTable

\* bh_dl_open_linker: the base that the kernel has told, and its symbols.
OpenLinker(elf) ==
    IF elf.base = Null \/ elf.loads = {} THEN NoTable
    ELSE IF elf.base < LowestLoad(elf) THEN NoTable ELSE BhSymtab(elf)

\* Mutant of Lookup: any symbol of that name, undefined ones included.
LookupAny(elf, table, name) ==
    LET i == SelectInSeq(table, LAMBDA s : s.name = name)
    IN  IF i = 0 THEN Null ELSE LoadBias(elf) + table[i].value

\* bh_dl_dsym, and the search in xdl_dsym: the first symbol of a section.
Lookup(elf, table, name) ==
    LET i == SelectInSeq(table, LAMBDA s : s.shndx = "section" /\ s.name = name)
    IN  IF i = 0 THEN Null ELSE LoadBias(elf) + table[i].value

-----------------------------------------------------------------------------
(* bh_linker.c: on Android 5.x and 7.x the linker's lock, and what dlopen   *)
(* calls there, are looked for.                                            *)

LollipopApis == {21, 22}
NougatApis == {24, 25}

NoLinker == [g_dl_mutex |-> Null, dlopen_ext |-> Null, do_dlopen |-> Null,
             get_error_buffer |-> Null, format_dlerror |-> Null]

Failed == [ok |-> FALSE, addr |-> NoLinker]

\* bh_linker_init.
LinkerInit(api, elf) ==
    LET table == OpenLinker(elf)
        dsym(name) == Lookup(elf, table, name)
        locked == [NoLinker EXCEPT !.g_dl_mutex = dsym("g_dl_mutex")]
    IN  IF api \notin LollipopApis \cup NougatApis THEN [ok |-> TRUE, addr |-> NoLinker]
        ELSE IF table = NoTable THEN Failed
        ELSE IF dsym("g_dl_mutex") = Null THEN Failed
        ELSE IF api \in LollipopApis THEN [ok |-> TRUE, addr |-> locked]
        ELSE IF dsym("dlopen_ext") # Null
        THEN [ok |-> TRUE, addr |-> [locked EXCEPT !.dlopen_ext = dsym("dlopen_ext")]]
        ELSE IF dsym("do_dlopen") = Null THEN Failed
        ELSE [ok |-> TRUE,
              addr |-> [locked EXCEPT
                          !.do_dlopen = dsym("do_dlopen"),
                          !.get_error_buffer = dsym("get_error_buffer"),
                          !.format_dlerror = dsym("format_dlerror")]]

-----------------------------------------------------------------------------
(* xdl.c. *)

\* xdl_symtab_load_from_debugdata: the first table that can be read.
DebugSymtab(elf) ==
    LET n == FirstSection(elf, LAMBDA i : IsSymtab(elf, i) /\ Inside(elf, i))
    IN  IF ~elf.headers \/ ~NamesInside(elf) \/ n = 0 THEN NoTable
        ELSE elf.sections[n].syms

Debugdata(elf, n) ==
    LET s == elf.sections[n]
    IN  IF s.type = "progbits" /\ s.name = ".gnu_debugdata" /\ s.inside /\ s.elf # NoElf
        THEN DebugSymtab(s.elf) ELSE NoTable

\* xdl_symtab_load: the first section that is a table or has one packed.
XdlSymtab(elf) ==
    LET table(n) == IF IsSymtab(elf, n) /\ Inside(elf, n) THEN elf.sections[n].syms
                    ELSE Debugdata(elf, n)
        n == FirstSection(elf, LAMBDA i : table(i) # NoTable)
    IN  IF \/ elf.loads = {} \/ ~elf.readable
           \/ ~elf.headers \/ ~NamesInside(elf) \/ n = 0 THEN NoTable
        ELSE table(n)

\* xdl_iterate_by_linker: the linker comes first, by the base that the kernel
\* has told,
TellsLinker(linker) == linker.elf.base # Null /\ linker.elf.loads # {}

\* then what dl_iterate_phdr tells of, but for the linker.  A name that is no
\* path is looked up in /proc/self/maps: "lost" is one not found.
Tells(linker, lib) ==
    /\ lib.name # "" /\ lib.path # "lost"
    /\ LoadBias(lib.elf) # Null
    /\ TellsLinker(linker) => LoadBias(lib.elf) # LoadBias(linker.elf)

\* xdl_find of a basename that is none of those the kernel tells of.
XdlFind(linker, libs, name) ==
    LET i == SelectInSeq(libs, LAMBDA lib : Tells(linker, lib) /\ lib.name = name)
    IN  IF TellsLinker(linker) /\ linker.name = name /\ LoadBias(linker.elf) # Null
        THEN linker.elf
        ELSE IF i = 0 THEN NoElf ELSE libs[i].elf

\* xdl_open and xdl_dsym.
XdlDsym(elf, name) ==
    IF elf = NoElf THEN Null
    ELSE IF XdlSymtab(elf) = NoTable THEN Null ELSE Lookup(elf, XdlSymtab(elf), name)

-----------------------------------------------------------------------------
(* What is to be found, whoever looks for it.                              *)

\* The tables that an ELF has, those in .gnu_debugdata included.
Tables(elf) ==
    {elf.sections[n].syms : n \in {i \in Sections(elf) : IsSymtab(elf, i) /\ Inside(elf, i)}}
    \cup ({Debugdata(elf, n) : n \in Sections(elf)} \ {NoTable})

\* Where an ELF that is mapped has a function or a variable of that name.
Homes(elf, name) ==
    IF elf.loads = {} THEN {} ELSE
    UNION {{elf.base + (s.value - LowestLoad(elf)) :
               s \in {x \in ToSet(t) : x.shndx = "section" /\ x.name = name}} :
            t \in Tables(elf)}
=============================================================================
