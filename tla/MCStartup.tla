------------------------------ MODULE MCStartup ------------------------------
(***************************************************************************)
(* Phones for Startup: linkers with and without the functions that are     *)
(* looked for, and libart.so whole, stripped, cut short, or unreadable.    *)
(***************************************************************************)
EXTENDS Startup

CONSTANTS t1, t2

Sym(name, shndx, value) == [name |-> name, shndx |-> shndx, value |-> value]

Section(type, name, link, inside) ==
    [type |-> type, name |-> name, link |-> link, inside |-> inside,
     syms |-> <<>>, elf |-> NoElf]

\* Sections 1 and 2 of all files: the names of sections, and of symbols.
Strings(inside) == <<Section("strtab", ".shstrtab", 0, TRUE),
                     Section("strtab", ".strtab", 0, inside)>>
Symtab(syms, link, inside) ==
    [Section("symtab", ".symtab", link, inside) EXCEPT !.syms = syms]
Packed(elf) == [Section("progbits", ".gnu_debugdata", 0, TRUE) EXCEPT !.elf = elf]

Elf(base, sections) ==
    [base |-> base, loads |-> {10, 30}, readable |-> TRUE, headers |-> TRUE,
     shstrndx |-> 1, sections |-> sections]

\* The functions that a linker has; it has an undefined symbol for the rest.
LinkerSyms(funcs) ==
    LET names == <<"g_dl_mutex", "dlopen_ext", "do_dlopen", "get_error_buffer",
                   "format_dlerror">>
        sym(i) == Sym(names[i], IF names[i] \in funcs THEN "section" ELSE "undef", i)
    IN  [i \in 1..5 |-> sym(i)]

Nougat == {"g_dl_mutex", "do_dlopen", "get_error_buffer", "format_dlerror"}
LinkerElf(funcs) == Elf(1000, Strings(TRUE) \o <<Symtab(LinkerSyms(funcs), 2, TRUE)>>)

\* Linkers of Android 5.x and of both kinds on 7.x; without the lock, or at fault.
LinkerElfs ==
    LET e == LinkerElf(Nougat)
    IN  <<LinkerElf({"g_dl_mutex"}), LinkerElf(Nougat),
          LinkerElf({"g_dl_mutex", "dlopen_ext"}), LinkerElf({"dlopen_ext"}),
          [e EXCEPT !.base = Null], [e EXCEPT !.base = 5], [e EXCEPT !.loads = {}],
          [e EXCEPT !.readable = FALSE], [e EXCEPT !.shstrndx = 0], Elf(1000, Strings(TRUE) \o <<Packed(e)>>),
          Elf(1000, Strings(FALSE) \o e.sections)>>

ArtSyms == <<Sym("Other", "section", 40), Sym("DumpJavaStack", "undef", 0),
             Sym("DumpJavaStack", "section", 50), Sym("DumpJavaStack", "section", 60)>>
Imports == <<Sym("DumpJavaStack", "undef", 0), Sym("DumpJavaStack", "reserved", 7)>>

\* What may come in a libart.so after its string tables: tables that are read, that
\* are not in the file, that are linked to no strings; packed ones, whole or damaged.
Kinds ==
    LET inner == Elf(0, Strings(TRUE) \o <<Symtab(ArtSyms, 2, TRUE)>>)
    IN  <<Symtab(ArtSyms, 2, TRUE), Symtab(ArtSyms, 2, FALSE), Symtab(ArtSyms, 3, TRUE),
          Symtab(ArtSyms, 9, TRUE), Symtab(Imports, 2, TRUE), Packed(inner),
          Packed(NoElf), Packed([inner EXCEPT !.shstrndx = 0]),
          Packed(Elf(0, Strings(FALSE) \o <<Symtab(ArtSyms, 2, TRUE)>>))>>

\* Each kind before each other, with its strings and without.
ArtElf(n) ==
    LET first == Kinds[(n % 9) + 1]
        second == Kinds[((n \div 9) % 9) + 1]
    IN  Elf(2000, Strings(n < 81) \o <<first, second>>)

GoodArt == ArtElf(0)
ArtElfsMC ==
    {ArtElf(n) : n \in 0..161}
    \cup {[GoodArt EXCEPT !.readable = FALSE], [GoodArt EXCEPT !.headers = FALSE]}

Lib(name, path, elf) == [name |-> name, path |-> path, elf |-> elf]
Named(elf) == Lib("linker64", "full", elf)

\* Another library comes first, or one of the same name; the linker may be told of
\* twice, and a name be looked up in the maps.
LibLists ==
    LET c == Elf(3000, Strings(TRUE) \o <<Symtab(Imports, 2, TRUE)>>)
    IN  {<<Lib("libc.so", "full", c), Lib("libart.so", "short", GoodArt)>>,
          <<Lib("libc.so", "full", c), Lib("libart.so", "lost", GoodArt)>>,
          <<Named(LinkerElf(Nougat)), Lib("", "full", c), Lib("libart.so", "full", c),
            Lib("libart.so", "full", GoodArt)>>,
          <<Lib("libc.so", "full", c)>>}

Phone(api, e, libs) == [api |-> api, linker |-> Named(e), libs |-> libs]

MCPhones ==
    {Phone(api, LinkerElfs[i], <<Lib("libart.so", "full", GoodArt)>>) :
        api \in {21, 25, 28}, i \in DOMAIN LinkerElfs}
    \cup {Phone(27, LinkerElf(Nougat), <<Lib("libart.so", "full", e)>>) : e \in ArtElfsMC}
    \cup {Phone(26, LinkerElf(Nougat), libs) : libs \in LibLists}
=============================================================================
