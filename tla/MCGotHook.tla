----------------------------- MODULE MCGotHook -----------------------------
(***************************************************************************)
(* Instances of GotHook for TLC: ELFs as link editors make them.  All have *)
(* an imported or exported function a with a slot in .rel.plt and one in   *)
(* .rel.dyn or among the packed relocations, and a function b.             *)
(***************************************************************************)
EXTENDS GotHook, TLC

CONSTANTS a, b, c, k1, k2, k3, x1, x2, x3, x4

\* a and b meet in a bucket of .hash; a and c in one of .gnu.hash.
Sysv == a :> 3 @@ b :> 5 @@ c :> 8
Gnu == a :> 12 @@ b :> 15 @@ c :> 18

Sym(name, type, undef, value) ==
    [name |-> name, type |-> type, undef |-> undef, value |-> value]
Table(seq) ==
    [i \in 0..Len(seq) |-> IF i = 0 THEN Sym(None, "notype", TRUE, None) ELSE seq[i]]

\* What the tools that pack relocations write.
Sleb[v \in Int] ==
    IF -64 <= v /\ v < 64 THEN <<v % 128>>
    ELSE <<128 + (v % 128)>> \o Sleb[v \div 128]
Pack(values) == FlattenSeq([i \in DOMAIN values |-> Sleb[values[i]]])

\* Slots 2 and 4 with an info each; grouped by the info, with addends; or by the
\* distance, each group with an addend of its own.
Packings(ia, ib) ==
    {Pack(<<3, 200,  3, 0,  -198, 4 * ia + GLOB_DAT,  3, 0,  -1, 4 * ib + ABS>>),
     Pack(<<2, 70,  1, 9, 4 * ia + ABS, -68, -70,  1, 1, 4 * ib + GLOB_DAT, 2>>),
     Pack(<<2, 0,  2, 14, 2, -300, 4 * ia + GLOB_DAT, 4 * ib + GLOB_DAT>>)}

\* A layout: what a and b are, and which table has the relocations of data.
Layouts == [a : {"func", "notype", "ifunc", "object"}, aUndef : BOOLEAN,
            bUndef : BOOLEAN, hash : {{"sysv"}, {"gnu"}, {"sysv", "gnu"}},
            orig : {x1, x2, x3, x4}]

Possible(y) ==
    /\ y.aUndef => y.a # "ifunc"
    /\ ~y.aUndef => y.a \in {"func", "ifunc"}
    /\ y.orig # x1 => y.hash = {"gnu"} /\ y.a = "func" /\ y.aUndef

\* With .hash alone calls inside of the ELF are not found (bh_elf.c:517-519).
Found(y) == y.a # "object" /\ (y.aUndef \/ "gnu" \in y.hash)
FoundB(y) == y.bUndef \/ "gnu" \in y.hash

Numbered(y) ==
    LET sa == Sym(a, y.a, y.aUndef, x1)
        sb == Sym(b, "func", y.bUndef, x2)
        sc == Sym(c, "func", FALSE, x2)
    IN  Table(SelectSeq(<<sa, sb>>, LAMBDA s : s.undef)
              \o SelectSeq(<<sc, sa, sb>>, LAMBDA s : ~s.undef))

Image(y, packed, entries) ==
    LET syms == Numbered(y)
        ia == CHOOSE i \in DOMAIN syms : syms[i].name = a
        ib == CHOOSE i \in DOMAIN syms : syms[i].name = b
        data == <<Reloc(4 * ia + GLOB_DAT, 2), Reloc(RELATIVE, 5),
                  Reloc(4 * ib + ABS, 4)>>
    IN  {[syms |-> syms, hash |-> y.hash, dynamic |-> entries,
          symoffset |-> Cardinality({i \in DOMAIN syms : syms[i].undef}),
          plt |-> <<Reloc(4 * ib + JUMP_SLOT, 3), Reloc(4 * ia + JUMP_SLOT, 1)>>,
          dyn |-> IF packed THEN <<>> ELSE data,
          packed |-> p,
          relocs |-> {[name |-> a, slot |-> s] : s \in IF Found(y) THEN {1, 2} ELSE {}}
                     \cup {[name |-> b, slot |-> s] : s \in IF FoundB(y) THEN {3, 4} ELSE {}},
          orig |-> <<Func(y.orig), Func(y.orig), Func(x2), Func(x2), Func(None)>>,
          page |-> <<1, 2, 1, 2, 2>>,
          segments |-> {[type |-> "load", slots |-> 1..5, prot |-> {"r", "w"}],
                        [type |-> "relro", slots |-> {1, 3}, prot |-> {"r"}]}] :
            p \in IF packed THEN Packings(ia, ib) ELSE {<<>>}}

\* The orders of GNU ld and of lld.
GnuLd == <<"sysv.buckets_cnt", "sysv.buckets", "gnu.cnts", "gnu.bloom", "dynstr",
           "dynsym", "rel_plt_cnt", "rel_plt", "rel_dyn", "rel_dyn_cnt",
           "aps2", "aps2_sz">>
Lld == <<"aps2", "aps2_sz", "rel_dyn", "rel_dyn_cnt", "rel_plt", "rel_plt_cnt",
         "dynsym", "dynstr", "gnu.cnts", "gnu.bloom", "sysv.buckets_cnt",
         "sysv.buckets">>

AllImages ==
    LET layouts == {y \in Layouts : Possible(y)}
    IN  UNION {Image(y, FALSE, GnuLd) : y \in layouts}
        \cup UNION {Image(y, TRUE, Lld) :
                      y \in {z \in layouts : z.hash = {"gnu"} /\ z.a = "func"}}

\* With as many mappings as the kernel allows, a page cannot get a protection of its
\* own.  What is in the tables makes no difference to that: a few ELFs will do.
FewImages ==
    LET y == [a |-> "func", aUndef |-> TRUE, bUndef |-> TRUE, hash |-> {"gnu"}, orig |-> x1]
    IN  Image(y, FALSE, GnuLd)

\* a is an IFUNC there; b and c are two names of one function.
Provider ==
    [syms |-> Table(<<Sym(c, "func", FALSE, x2), Sym(a, "ifunc", FALSE, x1),
                      Sym(b, "func", FALSE, x2)>>),
     hash |-> {"gnu"}, symoffset |-> 1]
AddrNames == x1 :> a @@ x2 :> c @@ x3 :> NoName @@ x4 :> Outside @@ None :> Outside
TaskSyms == k1 :> a @@ k2 :> a @@ k3 :> b
=============================================================================
