------------------------------ MODULE ElfTables ------------------------------
(***************************************************************************)
(* What bhook reads in a mapped ELF (bh_elf.c, bh_sleb128.c): the dynamic  *)
(* symbols by way of the two hash tables and of the table of imports, the  *)
(* relocations, plain and packed (APS2), and the segments.                 *)
(*                                                                         *)
(* An image is what the linker has mapped.  It has the dynamic symbols in  *)
(* a function from 0 on (0 is STN_UNDEF), the number of the first one that *)
(* .gnu.hash holds, the styles of its hash tables, relocations that give a *)
(* symbol, a type and a slot, the packed ones as bytes, and for each slot  *)
(* the segments that it is in.  A name is a value of its own, and its      *)
(* hashes are constants.                                                   *)
(***************************************************************************)
EXTENDS Integers, Sequences, SequencesExt, FiniteSets

CONSTANTS
    Names,      \* names of symbols
    SysvHash,   \* bh_elf_sysv_hash of a name
    GnuHash,    \* bh_elf_gnu_hash of a name
    Buckets,    \* the number of buckets of a hash table
    BloomBits,  \* bits of a word of the bloom filter (elfclass_bits)
    BloomShift, \* its shift
    Width,      \* bits of size_t
    LP64,       \* is this a 64-bit process?
    Images      \* ELFs

ASSUME HashType == SysvHash \in [Names -> Nat] /\ GnuHash \in [Names -> Nat]
ASSUME TableType == Buckets \in Nat \ {0} /\ BloomBits \in Nat \ {0}
                    /\ BloomShift \in Nat
ASSUME WidthType == Width \in Nat \ {0} /\ LP64 \in BOOLEAN

Nil == 0                \* no symbol: STN_UNDEF is never looked for
Fault == -1             \* SIGSEGV while a table is read

Symbols(img) == DOMAIN img.syms \ {0}
HighestOf(S) == IF S = {} THEN 0 ELSE CHOOSE i \in S : \A j \in S : j <= i
LowestOf(S) == IF S = {} THEN 0 ELSE CHOOSE i \in S : \A j \in S : i <= j

-----------------------------------------------------------------------------
(* The tables as the link editor writes them. *)

SysvBucket(img, i) == SysvHash[img.syms[i].name] % Buckets
GnuBucket(img, i) == GnuHash[img.syms[i].name] % Buckets
InGnu(img) == {i \in Symbols(img) : i >= img.symoffset}

\* .hash: a bucket starts with its last symbol, and goes on with the one before.
SysvFirst(img, b) == HighestOf({i \in Symbols(img) : SysvBucket(img, i) = b})
SysvChain(img, i) ==
    HighestOf({j \in Symbols(img) :
                  j < i /\ SysvBucket(img, j) = SysvBucket(img, i)})

\* .gnu.hash: a bucket is a run of symbols, and the last one of it is marked.
GnuFirst(img, b) == LowestOf({i \in InGnu(img) : GnuBucket(img, i) = b})
GnuLast(img, i) == i + 1 \notin InGnu(img) \/ GnuBucket(img, i + 1) # GnuBucket(img, i)

BloomMask(h) == {h % BloomBits, (h \div (2 ^ BloomShift)) % BloomBits}
BloomWord(h) == (h \div BloomBits) % 2
Bloom(img, w) ==
    UNION {BloomMask(GnuHash[img.syms[i].name]) :
              i \in {j \in InGnu(img) : BloomWord(GnuHash[img.syms[j].name]) = w}}

\* Runs of .gnu.hash are together: what a link editor sorts the exports for.
WellFormed(img) ==
    /\ \A i \in Symbols(img) : img.syms[i].undef <=> i < img.symoffset
    /\ \A i, j \in InGnu(img) : i < j => GnuBucket(img, i) <= GnuBucket(img, j)

-----------------------------------------------------------------------------
(* Symbols.  "tab" are the fields of the bh_elf_t that have been set: those *)
(* that are not are 0 or NULL, and to read by way of a NULL one is a fault. *)

FuncTypes == {"func", "ifunc", "notype"}

\* bh_elf_find_symbol_by_name_use_sysv_hash.
SysvLookup(img, tab, name) ==
    LET walk[i \in Symbols(img) \cup {0}] ==
            IF i = 0 THEN Nil
            ELSE IF {"dynsym", "dynstr"} \ tab # {} THEN Fault
            ELSE IF img.syms[i].type \in FuncTypes /\ img.syms[i].name = name
            THEN i
            ELSE walk[SysvChain(img, i)]
    IN  IF "sysv.buckets" \in tab
        THEN walk[SysvFirst(img, SysvHash[name] % Buckets)] ELSE Fault

\* All bits but the lowest, which ends the chain.
SameHash(img, i, h) == GnuHash[img.syms[i].name] \div 2 = h \div 2

\* bh_elf_find_symbol_by_name_use_gnu_hash.
GnuLookup(img, tab, name) ==
    LET h == GnuHash[name]
        first == GnuFirst(img, h % Buckets)
        walk[i \in InGnu(img)] ==
            IF {"dynsym", "dynstr"} \ tab # {} THEN Fault
            ELSE IF /\ SameHash(img, i, h)
                    /\ img.syms[i].type \in FuncTypes
                    /\ img.syms[i].name = name
            THEN i
            ELSE IF GnuLast(img, i) THEN Nil ELSE walk[i + 1]
    IN  IF "gnu.bloom" \notin tab THEN Fault
        ELSE IF ~(BloomMask(h) \subseteq Bloom(img, BloomWord(h))) THEN Nil
        ELSE IF first < img.symoffset THEN Nil
        ELSE walk[first]

\* bh_elf_find_symbol_by_name_use_import_table: a symbol that is not in
\* .gnu.hash, in the order of the table.
ImportLookup(img, tab, name) ==
    IF {"dynsym", "dynstr"} \ tab # {} THEN Fault
    ELSE LowestOf({i \in Symbols(img) :
                      /\ i < img.symoffset
                      /\ img.syms[i].type \in {"func", "notype"}
                      /\ img.syms[i].name = name})

HasSysv(img, tab) == "sysv" \in img.hash /\ "sysv.buckets_cnt" \in tab
HasGnu(img, tab) == "gnu" \in img.hash /\ "gnu.cnts" \in tab

Undef(img, i) == i \notin {Nil, Fault} /\ img.syms[i].undef
Defined(img, i) == i \notin {Nil, Fault} /\ ~img.syms[i].undef

\* The first lookup that finds a symbol that will do, unless one faults before.
FirstOf(lookups, Will(_)) ==
    LET k == SelectInSeq(lookups, LAMBDA i : i = Fault \/ Will(i))
    IN  IF k = 0 THEN Nil ELSE lookups[k]

\* bh_elf_find_import_func_symbol_by_symbol_name: imports by .hash or by the
\* table; exports, for calls inside of the ELF, by .gnu.hash.
ImportFunc(img, tab, name) ==
    LET imports == (IF HasSysv(img, tab) THEN <<SysvLookup(img, tab, name)>> ELSE <<>>)
                \o (IF HasGnu(img, tab) THEN <<ImportLookup(img, tab, name)>> ELSE <<>>)
        i == FirstOf(imports, LAMBDA j : Undef(img, j))
        e == GnuLookup(img, tab, name)
    IN  IF i # Nil THEN i
        ELSE IF HasGnu(img, tab) /\ (e = Fault \/ Defined(img, e)) THEN e ELSE Nil

\* bh_elf_find_export_func_symbol_by_symbol_name.
ExportFunc(img, tab, name) ==
    FirstOf((IF HasGnu(img, tab) THEN <<GnuLookup(img, tab, name)>> ELSE <<>>)
            \o (IF HasSysv(img, tab) THEN <<SysvLookup(img, tab, name)>> ELSE <<>>),
            LAMBDA i : Defined(img, i))

-----------------------------------------------------------------------------
(* Relocations: a symbol, a type and a slot, where the symbol's address is *)
(* to be.  r_info is the two first in a number.                            *)

RELATIVE == 0
GLOB_DAT == 1
ABS == 2
JUMP_SLOT == 3

Reloc(info, slot) == [sym |-> info \div 4, type |-> info % 4, slot |-> slot]

\* Mutant of SlebValue: the sign is not extended.
SlebValueUnsigned(bs) ==
    FoldLeft(+, 0, [i \in DOMAIN bs |-> (bs[i] % 128) * 2 ^ (7 * (i - 1))]) % 2 ^ Width

\* bh_sleb128_decoder_next: 7 bits in a byte, the lowest first; a value whose
\* last byte has bit 64 is negative, in two's complement of the width.
SlebValue(bs) ==
    LET bits == 7 * Len(bs)
        value == FoldLeft(+, 0, [i \in DOMAIN bs |-> (bs[i] % 128) * 2 ^ (7 * (i - 1))])
        negative == bits < Width /\ Last(bs) % 128 >= 64
    IN  (IF negative THEN value + 2 ^ Width - 2 ^ bits ELSE value) % 2 ^ Width

\* All values that can be decoded from some bytes: each ends with a byte that
\* does not have bit 128.
Values(bytes) ==
    LET ends == SelectSeq([i \in 1..Len(bytes) |-> i], LAMBDA i : bytes[i] < 128)
    IN  [k \in DOMAIN ends |->
            SlebValue(SubSeq(bytes, IF k = 1 THEN 1 ELSE ends[k - 1] + 1, ends[k]))]

Flag(flags, bit) == IF (flags \div bit) % 2 = 1 THEN 1 ELSE 0

\* A group at position k of the values v has its size and its flags; then what
\* its relocations have in common (the distance of offsets, the info, the
\* addend); and then the rest of each of them.
Group(flags, k) ==
    LET byInfo == Flag(flags, 1)
        byDelta == Flag(flags, 2)
        addends == Flag(flags, 8)
        byAddend == IF LP64 THEN Flag(flags, 4) * addends ELSE 0
    IN  [byInfo |-> byInfo = 1, byDelta |-> byDelta = 1, addends |-> addends = 1,
         info |-> k + 2 + byDelta,
         body |-> k + 2 + byDelta + byInfo + byAddend,
         each |-> (1 - byDelta) + (1 - byInfo) + (addends - byAddend)]

\* Relocations that the data ends in are not seen.
Whole(g, size, n) ==
    IF g.body > n + 1 THEN 0
    ELSE IF g.each = 0 \/ size * g.each <= n + 1 - g.body THEN size
    ELSE (n + 1 - g.body) \div g.each

\* The relocations of a group, from what went before: that is number 0.
GroupRelocs(v, k, g, whole, start) ==
    LET at(i) == g.body + (i - 1) * g.each
        slot[i \in 0..whole] ==
            IF i = 0 THEN start
            ELSE (slot[i - 1] + v[IF g.byDelta THEN k + 2 ELSE at(i)]) % 2 ^ Width
        info(i) == v[IF g.byInfo THEN g.info
                     ELSE IF g.byDelta THEN at(i) ELSE at(i) + 1]
    IN  [i \in 0..whole |-> Reloc(IF i = 0 THEN 0 ELSE info(i), slot[i])]

\* The groups of the values v.
Groups(v) ==
    LET from[k \in Nat, seen \in Nat, start \in Nat] ==
            IF seen >= v[1] \/ k >= Len(v) THEN <<>>
            ELSE LET g == Group(v[k + 1], k)
                     whole == Whole(g, v[k], Len(v))
                     relocs == GroupRelocs(v, k, g, whole, start)
                 IN  IF ~LP64 /\ g.addends THEN <<>>
                     ELSE [i \in 1..whole |-> relocs[i]]
                          \o (IF whole < v[k] THEN <<>>
                              ELSE from[g.body + v[k] * g.each, seen + v[k],
                                        relocs[whole].slot])
    IN  from[3, 0, v[2]]

\* bh_elf_iterate_aps2: the number of relocations and the first offset, then
\* groups.
Unpack(bytes) == IF Len(Values(bytes)) < 2 THEN <<>> ELSE Groups(Values(bytes))

\* The magic at the start of packed relocations.
Aps2Magic == <<65, 80, 83, 50>>

Unpacked ==
    [bytes \in UNION {{i.packed, Aps2Magic \o i.packed} : i \in Images} |-> Unpack(bytes)]

\* Relocations as far as they have been parsed: both pointers and counts.
PltTable(img, tab) == IF {"rel_plt", "rel_plt_cnt"} \subseteq tab THEN img.plt ELSE <<>>
DynTable(img, tab) == IF {"rel_dyn", "rel_dyn_cnt"} \subseteq tab THEN img.dyn ELSE <<>>
PackedTable(img, tab) ==
    IF img.packed = <<>> \/ ~({"aps2", "aps2_sz"} \subseteq tab) THEN <<>>
    ELSE Unpacked[IF "aps2_fixed" \in tab THEN img.packed ELSE Aps2Magic \o img.packed]

\* Slots of calls by way of .rel.plt and of addresses by way of .rel.dyn, as
\* many as there is room for.
SlotsOf(plt, dyn, cap, Wanted(_)) ==
    LET found == SelectSeq(plt, LAMBDA r : r.type = JUMP_SLOT /\ Wanted(r))
                 \o SelectSeq(dyn, LAMBDA r : r.type \in {GLOB_DAT, ABS} /\ Wanted(r))
    IN  [i \in 1..LowestOf({Len(found), cap}) |-> found[i].slot]

\* bh_elf_find_import_func_addr_by_symbol_name.
SlotsByName(img, tab, cap, name) ==
    LET i == ImportFunc(img, tab, name)
    IN  SlotsOf(PltTable(img, tab), DynTable(img, tab) \o PackedTable(img, tab), cap,
                LAMBDA r : i # Nil /\ r.sym = i)

\* bh_elf_find_import_func_addr_by_callee_addr, of the slots that hold the address.
SlotsByCallee(img, tab, cap, holding) ==
    SlotsOf(PltTable(img, tab), DynTable(img, tab) \o PackedTable(img, tab), cap,
            LAMBDA r : r.slot \in holding)

\* A count without its pointer: the first relocation is read at NULL.
RelocsFault(tab) ==
    \/ "rel_plt_cnt" \in tab /\ "rel_plt" \notin tab
    \/ "rel_dyn_cnt" \in tab /\ "rel_dyn" \notin tab

-----------------------------------------------------------------------------
(* Segments. *)

\* bh_elf_get_protect_by_addr: what the program headers say of a slot's page.
Protect(img, slot) ==
    IF \E s \in img.segments : s.type = "relro" /\ slot \in s.slots THEN {"r"}
    ELSE UNION {s.prot : s \in {x \in img.segments :
                                   x.type = "load" /\ slot \in x.slots}}
=============================================================================
