------------------------------- MODULE ElfImage -------------------------------
(* The object model of lielf.h: how lielf_build() regenerates the tables    *)
(* and lays a file out, and how lielf_load_mem() reads one.                 *)
(*                                                                          *)
(* Section 0 and symbol 0, which every file begins with, are left out of    *)
(* the sequences, so that an index into a sequence is the index in the file *)
(* and 0 stands for "none".  The bytes of a table are the sequence of its   *)
(* entries, those of a string table the sequence of its strings; the bytes  *)
(* of any other section are a value that is never looked into.  The size    *)
(* and the visibility of a symbol and the type and the addend of a          *)
(* relocation, which nothing reads, are left out.                           *)
EXTENDS Integers, Sequences, SequencesExt, FiniteSets

(* The first word of a file and the sizes of what it is made of.            *)
EHDR == 64
PHDR == 56
SHDR == 64
SYM == 24
RELA == 24
DYN == 16
PAGE == 4096
DefaultBase(etype) == IF etype = "EXEC" THEN 4194304 ELSE 0

(* The bytes of a section: none, some (n tells them apart), or a table.     *)
NoData == [form |-> "none", bytes |-> 0, of |-> <<>>]
Bytes(n) == [form |-> "bytes", bytes |-> n, of |-> <<>>]
Table(entries) == [form |-> "table", bytes |-> 0, of |-> entries]

AlignUp(v, a) == IF a <= 1 THEN v ELSE ((v + (a - 1)) \div a) * a

Larger(a, b) == IF a > b THEN a ELSE b

(* Where parts end that are put one behind the other from a place on.       *)
Part(align, size) == [align |-> align, size |-> size]
Ends(start, parts) ==
    LET end[i \in 0 .. Len(parts)] ==
          IF i = 0 THEN start ELSE AlignUp(end[i - 1], parts[i].align) + parts[i].size
    IN end

(* The elements at some of the places of a sequence, in their order.        *)
Kept(seq, places) ==
    FlattenSeq([i \in DOMAIN seq |-> IF i \in places THEN <<seq[i]>> ELSE <<>>])

-----------------------------------------------------------------------------
(* lielf_new() and lielf_add_section(): an object without sections, and a   *)
(* section at the end of the list.                                          *)
NewBinary(etype) ==
    [etype |-> etype, base |-> DefaultBase(etype), phoff |-> 0,
     sections |-> <<>>, segments |-> <<>>, symbols |-> [d \in BOOLEAN |-> <<>>],
     relocs |-> <<>>, dynamic |-> <<>>]

Section(name, type, flags, data, size, align) ==
    [name |-> name, type |-> type, flags |-> flags, addr |-> 0, offset |-> 0,
     size |-> size, link |-> 0, info |-> 0, align |-> Larger(align, 1), entsize |-> 0,
     data |-> IF type = "NOBITS" \/ size = 0 THEN NoData ELSE data,
     kind |-> "normal", loaded |-> FALSE, dirty |-> TRUE,
     relaDynamic |-> FALSE, relaTarget |-> ""]

AddedSection(b, sec) == [b EXCEPT !.sections = Append(@, sec)]

(* lielf__section_index() and lielf_get_section(): the first one of a name. *)
SectionIndex(b, name) ==
    LET found == {i \in DOMAIN b.sections : b.sections[i].name = name}
    IN IF found = {} THEN 0 ELSE CHOOSE i \in found : \A j \in found : i <= j

Ensured(b, name, type, flags, align) ==
    IF SectionIndex(b, name) # 0 THEN b
    ELSE AddedSection(b, Section(name, type, flags, NoData, 0, align))

(* lielf__maybe_update_data(): a section is dirty when its bytes change.    *)
UpdatedAlways(sec, data, size) ==  \* a mutant: a table that is regenerated is always dirty
    [sec EXCEPT !.data = data, !.size = size, !.dirty = TRUE]

Updated(sec, data, size) ==
    IF sec.data # NoData /\ sec.size = size /\ sec.data = data THEN sec
    ELSE [sec EXCEPT !.data = data, !.size = size, !.dirty = TRUE]

(* Where a string begins in a table of strings, the first of which is at 1, *)
(* and the string that begins at a place.  (Every length is a number, which *)
(* proofs do not know of strings.)                                          *)
StringLength(s) == IF Len(s) \in Nat THEN Len(s) ELSE 0
SpaceOf(strings) ==
    Ends(0, [i \in DOMAIN strings |-> Part(1, StringLength(strings[i]) + 1)])[Len(strings)]
OffsetOf(strings, i) == 1 + SpaceOf(SubSeq(strings, 1, i - 1))
StringAt(strings, offset) ==
    LET found == {i \in DOMAIN strings : OffsetOf(strings, i) = offset}
    IN IF found = {} THEN "" ELSE strings[CHOOSE i \in found : TRUE]

NamesOf(records) == [i \in DOMAIN records |-> records[i].name]

-----------------------------------------------------------------------------
(* lielf__sort_symbols_local_first(): the local symbols before the others,  *)
(* in the order they had, and every relocation to where its symbol went.    *)
Locals(syms) == {i \in DOMAIN syms : syms[i].local}
LocalsFirst(syms) == Kept(syms, Locals(syms)) \o Kept(syms, DOMAIN syms \ Locals(syms))

Remap(syms, i) ==
    IF i \notin DOMAIN syms THEN i
    ELSE IF syms[i].local THEN Cardinality({j \in Locals(syms) : j <= i})
    ELSE Cardinality(Locals(syms)) + Cardinality({j \in 1 .. i : ~ syms[j].local})

SortedOnly(b, d) == [b EXCEPT !.symbols[d] = LocalsFirst(@)]  \* a mutant: relocations keep their index

Sorted(b, d) ==
    [b EXCEPT !.symbols[d] = LocalsFirst(@),
              !.relocs = [i \in DOMAIN @ |->
                  IF @[i].dynamic = d
                  THEN [@[i] EXCEPT !.sym = Remap(b.symbols[d], b.relocs[i].sym)] ELSE @[i]]]

(* The names of the other tables that lielf_build() looks for.              *)
TableNames == {".symtab", ".strtab", ".dynsym", ".dynstr", ".dynamic", ".shstrtab"}

AllocIf(d) == IF d THEN {"ALLOC"} ELSE {}
SymtabName(d) == IF d THEN ".dynsym" ELSE ".symtab"
SymtabType(d) == IF d THEN "DYNSYM" ELSE "SYMTAB"
StrtabName(d) == IF d THEN ".dynstr" ELSE ".strtab"

(* lielf__rebuild_symtab(): sorted, and written with the places that the    *)
(* names will have.  The first symbol that is not local goes into info.     *)
RebuiltSymtab(unsorted, d) ==
    LET b    == Sorted(unsorted, d)
        syms == b.symbols[d]
        raw  == [i \in DOMAIN syms |->
                   [name |-> OffsetOf(NamesOf(syms), i), local |-> syms[i].local,
                    shndx |-> syms[i].shndx, value |-> syms[i].value]]
        e    == Ensured(b, SymtabName(d), SymtabType(d), AllocIf(d), 8)
        i    == SectionIndex(e, SymtabName(d))
        size == SYM * (Len(syms) + 1)
    IN IF syms # <<>>
       THEN [e EXCEPT !.sections[i] =
               Updated([@ EXCEPT !.type = SymtabType(d),
                                 !.entsize = SYM, !.kind = SymtabName(d),
                                 !.info = Cardinality(Locals(syms)) + 1], Table(raw), size)]
       ELSE IF SectionIndex(b, SymtabName(d)) = 0 THEN b
       ELSE [e EXCEPT !.sections[i] = Updated(@, Table(raw), size)]

(* lielf__rebuild_strtab()                                                  *)
RebuiltStrtab(b, d) ==
    LET names == NamesOf(b.symbols[d])
        e     == Ensured(b, StrtabName(d), "STRTAB", AllocIf(d), 1)
        i     == SectionIndex(e, StrtabName(d))
    IN IF names # <<>>
       THEN [e EXCEPT !.sections[i] =
               Updated([@ EXCEPT !.type = "STRTAB", !.entsize = 0, !.kind = StrtabName(d)],
                       Table(names), 1 + SpaceOf(names))]
       ELSE IF SectionIndex(b, StrtabName(d)) = 0 THEN b
       ELSE [e EXCEPT !.sections[i] = Updated(@, Table(names), 1)]

(* lielf__find_or_create_rela(): the relocations of a section are in one    *)
(* section of their own, in two if some are dynamic.  (No name that begins  *)
(* with .rela is that of another table, which proofs do not know.)          *)
Relocates(sec, r) == /\ sec.kind = "rela" /\ sec.relaDynamic = r.dynamic
                     /\ sec.relaTarget = r.target
RelaName(r) ==
    LET name == ".rela" \o r.target
    IN IF r.dynamic /\ r.target = "" THEN ".rela.dyn"
       ELSE IF name \in TableNames THEN ".rela" ELSE name
RelaFor(r) ==
    [Section(RelaName(r), "RELA", AllocIf(r.dynamic), NoData, 0, 8)
     EXCEPT !.kind = "rela", !.relaDynamic = r.dynamic, !.relaTarget = r.target]
WithRelas(b) ==
    LET homeless == {i \in DOMAIN b.relocs :
                       /\ \A k \in DOMAIN b.sections : ~ Relocates(b.sections[k], b.relocs[i])
                       /\ \A k \in 1 .. i - 1 : ~ Relocates(RelaFor(b.relocs[k]), b.relocs[i])}
        first    == Kept(b.relocs, homeless)
    IN [b EXCEPT !.sections = @ \o [i \in DOMAIN first |-> RelaFor(first[i])]]

(* lielf__rebuild_one_rela()                                                *)
RebuiltOneRela(b, sec) ==
    LET mine == Kept(b.relocs, {i \in DOMAIN b.relocs : Relocates(sec, b.relocs[i])})
        raw  == [i \in DOMAIN mine |-> [offset |-> mine[i].offset, sym |-> mine[i].sym]]
    IN Updated([sec EXCEPT !.entsize = RELA],
               IF mine = <<>> THEN NoData ELSE Table(raw), RELA * Len(mine))

(* lielf__rebuild_relas(): those that are missing are created; all are      *)
(* written (once before that too, to the same effect).                      *)
RebuiltRelas(b) ==
    LET e == WithRelas(b)
    IN [e EXCEPT !.sections = [i \in DOMAIN @ |->
          IF @[i].kind = "rela" THEN RebuiltOneRela(e, @[i]) ELSE @[i]]]

(* lielf__rebuild_dynamic()                                                 *)
RebuiltDynamic(b) ==
    LET e == Ensured(b, ".dynamic", "DYNAMIC", {"ALLOC", "WRITE"}, 8)
        i == SectionIndex(e, ".dynamic")
    IN IF b.dynamic = <<>> THEN b
       ELSE [e EXCEPT !.sections[i] =
               Updated([@ EXCEPT !.type = "DYNAMIC", !.entsize = DYN, !.kind = "dynamic"],
                       Table(b.dynamic), DYN * (Len(b.dynamic) + 1))]

(* lielf__rebuild_shstrtab(): the names of all sections, its own included.  *)
(* The empty name of section 0 takes the byte behind the first.             *)
SectionNames(b) == <<"">> \o NamesOf(b.sections)
RebuiltShstrtab(b) ==
    LET e == Ensured(b, ".shstrtab", "STRTAB", {}, 1)
        i == SectionIndex(e, ".shstrtab")
    IN [e EXCEPT !.sections[i] =
          Updated([@ EXCEPT !.type = "STRTAB", !.entsize = 0, !.kind = "shstrtab"],
                  Table(SectionNames(e)), 1 + SpaceOf(SectionNames(e)))]

(* lielf__resolve_links(): the sections that tables refer to, by name.      *)
Resolved(b) ==
    [b EXCEPT !.sections = [i \in DOMAIN @ |->
       LET s == @[i]
       IN CASE s.kind = ".symtab" -> [s EXCEPT !.link = SectionIndex(b, ".strtab")]
            [] s.kind = ".dynsym" -> [s EXCEPT !.link = SectionIndex(b, ".dynstr")]
            [] s.kind = "rela" ->
                 [s EXCEPT !.link = SectionIndex(b, SymtabName(s.relaDynamic)),
                           !.info = IF s.relaTarget = "" THEN 0
                                    ELSE SectionIndex(b, s.relaTarget)]
            [] OTHER -> s]]

RegeneratedStringsFirst(b) ==  \* a mutant: the strings in the order before the sort
    LET syms == RebuiltSymtab(RebuiltStrtab(b, FALSE), FALSE)
        dyns == RebuiltSymtab(RebuiltStrtab(syms, TRUE), TRUE)
    IN Resolved(RebuiltShstrtab(RebuiltDynamic(RebuiltRelas(dyns))))

Regenerated(b) ==
    LET syms == RebuiltStrtab(RebuiltSymtab(b, FALSE), FALSE)
        dyns == RebuiltStrtab(RebuiltSymtab(syms, TRUE), TRUE)
    IN Resolved(RebuiltShstrtab(RebuiltDynamic(RebuiltRelas(dyns))))

-----------------------------------------------------------------------------
(* lielf_build(): a section that was in the file it was loaded from and has *)
(* not changed keeps its place, other ones of the memory image go behind    *)
(* them and into a segment of their own, and what is only for tools last.   *)
FileSize(s) == IF s.type = "NOBITS" THEN 0 ELSE s.size

ClassOfDirty(b, s) ==  \* a mutant: a section that has grown keeps its place
    IF "ALLOC" \notin s.flags THEN "meta"
    ELSE IF b.etype # "REL" /\ s.loaded /\ b.segments # <<>> THEN "fixed"
    ELSE "new"

ClassOf(b, s) ==
    IF "ALLOC" \notin s.flags THEN "meta"
    ELSE IF b.etype # "REL" /\ s.loaded /\ ~ s.dirty /\ b.segments # <<>> THEN "fixed"
    ELSE "new"

BaseOf(b) ==
    IF b.etype = "REL" \/ b.segments = <<>> THEN b.base
    ELSE b.segments[1].vaddr - b.segments[1].offset

(* Behind the header, the headers of segments, which may be anywhere, and   *)
(* all sections that keep their place                                       *)
FixedEndFrom(b, headers) ==
    LET end[i \in 0 .. Len(b.sections)] ==
          IF i = 0 THEN headers
          ELSE IF ClassOf(b, b.sections[i]) # "fixed" THEN end[i - 1]
          ELSE Larger(b.sections[i].offset + FileSize(b.sections[i]), end[i - 1])
    IN end[Len(b.sections)]

FixedEndHeaders(b) ==  \* a mutant: the headers of segments are always in front
    FixedEndFrom(b, EHDR + PHDR * Len(b.segments))

FixedEnd(b) ==
    LET phdrs == PHDR * Len(b.segments)
    IN FixedEndFrom(b, IF phdrs = 0 THEN EHDR ELSE Larger(EHDR + phdrs, b.phoff + phdrs))

(* The sections of one class, one behind the other from a place on: the     *)
(* others take no space.                                                    *)
PartsOf(b, class) ==
    [i \in DOMAIN b.sections |->
       LET s == b.sections[i]
       IN IF ClassOf(b, s) = class THEN Part(Larger(s.align, 1), FileSize(s)) ELSE Part(1, 0)]

Placed(b, class, start) ==
    LET At(i) == AlignUp(Ends(start, PartsOf(b, class))[i - 1], Larger(b.sections[i].align, 1))
    IN [b EXCEPT !.sections = [i \in DOMAIN @ |->
          IF ClassOf(b, @[i]) # class THEN @[i]
          ELSE [@[i] EXCEPT !.offset = At(i),
                            !.addr = IF class = "meta" \/ b.etype = "REL" THEN 0
                                     ELSE BaseOf(b) + At(i)]]]

NewAllocs(b) == {s \in Range(b.sections) : ClassOf(b, s) = "new"}

LaidOut(b) ==
    LET n      == Len(b.sections)
        start  == AlignUp(FixedEnd(b), IF b.etype = "REL" THEN 8 ELSE PAGE)
        allocs == Ends(start, PartsOf(b, "new"))[n]
        metas  == Ends(AlignUp(allocs, 8), PartsOf(b, "meta"))[n]
        load   == [flags |-> UNION {s.flags : s \in NewAllocs(b)} \cap {"WRITE", "EXECINSTR"},
                   offset |-> start, vaddr |-> BaseOf(b) + start,
                   filesz |-> allocs - start, memsz |-> allocs - start]
        segs   == IF b.etype # "REL" /\ NewAllocs(b) # {} THEN Append(b.segments, load)
                  ELSE b.segments
        moved  == segs # b.segments \/ b.segments = <<>>
        phoff  == IF segs = <<>> THEN 0 ELSE IF moved THEN AlignUp(metas, 8) ELSE b.phoff
        end    == IF moved /\ segs # <<>> THEN phoff + PHDR * Len(segs) ELSE metas
    IN [bin   |-> [Placed(Placed(b, "new", start), "meta", AlignUp(allocs, 8))
                   EXCEPT !.segments = segs, !.phoff = phoff],
        shoff |-> AlignUp(end, 8)]

(* What is written, and the object afterwards: all of it is as in a file    *)
(* that has just been loaded.                                               *)
ImageOf(b, shoff) ==
    [etype |-> b.etype, phoff |-> b.phoff, segments |-> b.segments, shoff |-> shoff,
     shstrndx |-> SectionIndex(b, ".shstrtab"),
     size |-> shoff + SHDR * (Len(b.sections) + 1),
     headers |-> [i \in DOMAIN b.sections |->
        LET s == b.sections[i]
        IN [name |-> OffsetOf(SectionNames(b), i + 1), type |-> s.type, flags |-> s.flags,
            addr |-> s.addr, offset |-> s.offset, size |-> s.size, link |-> s.link,
            info |-> s.info, align |-> s.align, entsize |-> s.entsize]],
     contents |-> [i \in DOMAIN b.sections |->
        IF b.sections[i].type = "NOBITS" THEN NoData ELSE b.sections[i].data]]

Settled(b) ==
    [b EXCEPT !.sections = [i \in DOMAIN @ |->
       [@[i] EXCEPT !.loaded = "ALLOC" \in b.sections[i].flags, !.dirty = FALSE]]]

Built(b) ==
    LET laid == LaidOut(Regenerated(b))
    IN [bin |-> Settled(laid.bin), image |-> ImageOf(laid.bin, laid.shoff)]

-----------------------------------------------------------------------------
(* lielf_load_mem(): the sections with what each is for, then the symbols,  *)
(* the relocations and the dynamic entries that are in them.                *)
TableKind == [t \in {"SYMTAB", "DYNSYM", "DYNAMIC", "RELA"} |->
    CASE t = "SYMTAB" -> ".symtab" [] t = "DYNSYM" -> ".dynsym"
      [] t = "DYNAMIC" -> "dynamic" [] t = "RELA" -> "rela"]

KindOf(img, i) ==
    LET LinkedBy(type) == \E k \in DOMAIN img.headers :
                             img.headers[k].type = type /\ img.headers[k].link = i
    IN IF img.headers[i].type \in DOMAIN TableKind THEN TableKind[img.headers[i].type]
       ELSE IF LinkedBy("DYNSYM") THEN ".dynstr"
       ELSE IF LinkedBy("SYMTAB") THEN ".strtab"
       ELSE IF i = img.shstrndx   THEN "shstrtab"
       ELSE "normal"

NameOf(img, i) ==
    IF i \in DOMAIN img.headers /\ img.shstrndx # 0
    THEN StringAt(img.contents[img.shstrndx].of, img.headers[i].name) ELSE ""

LoadedSection(img, i) ==
    LET h    == img.headers[i]
        rela == h.type = "RELA"
    IN [name |-> NameOf(img, i), type |-> h.type, flags |-> h.flags, addr |-> h.addr,
        offset |-> h.offset, size |-> h.size, link |-> h.link, info |-> h.info,
        align |-> h.align, entsize |-> h.entsize, data |-> img.contents[i],
        kind |-> KindOf(img, i), loaded |-> "ALLOC" \in h.flags, dirty |-> FALSE,
        relaDynamic |-> rela /\ h.link # 0 /\ img.headers[h.link].type = "DYNSYM",
        relaTarget |-> IF rela THEN NameOf(img, h.info) ELSE ""]

LoadedSymbols(sections, kind) ==
    LET Entries(s) == [k \in DOMAIN s.data.of |->
          [name |-> IF s.link = 0 THEN ""
                    ELSE StringAt(sections[s.link].data.of, s.data.of[k].name),
           local |-> s.data.of[k].local, shndx |-> s.data.of[k].shndx,
           value |-> s.data.of[k].value]]
    IN FlattenSeq([i \in DOMAIN sections |->
          IF sections[i].kind = kind THEN Entries(sections[i]) ELSE <<>>])

LoadedRelocs(sections) ==
    LET Entries(s) == [k \in DOMAIN s.data.of |->
          [target |-> s.relaTarget, offset |-> s.data.of[k].offset, sym |-> s.data.of[k].sym,
           dynamic |-> s.relaDynamic]]
    IN FlattenSeq([i \in DOMAIN sections |->
          IF sections[i].kind = "rela" THEN Entries(sections[i]) ELSE <<>>])

LoadedDynamic(sections) ==
    FlattenSeq([i \in DOMAIN sections |->
          IF sections[i].kind = "dynamic" THEN sections[i].data.of ELSE <<>>])

Loaded(img) ==
    LET sections == [i \in DOMAIN img.headers |-> LoadedSection(img, i)]
    IN [etype |-> img.etype, base |-> DefaultBase(img.etype), phoff |-> img.phoff,
        sections |-> sections, segments |-> img.segments,
        symbols |-> [d \in BOOLEAN |-> LoadedSymbols(sections, SymtabName(d))],
        relocs |-> LoadedRelocs(sections), dynamic |-> LoadedDynamic(sections)]
==============================================================================
