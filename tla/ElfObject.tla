------------------------------ MODULE ElfObject ------------------------------
(* An object of lielf.h in the hands of its caller, who begins a new one or *)
(* loads a file, changes it and writes it, as often as he likes.            *)
EXTENDS ElfImage

CONSTANTS
    Types,         \* of the files that are begun: "REL", "EXEC"
    Given,         \* files that other tools wrote
    SectionKinds,  \* of sections that are added: [name, type, flags, align]
    Sizes,         \* of their contents
    SymbolNames,
    Dynamic,       \* the symbol tables that are used, TRUE for .dynsym
    MaxSymbols, MaxRelocs, MaxDynamic,
    MaxCalls       \* calls in all

-----------------------------------------------------------------------------
(* The parts of a file, in bytes from one place up to another: its header   *)
(* (0), the headers of sections (-1) and segments (-2), and the contents of *)
(* sections, by their index.                                                *)
Parts(img) ==
    LET segments == IF img.segments = <<>> THEN {} ELSE {-2}
        sections == {i \in DOMAIN img.headers : FileSize(img.headers[i]) > 0}
    IN [p \in {0, -1} \cup segments \cup sections |->
          CASE p = 0  -> <<0, EHDR>>
            [] p = -1 -> <<img.shoff, img.shoff + SHDR * (Len(img.headers) + 1)>>
            [] p = -2 -> <<img.phoff, img.phoff + PHDR * Len(img.segments)>>
            [] p > 0  -> <<img.headers[p].offset,
                           img.headers[p].offset + FileSize(img.headers[p])>>]

Occupied(img) == {h \in Range(img.headers) : FileSize(h) > 0}

NoOverlap(img) ==
    LET parts == Parts(img)
    IN /\ \A p, q \in DOMAIN parts :
             p # q => parts[p][2] <= parts[q][1] \/ parts[q][2] <= parts[p][1]
       /\ \A p \in DOMAIN parts : parts[p][2] <= img.size
       /\ \A h \in Range(img.headers) : h.offset % Larger(h.align, 1) = 0

(* A sequence, of whatever *)
IsSeq(x) == x \in Seq({x[i] : i \in DOMAIN x})

(* The code masks with an alignment, which is a power of two or 0.          *)
Aligned(align) == align \in Nat /\ (align = 0 \/ \E e \in 0 .. 30 : align = 2 ^ e)

(* A file that may be loaded: its parts do not overlap, and tables are      *)
(* tables.                                                                  *)
WellFormed(img) ==
    /\ IsSeq(img.headers) /\ IsSeq(img.segments)
    /\ {img.phoff, img.shoff, img.size} \subseteq Nat
    /\ \A i \in DOMAIN img.headers :
          LET h == img.headers[i]
          IN /\ {h.offset, h.size} \subseteq Nat /\ Aligned(h.align)
             /\ IsSeq(img.contents[i].of)
             /\ h.type = "NOBITS" => img.contents[i] = NoData
    /\ NoOverlap(img)

(* What is loaded into memory of a program, at the address it has there,    *)
(* and the programs that have one distance between addresses and places in  *)
(* the file.                                                                *)
InSegment(segments, s) ==
    \E g \in Range(segments) : /\ g.offset <= s.offset
                               /\ s.offset + s.size <= g.offset + g.filesz
                               /\ s.addr - g.vaddr = s.offset - g.offset
Distance(g) == g.vaddr - g.offset
OneDistance(segments) ==
    \A i \in DOMAIN segments : /\ {segments[i].vaddr, segments[i].offset} \subseteq Int
                              /\ Distance(segments[i]) = Distance(segments[1])

(* The value of the symbol that a relocation is for, and tables of symbols  *)
(* whose info names the first symbol that is not local.                     *)
SymbolOf(b, r) == IF r.sym \in DOMAIN b.symbols[r.dynamic]
                  THEN b.symbols[r.dynamic][r.sym].value ELSE 0
LocalsBefore(b) ==
    \A i \in DOMAIN b.sections, d \in BOOLEAN :
       b.sections[i].type = SymtabType(d) =>
          \A k \in DOMAIN b.symbols[d] : b.symbols[d][k].local <=> k < b.sections[i].info

(* A file as other tools write it: tables have the names that the library   *)
(* looks for, in the form that ELF asks for; a relocation, which is told by *)
(* its offset, is for a symbol that there is; what a program loads is in    *)
(* its segments.  Bytes of its own are not those of a caller.               *)
Conventional(img) ==
    LET b == Loaded(img)
    IN /\ \A i \in DOMAIN img.headers :
             LET h == img.headers[i]
             IN /\ h.type # "NULL"
                /\ \A d \in BOOLEAN : h.type = SymtabType(d) =>
                      SectionIndex(b, SymtabName(d)) = i
                /\ h.type = "RELA" => NameOf(img, i) \notin TableNames
                /\ FileSize(h) > 0 => img.contents[i] # NoData
                /\ img.contents[i].form = "bytes" => img.contents[i].bytes < 0
                /\ img.etype # "REL" /\ "ALLOC" \in h.flags /\ FileSize(h) > 0 =>
                      InSegment(img.segments, h)
       /\ img.etype # "REL" => OneDistance(img.segments)
       /\ LocalsBefore(b)
       /\ \A k \in DOMAIN b.relocs :
             LET r == b.relocs[k]
             IN r.offset = k /\ r.sym \in 0 .. Len(b.symbols[r.dynamic])

(* Tables are the ones that the library makes and loads.  Sections without  *)
(* a type, which it skips, are left out.                                    *)
ASSUME ElfAssumption ==
    /\ \A g \in Given : WellFormed(g) /\ Conventional(g)
    /\ \A k \in SectionKinds : Aligned(k.align) /\ k.type \notin DOMAIN TableKind \cup {"NULL"}
    /\ Sizes \subseteq Nat /\ Dynamic \subseteq BOOLEAN

VARIABLES
    bin,      \* the object
    image,    \* the file that was written or loaded last
    current,  \* the object has not been changed since
    meant,    \* of a relocation, by its offset: the symbol it is for, by its value
    home,     \* of a symbol, by its value: the section it is defined in, by its name
    calls

evars == <<bin, image, current, meant, home, calls>>

None == [none |-> TRUE]

AllSymbols(b) == Range(b.symbols[FALSE]) \cup Range(b.symbols[TRUE])
SectionName(b, i) == IF i \in DOMAIN b.sections THEN b.sections[i].name ELSE ""

(* An object as its file says it is. *)
Taken(b) ==
    /\ bin = b
    /\ meant = [n \in {r.offset : r \in Range(b.relocs)} |->
                  SymbolOf(b, CHOOSE r \in Range(b.relocs) : r.offset = n)]
    /\ home = [v \in {s.value : s \in AllSymbols(b)} |->
                  SectionName(b, (CHOOSE s \in AllSymbols(b) : s.value = v).shndx)]

(* cup_output_object(): the code of a module and the strings of the state,  *)
(* if it has any, in a file.                                                *)
cup_output_object(code, strings) ==
    LET text == AddedSection(NewBinary("REL"),
                  Section(".text", "PROGBITS", {"ALLOC", "EXECINSTR"}, Bytes(-1), code, 16))
        both == IF strings = 0 THEN text
                ELSE AddedSection(text, Section(".rodata", "PROGBITS", {"ALLOC"}, Bytes(-2),
                                                strings, 8))
    IN Built(both).image

Output == {cup_output_object(code, strings) : code \in Sizes \ {0}, strings \in Sizes}

Init ==
    /\ calls = 0
    /\ \/ \E t \in Types : Taken(NewBinary(t)) /\ image = None /\ current = FALSE
       \/ \E g \in Given \cup Output : Taken(Loaded(g)) /\ image = g /\ current = TRUE

-----------------------------------------------------------------------------
Call == calls < MaxCalls /\ calls' = calls + 1
Changed(b) == bin' = b /\ current' = FALSE /\ UNCHANGED image

(* lielf_add_section(): its caller finds a section by its name and adds no  *)
(* second one of it.                                                        *)
lielf_add_section(k, size) ==
    /\ Call /\ SectionIndex(bin, k.name) = 0
    /\ Changed(AddedSection(bin, Section(k.name, k.type, k.flags, Bytes(calls),
                                         size, k.align)))
    /\ UNCHANGED <<meant, home>>

(* lielf_remove_section(): the first one of a name                          *)
lielf_remove_section(i) ==
    /\ Call /\ SectionIndex(bin, bin.sections[i].name) = i
    /\ Changed([bin EXCEPT !.sections = RemoveAt(@, i)])
    /\ home' = [v \in DOMAIN home |->
                  IF home[v] = bin.sections[i].name THEN "" ELSE home[v]]
    /\ UNCHANGED meant

(* lielf_set_section_data()                                                 *)
lielf_set_section_data(i, size) ==
    /\ Call /\ bin.sections[i].kind = "normal"
    /\ Changed([bin EXCEPT !.sections[i] =
         [@ EXCEPT !.data = IF size = 0 THEN NoData ELSE Bytes(calls),
                   !.size = size, !.dirty = TRUE]])
    /\ UNCHANGED <<meant, home>>

(* lielf_add_symbol()                                                       *)
lielf_add_symbol(name, local, shndx, d) ==
    LET v == Cardinality(DOMAIN home) + 1
    IN /\ Call /\ Cardinality(DOMAIN home) < MaxSymbols
       /\ Changed([bin EXCEPT !.symbols[d] = Append(@,
             [name |-> name, local |-> local, shndx |-> shndx, value |-> v])])
       /\ home' = [w \in DOMAIN home \cup {v} |->
                     IF w = v THEN SectionName(bin, shndx) ELSE home[w]]
       /\ UNCHANGED meant

(* lielf_find_symbol(), lielf_symbol_index() and lielf_add_reloc(): for the *)
(* symbol that is found by its name.                                        *)
Find(name, d) ==
    LET found == {i \in DOMAIN bin.symbols[d] : bin.symbols[d][i].name = name}
    IN IF found = {} THEN 0 ELSE CHOOSE i \in found : \A j \in found : i <= j

lielf_add_reloc(target, name, d) ==
    LET n == Cardinality(DOMAIN meant) + 1
        r == [target |-> target, offset |-> n, sym |-> Find(name, d), dynamic |-> d]
    IN /\ Call /\ Cardinality(DOMAIN meant) < MaxRelocs /\ Find(name, d) # 0
       /\ Changed([bin EXCEPT !.relocs = Append(@, r)])
       /\ meant' = [k \in DOMAIN meant \cup {n} |->
                      IF k = n THEN SymbolOf(bin, r) ELSE meant[k]]
       /\ UNCHANGED home

(* lielf_add_dynamic()                                                      *)
lielf_add_dynamic(tag) ==
    /\ Call /\ Len(bin.dynamic) < MaxDynamic
    /\ Changed([bin EXCEPT !.dynamic = Append(@, tag)])
    /\ UNCHANGED <<meant, home>>

(* lielf_write(), which is lielf_build() and the file                       *)
lielf_write ==
    LET built == Built(bin)
    IN /\ Call
       /\ bin' = built.bin /\ image' = built.image /\ current' = TRUE
       /\ UNCHANGED <<meant, home>>

(* lielf_load_file(): the file that was written last, by another caller who *)
(* goes on from it.                                                         *)
lielf_load_file ==
    /\ Call /\ image # None
    /\ bin' = Loaded(image) /\ current' = TRUE
    /\ UNCHANGED <<image, meant, home>>

Next ==
    \/ \E k \in SectionKinds, size \in Sizes : lielf_add_section(k, size)
    \/ \E i \in DOMAIN bin.sections :
          \/ lielf_remove_section(i)
          \/ \E size \in Sizes : lielf_set_section_data(i, size)
    \/ \E name \in SymbolNames, local \in BOOLEAN, d \in Dynamic,
          shndx \in 0 .. Len(bin.sections) : lielf_add_symbol(name, local, shndx, d)
    \/ \E k \in SectionKinds, name \in SymbolNames, d \in Dynamic :
          lielf_add_reloc(k.name, name, d)
    \/ \E tag \in {"DT_DEBUG"} : lielf_add_dynamic(tag)
    \/ lielf_write
    \/ lielf_load_file

Spec == Init /\ [][Next]_evars

-----------------------------------------------------------------------------
(* No part of a file lies over another one or beyond its end, and each      *)
(* section is aligned as it asks to be, in a file that grows by sections    *)
(* that stay where they were and others that move behind them.              *)
Apart == image # None => NoOverlap(image)

(* A relocation, read from the file, is for the symbol that its caller      *)
(* named, wherever the symbol has been sorted to, and the local symbols of  *)
(* a table are those before the one that its info names.                    *)
RelocationsMeant ==
    image # None /\ current =>
    LET b == Loaded(image)
    IN LocalsBefore(b) /\ \A r \in Range(b.relocs) : SymbolOf(b, r) = meant[r.offset]

(* A file that is loaded again is the object that was written: its          *)
(* sections, by their names, links and places (without the bytes of one     *)
(* that has none in a file), its symbols in their order                     *)
(* and its relocations, if no section that is relocated has been removed.   *)
Whole == \A r \in Range(bin.relocs) : r.target # "" => SectionIndex(bin, r.target) # 0
LoadsBack ==
    image # None /\ current /\ Whole =>
    LET b == Loaded(image)
    IN /\ b.sections = [i \in DOMAIN bin.sections |->
             IF bin.sections[i].type = "NOBITS" THEN [bin.sections[i] EXCEPT !.data = NoData]
             ELSE bin.sections[i]]
       /\ b.segments = bin.segments /\ b.phoff = bin.phoff
       /\ b.symbols = bin.symbols /\ b.dynamic = bin.dynamic
       /\ Range(b.relocs) = Range(bin.relocs) /\ Len(b.relocs) = Len(bin.relocs)

(* What is loaded into memory of a program is in a segment, at the address  *)
(* its section has, and an address is that of one place in the file.        *)
Mapped ==
    image # None /\ image.etype # "REL" /\ current =>
    /\ \A h \in Occupied(image) : "ALLOC" \in h.flags => InSegment(image.segments, h)
    /\ \A s, t \in Range(image.segments) :
          s.vaddr < t.vaddr + t.memsz /\ t.vaddr < s.vaddr + s.memsz => Distance(s) = Distance(t)

(* A section of a program that is in the file and still has the bytes it    *)
(* has there stays at its place and its address when the object is written. *)
(* Sections are told by their names, if no other one has it.                *)
Only(img, i) == \A j \in DOMAIN img.headers : NameOf(img, j) = NameOf(img, i) => j = i
Keeps(i, k) == /\ NameOf(image, i) = NameOf(image', k)
               /\ Only(image, i) /\ Only(image', k)
               /\ image'.contents[k] = image.contents[i]
               /\ image'.headers[k].size = image.headers[i].size
               /\ \E s \in Range(bin.sections) :
                     s.name = NameOf(image, i) /\ s.data = image.contents[i]
StaysPut ==
    [][image # None /\ image' # image /\ image.etype # "REL" =>
       \A i \in DOMAIN image.headers, k \in DOMAIN image'.headers :
          LET old == image.headers[i]
              new == image'.headers[k]
          IN "ALLOC" \in old.flags /\ old \in Occupied(image) /\ Keeps(i, k)
             => new.offset = old.offset /\ new.addr = old.addr]_evars

(* lielf.h:19-21 says of an object file that it is fully rebuilt, "so       *)
(* add/remove/resize is completely safe": a symbol is still defined in its  *)
(* section when another section has been removed.                           *)
SymbolsStay ==
    image # None /\ current =>
    LET b == Loaded(image)
    IN \A s \in AllSymbols(b) : home[s.value] # "" => SectionName(b, s.shndx) = home[s.value]
==============================================================================
