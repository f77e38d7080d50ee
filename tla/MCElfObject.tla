----------------------------- MODULE MCElfObject -----------------------------
EXTENDS ElfObject

Kinds == {[name |-> ".text", type |-> "PROGBITS", flags |-> {"ALLOC", "EXECINSTR"}, align |-> 16],
          [name |-> ".bss", type |-> "NOBITS", flags |-> {"ALLOC", "WRITE"}, align |-> 8]}

Header(name, type, flags, addr, offset, size, link, info, align, entsize) ==
    [name |-> name, type |-> type, flags |-> flags, addr |-> addr, offset |-> offset,
     size |-> size, link |-> link, info |-> info, align |-> align, entsize |-> entsize]

(* An object of an assembler that keeps all strings in one section.         *)
Strings == <<"", ".text", ".strtab", ".symtab", "f", ".rela.text">>
Assembled ==
    [etype |-> "REL", phoff |-> 0, segments |-> <<>>, shoff |-> 256, shstrndx |-> 2,
     size |-> 256 + SHDR * 5,
     headers |-> <<
        Header(OffsetOf(Strings, 2), "PROGBITS", {"ALLOC", "EXECINSTR"}, 0, 64, 9, 0, 0, 16, 0),
        Header(OffsetOf(Strings, 3), "STRTAB", {}, 0, 169, SpaceOf(Strings) + 1, 0, 0, 1, 0),
        Header(OffsetOf(Strings, 6), "RELA", {}, 0, 80, RELA, 4, 1, 8, RELA),
        Header(OffsetOf(Strings, 4), "SYMTAB", {}, 0, 104, 2 * SYM, 2, 1, 8, SYM)>>,
     contents |-> <<Bytes(-1), Table(Strings), Table(<<[offset |-> 1, sym |-> 1]>>),
        Table(<<[name |-> OffsetOf(Strings, 5), local |-> FALSE, shndx |-> 1, value |-> 1]>>)>>]

(* A program of a linker, its headers in front.                             *)
Names == <<"", ".text", ".shstrtab">>
Linked ==
    [etype |-> "EXEC", phoff |-> 64, shoff |-> 8256, shstrndx |-> 2, size |-> 8256 + SHDR * 3,
     segments |-> <<[flags |-> {"EXECINSTR"}, offset |-> 4096, vaddr |-> 4198400,
                     filesz |-> 9, memsz |-> 9]>>,
     headers |-> <<
        Header(OffsetOf(Names, 2), "PROGBITS", {"ALLOC", "EXECINSTR"}, 4198400, 4096, 9, 0, 0, 16, 0),
        Header(OffsetOf(Names, 3), "STRTAB", {}, 0, 4105, SpaceOf(Names) + 1, 0, 0, 1, 0)>>,
     contents |-> <<Bytes(-1), Table(Names)>>]

Files == {Assembled, Linked}
==============================================================================
