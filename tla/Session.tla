------------------------------- MODULE Session ------------------------------
(* The life of a CUPState (src/moduler.c, src/types.c): the modules that a  *)
(* host compiles with it and those that they import, external libraries and *)
(* their symbols, the table of types that all of them fill, and the pages   *)
(* that code is written to.  A module is what its parser, its resolver and  *)
(* its generator ask of the session, in the order of parse().               *)
EXTENDS TypeTable

CONSTANTS Files,        \* the files that exist
          Exe,          \* the file of the running program
          Sources,      \* the texts of strings to compile
          Names,        \* the names of symbols
          Signatures,   \* the signatures of externals
          HostTypes,    \* the types that the host asks for
          Elements,     \* the types of the elements of array literals
          Counts,       \* the sizes of literals
          Chunks,       \* how many bytes are emitted at once
          PAGESIZE,
          MaxTypes, MaxLibraries, MaxSize   \* bounds

ASSUME SessionAssumption ==
    /\ Exe \in Files
    /\ PAGESIZE \in Nat \ {0} /\ Chunks \subseteq 1 .. PAGESIZE
    /\ HostTypes \subseteq AllTypes /\ Elements \subseteq Pointers /\ Counts \subseteq Nat
    /\ Signatures \subseteq [ret : Codes, call : BOOLEAN, args : Seq(Codes)]

VARIABLES modules,      \* the list of modules, the oldest first
          parsing,      \* the modules that parse() is in, the innermost last
          phase,        \* where the innermost of them is
          types,        \* the table of types
          externals,    \* how many libraries are open
          symbols,      \* names of symbols
          asked,        \* the last type asked for and the answer
          answer,       \* what was last compiled, and the module returned
          process       \* "alive", "ended" by exit() or an assertion, "deleted"

vars == <<modules, parsing, phase, types, externals, symbols, asked, answer, process>>

None == 0
NoQuestion == [t |-> MetaType("none"), p |-> Null]
Idle == process = "alive" /\ parsing = <<>>
Current == Last(parsing)
In(p) == process = "alive" /\ parsing # <<>> /\ phase = p

(* Path and text of a module, whether the resolver took it, the bytes       *)
(* written, the capacity of its vector and the pages mapped for it          *)
Fresh(path, text) == [path |-> path, text |-> text, accepted |-> FALSE, ran |-> FALSE,
                      size |-> 0, capacity |-> 0, mapped |-> 0]

-----------------------------------------------------------------------------
(* Types                                                                    *)
Learn(out, t) ==
    /\ types' = out.types
    /\ asked' = IF out.dead THEN asked ELSE [t |-> t, p |-> out.ans]
    /\ process' = IF out.dead THEN "ended" ELSE process

(* a caller has pointers to types that are there *)
Known(t) == \A j \in DOMAIN t.elems : IsEntry(t.elems[j]) => t.elems[j][2] \in DOMAIN types

AskType(t) == /\ Len(types) < MaxTypes /\ Known(t)
              /\ \E out \in cup_type(types, t) : Learn(out, t)
              /\ UNCHANGED <<modules, parsing, phase, externals, symbols, answer>>

(* the host makes types before and between its calls *)
HostType == Idle /\ \E t \in HostTypes : AskType(t)

(* the resolver makes the types of literals, and those of the functions     *)
(* that meta callbacks call                                                 *)
StringLiteral == In("resolve") /\ \E n \in Counts : AskType(ArrayOf(n, Pointer("uint8")))
ArrayLiteral == In("resolve") /\ \E n \in Counts, p \in Elements : AskType(ArrayOf(n, p))
cup_gen_call == In("resolve") /\ \E t \in HostTypes : t.kind = "function" /\ AskType(t)

-----------------------------------------------------------------------------
(* Modules                                                                  *)
SameFileTaken(path) ==  \* a mutant: modules that were not taken do not count
    {i \in DOMAIN modules : modules[i].path = path /\ modules[i].accepted}

SameFile(path) == {i \in DOMAIN modules : modules[i].path = path}

(* parse() up to its first token, for a file that is not in the list *)
Begin(path, text) == /\ modules' = Append(modules, Fresh(path, text))
                     /\ parsing' = Append(parsing, Len(modules) + 1)
                     /\ phase' = "parse"

cup_compile(path, text) ==
    /\ Idle
    /\ IF SameFile(path) # {}
       THEN /\ answer' = [text |-> text, module |-> Min(SameFile(path))]
            /\ UNCHANGED <<modules, parsing, phase>>
       ELSE Begin(path, text) /\ UNCHANGED answer
    /\ UNCHANGED <<types, externals, symbols, asked, process>>

cup_compile_string == \E text \in Sources : cup_compile(Exe, text)
cup_compile_file == \E path \in Files : cup_compile(path, path)

(* An import of a file that does not exist goes on.  One that was compiled  *)
(* already, or is being compiled, ends the process, as does the end of the  *)
(* imported module (Return).                                                *)
importModule ==
    /\ In("parse")
    /\ \E path \in Files :
          IF SameFile(path) # {} THEN process' = "ended" /\ UNCHANGED <<modules, parsing, phase>>
          ELSE Begin(path, path) /\ UNCHANGED process
    /\ UNCHANGED <<types, externals, symbols, asked, answer>>

externalModule ==
    /\ In("parse") /\ externals < MaxLibraries
    /\ \/ externals' = externals + 1 /\ UNCHANGED process
       \/ process' = "ended" /\ UNCHANGED externals
    /\ UNCHANGED <<modules, parsing, phase, types, symbols, asked, answer>>

(* A symbol is looked for in all libraries, its signature is read, and only *)
(* then is it seen whether its name is free.                                *)
externalSymbol ==
    /\ In("parse") /\ externals > 0 /\ Len(types) < MaxTypes
    /\ \E name \in Names, sig \in Signatures : \E out \in cup_type_parse(types, sig) :
          /\ types' = out.types
          /\ IF out.dead \/ name \in symbols
             THEN process' = "ended" /\ UNCHANGED symbols
             ELSE symbols' = symbols \cup {name} /\ UNCHANGED process
    /\ UNCHANGED <<modules, parsing, phase, externals, asked, answer>>

Declare == /\ In("parse") /\ \E name \in Names \ symbols : symbols' = symbols \cup {name}
           /\ UNCHANGED <<modules, parsing, phase, types, externals, asked, answer, process>>

EndOfText == /\ In("parse") /\ phase' = "resolve"
             /\ UNCHANGED <<modules, parsing, types, externals, symbols, asked, answer, process>>

(* the end of parse(), back to the host or to importModule() *)
Return == /\ parsing' = Front(parsing)
          /\ answer' = [text |-> modules[Current].text, module |-> Current]
          /\ process' = IF Len(parsing) = 1 THEN "alive" ELSE "ended"
          /\ UNCHANGED <<types, externals, symbols, asked>>

RejectRuns ==   \* a mutant: code is made whatever the resolver says
          /\ In("resolve") /\ phase' = "emit"
          /\ UNCHANGED <<modules, parsing, types, externals, symbols, asked, answer, process>>

Reject == /\ In("resolve") /\ phase' = "parse" /\ Return
          /\ UNCHANGED modules

Accept == /\ In("resolve") /\ phase' = "emit"
          /\ modules' = [modules EXCEPT ![Current].accepted = TRUE, ![Current].size = 0]
          /\ UNCHANGED <<parsing, types, externals, symbols, asked, answer, process>>

Run == /\ In("emit") /\ modules[Current].size > 0
       /\ modules' = [modules EXCEPT ![Current].ran = TRUE]
       /\ phase' = "parse" /\ Return

-----------------------------------------------------------------------------
(* Pages                                                                    *)
Pages(bytes) == (bytes + PAGESIZE - 1) \div PAGESIZE

(* a mutant: one byte behind the capacity does not count *)
GrownLate(capacity, size) ==
    IF size <= capacity + 1 THEN capacity
    ELSE capacity + PAGESIZE * Pages(size - capacity)

(* The capacity after the loop of emit_error(): grown page by page until it *)
(* holds the size.                                                          *)
Grown(capacity, size) ==
    IF size <= capacity THEN capacity
    ELSE capacity + PAGESIZE * Pages(size - capacity)

(* The first call maps what it needs and notes a page; mremap() changes     *)
(* what was noted into what is needed now.                                  *)
emit(m, n) ==
    LET first == m.mapped = 0
        capacity == IF first THEN PAGESIZE ELSE m.capacity
        size == m.size + n
        grown == Grown(capacity, size)
        mapped == IF first THEN Pages(n) ELSE m.mapped
    IN  [m EXCEPT !.size = size, !.capacity = grown,
                  !.mapped = IF grown = capacity THEN mapped
                             ELSE mapped - Pages(capacity) + Pages(grown)]

Emit == /\ In("emit")
        /\ \E n \in Chunks : /\ modules[Current].size + n <= MaxSize
                             /\ modules' = [modules EXCEPT ![Current] = emit(@, n)]
        /\ UNCHANGED <<parsing, phase, types, externals, symbols, asked, answer, process>>

(* munmap() of as many pages as the size needs *)
Unmapped(m) == IF m.size = 0 THEN m ELSE [m EXCEPT !.mapped = @ - Pages(m.size)]

cup_delete == /\ Idle /\ process' = "deleted"
              /\ modules' = [i \in DOMAIN modules |-> Unmapped(modules[i])]
              /\ types' = <<>> /\ externals' = 0 /\ asked' = NoQuestion
              /\ UNCHANGED <<parsing, phase, symbols, answer>>

-----------------------------------------------------------------------------
(* cup_new() adds the meta type of "$" *)
Init == /\ modules = <<>> /\ parsing = <<>> /\ phase = "parse"
        /\ types = <<MetaType("meta_this")>>
        /\ externals = 0 /\ symbols = {}
        /\ asked = NoQuestion /\ answer = [text |-> Exe, module |-> None]
        /\ process = "alive"

InParse == importModule \/ externalModule \/ externalSymbol \/ Declare \/ EndOfText
InResolve == StringLiteral \/ ArrayLiteral \/ cup_gen_call \/ Reject \/ Accept
InEmit == Emit \/ Run
Host == HostType \/ cup_compile_string \/ cup_compile_file \/ cup_delete

Next == InParse \/ InResolve \/ InEmit \/ Host

(* a module that is being compiled goes on; the host need not *)
Spec == Init /\ [][Next]_vars

-----------------------------------------------------------------------------
(* Types are made of types that are in the table, the innermost module is   *)
(* the newest, and mapped memory is a number of pages.                      *)
TypeOK == /\ WellFormed(types)
          /\ \A i \in DOMAIN parsing : parsing[i] \in DOMAIN modules
          /\ phase \in {"parse", "resolve", "emit"}
          /\ process \in {"alive", "ended", "deleted"}
          /\ \A i \in DOMAIN modules : modules[i].mapped \in Nat /\ modules[i].size \in Nat

(* cup_type() answers with a type of the kind, the size and the elements it *)
(* was asked for, also when it finds one that another module or the host    *)
(* has made, and the entry stays so.                                        *)
AnswerIsAsked == asked.p # Null => Matches(types, types[asked.p[2]], asked.t)

(* One pointer stands for one type, which the resolver relies on when it    *)
(* compares the types of variables by their pointers.                       *)
OnePointerEach == NoTwins(types)

(* No file is compiled twice into one state, also when it is imported while *)
(* it is being compiled, and what parse() is in are different modules.      *)
CompiledOnce == /\ \A i, j \in DOMAIN modules : modules[i].path = modules[j].path => i = j
                /\ \A i, j \in DOMAIN parsing : parsing[i] = parsing[j] => i = j

(* While code is written there are pages below all of it, and cup_delete()  *)
(* gives back what was mapped, though it asks by the size of the code and   *)
(* not by the capacity.                                                     *)
PagesKept == \A i \in DOMAIN modules :
                IF process = "deleted" THEN modules[i].mapped = 0
                ELSE /\ modules[i].size <= PAGESIZE * modules[i].mapped
                     /\ modules[i].mapped > 0 => modules[i].mapped = Pages(modules[i].size)

(* Code runs once for a module, after the resolver has taken it and before  *)
(* parse() returns it; what was not taken has no code.                      *)
RunsAccepted == \A i \in DOMAIN modules :
                   /\ modules[i].ran => modules[i].accepted
                   /\ process = "alive" /\ i \notin Range(parsing)
                          => modules[i].ran = modules[i].accepted

(* "Compile source from a NUL-terminated string": the module that is        *)
(* returned was compiled from the text that was given.                      *)
StringCompiled == answer.module # None => modules[answer.module].text = answer.text

=============================================================================
