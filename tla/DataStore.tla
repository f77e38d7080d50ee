----------------------------- MODULE DataStore -----------------------------
(* The literal store state->data: string literals are interned in it as     *)
(* bytes that end in a NUL, array literals reserve zeroed slots in it.  A   *)
(* node keeps the offset of its literal; the resolver and the code          *)
(* generator turn it into an address, and the array is filled when the      *)
(* module runs.  Any growth may move the store.  The vector of variables    *)
(* moves in the same way and its addresses are put into code too.  A module *)
(* that is imported is read, compiled and run while its importer is read.   *)
EXTENDS Integers, Sequences

CONSTANTS Texts,        \* the string literals: sequences of letters
          Letters,      \* the bytes of texts, without NUL
          SlotBytes,    \* sizeof(size_t): the bytes of an array slot
          MaxData,      \* bound on the size of the store
          MaxMoves,     \* bound on how often the vector of variables moves
          MaxModules    \* bound on the number of modules

ASSUME StoreAssumption ==
    /\ 0 \notin Letters /\ Letters \subseteq Nat
    /\ Texts \subseteq Seq(Letters)
    /\ SlotBytes \in Nat \ {0}
    /\ MaxData \in Nat /\ MaxMoves \in Nat /\ MaxModules \in Nat

VARIABLES data,         \* state->data, byte i is data[i + 1]
          base,         \* which allocation state->data is
          lits,         \* the string nodes of the module being compiled
          arrays,       \* the arrays reserved so far, of all modules
          code,         \* the string addresses inside generated code
          vars,         \* which allocation state->vars is
          varcode,      \* the addresses of variables inside generated code
          phase,        \* what parse() does with the current module
          current,      \* that module, by its number
          outer,        \* the modules that wait for it, innermost first
          count         \* modules begun

storevars == <<data, base, lits, arrays, code, vars, varcode, phase, current, outer, count>>
modulevars == <<current, outer, count>>

(* history of a literal: the allocation it was read into, and which arrays  *)
(* had been filled by then                                                  *)
Literal == [text : Texts, off : Nat, base : Nat, filled : SUBSET Nat]
Array   == [off : Nat, slots : 1 .. 2, base : Nat, module : Nat, filled : BOOLEAN]
Size(a) == a.slots * SlotBytes
Pointer == [text : Texts, off : Nat, base : Nat, module : Nat]

(* getdata: memcmp from the end of the store downwards, NULL while it is    *)
(* not allocated                                                            *)
Occurs(t, o) == \A i \in 1 .. Len(t) : data[o + i] = t[i]
Occurrences(t) == IF data = <<>> THEN {}
                  ELSE { o \in 0 .. Len(data) - Len(t) : Occurs(t, o) }
Last(S) == { o \in S : \A p \in S : p <= o }

(* getData: NULL beyond the end *)
Inside(off) == off < Len(data)

Grow(bytes) == /\ Len(data) + Len(bytes) <= MaxData
               /\ data' = data \o bytes
               /\ base' \in {base, base + 1}

-----------------------------------------------------------------------------
FilledArrays == { a.off : a \in { b \in arrays : b.filled } }
Node(t, off, alloc) == [text |-> t, off |-> off, base |-> alloc, filled |-> FilledArrays]

(* mutant of StringToken: the text begins on the NUL of the one before it *)
StringTokenOverlap(t) ==
    /\ phase = "parse"
    /\ Occurrences(t) = {} /\ data # <<>>
    /\ data' = SubSeq(data, 1, Len(data) - 1) \o t \o <<0>>
    /\ Len(data') <= MaxData
    /\ lits' = lits \cup {Node(t, Len(data) - 1, base)}
    /\ UNCHANGED <<base, arrays, code, vars, varcode, phase, modulevars>>

(* mutant of StringToken: the offset is taken after the store has grown *)
StringTokenLate(t) ==
    /\ phase = "parse"
    /\ Occurrences(t) = {}
    /\ Grow(t \o <<0>>)
    /\ lits' = lits \cup {Node(t, Len(data'), base')}
    /\ UNCHANGED <<arrays, code, vars, varcode, phase, modulevars>>

(* getToken on a string literal: an occurrence of its bytes is used again,  *)
(* whatever follows them, else they are appended with a NUL                 *)
StringToken(t) ==
    /\ phase = "parse"
    /\ IF Occurrences(t) # {}
       THEN /\ \E o \in Last(Occurrences(t)) : lits' = lits \cup {Node(t, o, base)}
            /\ UNCHANGED <<data, base>>
       ELSE /\ Grow(t \o <<0>>)
            /\ lits' = lits \cup {Node(t, Len(data), base')}
    /\ UNCHANGED <<arrays, code, vars, varcode, phase, modulevars>>

Reserve(off, k) == [off |-> off, slots |-> k, base |-> 0,
                    module |-> current, filled |-> FALSE]

(* mutant of ArrayToken: the array shares its last slot with the next one *)
ArrayTokenShort(k) ==
    /\ phase = "parse"
    /\ Grow([i \in 1 .. (k - 1) * SlotBytes |-> 0])
    /\ arrays' = arrays \cup {Reserve(Len(data), k)}
    /\ UNCHANGED <<lits, code, vars, varcode, phase, modulevars>>

(* N_ARRAY of primary(): k zeroed slots behind all there is *)
ArrayToken(k) ==
    /\ phase = "parse"
    /\ Grow([i \in 1 .. k * SlotBytes |-> 0])
    /\ arrays' = arrays \cup {Reserve(Len(data), k)}
    /\ UNCHANGED <<lits, code, vars, varcode, phase, modulevars>>

-----------------------------------------------------------------------------
(* resolve() takes strlen() of every literal *)
Resolve == /\ phase = "parse"
           /\ phase' = IF \A l \in lits : Inside(l.off) THEN "resolved" ELSE "crashed"
           /\ UNCHANGED <<data, base, lits, arrays, code, vars, varcode, modulevars>>

(* an error of the resolver ends the module without code, and the process   *)
(* if it was imported                                                       *)
Reject == /\ phase = "resolved"
          /\ phase' = IF outer = <<>> THEN "host" ELSE "exited"
          /\ UNCHANGED <<data, base, lits, arrays, code, vars, varcode, modulevars>>

(* codegen puts getData(offset), and the addresses of the values of         *)
(* variables, as absolute addresses into the code                           *)
Patched(l, b) == [text |-> l.text, off |-> l.off, base |-> b, module |-> current]

(* mutant of Generate: the node holds the address instead of the offset *)
GenerateEarly ==
    /\ phase = "resolved"
    /\ phase' = "run"
    /\ code' = code \cup { Patched(l, l.base) : l \in lits }
    /\ varcode' = varcode \cup {[base |-> vars, module |-> current]}
    /\ arrays' = { IF a.module = current THEN [a EXCEPT !.base = base] ELSE a : a \in arrays }
    /\ UNCHANGED <<data, base, lits, vars, modulevars>>

Generate ==
    /\ phase = "resolved"
    /\ phase' = "run"
    /\ code' = code \cup { Patched(l, base) : l \in lits }
    /\ varcode' = varcode \cup {[base |-> vars, module |-> current]}
    /\ arrays' = { IF a.module = current THEN [a EXCEPT !.base = base] ELSE a : a \in arrays }
    /\ UNCHANGED <<data, base, lits, vars, modulevars>>

(* The code of a module fills its own arrays, and through variables those   *)
(* of modules before it; a slot of small value is a byte and zeros.  A      *)
(* store through the address of an allocation that is gone is not here.     *)
Store == /\ phase = "run"
         /\ \E a \in arrays, v \in Letters \cup {0} :
               /\ a.base = base
               /\ \E i \in 0 .. a.slots - 1 :
                     data' = [data EXCEPT ![a.off + i * SlotBytes + 1] = v]
               /\ arrays' = (arrays \ {a}) \cup {[a EXCEPT !.filled = TRUE]}
         /\ UNCHANGED <<base, lits, code, vars, varcode, phase, modulevars>>

(* the module returns, to the host or to the one that imports it *)
Return == /\ phase = "run"
          /\ IF outer = <<>> THEN phase' = "host" /\ UNCHANGED <<lits, current, outer>>
             ELSE /\ phase' = "parse" /\ outer' = Tail(outer)
                  /\ current' = Head(outer).module /\ lits' = Head(outer).lits
          /\ UNCHANGED <<data, base, arrays, code, vars, varcode, count>>

(* parse(), for the host or from importModule() in the middle of another *)
BeginModule == /\ phase \in {"host", "parse"}
               /\ count < MaxModules
               /\ count' = count + 1
               /\ current' = count + 1
               /\ phase' = "parse"
               /\ lits' = {}
               /\ outer' = IF phase = "host" THEN outer
                           ELSE <<[module |-> current, lits |-> lits]>> \o outer
               /\ UNCHANGED <<data, base, arrays, code, vars, varcode>>

(* putVar(), for a name of the module or of the host, when the vector is    *)
(* full and moves (SymTab says when that is); else it changes nothing here  *)
putVar == /\ phase \in {"host", "parse"}
          /\ vars < MaxMoves
          /\ vars' = vars + 1
          /\ UNCHANGED <<data, base, lits, arrays, code, varcode, phase, modulevars>>

Init == /\ data = <<>> /\ base = 0
        /\ lits = {} /\ arrays = {} /\ code = {}
        /\ vars = 0 /\ varcode = {}
        /\ phase = "host" /\ current = 0 /\ outer = <<>> /\ count = 0

Next == \/ \E t \in Texts : StringToken(t)
        \/ \E k \in 1 .. 2 : ArrayToken(k)
        \/ Resolve \/ Reject \/ Generate \/ Store \/ Return \/ BeginModule \/ putVar

Spec == Init /\ [][Next]_storevars

-----------------------------------------------------------------------------
Bytes(off, n) == off .. off + n - 1

Covers(a, l) == Bytes(a.off, Size(a)) \cap Bytes(l.off, Len(l.text)) # {}

(* The nodes of the modules that are not compiled yet: of the current one   *)
(* and of those that import it.                                             *)
Pending == (IF phase \in {"parse", "resolved"} THEN lits ELSE {})
           \cup UNION { outer[i].lits : i \in DOMAIN outer }

(* Two arrays never share a byte.  A string literal shares bytes with an    *)
(* array only if the array had been filled when the literal was read: the   *)
(* zeros of a reserved slot are never taken for text.                       *)
Disjoint ==
    /\ \A a, b \in arrays :
          a # b => Bytes(a.off, Size(a)) \cap Bytes(b.off, Size(b)) = {}
    /\ \A a \in arrays, l \in lits \cup Pending : Covers(a, l) => a.off \in l.filled

(* Until a module is compiled, the bytes of its literals are where its      *)
(* nodes say: neither later literals nor reserved arrays, nor the modules   *)
(* that it imports and that run meanwhile, disturb what was interned, but   *)
(* where the text was found inside an array.                                *)
TextInPlace ==
    \A l \in Pending :
       /\ l.off + Len(l.text) <= Len(data)
       /\ (\A a \in arrays : ~ Covers(a, l)) => Occurs(l.text, l.off)

(* While a module runs, the addresses that were put into its code are those *)
(* of the store and of the vector of variables as they are: both grow while *)
(* modules are read, its imports among them, and the addresses are taken    *)
(* after that.                                                              *)
OwnAddressesLive ==
    phase = "run" => /\ \A p \in code : p.module = current => p.base = base
                     /\ \A a \in arrays : a.module = current => a.base = base
                     /\ \A p \in varcode : p.module = current => p.base = vars

(* The store only grows, and only the slots of arrays ever change.          *)
AppendOnly ==
    [][/\ Len(data') >= Len(data)
       /\ \A i \in 1 .. Len(data) :
             data'[i] # data[i] =>
                 \E a \in arrays : i - 1 \in Bytes(a.off, Size(a))]_storevars
=============================================================================
