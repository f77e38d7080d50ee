------------------------------ MODULE TypeTable -----------------------------
(* The table of types (src/types.c).  A type is known by a pointer: to one  *)
(* of the simple types, which are constants of the program, or to an entry  *)
(* of the table.  cup_type() looks for an entry and makes one if there is   *)
(* none; most of what is hard about it is what it compares.                 *)
EXTENDS Integers, Sequences, FiniteSets, FiniteSetsExt, SequencesExt

CONSTANTS Simple,       \* the names of the simple types
          Callbacks,    \* the functions of meta types, and what is taken for one
          Leftover      \* the pointers that memory which was not set may hold

(* Pointers to types *)
Pointer(name) == <<name, 0>>
EntryAt(i) == <<"entry", i>>
Null == Pointer("null")
Void == Pointer("void")
IsEntry(p) == p[1] = "entry"

(* "exit" is none: cup_type_get() answers with it when it ends the process. *)
Pointers == ((Simple \cup Callbacks \cup {"null"}) \X {0}) \cup ({"entry"} \X Nat)

(* the codes of a signature: a simple type, "p" and "*", and any other      *)
Codes == Simple \cup {"pointer", "other"}

ASSUME TypeTableAssumption ==
    /\ {"entry", "exit"} \cap (Simple \cup Callbacks) = {}
    /\ {"void", "uint8", "uint32"} \subseteq Simple /\ {"meta_this", "stack"} \subseteq Callbacks
    /\ Leftover \subseteq Pointers \ {Null}

(* what a caller asks for, and what an entry holds: "elems" are the element *)
(* of a pointer or an array, the return type and the arguments of a         *)
(* function, the callback of a meta type                                    *)
Type(kind, size, elems) == [kind |-> kind, size |-> size, elems |-> elems]
PointerTo(p) == Type("pointer", 8, <<p>>)
ArrayOf(count, p) == Type("array", count, <<p>>)
FunctionType(elems, size) == Type("function", size, elems)
MetaType(gen) == Type("meta", 0, <<Pointer(gen)>>)
AllTypes == [kind : {"pointer", "array", "function", "meta"}, size : Nat, elems : Seq(Pointers)]

(* What a call ends with: a new table and the pointer, or the process       *)
Found(types, p) == [types |-> types, ans |-> p, dead |-> FALSE]
Ended(types) == [types |-> types, ans |-> Null, dead |-> TRUE]

-----------------------------------------------------------------------------
(* mutants of SameElements: only the return types are compared; only the    *)
(* address is                                                               *)
SameReturn(e, t) == t.kind = "function" /\ Head(e.elems) = Head(t.elems)
SameAddress(e, t) == FALSE

(* The entries at which the search stops.  "at" is the entry whose own      *)
(* memory the caller passes, 0 when it passes other memory: only then is    *)
(* the address of the elements that of an entry.  The elements of functions *)
(* are compared too; meta types only by address; a pointer or an array of   *)
(* the same size stops the search whatever its element is.                  *)
SameElements(e, t) == t.kind = "function" /\ e.elems = t.elems
Stops(types, t, at) ==
    {i \in DOMAIN types : /\ types[i].kind = t.kind /\ types[i].size = t.size
                          /\ \/ i = at
                             \/ SameElements(types[i], t)
                             \/ t.kind \in {"pointer", "array"}}

(* the pointer that the search returns, Null for none, "exit" for its exit  *)
cup_type_get(types, t, at) ==
    LET hits == Stops(types, t, at)
    IN  IF hits = {} THEN Null
        ELSE IF Min(hits) = at \/ t.kind = "function" THEN EntryAt(Min(hits))
        ELSE Pointer("exit")

(* an element of a new type, which is looked for by its own memory *)
Element(types, p) == IF IsEntry(p) THEN cup_type_get(types, types[p[2]], p[2]) ELSE p

(* What each element of a new entry may become.  Return types and callbacks *)
(* are taken over; of an argument that is not known the slot is not set.    *)
Slot(types, t, j) ==
    IF t.kind = "meta" \/ (t.kind = "function" /\ j = 1) THEN {t.elems[j]}
    ELSE IF t.kind = "function" /\ t.elems[j] = Null THEN Leftover
    ELSE {Element(types, t.elems[j])}

(* newtype() asserts that no argument is void *)
VoidArgument(t) == t.kind = "function" /\ \E j \in 2 .. Len(t.elems) : t.elems[j] = Void

newtype(types, t) ==
    LET slots == [j \in DOMAIN t.elems |-> Slot(types, t, j)]
        rows == {elems \in [DOMAIN t.elems -> UNION {slots[j] : j \in DOMAIN slots}] :
                    \A j \in DOMAIN elems : elems[j] \in slots[j]}
    IN  IF VoidArgument(t) \/ \E j \in DOMAIN slots : Pointer("exit") \in slots[j]
        THEN {Ended(types)}
        ELSE {Found(Append(types, [t EXCEPT !.elems = elems]), EntryAt(Len(types) + 1)) :
                 elems \in rows}

(* the ways in which a call of cup_type() by someone with memory of his own *)
(* may end; an array of what is not known has no memory                     *)
cup_type(types, t) ==
    LET p == cup_type_get(types, t, 0)
    IN  IF p = Pointer("exit") THEN {Ended(types)}
        ELSE IF p # Null THEN {Found(types, p)}
        ELSE IF t.kind = "array" /\ t.elems[1] = Null THEN {Ended(types)}
        ELSE newtype(types, t)

-----------------------------------------------------------------------------
(* Signatures of external symbols                                           *)

(* a mutant of MadePointer: the pointer is put before its element *)
MadePointerFirst(types) ==
    LET end == Len(types) + 1
    IN  {Found(types \o <<PointerTo(EntryAt(end + 1)), MetaType("stack")>>, EntryAt(end))}

(* The memory that is passed for "p" and for a "*" holds the address of a   *)
(* type and is read as a type: its lowest byte, a multiple of 8, is taken   *)
(* for the kind: void, uint32 or a meta type (which is then made first),    *)
(* and else an assertion fails.                                             *)
MadePointer(types) ==
    IF cup_type_get(types, PointerTo(Void), 0) # Null THEN {Ended(types)}
    ELSE LET meta == Append(types, MetaType("stack"))
             end == EntryAt(Len(types) + 1)
         IN  {Ended(types)}
             \cup {Found(Append(types, PointerTo(p)), end) : p \in {Void, Pointer("uint32")}}
             \cup {Found(Append(meta, PointerTo(end)), EntryAt(Len(types) + 2))}

parse_one_type(types, code) ==
    IF code \in Simple THEN {Found(types, Pointer(code))}
    ELSE IF code = "pointer" THEN MadePointer(types)
    ELSE {Found(types, Null)}

(* One argument after the others: out.ans is the list so far *)
NextArgument(outs, code) ==
    UNION {IF out.dead THEN {out}
           ELSE {IF o.dead \/ o.ans = Null THEN Ended(o.types)
                 ELSE Found(o.types, Append(out.ans, o.ans)) :
                 o \in parse_one_type(out.types, code)} : out \in outs}

(* the argument list after all of them, from the lists in "start" *)
Arguments(start, args) ==
    LET outs[n \in 0 .. Len(args)] ==
            IF n = 0 THEN start ELSE NextArgument(outs[n - 1], args[n])
    IN  outs[Len(args)]

(* sig.args is <<>> for a symbol that is no function.  The size of the type *)
(* counts the sentinel behind the arguments, and newtype() meets it there.  *)
cup_type_parse(types, sig) ==
    UNION {IF ret.dead \/ ~sig.call THEN {ret}
           ELSE UNION {IF out.dead THEN {out}
                       ELSE cup_type(out.types, FunctionType(Append(out.ans, Void),
                                                             Len(sig.args) + 1)) :
                       out \in Arguments({Found(ret.types, <<ret.ans>>)}, sig.args)} :
           ret \in parse_one_type(types, sig.ret)}

-----------------------------------------------------------------------------
(* What callers rely on                                                     *)

(* Elements of an entry are simple types, older entries or memory that was  *)
(* not set.                                                                 *)
WellFormed(types) ==
    \A i \in DOMAIN types : \A j \in DOMAIN types[i].elems :
        LET p == types[i].elems[j]
        IN  IsEntry(p) => p[2] \in 1 .. i - 1 \/ p \in Leftover

(* Two entries are never the same type, as callers that compare pointers    *)
(* assume: but for meta types, for functions with a slot not set, and for   *)
(* those with an argument of which there are two.                           *)
Single(types, p) == \A i \in DOMAIN types : types[i] = types[p[2]] => i = p[2]
Settled(types, t) ==
    /\ t.kind # "meta"
    /\ t.kind = "function" =>
          \A j \in 2 .. Len(t.elems) : /\ t.elems[j] \notin Leftover
                                       /\ IsEntry(t.elems[j]) => Single(types, t.elems[j])
NoTwins(types) ==
    \A i, j \in DOMAIN types : types[i] = types[j] /\ Settled(types, types[i]) => i = j

(* Two pointers to the same type: of two equal entries one may be given for *)
(* the other.                                                               *)
SameType(types, p, q) ==
    p = q \/ /\ IsEntry(p) /\ IsEntry(q) /\ {p[2], q[2]} \subseteq DOMAIN types
             /\ types[p[2]] = types[q[2]]

(* Entry e is what t asked for.                                             *)
Matches(types, e, t) ==
    /\ e.kind = t.kind /\ e.size = t.size
    /\ \A j \in DOMAIN t.elems : t.elems[j] = Null \/ SameType(types, e.elems[j], t.elems[j])
=============================================================================
