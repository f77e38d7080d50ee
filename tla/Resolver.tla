------------------------------ MODULE Resolver ------------------------------
(* inferTypes() of resolver.c as an operator: it reads the parser's stream  *)
(* once, gives variables their types, asks meta symbols what they stand     *)
(* for, and writes the stream that the code generator reads.                *)
EXTENDS Parser

CONSTANTS Members,      \* the names that "$" knows
          Marks         \* how many '%' a text has

IntType   == [kind |-> "int"]
Uint8Type == [kind |-> "uint8"]
ArrayOf(elem, size) == [kind |-> "array", elem |-> elem, size |-> size]

(* a meta type answers to each of its operators with                        *)
(* [res |-> "value" | "address" | "function" | "none" | "error" |           *)
(* "continue", type |-> the type of the result, num |-> its value]; member  *)
(* is a function of the names it knows, and call may be the name of a       *)
(* callback that looks at the arguments                                     *)
Meta(member, brack, call) ==
    [kind |-> "meta", member |-> member, brack |-> brack, call |-> call]
Answer(res, type, num) == [res |-> res, type |-> type, num |-> num]
NoAnswer == Answer("error", Null, 0)

(* A CUPValue: num is a value known here, the values of a list, or says of  *)
(* an address whether it is known (pvalue # NULL); var is an index into vars, 0 is NULL, and -1   *)
(* is the callee that a meta call leaves, whose type is the return type.    *)
V(kind, type, num, var) == [kind |-> kind, type |-> type, num |-> num, var |-> var]
Value(type, num)    == V("value", type, num, 0)
Address(type, num)  == V("address", type, num, 0)
Variable(type, var) == V("variable", type, 0, var)
List(types, values) == V("list", types, values, 0)

Give(r, v)     == [r EXCEPT !.v = v]
Fail(r)        == Give(r, V("error", Null, 0, 0))
Emit(r, nodes) == [r EXCEPT !.new = @ \o nodes]

(* the type of a value, read when it is used *)
TypeOf(r, v) == IF v.kind = "variable" /\ v.var > 0 THEN r.vars[v.var].type ELSE v.type

(* var->typee of a variable that is not NULL *)
IsMeta(r, v) == v.kind = "variable" /\ v.var # 0 /\ TypeOf(r, v).kind = "meta"

(* "lost" remembers an index that could not be typed and was not asked      *)
(* about.                                                                   *)

-----------------------------------------------------------------------------
(* The meta types of the program and of its host                            *)
meta_this == Meta([n \in Members |-> Answer("address", IntType, 0)], NoAnswer, NoAnswer)

(* sizeof: one argument whose type is known *)
get_size_wrapper_meta(types) ==
    IF Len(types) # 1 \/ types[1] = Null THEN NoAnswer
    ELSE Answer("value", IntType, IF types[1] = IntType THEN 8 ELSE 0)


(* printf: a text that is known, and an argument for each mark in it; the   *)
(* type of the function cannot have an argument without a value             *)
printf_wrapper_meta(types, values) ==
    LET isText == types[1].kind = "array" /\ types[1].elem = Uint8Type
    IN  IF types # <<>> /\ (values[1] = 0 \/ ~ isText \/ Marks[values[1]] + 1 # Len(types)) THEN NoAnswer
        ELSE IF Void \in ToSet(types) THEN Answer("exit", Void, 0) ELSE Answer("function", Void, 2)

CallAnswer(m, list) ==
    CASE m.res = "sizeof" -> get_size_wrapper_meta(list.type)
      [] m.res = "printf" -> printf_wrapper_meta(list.type, list.num)
      [] OTHER            -> m

(* only values, addresses and functions are results *)
metaApply(m) == IF m.res \in {"value", "address", "function"} THEN m ELSE NoAnswer

(* pushNumber and pushAddress, for members and brackets *)
Result(r, m) ==
    CASE m.res = "value"   -> Give(Emit(r, <<Node("num", m.num)>>), Value(m.type, m.num))
      [] m.res = "address" -> Give(Emit(r, <<Node("addr", 0)>>), Address(m.type, 1))
      [] OTHER             -> Fail(r)

-----------------------------------------------------------------------------
(* cup_type() for an array.  An array of the same size is never taken for   *)
(* the one that is wanted, since the address of its element type is         *)
(* compared with the element type; the compiler exits.                      *)
Literal(r, elem, size, addr) ==
    IF elem = Null \/ \E t \in r.types : t.size = size THEN Die(r)
    ELSE [r EXCEPT !.types = @ \cup {ArrayOf(elem, size)}, !.v = Value(ArrayOf(elem, size), addr)]

RECURSIVE Infer(_, _, _)
RECURSIVE Items(_, _, _, _, _, _)

(* mutant of eq: the type of the variable is not looked at *)
eq_untyped(ns, r) ==
    LET right == Infer(ns, r, "list")
        left == Infer(ns, right, "list")
    IN  IF left.dead THEN left
        ELSE IF right.v.kind = "list" THEN Fail(left)
        ELSE IF right.v.kind = "error" THEN Die(left)
        ELSE Give(left, right.v)

eq(ns, r) ==
    LET right == Infer(ns, r, "list")
        left == Infer(ns, right, "list")
        type == TypeOf(left, right.v)
        target == TypeOf(left, left.v)
        null == right.v.kind = "variable" /\ right.v.var = 0
    IN  IF left.dead THEN left
        ELSE IF right.v.kind = "list" THEN Fail(left)
        ELSE IF right.v.kind = "error" \/ null THEN Die(left)
        ELSE IF left.v.kind = "variable" /\ left.v.var # 0
        THEN IF Null \notin {type, target} /\ target # type THEN Fail(left)
             ELSE IF type = Null \/ left.v.var = -1 THEN Give(left, right.v)
             ELSE [Give(left, right.v) EXCEPT !.vars[left.v.var].type = type]
        ELSE IF left.v.kind = "address"
        THEN IF type # Null /\ target # type THEN Fail(left) ELSE Give(left, right.v)
        ELSE Die(left)

(* '.': the nodes to the left are dropped, the name is not resolved *)
dot(ns, r) ==
    LET left == [Infer(ns, [r EXCEPT !.new = <<>>], "list") EXCEPT !.new = r.new]
        q == [left EXCEPT !.it = @ + 1]
        known == TypeOf(q, left.v).member
        name == ns[left.it].val
        m == IF name \in DOMAIN known THEN known[name] ELSE NoAnswer
    IN  IF left.dead \/ left.it > Len(ns) THEN Die(left)
        ELSE IF ns[left.it].tok # "var" \/ ~ IsMeta(q, left.v) THEN Fail(q)
        ELSE Result(q, metaApply(m))

(* a call of a meta symbol becomes a call of a number with its arguments,   *)
(* or a number                                                              *)
call(ns, r) ==
    LET left == Infer(ns, [r EXCEPT !.new = <<>>], "list")
        args == Infer(ns, [left EXCEPT !.new = <<>>], "list")
        q == [args EXCEPT !.new = r.new]
        type == TypeOf(q, left.v)
        m == CallAnswer(type.call, args.v)
    IN  IF args.dead THEN args
        ELSE IF left.v.kind \in {"list", "value"} THEN Fail(q)
        ELSE IF left.v.kind # "variable" \/ left.v.var = 0 \/ type = Null THEN Die(q)
        ELSE IF args.v.kind # "list" THEN Fail(q)
        ELSE IF type.kind = "function" THEN Die(q)
        ELSE IF type.kind # "meta" \/ m.res = "error" THEN Fail(q)
        ELSE IF m.res = "function"
        THEN Give(Emit(q, <<Node("call", 0), Node("num", m.num)>> \o args.new), Variable(m.type, -1))
        ELSE IF m.res = "value" THEN Result(q, m)
        ELSE Die(q)

(* mutant of osb: the operands of a meta symbol stay in the stream *)
osb_kept(ns, r) ==
    LET right == Infer(ns, Infer(ns, r, "list"), "list")
    IN  IF right.dead THEN right ELSE Give(Emit(right, <<Node("num", 0)>>), Value(IntType, 0))

(* '[', whose node is in new already: a meta symbol replaces it and its     *)
(* operands, whatever the index is, else a constant index into an array is  *)
(* checked                                                                  *)
osb(ns, r) ==
    LET left == Infer(ns, r, "list")
        right == Infer(ns, left, "list")
        type == TypeOf(right, left.v)
        m == type.brack
        q == [right EXCEPT !.new = SubSeq(@, 1, Len(r.new) - 1),
                           !.lost = @ \/ right.v.kind = "error"]
        known == left.v.kind = "address" /\ left.v.num # 0
    IN  IF right.dead THEN right
        ELSE IF left.v.kind = "value" THEN Fail(right)
        ELSE IF IsMeta(right, left.v)
        THEN Result(q, metaApply(m))
        ELSE IF ~ known /\ (left.v.kind # "variable" \/ left.v.var = 0) THEN Fail(right)
        ELSE IF type.kind # "array" \/ right.v.kind # "value" THEN Fail(right)
        ELSE IF right.v.type # IntType \/ type.elem = Void \/ right.v.num >= type.size THEN Fail(right)
        ELSE Give(right, Address(type.elem, IF known THEN 1 ELSE 0))

-----------------------------------------------------------------------------
(* defFor() and what it ends with *)
Listed(r, types, values, fn) ==
    LET some == {types[i] : i \in DOMAIN types} \ {Null}
    IN  CASE fn = "block" -> Give(r, Value(Void, 0))
          [] fn = "list"  -> Give(r, List(types, values))
          [] fn = "array" -> IF Cardinality(some) > 1 THEN Fail(r) ELSE Give(r, List(types, values))

(* variables have no value before the module runs *)
Items(ns, r, count, types, values, fn) ==
    LET item == Infer(ns, r, "list")
        v == item.v
        type == TypeOf(item, v)
        unknown == \/ v.kind = "list"
                   \/ v.kind = "variable" /\ v.var = 0
                   \/ v.kind \in {"value", "address"} /\ type = Null
    IN  IF r.dead THEN r
        ELSE IF Len(types) = count THEN Listed(r, types, values, fn)
        ELSE IF item.dead \/ v.kind = "error" THEN item
        ELSE IF unknown THEN Die(item)
        ELSE Items(ns, item, count,
                   Append(types, IF v.kind = "value" /\ type = Void THEN Null ELSE type),
                   Append(values, IF v.kind = "value" /\ type # Void THEN v.num ELSE 0), fn)

(* N_ARRAY: what follows is asserted to be a list *)
ArrayLit(ns, r) ==
    LET body == Infer(ns, r, "array")
    IN  IF body.dead THEN body
        ELSE IF body.v.kind # "list" THEN Die(body)
        ELSE Literal(body, IF body.v.type = <<>> THEN Null ELSE body.v.type[1],
                     Len(body.v.type), 1)

Name(r, name) == LET id == varLookup(r, name, r.scope)
                 IN  Give(r, Variable(Null, id))

Infer(ns, r, fn) ==
    IF r.dead \/ r.it > Len(ns) THEN Die(r)
    ELSE LET n == ns[r.it]
             q == [r EXCEPT !.it = @ + 1]
             e == Emit(q, <<n>>)
         IN  CASE n.tok = "block" -> Items(ns, [e EXCEPT !.scope = @ + 1], n.val, <<>>, <<>>, "block")
               [] n.tok = "comma" -> Items(ns, e, n.val, <<>>, <<>>, fn)
               [] n.tok = "array" -> ArrayLit(ns, e)
               [] n.tok = "num"   -> Give(e, Value(IntType, n.val))
               [] n.tok = "str"   -> Literal(e, Uint8Type, n.val + 1, n.val)
               [] n.tok = "this"  -> Name(e, "$")
               [] n.tok = "var"   -> Name(e, n.val)
               [] n.tok = "dot"   -> dot(ns, q)
               [] n.tok = "eq"    -> eq(ns, e)
               [] n.tok = "call"  -> call(ns, q)
               [] n.tok = "osb"   -> osb(ns, e)
               [] n.tok = "return" -> Die(e)
               [] OTHER           -> Fail(q)

resolve(p) ==
    Infer(p.nodes, [it |-> 1, new |-> <<>>, scope |-> 0, scopes |-> p.scopes, vars |-> p.vars,
                    types |-> {}, v |-> Value(Void, 0), dead |-> FALSE, lost |-> FALSE],
          "list")
=============================================================================
