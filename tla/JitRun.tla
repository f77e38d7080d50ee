------------------------------- MODULE JitRun -------------------------------
(* Code of CodeGen on the processor, beside what its nodes mean.  A node    *)
(* stream is written, the generator turns it into code, and the code runs   *)
(* one instruction at a time; words have a fixed width and memory is zero   *)
(* where nothing was stored.                                                *)
EXTENDS CodeGen

CONSTANTS Word,         \* 2 ^ the width of a word
          Variables,    \* the addresses of variables
          Text,         \* the address of a string literal
          Data,         \* the address of an array literal
          Functions,    \* the addresses of host functions
          Languages,    \* what bodies are written in: the tokens of statements,
                        \* those of inner nodes of expressions, the values of
                        \* numbers, and the bound on the nodes of a body
          MaxTurns,     \* bound: jumps back before a loop is given up
          DestFirst     \* the destination of "eq" comes before its value

ASSUME MachineAssumption ==
    /\ Word \in Nat \ {0} /\ SlotBytes \in Nat \ {0} /\ ImmMax \in Nat /\ MaxTurns \in Nat
    /\ Variables \subseteq 0 .. Word - 1
    /\ \A l \in Languages : l.numbers \subseteq 0 .. Word - 1 /\ l.nodes \in Nat

VARIABLES lang,         \* the language of the body
          nodes,        \* the node stream of the body
          todo,         \* what the stream still lacks
          phase,        \* "write", "run", "done", "exited" or "astray"
          gen,          \* the generator after codegen_func
          m             \* the processor

runvars == <<lang, nodes, todo, phase, gen, m>>

Regs == {RAX, CALLEE_REG} \cup Range(Scratch) \cup Range(Saved) \cup Range(ArgRegs)

Signed(v) == IF v < Word \div 2 THEN v ELSE v - Word
Read(mem, a) == IF a % Word \in DOMAIN mem THEN mem[a % Word] ELSE 0
Written(mem, a, v) == [b \in DOMAIN mem \cup {a % Word} |-> IF b = a % Word THEN v ELSE mem[b]]

Apply(op, x, y) == CASE op = "add"    -> (x + y) % Word
                     [] op = "sub"    -> (x - y) % Word
                     [] op = "mul"    -> (x * y) % Word
                     [] op = "less"   -> IF Signed(x) < Signed(y) THEN 1 ELSE 0
                     [] op = "lesseq" -> IF Signed(x) <= Signed(y) THEN 1 ELSE 0
                     [] op = "eqeq"   -> IF x = y THEN 1 ELSE 0
                     [] op = "ge"     -> IF Signed(x) >= Signed(y) THEN 1 ELSE 0
                     [] op = "gt"     -> IF Signed(x) > Signed(y) THEN 1 ELSE 0
                     [] op = "ne"     -> IF x # y THEN 1 ELSE 0

(* a host function: its answer tells its arguments and their order *)
Answer(f, args) == (f + FoldLeft(LAMBDA sum, i : sum + i * args[i], 0,
                                 [i \in DOMAIN args |-> i])) % Word

-----------------------------------------------------------------------------
(* What a stream of nodes means                                             *)

(* subtrees below a node *)
Arity(n) == CASE n.tok \in {"num", "str", "var"} -> 0
              [] n.tok \in {"block", "comma"}    -> n.val
              [] n.tok \in {"array", "return"}   -> 1
              [] OTHER                           -> 2

(* the node after k subtrees *)
RECURSIVE After(_, _)
After(i, k) == IF k = 0 THEN i ELSE After(i + 1, k - 1 + Arity(nodes[i]))

(* e holds the next node, the value, memory, the calls made and whether the *)
(* function has returned                                                    *)
RECURSIVE Mean(_, _)

Leaves(i, count) == LET start[k \in 1 .. count] == IF k = 1 THEN i ELSE After(start[k - 1], 1)
                    IN  start
IsLeafAt(i) == Arity(nodes[i]) = 0 /\ nodes[i].tok # "comma"

(* the arguments that are calls or operators, in order, and then the leaves *)
RECURSIVE MeanArgs(_, _, _, _)
MeanArgs(e, at, vals, k) ==
    IF k > Len(at) THEN [e |-> e, vals |-> vals]
    ELSE IF IsLeafAt(at[k]) THEN MeanArgs(e, at, Append(vals, 0), k + 1)
    ELSE LET q == Mean(at[k], e) IN MeanArgs(q, at, Append(vals, q.val), k + 1)

MeanCall(i, e) ==
    LET count == nodes[i + 2].val
        at == Leaves(i + 3, count)
        a == MeanArgs(e, at, <<>>, 1)
        args == [k \in 1 .. count |->
                    IF IsLeafAt(at[k]) THEN Mean(at[k], a.e).val ELSE a.vals[k]]
        f == nodes[i + 1].val
    IN  [a.e EXCEPT !.it = After(i, 1), !.val = Answer(f, args),
                    !.calls = Append(@, [f |-> f, args |-> args])]

RECURSIVE MeanElements(_, _, _, _)
MeanElements(e, data, k, count) ==
    IF k = count THEN [e EXCEPT !.val = data]
    ELSE LET q == Mean(e.it, e)
         IN  MeanElements([q EXCEPT !.mem = Written(@, data + SlotBytes * k, q.val)],
                          data, k + 1, count)

(* the address of an lvalue *)
Place(i, e) == IF nodes[i].tok = "var" THEN [e EXCEPT !.it = i + 1, !.val = nodes[i].val]
               ELSE LET base == Mean(i + 1, e)
                        index == Mean(base.it, base)
                    IN  [index EXCEPT !.val = (base.val + SlotBytes * index.val) % Word]

MeanAssign(dest, value, e) ==
    LET p == IF DestFirst THEN Place(dest, e) ELSE Mean(value, e)
        q == IF DestFirst THEN Mean(value, p) ELSE Place(dest, p)
        addr == IF DestFirst THEN p.val ELSE q.val
        val == IF DestFirst THEN q.val ELSE p.val
    IN  [q EXCEPT !.val = val, !.mem = Written(@, addr, val)]

(* turns of a loop, as many as the processor may take *)
RECURSIVE MeanWhile(_, _, _)
MeanWhile(i, e, turns) ==
    LET x == Mean(i + 1, e)
        y == Mean(x.it, x)
    IN  IF x.val = 0 \/ turns = 0 THEN [x EXCEPT !.it = After(x.it, 1)]
        ELSE IF y.returned THEN y ELSE MeanWhile(i, y, turns - 1)

RECURSIVE MeanStatements(_, _)
MeanStatements(e, count) ==
    IF count = 0 \/ e.returned THEN e ELSE MeanStatements(Mean(e.it, e), count - 1)

Mean(i, e) ==
    LET n == nodes[i]
        next == [e EXCEPT !.it = i + 1]
        x == Mean(i + 1, next)
        y == Mean(x.it, x)
    IN  CASE n.tok \in {"num", "str"} -> [next EXCEPT !.val = n.val]
          [] n.tok = "var"    -> [next EXCEPT !.val = Read(e.mem, n.val)]
          [] n.tok = "array"  -> MeanElements([e EXCEPT !.it = i + 2], n.val, 0, nodes[i + 1].val)
          [] n.tok = "osb"    -> LET p == Place(i, e) IN [p EXCEPT !.val = Read(p.mem, p.val)]
          [] n.tok = "eq"     -> IF DestFirst THEN MeanAssign(i + 1, After(i + 1, 1), e)
                                 ELSE MeanAssign(After(i + 1, 1), i + 1, e)
          [] n.tok = "addeq"  -> LET p == Place(i + 1, e)
                                     q == Mean(p.it, p)
                                     sum == (Read(q.mem, p.val) + q.val) % Word
                                 IN  [q EXCEPT !.val = sum, !.mem = Written(@, p.val, sum)]
          [] n.tok = "call"   -> MeanCall(i, e)
          [] n.tok = "block"  -> MeanStatements(next, n.val)
          [] n.tok = "while"  -> MeanWhile(i, e, MaxTurns + 1)
          [] n.tok = "return" -> [x EXCEPT !.returned = TRUE]
          [] n.tok = "if"     -> IF x.val = 0 THEN [x EXCEPT !.it = After(x.it, 1)] ELSE y
          [] OTHER            -> [y EXCEPT !.val = Apply(n.tok, x.val, y.val)]

Meaning == Mean(1, [it |-> 1, val |-> 0, mem |-> <<>>, calls |-> <<>>, returned |-> FALSE])

-----------------------------------------------------------------------------
(* The processor: what the bytes of an instruction do                       *)
Entry == [r \in Regs |-> IF r \in Range(Saved)
                         THEN CHOOSE i \in DOMAIN Saved : Saved[i] = r ELSE 0]
Start == [pc |-> 1, regs |-> Entry, mem |-> <<>>, stack |-> <<>>, frame |-> Entry,
          flags |-> <<0, 0>>, calls |-> <<>>, left |-> FALSE, turns |-> 0]

Junk == Word - 3
Set(p, r, v) == [p EXCEPT !.regs[r] = v]
Top(stack) == stack[Len(stack)]

(* a call leaves junk in the registers that it need not keep *)
HostCall(p, f, args) ==
    [p EXCEPT !.regs = [r \in Regs |-> IF r = RAX THEN Answer(f, args)
                                       ELSE IF r \in Range(Saved) THEN @[r] ELSE Junk],
              !.calls = Append(@, [f |-> f, args |-> args])]

Exec(p, c) ==
    LET R(r) == p.regs[r]
        Stored(a, v) == [p EXCEPT !.mem = Written(@, a, v)]
        Computed(op, y) == Set(p, c.a, Apply(op, R(c.a), y))
    IN  CASE c.op = "imm"      -> Set(p, c.a, c.v)
          [] c.op = "mov"      -> Set(p, c.a, R(c.b))
          [] c.op = "load"     -> Set(p, c.a, Read(p.mem, R(c.b) + c.v))
          [] c.op = "loadabs"  -> Set(p, RAX, Read(p.mem, c.v))
          [] c.op = "store"    -> Stored(R(c.a) + c.v, R(c.b))
          [] c.op = "storei"   -> Stored(R(c.a) + c.k, c.v)
          [] c.op = "storeabs" -> Stored(c.v, R(RAX))
          [] c.op = "addm"     -> Stored(R(c.a), Apply("add", Read(p.mem, R(c.a)), R(c.b)))
          [] c.op = "lea8"     -> Set(p, c.a, (R(c.b) + SlotBytes * R(c.x)) % Word)
          [] c.op = "shl"      -> Computed("mul", 2 ^ c.v)
          [] c.op = "addi"     -> Computed("add", c.v)
          [] c.op = "subi"     -> Computed("sub", c.v)
          [] c.op = "muli"     -> Computed("mul", c.v)
          [] c.op \in {"add", "sub", "mul"}
                               -> Computed(c.op, R(c.b))
          [] c.op = "cmp"      -> [p EXCEPT !.flags = <<R(c.a), R(c.b)>>]
          [] c.op = "cmpi"     -> [p EXCEPT !.flags = <<R(c.a), c.v>>]
          [] c.op = "test"     -> [p EXCEPT !.flags = <<R(c.a), 0>>]
          [] c.op = "setcc"    -> Set(p, c.a, Apply(c.b, p.flags[1], p.flags[2]))
          [] c.op = "push"     -> [p EXCEPT !.stack = Append(@, R(c.a))]
          [] c.op = "pop"      -> [Set(p, c.a, Top(p.stack)) EXCEPT !.stack = Front(@)]
          [] c.op = "sub8"     -> [p EXCEPT !.stack = Append(@, Junk)]
          [] c.op = "add8"     -> [p EXCEPT !.stack = Front(@)]
          [] c.op = "call"     -> HostCall(p, R(c.a), [i \in 1 .. c.v |-> R(ArgRegs[i])])
          [] c.op = "save"     -> [p EXCEPT !.frame[c.a] = R(c.a)]
          [] c.op = "restore"  -> Set(p, c.a, p.frame[c.a])
          [] c.op = "leave"    -> [p EXCEPT !.stack = <<>>, !.left = TRUE]
          [] c.op \in {"enter", "nop", "ret", "jmp", "jcc"} -> p

Jumps(p, c) == c.op = "jmp" \/ (c.op = "jcc" /\ Apply(c.b, p.flags[1], p.flags[2]) = 1)

-----------------------------------------------------------------------------
(* A body is written node by node.  todo says what the next subtrees are    *)
(* for, so that the stream is one the generator is meant for.               *)
Node(tok, val) == [tok |-> tok, val |-> val]
Leaf0 == {Node("num", v) : v \in lang.numbers} \cup {Node("var", v) : v \in Variables}
            \cup {Node("str", Text)}
Inner == {Node(tok, IF tok = "array" THEN Data ELSE 0) : tok \in lang.operators}

May(want) == CASE want = "body"   -> {Node("block", n) : n \in 1 .. 2}
               [] want = "stmt"   -> {Node(tok, 0) : tok \in lang.statements}
               [] want = "expr"   -> Leaf0 \cup Inner
               [] want = "lval"   -> {Node("var", v) : v \in Variables} \cup
                                     {n \in Inner : n.tok = "osb"}
               [] want = "callee" -> {Node("num", f) : f \in Functions}
               [] want = "args"   -> {Node("comma", n) : n \in 0 .. Len(ArgRegs)}
               [] want = "elems"  -> {Node("comma", 2)}

Below(want, n) ==
    CASE n.tok \in {"num", "var", "str"} -> <<>>
      [] n.tok = "block"  -> [i \in 1 .. n.val |-> "stmt"]
      [] n.tok = "comma"  -> [i \in 1 .. n.val |-> "expr"]
      [] n.tok = "array"  -> <<"elems">>
      [] n.tok = "call"   -> <<"callee", "args">>
      [] n.tok = "eq"     -> IF DestFirst THEN <<"lval", "expr">> ELSE <<"expr", "lval">>
      [] n.tok = "addeq"  -> <<"lval", "expr">>
      [] n.tok \in {"if", "while"}
                          -> <<"expr", "stmt">>
      [] n.tok = "return" -> <<"expr">>
      [] OTHER            -> <<"expr", "expr">>

Write == /\ phase = "write" /\ todo # <<>>
         /\ \E n \in May(Head(todo)) :
               /\ nodes' = Append(nodes, n)
               /\ todo' = Below(Head(todo), n) \o Tail(todo)
         /\ Len(nodes') + Len(todo') <= lang.nodes
         /\ UNCHANGED <<lang, phase, gen, m>>

Generate == /\ phase = "write" /\ todo = <<>>
            /\ gen' = codegen_func(nodes)
            /\ phase' = IF gen'.dead THEN "exited" ELSE "run"
            /\ UNCHANGED <<lang, nodes, todo, m>>

Code == gen.out[m.pc]

Back == Jumps(m, Code) /\ Code.v < m.pc

Step == /\ phase = "run" /\ m.turns <= MaxTurns
        /\ m' = [Exec(m, Code) EXCEPT !.pc = IF Jumps(m, Code) THEN Code.v ELSE m.pc + 1,
                                      !.turns = IF Back THEN @ + 1 ELSE @]
        /\ phase' = IF Code.op = "ret" /\ m.left THEN "done"
                    ELSE IF Code.op = "ret" \/ m'.pc = 0 THEN "astray"
                    ELSE "run"
        /\ UNCHANGED <<lang, nodes, todo, gen>>

Init == /\ lang \in Languages
        /\ nodes = <<>> /\ todo = <<"body">> /\ phase = "write"
        /\ gen = Fresh /\ m = Start

Next == Write \/ Generate \/ Step

Spec == Init /\ [][Next]_runvars

-----------------------------------------------------------------------------
(* The code does what its nodes mean: the same stores, the same calls with  *)
(* the same arguments in the same order, and the value that is returned.    *)
Faithful == phase = "done" => LET e == Meaning
                              IN  /\ m.mem = e.mem
                                  /\ m.calls = e.calls
                                  /\ e.returned => m.regs[RAX] = e.val

(* The stack is aligned to 16 bytes at every call, whatever was pushed for  *)
(* the calls around it.                                                     *)
AlignedCalls == phase = "run" /\ Code.op = "call"
                    => Len(m.stack) % 2 = 0

(* The function gives back the registers that belong to its caller.         *)
KeepsSaved == phase = "done" => \A r \in Range(Saved) : m.regs[r] = Entry[r]

(* The generator ends with every register free, every push popped, and all  *)
(* nodes of the body consumed.                                              *)
Balanced == phase \in {"run", "done"} =>
                gen.busy = {} /\ gen.depth = 0 /\ gen.it = Len(nodes) + 1

(* "constant destination": the leaf that the stream of an assignment names  *)
(* first is what it assigns to, in the streams that the parser writes.      *)
ParsedAssignment == Faithful
=============================================================================
