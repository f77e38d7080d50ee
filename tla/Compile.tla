------------------------------ MODULE Compile -------------------------------
(* parse() of moduler.c for one module: a source is read, resolved and      *)
(* turned into code.  A source is written token by token, no further than   *)
(* the parser reads it; the host has put its symbols into scope 0.          *)
EXTENDS Resolver

CONSTANTS Tokens,       \* the tokens of the sources
          Hosts,        \* the variables that the host has added
          Preambles,    \* what a source begins with
          MaxTokens,    \* bound on the tokens that follow
          Scratch, Saved, ArgRegs, ImmMax, SlotBytes

G == INSTANCE CodeGen

ASSUME CompileAssumption == MaxTokens \in Nat /\ Preambles \subseteq Seq(Tokens)

VARIABLES source,       \* the tokens of the module
          left,         \* how many more may follow
          stage,        \* "write", "parsed", "resolved", "failed", "ready" or "exited"
          parsed,       \* the parser at the end of the file
          resolved,     \* the resolver after resolve()
          generated     \* the generator after codegen_func

compvars == <<source, left, stage, parsed, resolved, generated>>

(* the parser has not met a token that ends the process *)
Reading(ts, p) == p.dead => p.at > Len(ts)
Alive(ts) == Reading(ts, parse(ts, Hosts))

Write == /\ stage = "write" /\ left > 0
         /\ \E t \in Tokens : /\ Alive(Append(source, t))
                             /\ source' = Append(source, t)
         /\ left' = left - 1
         /\ UNCHANGED <<stage, parsed, resolved, generated>>

Parse == /\ stage = "write"
         /\ parsed' = parse(source, Hosts)
         /\ stage' = IF parsed'.dead THEN "exited" ELSE "parsed"
         /\ UNCHANGED <<source, left, resolved, generated>>

(* code is made only when the resolver has no error *)
Resolve == /\ stage = "parsed"
           /\ resolved' = resolve(parsed)
           /\ stage' = IF resolved'.dead THEN "exited"
                       ELSE IF resolved'.v.kind = "error" THEN "failed" ELSE "resolved"
           /\ UNCHANGED <<source, left, parsed, generated>>

(* "$" and an address known to the resolver are variables to the generator *)
ForCodegen(ns) == [i \in DOMAIN ns |-> IF ns[i].tok \in {"this", "addr"}
                                       THEN [ns[i] EXCEPT !.tok = "var"] ELSE ns[i]]

Generate == /\ stage = "resolved"
            /\ generated' = G!codegen_func(ForCodegen(resolved.new))
            /\ stage' = IF generated'.dead THEN "exited" ELSE "ready"
            /\ UNCHANGED <<source, left, parsed, resolved>>

Init == /\ source \in Preambles /\ left = MaxTokens /\ stage = "write"
        /\ parsed = <<>> /\ resolved = <<>> /\ generated = <<>>

Next == Write \/ Parse \/ Resolve \/ Generate

Spec == Init /\ [][Next]_compvars

-----------------------------------------------------------------------------
(* What a line means by the powers of its operators.  A line here has names *)
(* and numbers, the operators of Binary, groups and calls.                  *)
Binary == {"comma", "eq", "add", "mul", "eqeq", "dot"}
Operand == {"id", "num", "this", "str"}

Opens(ts, i) == Cardinality({j \in 1 .. i : ts[j].tok = "call"})
Closes(ts, i) == Cardinality({j \in 1 .. i : ts[j].tok = "crb"})
Outside(ts, i) == Opens(ts, i) = Closes(ts, i)

RECURSIVE TreeOf(_)
TreeOf(ts) ==
    LET ops == {i \in DOMAIN ts : ts[i].tok \in Binary /\ Outside(ts, i)}
        last == {i \in ops : \A j \in ops : getPower(ts[i].tok) <= getPower(ts[j].tok)}
        k == Min(last)
        o == Max({i \in DOMAIN ts : ts[i].tok = "call" /\ (i = 1 \/ Outside(ts, i - 1))})
        inner == SubSeq(ts, o + 1, Len(ts) - 1)
        args == IF inner = <<>> THEN <<Node("comma", 0)>> ELSE TreeOf(inner)
        name == IF ts[1].tok = "id" THEN "var" ELSE ts[1].tok
    IN  IF ops # {}
        THEN Combined(ts[k].tok, TreeOf(SubSeq(ts, 1, k - 1)), TreeOf(SubSeq(ts, k + 1, Len(ts))))
        ELSE IF Len(ts) = 1 THEN <<Node(name, ts[1].val)>>
        ELSE IF o = 1 THEN args
        ELSE Combined("call", TreeOf(SubSeq(ts, 1, o - 1)), args)

OneLine == /\ source # <<>>
           /\ \A i \in DOMAIN source : source[i].tok \in Binary \cup Operand \cup {"call", "crb"}
           /\ \A i \in 2 .. Len(source) : source[i].tok = "dot" => source[i - 1].tok # "num"

(* The parser, one token ahead and one power at a time, builds the tree     *)
(* that the powers alone define: an operator of lower power has the others  *)
(* in its operands, among equals the one to the left has the ones to the    *)
(* right, and a call takes the name before it.                              *)
Grouped == stage = "parsed" /\ OneLine => parsed.nodes = <<Node("block", 1)>> \o TreeOf(source)

-----------------------------------------------------------------------------
Arity(n) == CASE n.tok \in {"num", "str", "var", "this", "addr", "double"} -> 0
              [] n.tok \in {"block", "comma"}                              -> n.val
              [] n.tok \in {"array", "return", "unary", "not"}             -> 1
              [] OTHER                                                     -> 2

IsTree(ns) ==
    LET lacks[i \in 0 .. Len(ns)] == IF i = 0 THEN 1 ELSE lacks[i - 1] - 1 + Arity(ns[i])
    IN  lacks[Len(ns)] = 0 /\ \A i \in 0 .. Len(ns) - 1 : lacks[i] > 0

(* The nodes that the parser hands on are one tree: the vectors of the      *)
(* constructs, put together in front and behind and with lists dissolved,   *)
(* lose no operand and leave no node over.                                  *)
ParsedIsTree == stage = "parsed" => IsTree(parsed.nodes)

(* What the resolver lets pass it has read to the end, and what it writes   *)
(* is one tree again, where members, calls and brackets of meta symbols     *)
(* have been replaced by what the host answered.  The exception is an index *)
(* of a meta symbol that cannot be typed: osb() does not look at the error  *)
(* (resolver.c:358), and its operands are read as statements.               *)
ResolvedIsTree == stage = "resolved" => /\ IsTree(resolved.new)
                                        /\ resolved.lost \/ resolved.it = Len(parsed.nodes) + 1

(* the type of a literal *)
LiteralType(n) == IF n.tok = "num" THEN IntType ELSE ArrayOf(Uint8Type, n.val + 1)

(* A module that passes has given a variable no two types: the type of the  *)
(* variable at the end is that of every literal assigned to it.  An         *)
(* assignment in an index that cannot be typed is not refused.              *)
OneTypeEach ==
    stage = "resolved" /\ ~ resolved.lost =>
        \A i \in 1 .. Len(parsed.nodes) - 2 :
            /\ parsed.nodes[i].tok = "eq" /\ parsed.nodes[i + 1].tok \in {"num", "str"}
            /\ parsed.nodes[i + 2].tok = "var"
            => LET id == varLookup(resolved, parsed.nodes[i + 2].val, 1)
               IN  resolved.vars[id].type = LiteralType(parsed.nodes[i + 1])

-----------------------------------------------------------------------------
(* what the generator says it cannot do *)
Unsupported == \/ \E i \in DOMAIN resolved.new : resolved.new[i].tok = "block" /\ i > 1
               \/ \E i \in DOMAIN resolved.new :
                    /\ resolved.new[i].tok = "comma" /\ resolved.new[i].val > Len(ArgRegs)

(* What the resolver lets pass the generator can turn into code: it takes   *)
(* every node and finds a register for each value.                          *)
ResolvedIsGenerated ==
    /\ stage = "ready" => generated.it = Len(resolved.new) + 1
    /\ stage = "exited" /\ generated # <<>> => Unsupported

=============================================================================
