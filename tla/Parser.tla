------------------------------- MODULE Parser -------------------------------
(* The parser of parser.c as an operator from the tokens of a source to the *)
(* prefix stream of nodes.  Its scopes and variables are here because the   *)
(* resolver looks names up in them.  import and external, which parse or    *)
(* load another file, are not here.                                         *)
EXTENDS Integers, Sequences, FiniteSets, FiniteSetsExt, SequencesExt

DefPower  == 2      \* CUPDEFPOWER
UINT8_MAX == 255

Null == [kind |-> "null"]       \* typee of a variable that has no type yet
Void == [kind |-> "void"]

Node(tok, val) == [tok |-> tok, val |-> val]

(* p.nodes is the vector of the construct that was parsed last, p.dead says *)
(* that the compiler has exited or failed an assertion                      *)
Die(p)       == [p EXCEPT !.dead = TRUE]
Nodes(p, ns) == [p EXCEPT !.nodes = ns]

Tok(ts, p) == IF p.at > Len(ts) THEN "eof" ELSE ts[p.at].tok

(* getToken(space): newlines are a token with space, and skipped without *)
getToken(ts, p, space) ==
    [p EXCEPT !.at = Min({i \in p.at + 1 .. Len(ts) : space = 1 \/ ts[i].tok # "nl"}
                             \cup {Len(ts) + 1})]

-----------------------------------------------------------------------------
(* Scopes and names                                                         *)
RECURSIVE varLookup(_, _, _)
varLookup(p, name, s) ==
    LET here == {i \in 1 .. Len(p.vars) : p.vars[i].name = name /\ p.vars[i].scope = s}
    IN  IF here # {} THEN Min(here)
        ELSE IF s = 0 THEN 0 ELSE varLookup(p, name, p.scopes[s + 1])

putVar(p, name) ==
    [p EXCEPT !.vars = Append(@, [name |-> name, scope |-> p.scope, type |-> Null])]
Declared(p, name) == IF varLookup(p, name, p.scope) = 0 THEN putVar(p, name) ELSE p

scope_enter(p) == [p EXCEPT !.scopes = Append(@, p.scope), !.scope = Len(p.scopes)]
scope_leave(p) == [p EXCEPT !.scope = p.scopes[@ + 1]]

-----------------------------------------------------------------------------
getPower(tok) ==
    CASE tok = "eof"                               -> 0
      [] tok \in {"if", "return", "nl", "crb", "ccb", "csb", "ocb"}
                                                   -> 1
      [] tok \in {"comma", "osb"}                  -> DefPower
      [] tok \in {"eq", "addeq"}                   -> 3
      [] tok \in {"and", "or"}                     -> 6
      [] tok = "eqeq"                              -> 8
      [] tok \in {"less", "lesseq"}                -> 10
      [] tok \in {"add", "sub"}                    -> 12
      [] tok \in {"mul", "div"}                    -> 14
      [] tok = "dot"                               -> 16
      [] tok = "call"                              -> 18
      [] OTHER                                     -> UINT8_MAX

Closing(tok) == IF tok = "call" THEN "crb" ELSE "csb"
Brackets == {"call", "osb"}

RECURSIVE Primary(_, _, _)
RECURSIVE Operators(_, _, _, _)
RECURSIVE Block(_, _, _, _)

PastNewline(ts, p) == IF ~ p.dead /\ Tok(ts, p) = "nl" THEN getToken(ts, p, 0) ELSE p
statement(ts, p) == PastNewline(ts, Primary(ts, p, DefPower))

(* push_vector(&left.vec, statement(state).vec) *)
Behind(ns, p) == Nodes(p, ns \o p.nodes)
Also(ts, p) == IF p.dead THEN p ELSE Behind(p.nodes, statement(ts, p))

NextInBlock(ts, p, ns, count) ==
    Block(ts, p, ns \o p.nodes, IF p.nodes = <<>> THEN count ELSE count + 1)

(* the statements of a block up to '}', those without nodes do not count *)
Block(ts, p, ns, count) ==
    IF p.dead THEN p
    ELSE IF Tok(ts, p) = "ccb"
    THEN scope_leave(Nodes(getToken(ts, p, 1), <<Node("block", count)>> \o ns))
    ELSE NextInBlock(ts, statement(ts, p), ns, count)

(* '@' name arguments: cup_type() fails an assertion for every function     *)
Function(ts, p) ==
    LET id == varLookup(p, ts[p.at].val, p.scope)
    IN  IF id # 0 /\ p.vars[id].type \notin {Null, Void} THEN Die(p)
        ELSE Die(statement(ts, scope_enter(getToken(ts, Declared(p, ts[p.at].val), 1))))

At(ts, p) == CASE Tok(ts, p) = "at" -> Nodes(getToken(ts, p, 1), <<>>)
               [] Tok(ts, p) = "id" -> Function(ts, p)
               [] OTHER             -> Nodes(p, <<>>)

Else(ts, p) == IF p.dead \/ Tok(ts, p) # "else" THEN p
               ELSE Also(ts, Nodes(getToken(ts, p, 0), <<Node("else", 0)>> \o p.nodes))
If(ts, p) == Else(ts, Also(ts, Also(ts, Nodes(getToken(ts, p, 0), <<Node("if", 0)>>))))

(* expectAndNext, after which the node of the construct comes first *)
Closed(ts, p, tok, first) ==
    IF p.dead \/ Tok(ts, p) # tok THEN Die(p) ELSE Nodes(getToken(ts, p, 1), first \o p.nodes)

(* '[': the literal without elements has an empty list, one with a single   *)
(* element has no list                                                      *)
Elements(ts, p) == IF Tok(ts, p) = "csb" THEN Nodes(p, <<>>) ELSE Primary(ts, p, DefPower)
OrEmptyList(p) == IF p.nodes = <<>> THEN Nodes(p, <<Node("comma", 0)>>) ELSE p
Array(ts, p) == Closed(ts, OrEmptyList(Elements(ts, getToken(ts, p, 0))), "csb", <<Node("array", 0)>>)

(* '(' where an operand begins *)
Grouping(ts, p) == IF Tok(ts, p) = "crb" THEN Nodes(getToken(ts, p, 1), <<Node("comma", 0)>>)
                   ELSE Closed(ts, statement(ts, p), "crb", <<>>)
Group(ts, p) == Grouping(ts, getToken(ts, p, 0))

(* a number, and the fraction of one *)
Fraction(ts, p) == IF Tok(ts, p) = "num" THEN getToken(ts, p, 1) ELSE p
Decimal(ts, p, num) ==
    IF Tok(ts, p) # "dot" THEN Nodes(p, <<Node("num", num)>>)
    ELSE Nodes(Fraction(ts, getToken(ts, p, 1)), <<Node("double", 0)>>)
Number(ts, p) == Decimal(ts, getToken(ts, p, 1), ts[p.at].val)

(* a name is declared at its first use, except in scope 0 *)
Identifier(ts, p) ==
    Nodes(getToken(ts, IF p.scope = 0 THEN p ELSE Declared(p, ts[p.at].val), 1),
          <<Node("var", ts[p.at].val)>>)

Prefix(ts, p, tok) ==
    Behind(<<Node(tok, 0)>>, Primary(ts, getToken(ts, p, 1), DefPower))

(* what an expression or statement begins with *)
First(ts, p, tok) ==
    CASE tok = "at"      -> At(ts, getToken(ts, p, 1))
      [] tok = "while"   -> Also(ts, Also(ts, Nodes(getToken(ts, p, 0), <<Node("while", 0)>>)))
      [] tok = "ocb"     -> Block(ts, scope_enter(getToken(ts, p, 0)), <<>>, 0)
      [] tok = "return"  -> Also(ts, Nodes(getToken(ts, p, 0), <<Node("return", 0)>>))
      [] tok = "sub"     -> Prefix(ts, p, "unary")
      [] tok = "not"     -> Prefix(ts, p, "not")
      [] tok = "id"      -> Identifier(ts, p)
      [] tok = "num"     -> Number(ts, p)
      [] tok = "call"    -> Group(ts, p)
      [] tok = "osb"     -> Array(ts, p)
      [] tok = "if"      -> If(ts, p)
      [] tok = "str"     -> Nodes(getToken(ts, p, 1), <<Node(tok, ts[p.at].val)>>)
      [] tok \in {"this", "break", "continue", "varg"}
                         -> Nodes(getToken(ts, p, 1), <<Node(tok, 0)>>)
      [] OTHER           -> Die(p)

(* no operator follows '@', while and '{' *)
Then(ts, p, tok, mpower) ==
    IF p.dead \/ tok \in {"at", "while", "ocb"} THEN p ELSE Operators(ts, p, p.nodes, mpower)
Primary(ts, p, mpower) == Then(ts, First(ts, p, Tok(ts, p)), Tok(ts, p), mpower)

-----------------------------------------------------------------------------
(* Operators                                                                *)
(* mutant of Binds: operators of one power group to the left *)
BindsLeft(op, mpower) == getPower(op) > mpower

(* the operator takes what was read as its left operand *)
Binds(op, mpower) == getPower(op) >= mpower

(* the right operand; that of '.' is parsed in scope 0 *)
RightAt(ts, p, op) ==
    CASE op \in Brackets /\ Tok(ts, p) = Closing(op) -> Nodes(p, <<Node("comma", 0)>>)
      [] op \in Brackets /\ Tok(ts, p) # Closing(op) -> Primary(ts, p, DefPower)
      [] op = "dot" -> [Primary(ts, [p EXCEPT !.scope = 0], getPower("dot")) EXCEPT !.scope = p.scope]
      [] OTHER      -> Primary(ts, p, getPower(op))
RightOf(ts, p, op) == RightAt(ts, getToken(ts, p, 0), op)

IsList(ns) == ns[1].tok = "comma"

(* mutant of Combined: the list inside a list is not dissolved *)
CombinedNested(op, left, right) ==
    CASE op = "eq"    -> <<Node("eq", 0)>> \o right \o left
      [] op = "comma" -> <<Node("comma", IF IsList(right) THEN right[1].val + 1 ELSE 2)>> \o left \o right
      [] op = "call"  -> <<Node("call", 0)>> \o left
                            \o (IF IsList(right) THEN <<>> ELSE <<Node("comma", 1)>>) \o right
      [] OTHER        -> <<Node(op, 0)>> \o left \o right

(* the value of an assignment comes first; lists to the right are dissolved *)
Combined(op, left, right) ==
    CASE op = "eq"    -> <<Node("eq", 0)>> \o right \o left
      [] op = "comma" -> IF IsList(right) THEN <<Node("comma", right[1].val + 1)>> \o left \o Tail(right)
                         ELSE <<Node("comma", 2)>> \o left \o right
      [] op = "call"  -> <<Node("call", 0)>> \o left
                            \o (IF IsList(right) THEN <<>> ELSE <<Node("comma", 1)>>) \o right
      [] OTHER        -> <<Node(op, 0)>> \o left \o right

(* right.data is NULL, or a list that vector_fpop has freed is pushed *)
Crashes(op, right) == \/ op \in {"call", "comma"} /\ right = <<>>
                      \/ op = "comma" /\ right = <<Node("comma", 0)>>

Handled == {"dot", "call", "eq", "comma", "osb", "add", "addeq", "eqeq", "less", "mul",
            "lesseq", "sub"}

(* the loop of primary() *)
PastClosing(ts, p, op) == IF op \in Brackets THEN getToken(ts, p, 1) ELSE p
Extended(ts, p, left, op, mpower) ==
    IF \/ p.dead
       \/ op \in Brackets /\ Tok(ts, p) # Closing(op)
       \/ op \notin Handled \/ Crashes(op, p.nodes)
    THEN Die(p)
    ELSE Operators(ts, PastClosing(ts, p, op), Combined(op, left, p.nodes), mpower)

OperatorsAt(ts, p, left, mpower, op) ==
    CASE getPower(op) = UINT8_MAX -> Die(p)
      [] ~ Binds(op, mpower)      -> Nodes(p, left)
      [] OTHER                    -> Extended(ts, RightOf(ts, p, op), left, op, mpower)
Operators(ts, p, left, mpower) == OperatorsAt(ts, p, left, mpower, Tok(ts, p))

-----------------------------------------------------------------------------
(* parse() up to the end of the file *)
RECURSIVE Module(_, _, _, _)
NextInModule(ts, p, ns, count) ==
    Module(ts, p, ns \o p.nodes, IF p.nodes = <<>> THEN count ELSE count + 1)
Module(ts, p, ns, count) ==
    IF p.dead THEN p
    ELSE IF Tok(ts, p) = "eof" THEN Nodes(p, <<Node("block", count)>> \o ns)
    ELSE NextInModule(ts, statement(ts, p), ns, count)

parse(ts, vars) ==
    LET p == [at |-> 0, nodes |-> <<>>, dead |-> FALSE, scope |-> 1, scopes |-> <<-1, 0>>,
              vars |-> vars]
    IN  Module(ts, getToken(ts, p, 0), <<>>, 0)
=============================================================================
