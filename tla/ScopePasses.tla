---------------------------- MODULE ScopePasses ----------------------------
(* How the three passes over a module agree on scopes.  The parser builds a *)
(* tree of scopes and declares names in it; the resolver and the code       *)
(* generator do not walk that tree: they count the N_BLOCK nodes of the     *)
(* stream and look every name up again in the scope of that number.  The    *)
(* symbol table itself is SymDict.                                          *)
EXTENDS Integers, Sequences

CONSTANTS Names,        \* the identifiers of the modules
          This,         \* the name "$"
          MaxVars,      \* bound on the number of bindings
          MaxScopes,    \* bound on the number of scopes
          MaxNodes,     \* bound on the nodes of a module
          MaxModules    \* bound on the number of modules

ASSUME PassAssumption ==
    /\ This \notin Names
    /\ MaxVars \in Nat \ {0}
    /\ MaxScopes \in Nat \ {0, 1}

VARIABLES chains,       \* the scopes visible from each scope (SymDict)
          binds,        \* the bindings, oldest first (SymDict)
          scope,        \* state->scope
          phase,        \* what parse() does
          count,        \* modules begun
          nodes,        \* the node stream of the parser
          open,         \* the constructs the parser is inside of
          closed,       \* history: the scopes of this module left so far
          fresh,        \* history: no module before this one had a block
          found,        \* the resolver's variable for each node passed
          until,        \* the last node of a meta call that is folded
          kept,         \* the nodes that the resolver passes on
          used          \* the code generator's variable for each of these

table == <<chains, binds>>
parser == <<nodes, open, closed, fresh, count>>
walks == <<found, until, kept, used>>
passvars == <<table, scope, phase, parser, walks>>

Dict == INSTANCE SymDict
            WITH answer <- [name |-> This, from |-> 0, id |-> -1]

(* a name node remembers which variable the parser took it for *)
Node == [kind : {"block", "name", "call"}, name : Names \cup {This},
         decl : Nat, closed : SUBSET Nat, end : Nat]
Plain == [kind |-> "block", name |-> This, decl |-> 0, closed |-> {}, end |-> 0]

Lookup(nm, s) == CHOOSE r \in 0 .. Len(binds) : Dict!Resolves(nm, s, r)

(* scope_leave goes to the youngest scope around this one *)
Parent(s) == CHOOSE p \in Dict!Chain(s) \ {s} :
                \A q \in Dict!Chain(s) \ {s} : q <= p

-----------------------------------------------------------------------------
(* parse() starts in the scope that the module before it left behind *)
BeginParse == /\ phase = "host"
              /\ count < MaxModules
              /\ count' = count + 1
              /\ phase' = "parse"
              /\ fresh' = (Len(chains) = 2 /\ scope = 1)
              /\ nodes' = <<>> /\ open' = <<>> /\ closed' = {}
              /\ found' = <<>> /\ kept' = <<>> /\ used' = <<>> /\ until' = 0
              /\ UNCHANGED <<table, scope>>

Emit(node) == /\ Len(nodes) < MaxNodes
              /\ nodes' = Append(nodes, node)

(* T_IDENTIFIER: looked up, and declared when it is not there *)
Identifier(nm) ==
    /\ phase = "parse"
    /\ \E r \in {Lookup(nm, scope)} :
          IF r # 0
          THEN /\ Emit([Plain EXCEPT !.kind = "name", !.name = nm, !.decl = r,
                                     !.closed = closed])
               /\ UNCHANGED binds
          ELSE /\ Len(binds) < MaxVars
               /\ binds' = Append(binds, [name |-> nm, scope |-> scope])
               /\ Emit([Plain EXCEPT !.kind = "name", !.name = nm,
                                     !.decl = Len(binds) + 1, !.closed = closed])
    /\ UNCHANGED <<chains, scope, phase, open, closed, fresh, count, walks>>

(* '{' enters a scope below the current one *)
BlockOpen == /\ phase = "parse"
             /\ Len(chains) < MaxScopes
             /\ Emit(Plain)
             /\ open' = Append(open, 0)
             /\ chains' = Append(chains, Dict!Chain(scope) \cup {Len(chains)})
             /\ scope' = Len(chains)
             /\ UNCHANGED <<binds, phase, closed, fresh, count, walks>>

BlockClose == /\ phase = "parse"
              /\ open # <<>> /\ open[Len(open)] = 0
              /\ open' = SubSeq(open, 1, Len(open) - 1)
              /\ closed' = closed \cup {scope}
              /\ scope' = Parent(scope)
              /\ UNCHANGED <<table, phase, nodes, fresh, count, walks>>

(* a call of a meta symbol, and the end of its arguments *)
CallOpen == /\ phase = "parse"
            /\ Emit([Plain EXCEPT !.kind = "call"])
            /\ open' = Append(open, Len(nodes) + 1)
            /\ UNCHANGED <<table, scope, phase, closed, fresh, count, walks>>

CallClose == /\ phase = "parse"
             /\ open # <<>> /\ open[Len(open)] # 0
             /\ nodes' = [nodes EXCEPT ![open[Len(open)]].end = Len(nodes)]
             /\ open' = SubSeq(open, 1, Len(open) - 1)
             /\ UNCHANGED <<table, scope, phase, closed, fresh, count, walks>>

-----------------------------------------------------------------------------
(* the end of the source: state->scope = 0, and resolve() passes the        *)
(* N_BLOCK of the module itself                                             *)
BeginResolve == /\ phase = "parse"
                /\ open = <<>>
                /\ phase' = "resolve"
                /\ scope' = 0 + 1
                /\ UNCHANGED <<table, parser, walks>>

Resolving(kind) == /\ phase = "resolve"
                   /\ Len(found) < Len(nodes)
                   /\ nodes[Len(found) + 1].kind = kind

(* the node goes to the new stream, unless a folded call drops it *)
Keep == kept' = IF Len(found) + 1 <= until THEN kept
                ELSE Append(kept, Len(found) + 1)

(* mutant of ResolveBlock: the scope is not counted *)
ResolveBlockFlat == /\ Resolving("block")
                    /\ found' = Append(found, 0)
                    /\ Keep
                    /\ UNCHANGED <<table, scope, phase, parser, until, used>>

ResolveBlock == /\ Resolving("block")
                /\ scope' = scope + 1
                /\ found' = Append(found, 0)
                /\ Keep
                /\ UNCHANGED <<table, phase, parser, until, used>>

(* A name that is not found is a variable without a value, which the node   *)
(* around it asserts not to be, reads through, or turns into an error.      *)
ResolveName ==
    /\ Resolving("name")
    /\ found' = Append(found, Lookup(nodes[Len(found) + 1].name, scope))
    /\ Keep
    /\ phase' \in IF found'[Len(found')] # 0 THEN {"resolve"} ELSE {"host", "exited"}
    /\ UNCHANGED <<table, scope, parser, until, used>>

(* The callback answers with a function, and the call stays with its        *)
(* arguments, or with a value, which takes the place of all of it.          *)
ResolveCall == /\ Resolving("call")
               /\ found' = Append(found, 0)
               /\ \/ Keep /\ UNCHANGED until
                  \/ /\ until < Len(found) + 1
                     /\ until' = nodes[Len(found) + 1].end
                     /\ UNCHANGED kept
               /\ UNCHANGED <<table, scope, phase, parser, used>>

(* a type error, or a callback that fails: parse() returns *)
ResolveFails == /\ phase = "resolve"
                /\ phase' = "host"
                /\ UNCHANGED <<table, scope, parser, walks>>

-----------------------------------------------------------------------------
(* mutant of BeginCodegen: the scope of the resolver is left as it is *)
BeginCodegenThere == /\ phase = "resolve"
                     /\ Len(found) = Len(nodes)
                     /\ phase' = "codegen"
                     /\ scope' = scope + 1
                     /\ UNCHANGED <<table, parser, walks>>

(* state->scope = 0, and codegen passes the N_BLOCK of the module *)
BeginCodegen == /\ phase = "resolve"
                /\ Len(found) = Len(nodes)
                /\ phase' = "codegen"
                /\ scope' = 0 + 1
                /\ UNCHANGED <<table, parser, walks>>

Generating(kind) == /\ phase = "codegen"
                    /\ Len(used) < Len(kept)
                    /\ nodes[kept[Len(used) + 1]].kind = kind

(* mutant of GenerateBlock: the scope is not counted *)
GenerateBlockFlat == /\ Generating("block")
                     /\ used' = Append(used, 0)
                     /\ UNCHANGED <<table, scope, phase, parser, found, until, kept>>

GenerateBlock == /\ Generating("block")
                 /\ scope' = scope + 1
                 /\ used' = Append(used, 0)
                 /\ UNCHANGED <<table, phase, parser, found, until, kept>>

(* leaf_address exits when it does not find the variable *)
GenerateName ==
    /\ Generating("name")
    /\ used' = Append(used, Lookup(nodes[kept[Len(used) + 1]].name, scope))
    /\ phase' = IF used'[Len(used')] # 0 THEN "codegen" ELSE "exited"
    /\ UNCHANGED <<table, scope, parser, found, until, kept>>

GenerateCall == /\ Generating("call")
                /\ used' = Append(used, 0)
                /\ UNCHANGED <<table, scope, phase, parser, found, until, kept>>

(* the module runs, and parse() returns; the scope stays *)
Run == /\ phase = "codegen"
       /\ Len(used) = Len(kept)
       /\ phase' = "host"
       /\ UNCHANGED <<table, scope, parser, walks>>

-----------------------------------------------------------------------------
Init == /\ chains = <<{0}, {0, 1}>>
        /\ binds = <<[name |-> This, scope |-> 1]>>
        /\ scope = 1
        /\ phase = "host" /\ count = 0
        /\ nodes = <<>> /\ open = <<>> /\ closed = {} /\ fresh = TRUE
        /\ found = <<>> /\ until = 0 /\ kept = <<>> /\ used = <<>>

Next == \/ BeginParse
        \/ \E nm \in Names : Identifier(nm)
        \/ BlockOpen \/ BlockClose \/ CallOpen \/ CallClose
        \/ BeginResolve \/ ResolveBlock \/ ResolveName \/ ResolveCall \/ ResolveFails
        \/ BeginCodegen \/ GenerateBlock \/ GenerateName \/ GenerateCall \/ Run

Spec == Init /\ [][Next]_passvars

-----------------------------------------------------------------------------
(* The counters of the walks stay numbers of scopes that exist, so that     *)
(* varLookup reads state->scopes inside its bounds, and the walks stay in   *)
(* step with the stream.                                                    *)
TypeOK == /\ Dict!DictTypeOK
          /\ scope \in 1 .. Len(chains) - 1
          /\ phase \in {"host", "parse", "resolve", "codegen", "exited"}
          /\ nodes \in Seq(Node)
          /\ Len(used) <= Len(kept) /\ Len(kept) <= Len(found)
          /\ Len(found) <= Len(nodes)

(* A module that begins before any scope was made, with the globals only:   *)
(* the resolver finds every name the parser saw, and takes it for the same  *)
(* variable, or for one that was declared in a block of this module that is *)
(* closed by then, because the count of N_BLOCK nodes never goes back.      *)
FreshModuleBinds ==
    fresh => \A i \in 1 .. Len(found) :
                nodes[i].kind = "name" =>
                    /\ found[i] # 0
                    /\ \/ found[i] = nodes[i].decl
                       \/ binds[found[i]].scope \in nodes[i].closed

Folded(i) == ~ \E k \in 1 .. Len(kept) : kept[k] = i

(* The code generator takes a name for the variable whose type the resolver *)
(* has checked, unless a callback folded a call with a block among its      *)
(* arguments: then the generator counts fewer scopes than the resolver.     *)
PassesAgree ==
    \A k \in 1 .. Len(used) :
        /\ nodes[kept[k]].kind = "name"
        /\ \A i \in 1 .. kept[k] : nodes[i].kind = "block" => ~ Folded(i)
        => used[k] = found[kept[k]]
=============================================================================
