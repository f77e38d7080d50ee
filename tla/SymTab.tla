------------------------------- MODULE SymTab -------------------------------
(* The symbol table of CUPState: the vector vars of variables, the open     *)
(* addressing table vars_map over it, and the vector scopes of parents,     *)
(* with every operation that reads or writes them.  A call of varLookup or  *)
(* putVar runs one probe of its loops per step, so that what the loops rely *)
(* on can be stated; the program has one thread and starts the next call    *)
(* after the last one ended (pc = "idle").                                  *)
EXTENDS Integers, Sequences

CONSTANTS Names,            \* the identifiers a program or a host uses
          This,             \* the name "$"
          HashSlot(_, _, _),\* hash_key(name, scope) & (capacity - 1)
          HostTypes,        \* what kinds of type symbols and values have
          InitSlots,        \* variables that fit INITIAL_CAPACITY bytes
          MaxVars,          \* bound on the number of variables
          MaxScopes,        \* bound on the number of scopes
          MaxDepth          \* bound on the parser's recursion

AllNames == Names \cup {This}

(* typee is NULL until resolve() or the host gives the variable a type *)
Types    == {"null", "void", "some"}

(* what vector_resize can make of the capacity of vars *)
Capacities == 1 .. InitSlots + 2 * MaxVars

ASSUME TabAssumption ==
    /\ This \notin Names
    /\ HostTypes \subseteq Types
    /\ InitSlots \in Nat \ {0}
    /\ MaxVars \in Nat \ {0}
    /\ MaxScopes \in Nat \ {0, 1}
    /\ MaxDepth \in Nat

(* x & (capacity - 1) is below the capacity, whatever the hash is *)
ASSUME HashAssumption ==
    \A n \in AllNames, s \in 0 .. MaxScopes - 1, c \in Capacities :
        HashSlot(n, s, c) \in 0 .. c - 1

VARIABLES scopes,   \* state->scopes: the parent of scope s is scopes[s + 1]
          scope,    \* state->scope
          vars,     \* state->vars.data
          cap,      \* state->vars.vec.capacity, counted in variables
          map,      \* state->vars_map: slot -> index into vars, 0 if free
          frames,   \* what the parser is inside of, outermost first
          entered,  \* scopes entered since the parse of this module began
          pc,       \* what the current call does next
          req,      \* the current call and its arguments
          at,       \* varLookup's scope
          slot,     \* i of varFind and of varInsert
          n,        \* n of varFind
          ins,      \* the variable that varInsert inserts
          res,      \* the answer of varLookup, 0 for NULL, -1 for none yet
          chains    \* history: the scopes that are visible from each scope

tab    == <<vars, cap, map>>
probe  == <<at, slot, n, ins>>
tree   == <<scopes, chains, entered>>
parser == <<scope, frames>>
allvars == <<tab, probe, tree, parser, pc, req, res>>

(* (size_t)-1, the parent of the root scope *)
SIZE_MAX == -1

Variable == [name : AllNames, typee : Types, scope : Nat]
Ops      == {"identifier", "function", "add", "get", "external", "use"}
Call     == [op : Ops, name : AllNames, typee : Types, from : Nat]
NoCall   == [op |-> "use", name |-> This, typee |-> "null", from |-> 0]
Frame    == [kind : {"block", "at", "dot"}, ret : Nat]

ScopeIds  == 0 .. Len(scopes) - 1
Parent(s) == scopes[s + 1]

(* mutant of NextSlot: the probe does not wrap around *)
NextSlotNoWrap(i) == i + 1

(* (i + 1) & (capacity - 1): the capacity is a power of two *)
NextSlot(i) == IF i + 1 = cap THEN 0 ELSE i + 1

-----------------------------------------------------------------------------
(* a call goes on at pc = p without its arguments and locals *)
Leave(p) == /\ pc' = p
            /\ req' = NoCall
            /\ at' = 0 /\ slot' = 0 /\ n' = 0 /\ ins' = 0 /\ res' = -1
Return == Leave("idle")

(* exit(1), or a failed assertion *)
Exit == /\ pc' = "exited"
        /\ UNCHANGED <<tab, tree, parser, probe, req, res>>

-----------------------------------------------------------------------------
(* varFind begins to probe for name nm in scope s; an empty vars is the     *)
(* early return, which FindMiss takes because n = cap                       *)
StartFind(nm, s) ==
    /\ at' = s
    /\ n' = 0
    /\ slot' = IF cap = 0 THEN 0 ELSE HashSlot(nm, s, cap)

(* varLookup ends with answer r *)
Answer(r) ==
    /\ pc' = "answer"
    /\ res' = r
    /\ UNCHANGED <<tab, tree, parser, req, probe>>

(* varFind returned NULL for this scope: varLookup goes on with the parent, *)
(* or gives up at the root                                                  *)
NotInScope ==
    \/ at = 0 /\ Answer(0)
    \/ /\ at # 0
       /\ StartFind(req.name, Parent(at))
       /\ UNCHANGED <<tab, tree, parser, pc, req, ins, res>>

(* mutant of IsKey: the key is the name only *)
IsKeyAnyScope(id) == vars[id].name = req.name

IsKey(id) == vars[id].scope = at /\ vars[id].name = req.name

(* the loop of varFind ends at its bound and at a free slot *)
Probing == n < cap /\ map[slot] # 0

FindMiss == /\ pc = "find"
            /\ ~ Probing
            /\ NotInScope

FindHit == /\ pc = "find"
           /\ Probing
           /\ IsKey(map[slot])
           /\ Answer(map[slot])

FindStep == /\ pc = "find"
            /\ Probing
            /\ ~ IsKey(map[slot])
            /\ slot' = NextSlot(slot)
            /\ n' = n + 1
            /\ UNCHANGED <<tab, tree, parser, pc, req, at, ins, res>>

-----------------------------------------------------------------------------
(* mutant of Grown: capacity > needed instead of capacity >= needed *)
GrownLate == IF cap # 0 /\ Len(vars) <= cap THEN cap
             ELSE IF cap = 0 THEN InitSlots ELSE 2 * cap

(* vector_resize for one more variable *)
Grown == IF Len(vars) < cap THEN cap ELSE IF cap = 0 THEN InitSlots ELSE 2 * cap

(* varInsert begins to probe for variable id *)
StartInsert(id) ==
    /\ ins' = id
    /\ slot' = HashSlot(vars'[id].name, vars'[id].scope, cap')

(* mutant of Put: the table keeps its slots when it grows *)
PutKeepsSlots(t, s) ==
    /\ vars' = Append(vars, [name |-> req.name, typee |-> t, scope |-> s])
    /\ cap' = Grown
    /\ map' = [i \in 0 .. cap' - 1 |-> IF i < cap THEN map[i] ELSE 0]
    /\ IF cap' # cap THEN StartInsert(1) ELSE StartInsert(Len(vars'))
    /\ pc' = "insert"
    /\ res' = Len(vars')
    /\ UNCHANGED <<tree, parser, req, at, n>>

(* putVar(state, req.name, t, value, s): a new capacity clears the table    *)
(* and inserts every variable again, else only the new one is inserted      *)
Put(t, s) ==
    /\ vars' = Append(vars, [name |-> req.name, typee |-> t, scope |-> s])
    /\ cap' = Grown
    /\ \/ cap' # cap /\ map' = [i \in 0 .. cap' - 1 |-> 0] /\ StartInsert(1)
       \/ cap' = cap /\ map' = map /\ StartInsert(Len(vars'))
    /\ pc' = "insert"
    /\ res' = Len(vars')
    /\ UNCHANGED <<tree, parser, req, at, n>>

(* while (vars_map[i]) of varInsert, which has no bound *)
InsertStep == /\ pc = "insert"
              /\ map[slot] # 0
              /\ slot' = NextSlot(slot)
              /\ UNCHANGED <<tab, tree, parser, pc, req, at, n, ins, res>>

InsertFree == /\ pc = "insert"
              /\ map[slot] = 0
              /\ map' = [map EXCEPT ![slot] = ins]
              /\ UNCHANGED <<vars, cap, tree, parser>>
              /\ \/ /\ ins < Len(vars)
                    /\ StartInsert(ins + 1)
                    /\ UNCHANGED <<pc, req, at, n, res>>
                 \/ /\ ins = Len(vars)
                    /\ Leave(IF req.op = "function" THEN "enter" ELSE "idle")

-----------------------------------------------------------------------------
(* scope_enter from inside a construct of the parser *)
ScopeEnter(kind) ==
    /\ Len(scopes) < MaxScopes
    /\ Len(frames) < MaxDepth
    /\ scopes' = Append(scopes, scope)
    /\ chains' = Append(chains, chains[scope + 1] \cup {Len(scopes)})
    /\ entered' = entered + 1
    /\ frames' = Append(frames, [kind |-> kind, ret |-> scope])
    /\ scope' = Len(scopes)

Top == frames[Len(frames)]
Inside(kind) == frames # <<>> /\ Top.kind = kind
Pop == frames' = SubSeq(frames, 1, Len(frames) - 1)

(* '{' and '}' of primary(); scope_leave goes to the parent *)
BlockOpen == /\ pc = "idle"
             /\ ScopeEnter("block")
             /\ UNCHANGED <<tab, probe, pc, req, res>>

(* mutant of BlockClose: back to the scope before, not to the parent *)
BlockClosePrevious ==
    /\ pc = "idle"
    /\ Inside("block")
    /\ scope' = scope - 1
    /\ Pop
    /\ UNCHANGED <<tab, probe, tree, pc, req, res>>

BlockClose == /\ pc = "idle"
              /\ Inside("block")
              /\ scope' = Parent(scope)
              /\ Pop
              /\ UNCHANGED <<tab, probe, tree, pc, req, res>>

(* the right side of '.' is parsed in scope 0, where identifiers are not    *)
(* declared; the scope is saved and put back                                *)
DotOpen == /\ pc = "idle"
           /\ Len(frames) < MaxDepth
           /\ frames' = Append(frames, [kind |-> "dot", ret |-> scope])
           /\ scope' = 0
           /\ UNCHANGED <<tab, probe, tree, pc, req, res>>

DotClose == /\ pc = "idle"
            /\ Inside("dot")
            /\ scope' = Top.ret
            /\ Pop
            /\ UNCHANGED <<tab, probe, tree, pc, req, res>>

(* The end of the parse: parse() starts resolve() and codegen() at scope 0, *)
(* each adds 1 for the module and for every scope of it, and nothing puts   *)
(* the scope back.  A resolve() that fails stops at any of them.            *)
EndModule == /\ pc = "idle"
             /\ frames = <<>>
             /\ scope' \in 1 .. 1 + entered
             /\ entered' = 0
             /\ UNCHANGED <<tab, probe, scopes, chains, frames, pc, req, res>>

(* eq() of the resolver gives a variable its type *)
AssignType == /\ pc = "idle"
              /\ frames = <<>>
              /\ \E id \in 1 .. Len(vars), t \in HostTypes \ {"null"} :
                    /\ vars[id].typee = "null"
                    /\ vars' = [vars EXCEPT ![id].typee = t]
              /\ UNCHANGED <<cap, map, probe, tree, parser, pc, req, res>>

-----------------------------------------------------------------------------
(* varLookup(state, nm, s) on behalf of the call op *)
StartLookup(op, nm, t, s) ==
    /\ pc = "idle"
    /\ pc' = "find"
    /\ req' = [op |-> op, name |-> nm, typee |-> t, from |-> s]
    /\ StartFind(nm, s)
    /\ UNCHANGED <<tab, tree, parser, ins, res>>

Room == Len(vars) < MaxVars

(* T_IDENTIFIER of primary(): declared at its first use *)
Identifier(nm) == /\ Room
                  /\ scope # 0
                  /\ StartLookup("identifier", nm, "null", scope)

(* T_AT of primary(), up to the scope of the arguments *)
Function(nm) == /\ Room
                /\ Len(scopes) < MaxScopes /\ Len(frames) < MaxDepth
                /\ StartLookup("function", nm, "null", scope)

(* cup_add_symbol and cup_get_symbol, by the host between two parses *)
AddSymbol(nm, t) == /\ Room
                    /\ frames = <<>>
                    /\ StartLookup("add", nm, t, 1)

GetSymbol(nm) == /\ frames = <<>>
                 /\ StartLookup("get", nm, "null", 1)

(* externalSymbol, by the parser *)
External(nm, t) == Room /\ StartLookup("external", nm, t, 1)

(* N_VARIABLE and T_THIS of resolve() and codegen(), which number the       *)
(* scopes of the module they walk 1, 2, ...                                 *)
Use(nm, s) == /\ frames = <<>>
              /\ StartLookup("use", nm, "null", s)

-----------------------------------------------------------------------------
(* what each call does with the answer of its varLookup *)
Found    == pc = "answer" /\ res # 0
NotFound == pc = "answer" /\ res = 0

DeclareIdentifier == /\ NotFound
                     /\ req.op \in {"identifier", "function"}
                     /\ Put("null", scope)
DeclareSymbol     == NotFound /\ req.op = "add" /\ Put(req.typee, 1)
DeclareExternal   == NotFound /\ req.op = "external" /\ Put(req.typee, 0)

(* the variable is there: an identifier is used, cup_add_symbol is -3 *)
Known == /\ Found
         /\ req.op \in {"identifier", "add"}
         /\ Return
         /\ UNCHANGED <<tab, tree, parser>>

(* cup_get_symbol hides variables of type void, as if NULL was the answer *)
Got == /\ pc = "answer"
       /\ req.op \in {"get", "use"}
       /\ Return
       /\ UNCHANGED <<tab, tree, parser>>

ExternalExists == Found /\ req.op = "external" /\ Exit

Redefined == /\ Found
             /\ req.op = "function"
             /\ vars[res].typee = "some"
             /\ Exit

FunctionKnown == /\ Found
                 /\ req.op = "function"
                 /\ vars[res].typee # "some"
                 /\ Leave("enter")
                 /\ UNCHANGED <<tab, tree, parser>>

EnterFunction == /\ pc = "enter"
                 /\ ScopeEnter("at")
                 /\ pc' = "idle"
                 /\ UNCHANGED <<tab, probe, req, res>>

(* After the arguments, cup_type() is called with a size that counts the    *)
(* void sentinel as an argument, and newtype() asserts that none is void.   *)
FunctionType == /\ pc = "idle"
                /\ Inside("at")
                /\ Exit

Ended == pc = "exited" /\ UNCHANGED allvars

-----------------------------------------------------------------------------
(* cup_new has made the scopes 0 and 1 and adds the symbol "$" *)
Init == /\ scopes = <<SIZE_MAX, 0>>
        /\ chains = <<{0}, {0, 1}>>
        /\ scope = 1
        /\ frames = <<>> /\ entered = 0
        /\ vars = <<>> /\ cap = 0 /\ map = <<>>
        /\ pc = "find"
        /\ req = [op |-> "add", name |-> This, typee |-> "some", from |-> 1]
        /\ at = 1 /\ slot = 0 /\ n = 0 /\ ins = 0
        /\ res = -1

(* the steps of a call once it is started *)
Step == \/ FindMiss \/ FindHit \/ FindStep
        \/ InsertStep \/ InsertFree
        \/ DeclareIdentifier \/ DeclareSymbol \/ DeclareExternal
        \/ Known \/ Got \/ ExternalExists
        \/ Redefined \/ FunctionKnown \/ EnterFunction

Begin == \/ BlockOpen \/ BlockClose \/ DotOpen \/ DotClose
         \/ EndModule \/ AssignType \/ FunctionType
         \/ \E nm \in Names : Identifier(nm) \/ Function(nm)
         \/ \E nm \in AllNames : GetSymbol(nm)
         \/ \E nm \in AllNames, t \in HostTypes : AddSymbol(nm, t)
         \/ \E nm \in Names, t \in HostTypes : External(nm, t)
         \/ \E nm \in AllNames, s \in 1 .. 1 + entered : Use(nm, s)

Next == Step \/ Begin \/ Ended

(* one thread runs a call to its end *)
Spec == Init /\ [][Next]_allvars /\ WF_allvars(Step)
-----------------------------------------------------------------------------
(* scopes only point to older scopes, below the root *)
TreeOK ==
    /\ scopes \in Seq(Int) /\ Len(scopes) \in 2 .. MaxScopes
    /\ scopes[1] = SIZE_MAX
    /\ \A s \in 1 .. Len(scopes) - 1 : Parent(s) \in 0 .. s - 1
    /\ scope \in ScopeIds
    /\ entered \in 0 .. Len(scopes) - 2
    /\ frames \in Seq(Frame)
    /\ \A k \in 1 .. Len(frames) : frames[k].ret \in ScopeIds

(* a slot of vars_map is free or has a variable, and vars has room *)
TabOK ==
    /\ vars \in Seq(Variable) /\ Len(vars) <= MaxVars
    /\ \A id \in 1 .. Len(vars) : vars[id].scope \in ScopeIds
    /\ cap \in {0} \cup Capacities /\ Len(vars) <= cap
    /\ map \in [0 .. cap - 1 -> 0 .. Len(vars)]

(* the call that runs, and the locals of its loops *)
CallOK ==
    /\ pc \in {"idle", "find", "answer", "insert", "enter", "exited"}
    /\ req \in Call
    /\ at \in ScopeIds
    /\ n \in 0 .. cap
    /\ slot \in Nat /\ (pc \in {"find", "insert"} /\ cap # 0 => slot < cap)
    /\ ins \in 0 .. Len(vars) /\ (pc = "insert" => ins # 0)
    /\ res \in -1 .. Len(vars) /\ (pc = "answer" => res # -1)
    /\ req.from \in ScopeIds
    /\ pc \in {"find", "answer"} /\ req.op \notin {"get", "use"} => Room

(* The vectors, the table and the locals of a call have the shapes that     *)
(* putVar, varLookup and scope_enter give them.                             *)
TypeOK == TreeOK /\ TabOK /\ CallOK

(* the variables that vars_map has to hold by now *)
Inserted == 1 .. (IF pc = "insert" THEN ins - 1 ELSE Len(vars))

HomeSlot(id) == HashSlot(vars[id].name, vars[id].scope, cap)

(* slot q is probed before slot p by a probe that begins at slot h *)
Before(h, q, p) == IF h <= p THEN h <= q /\ q < p ELSE h <= q \/ q < p

(* vars_map holds every variable once, and a probe that begins at the       *)
(* variable's own slot meets no free slot before it: varFind gives up at a  *)
(* free slot, so a variable behind one is lost.  In putVar's rebuild this   *)
(* holds of the variables inserted so far, and of the insertion under way.  *)
ProbePath ==
    /\ \A p \in 0 .. cap - 1 : map[p] # 0 => map[p] \in Inserted
    /\ \A id \in Inserted :
          \E p \in 0 .. cap - 1 :
             /\ \A q \in 0 .. cap - 1 : map[q] = id <=> q = p
             /\ \A q \in 0 .. cap - 1 : Before(HomeSlot(id), q, p) => map[q] # 0
    /\ pc = "insert" =>
          \A q \in 0 .. cap - 1 : Before(HomeSlot(ins), q, slot) => map[q] # 0

(* The parser leaves each construct in the scope it entered it from:        *)
(* scope_leave goes to the parent of the current scope, which is the scope  *)
(* at the matching '{' whatever was opened and closed in between, and its   *)
(* assertion that the root is never left holds.                             *)
InnerScope(k) == IF k = Len(frames) THEN scope ELSE frames[k + 1].ret
ScopeBalanced ==
    \A k \in 1 .. Len(frames) :
        IF frames[k].kind = "dot" THEN InnerScope(k) = 0
        ELSE /\ InnerScope(k) # 0
             /\ Parent(InnerScope(k)) = frames[k].ret

(* Every call ends, in a return or an exit: varFind's loop is bounded, and  *)
(* the unbounded loop of varInsert always has a free slot to meet, also     *)
(* when the table is about to be full.                                      *)
Terminates == pc \in {"find", "answer", "insert", "enter"} ~> pc \in {"idle", "exited"}

(* What the program sees of the table is a dictionary: every varLookup      *)
(* answers with the oldest binding of the innermost scope, and putVar only  *)
(* adds a binding after its caller looked and found none, whatever hashes   *)
(* collide and whenever the table is rebuilt.                               *)
Dict == INSTANCE SymDict
            WITH binds <- [id \in 1 .. Len(vars) |->
                             [name |-> vars[id].name, scope |-> vars[id].scope]],
                 answer <- IF res = -1 THEN [name |-> This, from |-> 0, id |-> -1]
                           ELSE [name |-> req.name, from |-> req.from, id |-> res]
ImplementsDict == Dict!Spec
=============================================================================
