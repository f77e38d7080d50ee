------------------------------ MODULE SymDict ------------------------------
(* What the symbol table of CUP promises its callers, without the hash      *)
(* table: the scopes that are visible from each scope, the bindings in the  *)
(* order they were made, and the answer of the last call.  varLookup        *)
(* answers with the binding of the innermost scope that has one, and putVar *)
(* is only called for a name that a lookup just failed to find.  SymTab is  *)
(* the table the code builds, and implements this module.                   *)
EXTENDS Integers, Sequences

CONSTANTS Names,        \* the identifiers a program or a host uses
          This,         \* the name "$", bound by cup_new before anything else
          MaxVars,      \* bound on the number of bindings
          MaxScopes     \* bound on the number of scopes

ASSUME DictAssumption ==
    /\ This \notin Names
    /\ MaxVars \in Nat \ {0}
    /\ MaxScopes \in Nat \ {0, 1}

VARIABLES chains,       \* chains[s + 1]: scope s and the scopes around it
          binds,        \* the bindings, oldest first
          answer        \* the last lookup and what it answered

dvars == <<chains, binds, answer>>

AllNames == Names \cup {This}
Binding  == [name : AllNames, scope : Nat]

(* the answer id = 0 is NULL; no answer is at hand when the caller went on *)
Answer   == [name : AllNames, from : Nat, id : Int]
NoAnswer == [name |-> This, from |-> 0, id |-> -1]

Scopes   == 0 .. Len(chains) - 1
Chain(s) == chains[s + 1]

-----------------------------------------------------------------------------
(* the bindings of n that are visible from scope s *)
Visible(n, s) == { i \in 1 .. Len(binds) :
                     binds[i].name = n /\ binds[i].scope \in Chain(s) }

(* varLookup prefers i to j: it is in a scope further in, or it is the      *)
(* older one of the same scope.  A scope is younger than the one around it. *)
Prefers(i, j) == \/ binds[j].scope < binds[i].scope
                 \/ binds[j].scope = binds[i].scope /\ i <= j

(* r is what varLookup(n, s) has to answer *)
Resolves(n, s, r) == \/ r = 0 /\ Visible(n, s) = {}
                     \/ /\ r \in Visible(n, s)
                        /\ \A j \in Visible(n, s) : Prefers(r, j)

-----------------------------------------------------------------------------
(* cup_new makes the root scope 0 and the global scope 1 *)
Init == /\ chains = <<{0}, {0, 1}>>
        /\ binds = <<>>
        /\ answer = NoAnswer

(* mutant of Enter: the new scope also sees the scope entered before it *)
EnterSeesSibling(p) ==
    /\ Len(chains) < MaxScopes
    /\ chains' = Append(chains, Chain(p) \cup {Len(chains) - 1, Len(chains)})
    /\ UNCHANGED <<binds, answer>>

(* scope_enter: a new scope below p *)
Enter(p) == /\ Len(chains) < MaxScopes
            /\ chains' = Append(chains, Chain(p) \cup {Len(chains)})
            /\ UNCHANGED <<binds, answer>>

(* varLookup from scope s *)
Find(n, s) == \E r \in 0 .. Len(binds) :
                 /\ Resolves(n, s, r)
                 /\ answer' = [name |-> n, from |-> s, id |-> r]
                 /\ UNCHANGED <<chains, binds>>

(* mutant of Declare: the caller keeps the NULL it had before putVar *)
DeclareKeepsNull(s) ==
    /\ Len(binds) < MaxVars
    /\ answer.id = 0
    /\ s = answer.from \/ (answer.from = 1 /\ s = 0)
    /\ binds' = Append(binds, [name |-> answer.name, scope |-> s])
    /\ UNCHANGED <<chains, answer>>

(* mutant of Declare: a binding of an outer scope does not stop it *)
DeclareShadows(s) ==
    /\ Len(binds) < MaxVars
    /\ answer.id = 0 \/ (answer.id > 0 /\ binds[answer.id].scope # s)
    /\ s = answer.from \/ (answer.from = 1 /\ s = 0)
    /\ binds' = Append(binds, [name |-> answer.name, scope |-> s])
    /\ answer' = [answer EXCEPT !.id = Len(binds) + 1]
    /\ UNCHANGED chains

(* putVar in scope s of the name that varLookup has just answered NULL for. *)
(* The parser and cup_add_symbol put where they looked; externalSymbol      *)
(* looks from the global scope and puts in the root.                        *)
Declare(s) ==
    /\ Len(binds) < MaxVars
    /\ answer.id = 0
    /\ s = answer.from \/ (answer.from = 1 /\ s = 0)
    /\ binds' = Append(binds, [name |-> answer.name, scope |-> s])
    /\ answer' = [answer EXCEPT !.id = Len(binds) + 1]
    /\ UNCHANGED chains

(* the caller is done with the answer *)
Take == /\ answer' = NoAnswer
        /\ UNCHANGED <<chains, binds>>

Next == \/ \E p \in Scopes : Enter(p)
        \/ \E n \in AllNames, s \in Scopes : Find(n, s)
        \/ \E s \in Scopes : Declare(s)
        \/ Take

Spec == Init /\ [][Next]_dvars

-----------------------------------------------------------------------------
(* A scope sees itself and older scopes, sees all that these see, and these *)
(* see each other in the order of their age (the chain has no branches);    *)
(* bindings are in scopes that exist and answers are bindings: scope_enter, *)
(* putVar and varLookup.                                                    *)
DictTypeOK == /\ chains \in Seq(SUBSET Nat)
              /\ 2 <= Len(chains) /\ Len(chains) <= MaxScopes
              /\ \A s \in Scopes : /\ s \in Chain(s)
                                   /\ Chain(s) \subseteq 0 .. s
                                   /\ \A t \in Chain(s) : Chain(t) \subseteq Chain(s)
                                   /\ \A t, u \in Chain(s) : t <= u => t \in Chain(u)
              /\ 0 \in Chain(1)
              /\ binds \in Seq(Binding)
              /\ Len(binds) <= MaxVars
              /\ \A i \in 1 .. Len(binds) : binds[i].scope \in Scopes
              /\ answer \in Answer
              /\ answer.from \in Scopes
              /\ answer.id \in -1 .. Len(binds)

(* An answer stays right while its caller acts on it: no scope is entered   *)
(* and no binding made in between that would change it.                     *)
AnswerHolds == answer # NoAnswer => Resolves(answer.name, answer.from, answer.id)

(* A binding only hides bindings that were made after it: putVar runs for a *)
(* name that no scope of the chain binds, so no binding is made below one   *)
(* that it would hide, and no scope binds a name twice.                     *)
NoLateShadow == \A i, j \in 1 .. Len(binds) :
                    i < j /\ binds[i].name = binds[j].name
                        => binds[i].scope \notin Chain(binds[j].scope)

(* A name that resolves at a scope resolves to the same variable ever       *)
(* after, whatever is declared later: the resolver and the code generator   *)
(* look a name up again, after the parser has finished the whole module.    *)
Stable == \A n \in AllNames, s \in Scopes, r \in 1 .. Len(binds) :
              Resolves(n, s, r) => Resolves(n, s, r)'
BindingStable == [][Stable]_dvars
=============================================================================
