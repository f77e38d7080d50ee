--------------------------- MODULE SymDict_proofs ---------------------------
(* Proofs about SymDict, for every set of names and every bound.            *)
EXTENDS SymDict, TLAPS

(* A scope sees all that the scopes it sees can see, so what is visible     *)
(* from one of them is visible from it: varLookup's walk to the root.       *)
LEMMA VisibleUp ==
    ASSUME DictTypeOK, NEW n \in AllNames, NEW s \in Scopes, NEW t \in Chain(s)
    PROVE  /\ t \in Scopes
           /\ Visible(n, t) \subseteq Visible(n, s)
<1>1. t \in 0 .. s
  BY DEF DictTypeOK
<1>2. t \in Scopes
  BY <1>1 DEF Scopes, DictTypeOK
<1>3. Chain(t) \subseteq Chain(s)
  BY DEF DictTypeOK
<1> QED
  BY <1>2, <1>3 DEF Visible

(* The shapes of the dictionary are preserved by scope_enter, varLookup and *)
(* putVar.                                                                  *)
THEOREM DictTyping == Spec => []DictTypeOK
<1>1. Init => DictTypeOK
  <2> SUFFICES ASSUME Init PROVE DictTypeOK
    OBVIOUS
  <2>1. chains = <<{0}, {0, 1}>> /\ binds = <<>> /\ answer = NoAnswer
    BY DEF Init
  <2>2. /\ Len(chains) = 2
        /\ chains[1] = {0} /\ chains[2] = {0, 1}
        /\ chains \in Seq(SUBSET Nat)
    BY <2>1
  <2>3. Scopes = {0, 1}
    BY <2>2 DEF Scopes
  <2>4. Chain(0) = {0} /\ Chain(1) = {0, 1}
    BY <2>2 DEF Chain
  <2>5. \A s \in Scopes : /\ s \in Chain(s)
                          /\ Chain(s) \subseteq 0 .. s
                          /\ \A t \in Chain(s) : Chain(t) \subseteq Chain(s)
                          /\ \A t, u \in Chain(s) : t <= u => t \in Chain(u)
    BY <2>3, <2>4
  <2>6. answer \in Answer /\ answer.from \in Scopes /\ answer.id = -1
    BY <2>1, <2>3 DEF NoAnswer, Answer, AllNames
  <2> QED
    BY <2>1, <2>2, <2>4, <2>5, <2>6, DictAssumption DEF DictTypeOK, Binding
<1>2. DictTypeOK /\ [Next]_dvars => DictTypeOK'
  <2> SUFFICES ASSUME DictTypeOK, [Next]_dvars PROVE DictTypeOK'
    OBVIOUS
  <2> USE DictAssumption
  <2>1. ASSUME NEW p \in Scopes, Enter(p) PROVE DictTypeOK'
    <3> PICK k : k = Len(chains)
      OBVIOUS
    <3>1. /\ k \in Nat /\ 2 <= k /\ k < MaxScopes
          /\ chains \in Seq(SUBSET Nat)
          /\ p \in 0 .. k - 1
          /\ Chain(p) \subseteq 0 .. p
      <4>1. /\ k \in Nat /\ 2 <= k /\ chains \in Seq(SUBSET Nat)
            /\ Chain(p) \subseteq 0 .. p
        BY DEF DictTypeOK
      <4> QED
        BY <2>1, <4>1 DEF Enter, Scopes
    <3>2. Chain(p) \cup {k} \in SUBSET Nat
      BY <3>1
    <3>3. /\ chains' \in Seq(SUBSET Nat)
          /\ Len(chains') = k + 1
          /\ \A i \in 1 .. k : chains'[i] = chains[i]
          /\ chains'[k + 1] = Chain(p) \cup {k}
      BY <2>1, <3>1, <3>2 DEF Enter
    <3>4. /\ Scopes = 0 .. k - 1
          /\ Scopes' = 0 .. k
          /\ \A s \in 0 .. k - 1 : Chain(s)' = Chain(s)
          /\ Chain(k)' = Chain(p) \cup {k}
      BY <3>1, <3>3 DEF Scopes, Chain
    <3>5. \A s \in 0 .. k - 1 : /\ s \in Chain(s)'
                                /\ Chain(s)' \subseteq 0 .. s
                                /\ \A t \in Chain(s)' : Chain(t)' \subseteq Chain(s)'
                                /\ \A t, u \in Chain(s)' : t <= u => t \in Chain(u)'
      <4> SUFFICES ASSUME NEW s \in 0 .. k - 1
                   PROVE  /\ s \in Chain(s)'
                          /\ Chain(s)' \subseteq 0 .. s
                          /\ \A t \in Chain(s)' : Chain(t)' \subseteq Chain(s)'
                          /\ \A t, u \in Chain(s)' : t <= u => t \in Chain(u)'
        OBVIOUS
      <4>1. /\ s \in Chain(s) /\ Chain(s) \subseteq 0 .. s
            /\ \A t \in Chain(s) : Chain(t) \subseteq Chain(s)
            /\ \A t, u \in Chain(s) : t <= u => t \in Chain(u)
        BY <3>4 DEF DictTypeOK
      <4>2. \A t \in Chain(s) : t \in 0 .. k - 1
        BY <4>1, <3>1
      <4> QED
        BY <3>4, <4>1, <4>2
    <3>6. /\ k \in Chain(k)'
          /\ Chain(k)' \subseteq 0 .. k
          /\ \A t \in Chain(k)' : Chain(t)' \subseteq Chain(k)'
          /\ \A t, u \in Chain(k)' : t <= u => t \in Chain(u)'
      <4>1. \A t \in Chain(p) : /\ t \in 0 .. k - 1 /\ Chain(t) \subseteq Chain(p)
                                /\ \A u \in Chain(p) : t <= u => t \in Chain(u)
        BY <3>1, <3>4 DEF DictTypeOK
      <4> QED
        BY <3>1, <3>4, <4>1
    <3>7. \A s \in Scopes' : /\ s \in Chain(s)'
                             /\ Chain(s)' \subseteq 0 .. s
                             /\ \A t \in Chain(s)' : Chain(t)' \subseteq Chain(s)'
                             /\ \A t, u \in Chain(s)' : t <= u => t \in Chain(u)'
      BY <3>1, <3>4, <3>5, <3>6
    <3>8. 0 \in Chain(1)'
      BY <3>1, <3>4 DEF DictTypeOK
    <3>9. /\ binds' = binds /\ answer' = answer
      BY <2>1 DEF Enter
    <3>10. /\ \A i \in 1 .. Len(binds) : binds[i].scope \in Scopes'
           /\ answer.from \in Scopes'
      BY <3>1, <3>4 DEF DictTypeOK
    <3> QED
      BY <3>1, <3>3, <3>7, <3>8, <3>9, <3>10 DEF DictTypeOK
  <2>2. ASSUME NEW n \in AllNames, NEW s \in Scopes, Find(n, s) PROVE DictTypeOK'
    <3>1. PICK r \in 0 .. Len(binds) :
                 /\ answer' = [name |-> n, from |-> s, id |-> r]
                 /\ UNCHANGED <<chains, binds>>
      BY <2>2 DEF Find
    <3>2. answer' \in Answer /\ answer'.from = s /\ answer'.id = r
      BY <3>1 DEF Answer, Scopes
    <3>3. Scopes' = Scopes /\ \A t : Chain(t)' = Chain(t)
      BY <3>1 DEF Scopes, Chain
    <3> QED
      BY <3>1, <3>2, <3>3 DEF DictTypeOK
  <2>3. ASSUME NEW s \in Scopes, Declare(s) PROVE DictTypeOK'
    <3> PICK n : n = answer.name
      OBVIOUS
    <3>1. /\ binds \in Seq(Binding) /\ Len(binds) < MaxVars
          /\ binds' = Append(binds, [name |-> n, scope |-> s])
          /\ answer' = [answer EXCEPT !.id = Len(binds) + 1]
          /\ chains' = chains
      BY <2>3 DEF Declare, DictTypeOK
    <3>2. s \in Nat /\ n \in AllNames
      BY DEF Scopes, DictTypeOK, Answer
    <3>3. [name |-> n, scope |-> s] \in Binding
      BY <3>2 DEF Binding
    <3>4. /\ binds' \in Seq(Binding)
          /\ Len(binds') = Len(binds) + 1
          /\ \A i \in 1 .. Len(binds) : binds'[i] = binds[i]
          /\ binds'[Len(binds) + 1] = [name |-> n, scope |-> s]
      BY <3>1, <3>3
    <3>5. Scopes' = Scopes /\ \A t : Chain(t)' = Chain(t)
      BY <3>1 DEF Scopes, Chain
    <3>6. \A i \in 1 .. Len(binds') : binds'[i].scope \in Scopes
      <4> SUFFICES ASSUME NEW i \in 1 .. Len(binds') PROVE binds'[i].scope \in Scopes
        OBVIOUS
      <4>1. CASE i \in 1 .. Len(binds)
        BY <3>4, <4>1 DEF DictTypeOK
      <4>2. CASE i \notin 1 .. Len(binds)
        <5>1. i = Len(binds) + 1
          BY <3>1, <3>4, <4>2
        <5> QED
          BY <3>4, <5>1
      <4> QED
        BY <4>1, <4>2
    <3>7. /\ answer' \in Answer /\ answer'.from = answer.from
          /\ answer'.id = Len(binds) + 1
      BY <3>1 DEF DictTypeOK, Answer
    <3> QED
      BY <3>1, <3>4, <3>5, <3>6, <3>7 DEF DictTypeOK
  <2>4. 0 \in Scopes /\ 1 \in Scopes
    BY DEF DictTypeOK, Scopes
  <2>5. ASSUME UNCHANGED <<chains, binds>>, answer' \in {answer, NoAnswer}
        PROVE  DictTypeOK'
    <3>1. Scopes' = Scopes /\ \A t : Chain(t)' = Chain(t)
      BY <2>5 DEF Scopes, Chain
    <3>2. NoAnswer \in Answer /\ NoAnswer.from \in Scopes /\ NoAnswer.id = -1
      BY <2>4 DEF NoAnswer, Answer, AllNames
    <3> QED
      BY <2>5, <3>1, <3>2 DEF DictTypeOK
  <2> QED
    BY <2>1, <2>2, <2>3, <2>5 DEF Next, Take, dvars
<1> QED
  BY <1>1, <1>2, PTL DEF Spec

-----------------------------------------------------------------------------
(* A step keeps the names and scopes of the bindings there are, and what    *)
(* the scopes there are can see: putVar and scope_enter only append.        *)
LEMMA OnlyGrows ==
    ASSUME DictTypeOK, [Next]_dvars
    PROVE  /\ Len(binds) <= Len(binds') /\ Len(binds') \in Nat
           /\ \A i \in 1 .. Len(binds) : binds'[i] = binds[i]
           /\ \A s \in Scopes : s \in Scopes' /\ Chain(s)' = Chain(s)
<1>0. /\ binds \in Seq(Binding) /\ Len(binds) \in Nat
      /\ chains \in Seq(SUBSET Nat) /\ Len(chains) \in Nat
  BY DEF DictTypeOK
<1>1. ASSUME NEW p \in Scopes, Enter(p)
      PROVE  /\ binds' = binds
             /\ \A s \in Scopes : s \in Scopes' /\ Chain(s)' = Chain(s)
  <2>1. /\ Len(chains') = Len(chains) + 1
        /\ \A i \in 1 .. Len(chains) : chains'[i] = chains[i]
    BY <1>0, <1>1 DEF Enter
  <2> QED
    BY <1>0, <1>1, <2>1 DEF Enter, Scopes, Chain
<1>2. ASSUME NEW n, NEW s, Find(n, s)
      PROVE  binds' = binds /\ chains' = chains
  BY <1>2 DEF Find
<1>3. ASSUME NEW s, Declare(s)
      PROVE  /\ chains' = chains
             /\ Len(binds') = Len(binds) + 1
             /\ \A i \in 1 .. Len(binds) : binds'[i] = binds[i]
  BY <1>0, <1>3 DEF Declare
<1>4. chains' = chains => \A s \in Scopes : s \in Scopes' /\ Chain(s)' = Chain(s)
  BY DEF Scopes, Chain
<1> QED
  BY <1>0, <1>1, <1>2, <1>3, <1>4 DEF Next, Take, dvars

(* putVar is called in a scope that the failed lookup has visited, so the   *)
(* name was visible neither from where the caller looked nor from there.    *)
LEMMA Undeclared ==
    ASSUME DictTypeOK, AnswerHolds, NEW s \in Scopes, Declare(s)
    PROVE  /\ s \in Chain(answer.from)
           /\ Visible(answer.name, answer.from) = {}
           /\ Visible(answer.name, s) = {}
<1>1. Resolves(answer.name, answer.from, 0)
  BY DEF Declare, AnswerHolds, NoAnswer
<1>2. Visible(answer.name, answer.from) = {}
  BY <1>1 DEF Resolves, Visible
<1>3. s \in Chain(answer.from)
  BY DEF Declare, DictTypeOK
<1>4. answer.name \in AllNames /\ answer.from \in Scopes
  BY DEF DictTypeOK, Answer
<1> QED
  BY <1>2, <1>3, <1>4, VisibleUp

(* Every binding is made by putVar.                                         *)
LEMMA OnlyDeclares ==
    ASSUME Next, binds' # binds
    PROVE  \E s \in Scopes : Declare(s)
  BY DEF Next, Enter, Find, Take

LEMMA NewBinding ==
    ASSUME DictTypeOK, NEW s \in Scopes, Declare(s)
    PROVE  /\ chains' = chains
           /\ Len(binds') = Len(binds) + 1 /\ Len(binds) \in Nat
           /\ \A i \in 1 .. Len(binds) : binds'[i] = binds[i]
           /\ binds'[Len(binds) + 1] = [name |-> answer.name, scope |-> s]
  BY DEF DictTypeOK, Declare

-----------------------------------------------------------------------------
(* An answer stays right until its caller has acted on it.                  *)
THEOREM AnswersHold == Spec => []AnswerHolds
<1>1. Init => AnswerHolds
  BY DEF Init, AnswerHolds
<1>2. DictTypeOK /\ AnswerHolds /\ [Next]_dvars => AnswerHolds'
  <2> SUFFICES ASSUME DictTypeOK, AnswerHolds, [Next]_dvars PROVE AnswerHolds'
    OBVIOUS
  <2> USE DEF AnswerHolds, Resolves, Prefers
  <2>1. ASSUME UNCHANGED <<binds, answer>> PROVE AnswerHolds'
    <3>1. Chain(answer.from)' = Chain(answer.from)
      <4> PICK f : f = answer.from
        OBVIOUS
      <4>1. f \in Scopes /\ answer'.from = f
        BY <2>1 DEF DictTypeOK
      <4>2. Chain(f)' = Chain(f)
        BY <4>1, OnlyGrows
      <4> QED
        BY <4>1, <4>2 DEF Chain
    <3>2. Visible(answer.name, answer.from)' = Visible(answer.name, answer.from)
      BY <2>1, <3>1 DEF Visible
    <3> QED
      BY <2>1, <3>2
  <2>2. ASSUME NEW n \in AllNames, NEW s \in Scopes, Find(n, s) PROVE AnswerHolds'
    <3>1. PICK r \in 0 .. Len(binds) :
                 /\ Resolves(n, s, r)
                 /\ answer' = [name |-> n, from |-> s, id |-> r]
                 /\ UNCHANGED <<chains, binds>>
      BY <2>2 DEF Find
    <3>2. answer'.name = n /\ answer'.from = s /\ answer'.id = r
      BY <3>1
    <3>3. Visible(answer.name, answer.from)' = Visible(n, s)
      BY <3>1, <3>2 DEF Visible, Chain
    <3> QED
      BY <3>1, <3>2, <3>3
  <2>3. ASSUME NEW s \in Scopes, Declare(s) PROVE AnswerHolds'
    <3>1. PICK k : k = Len(binds) + 1
      OBVIOUS
    <3>2. /\ chains' = chains /\ Len(binds') = k /\ k \in Nat \ {0}
          /\ \A i \in 1 .. k - 1 : binds'[i] = binds[i]
          /\ binds'[k] = [name |-> answer.name, scope |-> s]
      BY <2>3, <3>1, NewBinding
    <3>3. answer'.name = answer.name /\ answer'.from = answer.from /\ answer'.id = k
      BY <2>3, <3>1 DEF Declare, DictTypeOK, Answer
    <3>4. Chain(answer.from)' = Chain(answer.from)
      BY <3>2, <3>3 DEF Chain
    <3>5. s \in Chain(answer.from) /\ Visible(answer.name, answer.from) = {}
      BY <2>3, Undeclared
    <3>6. \A i \in 1 .. k : /\ binds'[i].name = answer.name
                            /\ binds'[i].scope \in Chain(answer.from)
                            <=> i = k
      BY <3>1, <3>2, <3>5 DEF Visible
    <3>7. Visible(answer.name, answer.from)' = {k}
      BY <3>2, <3>3, <3>4, <3>6 DEF Visible
    <3> QED
      BY <3>2, <3>3, <3>7
  <2>4. CASE Take
    BY <2>4 DEF Take
  <2> QED
    BY <2>1, <2>2, <2>3, <2>4 DEF Next, Enter, dvars
<1> QED
  BY <1>1, <1>2, DictTyping, PTL DEF Spec

(* No program and no host makes a binding that an older one hides, and no   *)
(* scope binds a name twice: putVar only runs after a failed varLookup.     *)
THEOREM NoLateShadowing == Spec => []NoLateShadow
<1>1. Init => NoLateShadow
  BY DEF Init, NoLateShadow
<1>2. DictTypeOK /\ AnswerHolds /\ NoLateShadow /\ [Next]_dvars => NoLateShadow'
  <2> SUFFICES ASSUME DictTypeOK, AnswerHolds, NoLateShadow, [Next]_dvars,
                      NEW i \in 1 .. Len(binds'), NEW j \in 1 .. Len(binds'),
                      i < j, (binds[i].name = binds[j].name)'
               PROVE  (binds[i].scope \notin Chain(binds[j].scope))'
    BY DEF NoLateShadow
  <2>0. Len(binds) \in Nat /\ binds \in Seq(Binding)
    BY DEF DictTypeOK
  <2>1. CASE j \in 1 .. Len(binds)
    <3>1. i \in 1 .. Len(binds)
      BY <2>0, <2>1
    <3>2. binds'[i] = binds[i] /\ binds'[j] = binds[j]
      BY <2>1, <3>1, OnlyGrows
    <3>3. Chain(binds[j].scope)' = Chain(binds[j].scope)
      <4> PICK s : s = binds[j].scope
        OBVIOUS
      <4>1. s \in Scopes /\ binds'[j].scope = s
        BY <2>1, <3>2 DEF DictTypeOK
      <4>2. Chain(s)' = Chain(s)
        BY <4>1, OnlyGrows
      <4> QED
        BY <4>1, <4>2 DEF Chain
    <3> QED
      BY <2>1, <3>1, <3>2, <3>3 DEF NoLateShadow
  <2>2. CASE j \notin 1 .. Len(binds)
    <3>1. PICK s \in Scopes : Declare(s)
      BY <2>2, OnlyDeclares DEF dvars
    <3>2. /\ chains' = chains /\ Len(binds') = Len(binds) + 1
          /\ \A q \in 1 .. Len(binds) : binds'[q] = binds[q]
          /\ binds'[Len(binds) + 1] = [name |-> answer.name, scope |-> s]
      BY <3>1, NewBinding
    <3>3. j = Len(binds) + 1 /\ i \in 1 .. Len(binds)
      BY <2>0, <2>2, <3>2
    <3>4. Visible(answer.name, s) = {}
      BY <3>1, Undeclared
    <3>5. binds[i].scope \notin Chain(s)
      BY <3>2, <3>3, <3>4 DEF Visible
    <3> QED
      BY <3>2, <3>3, <3>5 DEF Chain
  <2> QED
    BY <2>1, <2>2
<1> QED
  BY <1>1, <1>2, DictTyping, AnswersHold, PTL DEF Spec

(* What a name means at a scope never changes once it means something: the  *)
(* passes after the parser find the variables that the parser found.        *)
THEOREM BindingsAreStable == Spec => BindingStable
<1>1. DictTypeOK /\ AnswerHolds /\ [Next]_dvars => [Stable]_dvars
  <2> SUFFICES ASSUME DictTypeOK, AnswerHolds, [Next]_dvars,
                      NEW n \in AllNames, NEW s \in Scopes, NEW r \in 1 .. Len(binds),
                      Resolves(n, s, r)
               PROVE  Resolves(n, s, r)'
    BY DEF Stable
  <2>0. Len(binds) \in Nat /\ binds \in Seq(Binding)
    BY DEF DictTypeOK
  <2>1. r \in Visible(n, s) /\ \A j \in Visible(n, s) : Prefers(r, j)
    BY DEF Resolves
  <2>2. /\ Len(binds) <= Len(binds') /\ Len(binds') \in Nat
        /\ \A i \in 1 .. Len(binds) : binds'[i] = binds[i]
        /\ Chain(s)' = Chain(s)
    BY OnlyGrows
  <2>3. r \in 1 .. Len(binds') /\ binds'[r] = binds[r]
    BY <2>0, <2>2
  <2>4. r \in Visible(n, s)'
    BY <2>1, <2>2, <2>3 DEF Visible
  <2>5. ASSUME NEW j \in Visible(n, s)', j \in 1 .. Len(binds)
        PROVE  Prefers(r, j)'
    <3>1. binds'[j] = binds[j]
      BY <2>2, <2>5
    <3>2. j \in Visible(n, s)
      BY <2>2, <2>5, <3>1 DEF Visible
    <3> QED
      BY <2>1, <2>3, <3>1, <3>2 DEF Prefers
  <2>6. ASSUME NEW j \in Visible(n, s)', j \notin 1 .. Len(binds)
        PROVE  Prefers(r, j)'
    <3>1. j \in 1 .. Len(binds') /\ binds' # binds
      BY <2>6 DEF Visible
    <3>2. PICK t \in Scopes : Declare(t)
      BY <3>1, OnlyDeclares DEF dvars
    <3>3. /\ Len(binds') = Len(binds) + 1
          /\ binds'[Len(binds) + 1] = [name |-> answer.name, scope |-> t]
      BY <3>2, NewBinding
    <3>4. j = Len(binds) + 1
      BY <2>0, <2>6, <3>1, <3>3
    <3>5. answer.name = n /\ t \in Chain(s)
      BY <2>2, <2>6, <3>3, <3>4 DEF Visible
    <3>6. Visible(n, t) = {}
      BY <3>2, <3>5, Undeclared
    <3>7. binds[r].scope \notin Chain(t)
      BY <2>1, <3>6 DEF Visible
    <3>8. binds[r].scope \in Chain(s)
      BY <2>1 DEF Visible
    <3>9. binds[r].scope \in Nat /\ t \in Nat
      <4>1. binds[r] \in Binding
        BY <2>0
      <4> QED
        BY <4>1 DEF Binding, Scopes
    <3>10. t < binds[r].scope
      BY <3>5, <3>7, <3>8, <3>9 DEF DictTypeOK
    <3> QED
      BY <2>3, <3>3, <3>4, <3>10 DEF Prefers
  <2> QED
    BY <2>4, <2>5, <2>6 DEF Resolves
<1> QED
  BY <1>1, DictTyping, AnswersHold, PTL DEF Spec, BindingStable
=============================================================================
