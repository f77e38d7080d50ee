---------------------------- MODULE SymTab_proofs ----------------------------
(* Proofs about SymTab, for every hash, every set of names and every bound. *)
EXTENDS SymTab, TLAPS

USE TabAssumption

(* the state of the scope tree and of the parser's recursion *)
TreeInv == TreeOK /\ ScopeBalanced
treevars == <<scopes, scope, entered, frames>>

(* scope_enter, called in any scope, keeps the tree and the parser's nesting *)
LEMMA EnterKeepsTree ==
    ASSUME TreeInv, NEW kind \in {"block", "at"}, ScopeEnter(kind)
    PROVE  TreeInv'
<1> PICK k : k = Len(scopes)
  OBVIOUS
<1> PICK d : d = Len(frames)
  OBVIOUS
<1>1. /\ scopes \in Seq(Int) /\ k \in Nat /\ k >= 2 /\ k < MaxScopes
      /\ frames \in Seq(Frame) /\ d \in Nat
      /\ scope \in 0 .. k - 1 /\ scope \in Int
      /\ entered \in 0 .. k - 2
  BY DEF TreeInv, TreeOK, ScopeIds, ScopeEnter
<1>2. [kind |-> kind, ret |-> scope] \in Frame
  BY <1>1 DEF Frame
<1>3. /\ scopes' \in Seq(Int) /\ Len(scopes') = k + 1
      /\ \A i \in 1 .. k : scopes'[i] = scopes[i]
      /\ scopes'[k + 1] = scope
      /\ scope' = k /\ entered' = entered + 1
  BY <1>1 DEF ScopeEnter
<1>4. /\ frames' \in Seq(Frame) /\ Len(frames') = d + 1
      /\ \A i \in 1 .. d : frames'[i] = frames[i]
      /\ frames'[d + 1] = [kind |-> kind, ret |-> scope]
  BY <1>1, <1>2 DEF ScopeEnter
<1>5. ScopeIds = 0 .. k - 1 /\ ScopeIds' = 0 .. k
  BY <1>1, <1>3 DEF ScopeIds
<1>6. /\ \A s \in 0 .. k - 1 : Parent(s)' = Parent(s)
      /\ Parent(k)' = scope
  BY <1>1, <1>3 DEF Parent
<1>7. \A s \in 1 .. k : Parent(s)' \in 0 .. s - 1
  <2>1. \A s \in 1 .. k - 1 : Parent(s) \in 0 .. s - 1
    BY DEF TreeInv, TreeOK
  <2> SUFFICES ASSUME NEW s \in 1 .. k PROVE Parent(s)' \in 0 .. s - 1
    OBVIOUS
  <2>2. CASE s = k
    BY <1>1, <1>6, <2>2
  <2>3. CASE s \in 1 .. k - 1
    BY <1>1, <1>6, <2>1, <2>3
  <2> QED
    BY <1>1, <2>2, <2>3
<1>8. \A i \in 1 .. d + 1 : frames'[i].ret \in ScopeIds'
  <2>1. \A i \in 1 .. d : frames[i].ret \in ScopeIds
    BY DEF TreeInv, TreeOK
  <2> SUFFICES ASSUME NEW i \in 1 .. d + 1 PROVE frames'[i].ret \in ScopeIds'
    OBVIOUS
  <2>2. CASE i = d + 1
    BY <1>1, <1>4, <1>5, <2>2
  <2>3. CASE i \in 1 .. d
    BY <1>1, <1>4, <1>5, <2>1, <2>3
  <2> QED
    BY <1>1, <2>2, <2>3
<1>9. TreeOK'
  <2>1. scopes'[1] = SIZE_MAX
    <3>1. scopes[1] = SIZE_MAX
      BY DEF TreeInv, TreeOK
    <3>2. 1 \in 1 .. k
      BY <1>1
    <3> QED
      BY <1>3, <3>1, <3>2
  <2>2. Len(scopes') \in 2 .. MaxScopes /\ entered' \in 0 .. Len(scopes') - 2
    BY <1>1, <1>3
  <2>3. Len(scopes') - 1 = k /\ scope' \in ScopeIds'
    BY <1>1, <1>3, <1>5
  <2> QED
    BY <1>3, <1>4, <1>7, <1>8, <2>1, <2>2, <2>3 DEF TreeOK
<1>10. ScopeBalanced'
  <2> SUFFICES ASSUME NEW i \in 1 .. d + 1
               PROVE  IF frames'[i].kind = "dot" THEN InnerScope(i)' = 0
                      ELSE /\ InnerScope(i)' # 0
                           /\ Parent(InnerScope(i))' = frames'[i].ret
    BY <1>4 DEF ScopeBalanced
  <2>1. CASE i = d + 1
    <3>1. InnerScope(i)' = k
      BY <1>3, <1>4, <2>1 DEF InnerScope
    <3>2. Parent(InnerScope(i))' = scope
      BY <1>6, <3>1
    <3> QED
      BY <1>1, <1>4, <2>1, <3>1, <3>2
  <2>2. CASE i \in 1 .. d
    <3>1. InnerScope(i)' = InnerScope(i) /\ InnerScope(i) \in 0 .. k - 1
      <4>1. CASE i = d
        BY <1>1, <1>4, <4>1 DEF InnerScope
      <4>2. CASE i < d
        <5>1. /\ i + 1 \in 1 .. d /\ i # d /\ i # d + 1
              /\ i # Len(frames) /\ i # Len(frames')
          BY <1>1, <1>4, <2>2, <4>2
        <5>2. frames'[i + 1] = frames[i + 1]
          BY <1>4, <5>1
        <5>3. InnerScope(i)' = frames[i + 1].ret /\ InnerScope(i) = frames[i + 1].ret
          BY <5>1, <5>2 DEF InnerScope
        <5>4. frames[i + 1].ret \in 0 .. k - 1
          BY <1>1, <5>1 DEF TreeInv, TreeOK, ScopeIds
        <5> QED
          BY <5>3, <5>4
      <4> QED
        BY <1>1, <2>2, <4>1, <4>2
    <3>2. Parent(InnerScope(i))' = Parent(InnerScope(i))
      BY <1>6, <3>1 DEF Parent
    <3> QED
      BY <1>4, <2>2, <3>1, <3>2 DEF TreeInv, ScopeBalanced
  <2> QED
    BY <1>1, <2>1, <2>2
<1> QED
  BY <1>9, <1>10 DEF TreeInv

(* '}' and the end of a member access: the innermost construct is left for  *)
(* the scope it was entered from                                            *)
LEMMA PopKeepsTree ==
    ASSUME TreeInv, frames # <<>>, Pop, scope' = Top.ret,
           UNCHANGED <<scopes, entered>>
    PROVE  TreeInv'
<1> PICK d : d = Len(frames)
  OBVIOUS
<1>1. frames \in Seq(Frame) /\ d \in Nat /\ d >= 1
  BY DEF TreeInv, TreeOK
<1>2. /\ frames' \in Seq(Frame) /\ Len(frames') = d - 1
      /\ \A i \in 1 .. d - 1 : frames'[i] = frames[i]
  BY <1>1 DEF Pop
<1>3. scope' = frames[d].ret /\ frames[d].ret \in ScopeIds
  BY <1>1 DEF Top, TreeInv, TreeOK
<1>4. ScopeIds' = ScopeIds /\ \A s : Parent(s)' = Parent(s)
  BY DEF ScopeIds, Parent
<1>5. TreeOK'
  BY <1>1, <1>2, <1>3, <1>4 DEF TreeInv, TreeOK
<1>6. ScopeBalanced'
  <2> SUFFICES ASSUME NEW i \in 1 .. d - 1
               PROVE  IF frames'[i].kind = "dot" THEN InnerScope(i)' = 0
                      ELSE /\ InnerScope(i)' # 0
                           /\ Parent(InnerScope(i))' = frames'[i].ret
    BY <1>2 DEF ScopeBalanced
  <2>1. InnerScope(i)' = InnerScope(i)
    BY <1>1, <1>2, <1>3 DEF InnerScope
  <2>2. Parent(InnerScope(i))' = Parent(InnerScope(i))
    BY <2>1 DEF Parent
  <2> QED
    BY <1>1, <1>2, <2>1, <2>2 DEF TreeInv, ScopeBalanced
<1> QED
  BY <1>5, <1>6 DEF TreeInv

(* the right side of a '.' *)
LEMMA DotKeepsTree ==
    ASSUME TreeInv, DotOpen
    PROVE  TreeInv'
<1> PICK d : d = Len(frames)
  OBVIOUS
<1>1. /\ frames \in Seq(Frame) /\ d \in Nat
      /\ scope \in ScopeIds /\ 0 \in ScopeIds /\ ScopeIds \subseteq Nat
  BY DEF TreeInv, TreeOK, ScopeIds
<1>2. [kind |-> "dot", ret |-> scope] \in Frame
  BY <1>1 DEF Frame
<1>3. /\ frames' \in Seq(Frame) /\ Len(frames') = d + 1
      /\ \A i \in 1 .. d : frames'[i] = frames[i]
      /\ frames'[d + 1] = [kind |-> "dot", ret |-> scope]
      /\ scope' = 0 /\ scopes' = scopes /\ entered' = entered
  BY <1>1, <1>2 DEF DotOpen, tree
<1>4. ScopeIds' = ScopeIds /\ \A s : Parent(s)' = Parent(s)
  BY <1>3 DEF ScopeIds, Parent
<1>5. \A i \in 1 .. d + 1 : frames'[i].ret \in ScopeIds
  <2> SUFFICES ASSUME NEW i \in 1 .. d + 1 PROVE frames'[i].ret \in ScopeIds
    OBVIOUS
  <2>1. CASE i = d + 1
    BY <1>1, <1>3, <2>1
  <2>2. CASE i \in 1 .. d
    BY <1>3, <2>2 DEF TreeInv, TreeOK
  <2> QED
    BY <1>1, <2>1, <2>2
<1>6. TreeOK'
  BY <1>1, <1>3, <1>4, <1>5 DEF TreeInv, TreeOK
<1>7. ScopeBalanced'
  <2> SUFFICES ASSUME NEW i \in 1 .. d + 1
               PROVE  IF frames'[i].kind = "dot" THEN InnerScope(i)' = 0
                      ELSE /\ InnerScope(i)' # 0
                           /\ Parent(InnerScope(i))' = frames'[i].ret
    BY <1>3 DEF ScopeBalanced
  <2>1. CASE i = d + 1
    BY <1>3, <2>1 DEF InnerScope
  <2>2. CASE i \in 1 .. d
    <3>1. InnerScope(i)' = InnerScope(i)
      BY <1>1, <1>3, <2>2 DEF InnerScope
    <3>2. Parent(InnerScope(i))' = Parent(InnerScope(i))
      BY <1>3, <3>1 DEF Parent
    <3> QED
      BY <1>3, <2>2, <3>1, <3>2 DEF TreeInv, ScopeBalanced
  <2> QED
    BY <1>1, <2>1, <2>2
<1> QED
  BY <1>6, <1>7 DEF TreeInv

LEMMA InitTree == Init => TreeInv
<1> SUFFICES ASSUME Init PROVE TreeInv
  OBVIOUS
<1>1. /\ scopes = <<SIZE_MAX, 0>> /\ scope = 1 /\ frames = <<>> /\ entered = 0
  BY DEF Init
<1>2. /\ scopes \in Seq(Int) /\ Len(scopes) = 2
      /\ scopes[1] = SIZE_MAX /\ scopes[2] = 0
  BY <1>1 DEF SIZE_MAX
<1>3. \A s \in 1 .. Len(scopes) - 1 : Parent(s) \in 0 .. s - 1
  BY <1>2 DEF Parent
<1> QED
  BY <1>1, <1>2, <1>3 DEF TreeInv, TreeOK, ScopeBalanced, ScopeIds

LEMMA SameTree ==
    ASSUME TreeInv, UNCHANGED treevars
    PROVE  TreeInv'
<1>1. ScopeIds' = ScopeIds /\ \A s : Parent(s)' = Parent(s)
  BY DEF treevars, ScopeIds, Parent
<1>2. \A k : InnerScope(k)' = InnerScope(k)
  BY DEF treevars, InnerScope
<1>3. TreeOK'
  BY <1>1 DEF treevars, TreeInv, TreeOK
<1>4. ScopeBalanced'
  <2> SUFFICES ASSUME NEW k \in 1 .. Len(frames)
               PROVE  (IF frames[k].kind = "dot" THEN InnerScope(k) = 0
                       ELSE /\ InnerScope(k) # 0
                            /\ Parent(InnerScope(k)) = frames[k].ret)'
    BY DEF ScopeBalanced, treevars
  <2>1. Parent(InnerScope(k))' = Parent(InnerScope(k))
    BY <1>2 DEF treevars, Parent
  <2> QED
    BY <1>2, <2>1 DEF treevars, TreeInv, ScopeBalanced
<1> QED
  BY <1>3, <1>4 DEF TreeInv

(* Between two modules the scope is a number the passes have counted to,    *)
(* which is a scope of the module they walked.                              *)
LEMMA EndKeepsTree ==
    ASSUME TreeInv, EndModule
    PROVE  TreeInv'
<1>1. /\ frames = <<>> /\ frames' = frames /\ scopes' = scopes
      /\ scope' \in 1 .. 1 + entered /\ entered' = 0
  BY DEF EndModule
<1>2. ScopeIds' = ScopeIds /\ \A s : Parent(s)' = Parent(s)
  BY <1>1 DEF ScopeIds, Parent
<1>3. scope' \in ScopeIds
  BY <1>1 DEF TreeInv, TreeOK, ScopeIds
<1>4. TreeOK'
  BY <1>1, <1>2, <1>3 DEF TreeInv, TreeOK
<1> QED
  BY <1>1, <1>4 DEF TreeInv, ScopeBalanced

LEMMA StepKeepsTree == TreeInv /\ [Next]_allvars => TreeInv'
<1> SUFFICES ASSUME TreeInv, [Next]_allvars PROVE TreeInv'
  OBVIOUS
<1> USE DEF treevars, tree, parser, Return, Leave, Exit, Answer, Put, StartFind
<1>1. ASSUME FindMiss PROVE TreeInv'
  BY <1>1, SameTree DEF FindMiss, NotInScope
<1>2. ASSUME FindHit \/ FindStep PROVE TreeInv'
  BY <1>2, SameTree DEF FindHit, FindStep
<1>3. ASSUME InsertStep \/ InsertFree PROVE TreeInv'
  BY <1>3, SameTree DEF InsertStep, InsertFree
<1>4. ASSUME DeclareIdentifier \/ DeclareSymbol \/ DeclareExternal PROVE TreeInv'
  BY <1>4, SameTree DEF DeclareIdentifier, DeclareSymbol, DeclareExternal
<1>5. ASSUME Known \/ Got \/ FunctionKnown PROVE TreeInv'
  BY <1>5, SameTree DEF Known, Got, FunctionKnown
<1>6. ASSUME ExternalExists \/ Redefined \/ FunctionType PROVE TreeInv'
  BY <1>6, SameTree DEF ExternalExists, Redefined, FunctionType
<1>7. ASSUME EnterFunction PROVE TreeInv'
  BY <1>7, EnterKeepsTree DEF EnterFunction
<1>8. ASSUME BlockOpen PROVE TreeInv'
  BY <1>8, EnterKeepsTree DEF BlockOpen
<1>9. ASSUME BlockClose PROVE TreeInv'
  <2>1. /\ frames # <<>> /\ Pop /\ Top.kind = "block"
        /\ scope' = Parent(scope) /\ UNCHANGED <<scopes, entered>>
    BY <1>9 DEF BlockClose, Inside
  <2>2. Parent(scope) = Top.ret
    <3>1. frames \in Seq(Frame)
      BY DEF TreeInv, TreeOK
    <3>2. Len(frames) \in 1 .. Len(frames)
      BY <2>1, <3>1
    <3> QED
      BY <2>1, <3>2 DEF TreeInv, ScopeBalanced, InnerScope, Top
  <2> QED
    BY <2>1, <2>2, PopKeepsTree
<1>10. ASSUME DotOpen PROVE TreeInv'
  BY <1>10, DotKeepsTree
<1>11. ASSUME DotClose PROVE TreeInv'
  BY <1>11, PopKeepsTree DEF DotClose, Inside
<1>12. ASSUME EndModule PROVE TreeInv'
  BY <1>12, EndKeepsTree
<1>13. ASSUME AssignType PROVE TreeInv'
  BY <1>13, SameTree DEF AssignType
<1>14. ASSUME NEW op, NEW nm, NEW t, NEW s, StartLookup(op, nm, t, s) PROVE TreeInv'
  BY <1>14, SameTree DEF StartLookup
<1>15. ASSUME UNCHANGED allvars PROVE TreeInv'
  BY <1>15, SameTree DEF allvars
<1> QED
  BY <1>1, <1>2, <1>3, <1>4, <1>5, <1>6, <1>7, <1>8, <1>9, <1>10, <1>11,
     <1>12, <1>13, <1>14, <1>15
     DEF Next, Step, Begin, Ended, Identifier, Function, AddSymbol, GetSymbol,
         External, Use

(* The parser is back in the scope it started a construct from when the     *)
(* construct ends, and scope_leave never leaves the root.                   *)
THEOREM ScopesAreBalanced == Spec => []ScopeBalanced
<1> QED
  BY InitTree, StepKeepsTree, PTL DEF Spec, TreeInv

-----------------------------------------------------------------------------
(* The table and the call.                                                  *)
LEMMA InScopes ==
    ASSUME TreeInv
    PROVE  /\ ScopeIds \subseteq 0 .. MaxScopes - 1 /\ ScopeIds \subseteq Nat
           /\ 0 \in ScopeIds /\ 1 \in ScopeIds /\ scope \in ScopeIds
           /\ \A s \in ScopeIds : s # 0 => Parent(s) \in ScopeIds
<1>1. Len(scopes) \in 2 .. MaxScopes /\ scope \in ScopeIds
  BY DEF TreeInv, TreeOK
<1>2. \A s \in 1 .. Len(scopes) - 1 : Parent(s) \in 0 .. s - 1
  BY DEF TreeInv, TreeOK
<1>3. \A s \in ScopeIds : s # 0 => Parent(s) \in ScopeIds
  <2> SUFFICES ASSUME NEW s \in ScopeIds, s # 0 PROVE Parent(s) \in ScopeIds
    OBVIOUS
  <2>1. s \in 1 .. Len(scopes) - 1
    BY <1>1 DEF ScopeIds
  <2>2. Parent(s) \in 0 .. s - 1
    BY <1>2, <2>1
  <2> QED
    BY <1>1, <2>1, <2>2 DEF ScopeIds
<1> QED
  BY <1>1, <1>3 DEF ScopeIds

LEMMA TreeGrows ==
    ASSUME TreeInv, [Next]_allvars
    PROVE  ScopeIds \subseteq ScopeIds'
<1>1. ASSUME NEW kind, ScopeEnter(kind) PROVE ScopeIds \subseteq ScopeIds'
  <2>1. scopes \in Seq(Int) /\ scope \in Int
    BY DEF TreeInv, TreeOK, ScopeIds
  <2>2. Len(scopes') = Len(scopes) + 1 /\ Len(scopes) \in Nat
    BY <1>1, <2>1 DEF ScopeEnter
  <2> QED
    BY <2>2 DEF ScopeIds
<1>2. ASSUME scopes' = scopes PROVE ScopeIds \subseteq ScopeIds'
  BY <1>2 DEF ScopeIds
<1> USE DEF tree, Exit, Answer, Put, StartFind
<1>3. ASSUME Step PROVE scopes' = scopes \/ \E kind : ScopeEnter(kind)
  BY <1>3 DEF Step, FindMiss, NotInScope, FindHit, FindStep, InsertStep, InsertFree,
     DeclareIdentifier, DeclareSymbol, DeclareExternal, Known, Got, ExternalExists,
     Redefined, FunctionKnown, EnterFunction
<1>4. ASSUME Begin PROVE scopes' = scopes \/ \E kind : ScopeEnter(kind)
  BY <1>4 DEF Begin, BlockOpen, BlockClose, DotOpen, DotClose, EndModule,
     AssignType, FunctionType, Identifier, Function, AddSymbol, GetSymbol,
     External, Use, StartLookup
<1> QED
  BY <1>1, <1>2, <1>3, <1>4 DEF Next, Ended, allvars

LEMMA SameTab ==
    ASSUME TabOK, UNCHANGED tab, ScopeIds \subseteq ScopeIds'
    PROVE  TabOK'
  BY DEF TabOK, tab

(* A probe begins inside the table.                                         *)
LEMMA FindStarts ==
    ASSUME TreeInv, TabOK, NEW nm \in AllNames, NEW s \in ScopeIds, StartFind(nm, s)
    PROVE  /\ at' = s /\ n' = 0
           /\ slot' \in Nat /\ (cap # 0 => slot' < cap)
<1>1. cap # 0 => HashSlot(nm, s, cap) \in 0 .. cap - 1
  BY HashAssumption, InScopes DEF TabOK
<1>2. cap \in Nat
  BY DEF TabOK, Capacities
<1> QED
  BY <1>1, <1>2 DEF StartFind

LEMMA NextSlotInside ==
    ASSUME TabOK, NEW i \in 0 .. cap - 1
    PROVE  NextSlot(i) \in 0 .. cap - 1
  BY DEF TabOK, NextSlot, Capacities

(* putVar grows the vector before the table: the new table has a slot for   *)
(* every variable, and the probe of the insertion begins inside it.         *)
LEMMA PutKeeps ==
    ASSUME TreeInv, ScopeIds \subseteq ScopeIds', TabOK, CallOK, Room,
           NEW t \in Types, NEW s \in ScopeIds, Put(t, s)
    PROVE  TabOK' /\ CallOK'
<1> PICK k : k = Len(vars)
  OBVIOUS
<1>1. /\ vars \in Seq(Variable) /\ k \in Nat /\ k < MaxVars /\ k <= cap
      /\ cap \in Nat /\ cap \in {0} \cup Capacities
      /\ req \in Call /\ at \in ScopeIds /\ n \in 0 .. cap
  BY DEF TabOK, CallOK, Room, Capacities
<1>2. [name |-> req.name, typee |-> t, scope |-> s] \in Variable
  BY <1>1, InScopes DEF Variable, Call
<1>3. /\ vars' \in Seq(Variable) /\ Len(vars') = k + 1
      /\ \A i \in 1 .. k : vars'[i] = vars[i]
      /\ vars'[k + 1].scope = s
  BY <1>1, <1>2 DEF Put
<1>4. \A id \in 1 .. k + 1 : vars'[id].scope \in ScopeIds
  <2> SUFFICES ASSUME NEW id \in 1 .. k + 1 PROVE vars'[id].scope \in ScopeIds
    OBVIOUS
  <2>1. CASE id = k + 1
    BY <1>3, <2>1
  <2>2. CASE id \in 1 .. k
    BY <1>3, <2>2 DEF TabOK
  <2> QED
    BY <1>1, <2>1, <2>2
<1>5. /\ cap' \in Capacities /\ k + 1 <= cap' /\ cap <= cap' /\ cap' \in Nat
  BY <1>1 DEF Put, Grown, Capacities
<1>6. ins' \in 1 .. k + 1 /\ slot' = HashSlot(vars'[ins'].name, vars'[ins'].scope, cap')
  BY <1>1, <1>3 DEF Put, StartInsert
<1>7. map' \in [0 .. cap' - 1 -> 0 .. k + 1]
  <2>1. CASE cap' = cap
    BY <1>1, <2>1 DEF Put, TabOK
  <2>2. CASE cap' # cap
    BY <1>1, <2>2 DEF Put
  <2> QED
    BY <2>1, <2>2
<1>8. slot' \in 0 .. cap' - 1
  <2>1. vars'[ins'].name \in AllNames
    <3>1. vars'[ins'] \in Variable
      BY <1>3, <1>6
    <3> QED
      BY <3>1 DEF Variable
  <2>2. vars'[ins'].scope \in 0 .. MaxScopes - 1
    BY <1>4, <1>6, InScopes
  <2> QED
    BY <1>5, <1>6, <2>1, <2>2, HashAssumption
<1>9. TabOK'
  <2>1. \A id \in 1 .. Len(vars') : vars'[id].scope \in ScopeIds'
    BY <1>3, <1>4
  <2>2. Len(vars') <= MaxVars /\ Len(vars') <= cap'
    BY <1>1, <1>3, <1>5
  <2>3. map' \in [0 .. cap' - 1 -> 0 .. Len(vars')]
    BY <1>3, <1>7
  <2> QED
    BY <1>3, <1>5, <2>1, <2>2, <2>3 DEF TabOK
<1> QED
  BY <1>1, <1>3, <1>5, <1>6, <1>8, <1>9 DEF CallOK, Put

(* A call that begins, ends or moves on keeps the table.                    *)
LEMMA StepKeepsTab ==
    TreeInv /\ TabOK /\ CallOK /\ [Next]_allvars => TabOK' /\ CallOK'
<1> SUFFICES ASSUME TreeInv, TabOK, CallOK, [Next]_allvars PROVE TabOK' /\ CallOK'
  OBVIOUS
<1>a. ScopeIds \subseteq ScopeIds'
  BY TreeGrows
<1>b. 0 \in ScopeIds /\ 0 \in ScopeIds'
  BY <1>a, InScopes
<1>c. cap \in Nat /\ Len(vars) \in Nat
  BY DEF TabOK, Capacities
<1>d. NoCall \in Call
  BY DEF NoCall, Call, Ops, AllNames, Types
<1>e. ASSUME Leave("idle") \/ Leave("enter"), cap' = cap, Len(vars') = Len(vars)
      PROVE  CallOK'
  <2>1. pc' \in {"idle", "enter"} /\ req' = NoCall /\ NoCall.from = 0
    BY <1>e DEF Leave, NoCall
  <2>2. at' = 0 /\ slot' = 0 /\ n' = 0 /\ ins' = 0 /\ res' = -1
    BY <1>e DEF Leave
  <2> QED
    BY <1>b, <1>c, <1>d, <1>e, <2>1, <2>2 DEF CallOK
<1>f. ASSUME UNCHANGED <<tab, probe, req, res>>, pc' \in {pc, "idle", "exited"}
      PROVE  TabOK' /\ CallOK'
  <2>1. TabOK'
    BY <1>f, <1>a, SameTab
  <2>2. /\ vars' = vars /\ cap' = cap /\ at' = at /\ slot' = slot
        /\ n' = n /\ ins' = ins /\ req' = req /\ res' = res
    BY <1>f DEF tab, probe
  <2> QED
    BY <1>f, <1>a, <2>1, <2>2 DEF CallOK, Room
<1>1. ASSUME FindMiss PROVE TabOK' /\ CallOK'
  <2>1. UNCHANGED tab /\ TabOK'
    BY <1>1, <1>a, SameTab DEF FindMiss, NotInScope, Answer
  <2>2. CASE at = 0 /\ Answer(0)
    <3>1. pc' = "answer" /\ res' = 0 /\ pc = "find"
      BY <1>1, <2>2 DEF Answer, FindMiss
    <3>2. /\ vars' = vars /\ cap' = cap /\ at' = at /\ slot' = slot
          /\ n' = n /\ ins' = ins /\ req' = req
      BY <2>2 DEF Answer, tab, probe
    <3> QED
      BY <1>a, <1>c, <2>1, <3>1, <3>2 DEF CallOK, Room
  <2>3. CASE at # 0 /\ StartFind(req.name, Parent(at)) /\ UNCHANGED <<pc, req, ins, res>>
    <3>1. req.name \in AllNames /\ Parent(at) \in ScopeIds
      BY <2>3, InScopes DEF CallOK, Call
    <3>2. at' = Parent(at) /\ n' = 0 /\ slot' \in Nat /\ (cap # 0 => slot' < cap)
      BY <2>3, <3>1, FindStarts
    <3> QED
      BY <1>a, <1>c, <2>1, <2>3, <3>1, <3>2 DEF CallOK, tab, Room
  <2> QED
    BY <1>1, <2>2, <2>3 DEF FindMiss, NotInScope
<1>2. ASSUME FindHit PROVE TabOK' /\ CallOK'
  <2>1. UNCHANGED tab /\ TabOK'
    BY <1>2, <1>a, SameTab DEF FindHit, Answer
  <2>2. map[slot] \in 0 .. Len(vars)
    BY <1>2, <1>c DEF FindHit, Probing, CallOK, TabOK
  <2> QED
    BY <1>2, <1>a, <2>1, <2>2 DEF FindHit, Answer, CallOK, probe, tab, Room
<1>3. ASSUME FindStep PROVE TabOK' /\ CallOK'
  <2>1. UNCHANGED tab /\ TabOK'
    BY <1>3, <1>a, SameTab DEF FindStep
  <2>2. slot' \in 0 .. cap - 1 /\ n' \in 0 .. cap
    BY <1>3, <1>c, NextSlotInside DEF FindStep, Probing, CallOK
  <2> QED
    BY <1>3, <1>a, <1>c, <2>1, <2>2 DEF FindStep, CallOK, tab, Room
<1>4. ASSUME InsertStep PROVE TabOK' /\ CallOK'
  <2>1. UNCHANGED tab /\ TabOK'
    BY <1>4, <1>a, SameTab DEF InsertStep
  <2>2. slot' \in 0 .. cap - 1
    BY <1>4, <1>c, NextSlotInside DEF InsertStep, CallOK, TabOK
  <2> QED
    BY <1>4, <1>a, <1>c, <2>1, <2>2 DEF InsertStep, CallOK, tab, Room
<1>5. ASSUME InsertFree PROVE TabOK' /\ CallOK'
  <2>1. slot \in 0 .. cap - 1 /\ ins \in 1 .. Len(vars) /\ cap \in Capacities
    BY <1>5, <1>c DEF InsertFree, CallOK, TabOK
  <2>2. vars' = vars /\ cap' = cap /\ map' = [map EXCEPT ![slot] = ins]
    BY <1>5 DEF InsertFree
  <2>3. map' \in [0 .. cap' - 1 -> 0 .. Len(vars')]
    BY <1>c, <2>1, <2>2 DEF TabOK
  <2>4. TabOK'
    BY <1>a, <2>2, <2>3 DEF TabOK
  <2>5. CASE /\ ins < Len(vars) /\ StartInsert(ins + 1) /\ UNCHANGED <<pc, req, at, n>>
    <3>1. ins + 1 \in 1 .. Len(vars)
      BY <1>c, <2>1, <2>5
    <3>2. vars[ins + 1].name \in AllNames /\ vars[ins + 1].scope \in 0 .. MaxScopes - 1
      <4>1. vars[ins + 1] \in Variable /\ vars[ins + 1].scope \in ScopeIds
        BY <3>1 DEF TabOK
      <4> QED
        BY <4>1, InScopes DEF Variable
    <3>3. slot' \in 0 .. cap - 1
      BY <2>1, <2>2, <2>5, <3>2, HashAssumption DEF StartInsert
    <3> QED
      BY <1>5, <1>a, <1>c, <2>1, <2>2, <2>4, <2>5, <3>1, <3>3
         DEF InsertFree, CallOK, StartInsert, Room
  <2>6. CASE ins = Len(vars) /\ Leave(IF req.op = "function" THEN "enter" ELSE "idle")
    <3>1. Leave("idle") \/ Leave("enter")
      BY <2>6
    <3> QED
      BY <1>e, <2>2, <2>4, <3>1
  <2> QED
    BY <1>5, <2>5, <2>6 DEF InsertFree
<1>6. ASSUME DeclareIdentifier \/ DeclareSymbol \/ DeclareExternal
      PROVE  TabOK' /\ CallOK'
  <2>1. req.typee \in Types /\ "null" \in Types
    BY DEF CallOK, Call, Types
  <2>2. Room
    BY <1>6 DEF CallOK, DeclareIdentifier, DeclareSymbol, DeclareExternal, NotFound
  <2> QED
    BY <1>6, <1>a, <2>1, <2>2, InScopes, PutKeeps
       DEF DeclareIdentifier, DeclareSymbol, DeclareExternal
<1>7. ASSUME Known \/ Got PROVE TabOK' /\ CallOK'
  <2>1. UNCHANGED tab /\ TabOK'
    BY <1>7, <1>a, SameTab DEF Known, Got
  <2>2. Leave("idle")
    BY <1>7 DEF Known, Got, Return
  <2> QED
    BY <1>e, <2>1, <2>2 DEF tab
<1>8. ASSUME ExternalExists \/ Redefined \/ FunctionType PROVE TabOK' /\ CallOK'
  BY <1>8, <1>f DEF ExternalExists, Redefined, FunctionType, Exit
<1>9. ASSUME FunctionKnown PROVE TabOK' /\ CallOK'
  <2>1. UNCHANGED tab /\ TabOK'
    BY <1>9, <1>a, SameTab DEF FunctionKnown
  <2>2. Leave("enter")
    BY <1>9 DEF FunctionKnown
  <2> QED
    BY <1>e, <2>1, <2>2 DEF tab
<1>10. ASSUME EnterFunction PROVE TabOK' /\ CallOK'
  BY <1>10, <1>f DEF EnterFunction
<1>11. ASSUME BlockOpen \/ BlockClose \/ DotOpen \/ DotClose \/ EndModule
       PROVE  TabOK' /\ CallOK'
  BY <1>11, <1>f DEF BlockOpen, BlockClose, DotOpen, DotClose, EndModule
<1>12. ASSUME AssignType PROVE TabOK' /\ CallOK'
  <2>1. PICK id \in 1 .. Len(vars), t \in HostTypes \ {"null"} :
               vars' = [vars EXCEPT ![id].typee = t]
    BY <1>12 DEF AssignType
  <2>2. /\ vars' \in Seq(Variable) /\ Len(vars') = Len(vars)
        /\ \A i \in 1 .. Len(vars) : vars'[i].scope = vars[i].scope
    <3>1. vars \in Seq(Variable) /\ vars[id] \in Variable /\ t \in Types
      BY DEF TabOK
    <3>2. [vars[id] EXCEPT !.typee = t] \in Variable
      BY <3>1 DEF Variable
    <3>3. vars' = [vars EXCEPT ![id] = [vars[id] EXCEPT !.typee = t]]
      BY <2>1, <3>1
    <3>4. \A i \in 1 .. Len(vars) :
             vars'[i] = IF i = id THEN [vars[id] EXCEPT !.typee = t] ELSE vars[i]
      BY <3>1, <3>3
    <3>5. vars' \in Seq(Variable) /\ Len(vars') = Len(vars)
      BY <3>1, <3>2, <3>3
    <3>6. [vars[id] EXCEPT !.typee = t].scope = vars[id].scope
      BY <3>1 DEF Variable
    <3> QED
      BY <3>4, <3>5, <3>6
  <2>3. TabOK'
    BY <1>12, <1>a, <2>2 DEF AssignType, TabOK
  <2> QED
    BY <1>12, <1>a, <2>2, <2>3 DEF AssignType, CallOK, probe, Room
<1>13. ASSUME NEW op \in Ops, NEW nm \in AllNames, NEW t \in Types, NEW s \in ScopeIds,
              StartLookup(op, nm, t, s), op \notin {"get", "use"} => Room
       PROVE  TabOK' /\ CallOK'
  <2>1. UNCHANGED tab /\ TabOK'
    BY <1>13, <1>a, SameTab DEF StartLookup
  <2>2. at' = s /\ n' = 0 /\ slot' \in Nat /\ (cap # 0 => slot' < cap)
    BY <1>13, FindStarts DEF StartLookup
  <2>3. req' \in Call /\ req'.op = op /\ req'.from = s /\ pc' = "find"
    BY <1>13, InScopes DEF StartLookup, Call
  <2> QED
    BY <1>13, <1>a, <1>c, <2>1, <2>2, <2>3 DEF StartLookup, CallOK, tab, Room
<1>14. ASSUME Begin PROVE TabOK' /\ CallOK'
  <2>1. 1 \in ScopeIds /\ scope \in ScopeIds /\ 1 .. 1 + entered \subseteq ScopeIds
    BY InScopes DEF TreeInv, TreeOK, ScopeIds
  <2>2. Names \subseteq AllNames /\ "null" \in Types /\ HostTypes \subseteq Types
    BY DEF AllNames, Types
  <2>3. {"identifier", "function", "add", "get", "external", "use"} = Ops
    BY DEF Ops
  <2>4. ASSUME NEW nm \in Names, Identifier(nm) \/ Function(nm) PROVE TabOK' /\ CallOK'
    BY <2>1, <2>2, <2>3, <2>4, <1>13 DEF Identifier, Function
  <2>5. ASSUME NEW nm \in AllNames, GetSymbol(nm) PROVE TabOK' /\ CallOK'
    BY <2>1, <2>2, <2>3, <2>5, <1>13 DEF GetSymbol
  <2>6. ASSUME NEW nm \in AllNames, NEW t \in HostTypes, AddSymbol(nm, t)
        PROVE  TabOK' /\ CallOK'
    BY <2>1, <2>2, <2>3, <2>6, <1>13 DEF AddSymbol
  <2>7. ASSUME NEW nm \in Names, NEW t \in HostTypes, External(nm, t)
        PROVE  TabOK' /\ CallOK'
    BY <2>1, <2>2, <2>3, <2>7, <1>13 DEF External
  <2>8. ASSUME NEW nm \in AllNames, NEW s \in 1 .. 1 + entered, Use(nm, s)
        PROVE  TabOK' /\ CallOK'
    BY <2>1, <2>2, <2>3, <2>8, <1>13 DEF Use
  <2> QED
    BY <1>14, <1>8, <1>11, <1>12, <2>4, <2>5, <2>6, <2>7, <2>8 DEF Begin
<1>15. ASSUME UNCHANGED allvars PROVE TabOK' /\ CallOK'
  BY <1>15, <1>f DEF allvars
<1> QED
  BY <1>1, <1>2, <1>3, <1>4, <1>5, <1>6, <1>7, <1>8, <1>9, <1>10, <1>14, <1>15
     DEF Next, Step, Ended

LEMMA InitTab == Init => TabOK /\ CallOK
<1> SUFFICES ASSUME Init PROVE TabOK /\ CallOK
  OBVIOUS
<1>1. /\ vars = <<>> /\ cap = 0 /\ map = <<>> /\ pc = "find"
      /\ req = [op |-> "add", name |-> This, typee |-> "some", from |-> 1]
      /\ at = 1 /\ slot = 0 /\ n = 0 /\ ins = 0 /\ res = -1
  BY DEF Init
<1>2. req \in Call /\ req.from = 1
  BY <1>1 DEF Call, Ops, AllNames, Types
<1>3. at \in ScopeIds /\ 1 \in ScopeIds
  BY <1>1, InitTree, InScopes
<1>4. map \in [0 .. cap - 1 -> 0 .. Len(vars)]
  BY <1>1
<1>5. vars \in Seq(Variable) /\ Len(vars) = 0
  BY <1>1
<1> QED
  BY <1>1, <1>2, <1>3, <1>4, <1>5 DEF TabOK, CallOK, Room

(* Every shape the code relies on, in every call and at every probe: no     *)
(* slot is outside the table, no id outside the vector, no parent outside   *)
(* the scopes.                                                              *)
THEOREM Typing == Spec => []TypeOK
<1>1. TreeInv /\ TabOK /\ CallOK => TypeOK
  BY DEF TreeInv, TypeOK
<1> QED
  BY <1>1, InitTree, InitTab, StepKeepsTree, StepKeepsTab, PTL DEF Spec

-----------------------------------------------------------------------------
(* The table keeps its paths.                                               *)

(* a step that neither changes the keys and the table nor inserts *)
LEMMA SamePath ==
    ASSUME TabOK, ProbePath, pc # "insert", pc' # "insert",
           cap' = cap, map' = map, Len(vars') = Len(vars),
           \A id \in 1 .. Len(vars) : /\ vars'[id].name = vars[id].name
                                      /\ vars'[id].scope = vars[id].scope
    PROVE  ProbePath'
<1>1. Inserted' = 1 .. Len(vars) /\ Inserted = 1 .. Len(vars)
  BY DEF Inserted
<1>2. \A id \in 1 .. Len(vars) : HomeSlot(id)' = HomeSlot(id)
  BY DEF HomeSlot
<1> QED
  BY <1>1, <1>2 DEF ProbePath, Before

(* No slot is before the slot a probe begins at.                            *)
LEMMA NothingBefore == \A h, q \in Nat : ~ Before(h, q, h)
  BY DEF Before

LEMMA HomeInside ==
    ASSUME TreeInv, TabOK, NEW id \in 1 .. Len(vars)
    PROVE  HomeSlot(id) \in 0 .. cap - 1
<1>1. vars[id] \in Variable /\ vars[id].scope \in ScopeIds /\ cap \in Capacities
  BY DEF TabOK
<1> QED
  BY <1>1, InScopes, HashAssumption DEF HomeSlot, Variable

(* putVar: the paths of the variables stay when the table stays, and an     *)
(* empty table has none to keep.                                            *)
LEMMA PutKeepsPath ==
    ASSUME TreeInv, TreeInv', TabOK, TabOK', CallOK', ProbePath, pc # "insert",
           NEW t, NEW s, Put(t, s)
    PROVE  ProbePath'
<1>1. /\ pc' = "insert" /\ ins' \in 1 .. Len(vars')
      /\ slot' = HomeSlot(ins)' /\ slot' \in Nat
  BY DEF Put, CallOK, StartInsert, HomeSlot
<1>2. \A q \in 0 .. cap' - 1 : ~ Before(HomeSlot(ins)', q, slot')
  BY <1>1, NothingBefore DEF TabOK
<1>3. Inserted' = 1 .. ins' - 1
  BY <1>1 DEF Inserted
<1>4. CASE cap' # cap
  <2>1. ins' = 1 /\ map' = [i \in 0 .. cap' - 1 |-> 0]
    BY <1>4 DEF Put, StartInsert
  <2> QED
    BY <1>1, <1>2, <1>3, <2>1 DEF ProbePath
<1>5. CASE cap' = cap
  <2>1. /\ vars \in Seq(Variable)
        /\ Len(vars') = Len(vars) + 1 /\ ins' = Len(vars) + 1 /\ map' = map
        /\ \A id \in 1 .. Len(vars) : vars'[id] = vars[id]
    BY <1>5 DEF Put, StartInsert, TabOK
  <2>2. Inserted = 1 .. Len(vars) /\ Inserted' = 1 .. Len(vars)
    BY <1>3, <2>1 DEF Inserted
  <2>3. \A id \in 1 .. Len(vars) : HomeSlot(id)' = HomeSlot(id)
    BY <1>5, <2>1 DEF HomeSlot
  <2> QED
    BY <1>1, <1>2, <1>5, <2>1, <2>2, <2>3 DEF ProbePath, Before
<1> QED
  BY <1>4, <1>5

(* while (vars_map[i]) of varInsert: the occupied slot joins the path       *)
LEMMA InsertStepKeepsPath ==
    ASSUME TreeInv, TabOK, CallOK, ProbePath, InsertStep
    PROVE  ProbePath'
<1>1. /\ pc = "insert" /\ pc' = pc /\ map[slot] # 0 /\ slot' = NextSlot(slot)
      /\ UNCHANGED <<vars, cap, map, ins>>
  BY DEF InsertStep, tab
<1>2. ins \in 1 .. Len(vars) /\ cap \in Nat /\ slot \in 0 .. cap - 1
  BY <1>1 DEF CallOK, TabOK, Capacities
<1>3. PICK h : h = HomeSlot(ins) /\ h \in 0 .. cap - 1
  BY <1>2, HomeInside
<1>4. Inserted' = Inserted /\ \A id : HomeSlot(id)' = HomeSlot(id)
  BY <1>1 DEF Inserted, HomeSlot
<1>5. HomeSlot(ins)' = h
  BY <1>1, <1>3 DEF HomeSlot
<1>6. \A q \in 0 .. cap - 1 : Before(h, q, slot) => map[q] # 0
  BY <1>1, <1>3 DEF ProbePath
<1>7. \A q \in 0 .. cap - 1 : Before(h, q, slot') => Before(h, q, slot) \/ q = slot
  BY <1>1, <1>2, <1>3 DEF NextSlot, Before
<1>8. \A q \in 0 .. cap - 1 : Before(h, q, slot') => map[q] # 0
  BY <1>1, <1>6, <1>7
<1>9. /\ \A p \in 0 .. cap - 1 : map[p] # 0 => map[p] \in Inserted
      /\ \A id \in Inserted :
            \E p \in 0 .. cap - 1 :
               /\ \A q \in 0 .. cap - 1 : map[q] = id <=> q = p
               /\ \A q \in 0 .. cap - 1 : Before(HomeSlot(id), q, p) => map[q] # 0
  BY DEF ProbePath
<1> QED
  BY <1>1, <1>4, <1>5, <1>8, <1>9 DEF ProbePath, Before

(* vars_map[i] = id + 1: the variable ends its own path and breaks no other *)
LEMMA InsertFreeKeepsPath ==
    ASSUME TreeInv, TabOK, CallOK, CallOK', ProbePath, InsertFree
    PROVE  ProbePath'
<1>1. /\ pc = "insert" /\ map[slot] = 0 /\ map' = [map EXCEPT ![slot] = ins]
      /\ vars' = vars /\ cap' = cap
  BY DEF InsertFree
<1>2. /\ ins \in 1 .. Len(vars) /\ cap \in Nat /\ slot \in 0 .. cap - 1
      /\ map \in [0 .. cap - 1 -> 0 .. Len(vars)] /\ Len(vars) \in Nat
  BY <1>1 DEF CallOK, TabOK, Capacities
<1>3. Inserted = 1 .. ins - 1
  BY <1>1 DEF Inserted
<1>4. Inserted' = 1 .. ins
  BY <1>1, <1>2 DEF InsertFree, Inserted, StartInsert, Return, Leave
<1>5. \A id : HomeSlot(id)' = HomeSlot(id)
  BY <1>1 DEF HomeSlot
<1>6. \A q \in 0 .. cap - 1 : map'[q] = IF q = slot THEN ins ELSE map[q]
  BY <1>1, <1>2
<1>7. \A p \in 0 .. cap - 1 : map[p] # 0 => map[p] \in 1 .. ins - 1
  BY <1>3 DEF ProbePath
<1>8. \A p \in 0 .. cap - 1 : map'[p] # 0 => map'[p] \in 1 .. ins
  BY <1>2, <1>6, <1>7
<1>9. ASSUME NEW id \in 1 .. ins
      PROVE  \E p \in 0 .. cap - 1 :
                /\ \A q \in 0 .. cap - 1 : map'[q] = id <=> q = p
                /\ \A q \in 0 .. cap - 1 : Before(HomeSlot(id), q, p) => map'[q] # 0
  <2>1. CASE id = ins
    <3>1. \A q \in 0 .. cap - 1 : map'[q] = id <=> q = slot
      BY <1>2, <1>6, <1>7, <2>1
    <3>2. \A q \in 0 .. cap - 1 : Before(HomeSlot(id), q, slot) => map[q] # 0
      BY <1>1, <2>1 DEF ProbePath
    <3>3. \A q \in 0 .. cap - 1 : Before(HomeSlot(id), q, slot) => map'[q] # 0
      BY <1>2, <1>6, <3>2
    <3> QED
      BY <1>2, <3>1, <3>3
  <2>2. CASE id \in 1 .. ins - 1
    <3>1. PICK p \in 0 .. cap - 1 :
                 /\ \A q \in 0 .. cap - 1 : map[q] = id <=> q = p
                 /\ \A q \in 0 .. cap - 1 : Before(HomeSlot(id), q, p) => map[q] # 0
      BY <1>3, <2>2 DEF ProbePath
    <3>2. p # slot
      BY <1>1, <2>2, <3>1
    <3>3. \A q \in 0 .. cap - 1 : map'[q] = id <=> q = p
      BY <1>2, <1>6, <2>2, <3>1, <3>2
    <3>4. \A q \in 0 .. cap - 1 : Before(HomeSlot(id), q, p) => map'[q] # 0
      BY <1>2, <1>6, <3>1
    <3> QED
      BY <3>3, <3>4
  <2> QED
    BY <1>2, <2>1, <2>2
<1>10. ASSUME pc' = "insert"
       PROVE  \A q \in 0 .. cap' - 1 : Before(HomeSlot(ins)', q, slot') => map'[q] # 0
  <2>1. slot' = HomeSlot(ins)'
    BY <1>10 DEF InsertFree, StartInsert, HomeSlot, Leave
  <2>2. slot' \in Nat
    BY DEF CallOK
  <2> QED
    BY <1>1, <1>2, <2>1, <2>2, NothingBefore
<1> QED
  BY <1>1, <1>4, <1>5, <1>8, <1>9, <1>10 DEF ProbePath, Before

LEMMA StepKeepsPath ==
    TreeInv /\ TabOK /\ CallOK /\ ProbePath /\ [Next]_allvars => ProbePath'
<1> SUFFICES ASSUME TreeInv, TabOK, CallOK, ProbePath, [Next]_allvars PROVE ProbePath'
  OBVIOUS
<1>a. TreeInv' /\ TabOK' /\ CallOK'
  BY StepKeepsTree, StepKeepsTab
<1>b. ASSUME UNCHANGED tab, pc # "insert", pc' # "insert" PROVE ProbePath'
  BY <1>b, SamePath DEF tab
<1>1. ASSUME FindMiss \/ FindHit \/ FindStep PROVE ProbePath'
  BY <1>1, <1>b DEF FindMiss, FindHit, FindStep, NotInScope, Answer
<1>2. ASSUME DeclareIdentifier \/ DeclareSymbol \/ DeclareExternal PROVE ProbePath'
  BY <1>2, <1>a, PutKeepsPath
     DEF DeclareIdentifier, DeclareSymbol, DeclareExternal, NotFound
<1>3. ASSUME Known \/ Got \/ ExternalExists \/ Redefined \/ FunctionKnown \/ EnterFunction
      PROVE  ProbePath'
  BY <1>3, <1>b DEF Known, Got, ExternalExists, Redefined, FunctionKnown,
                    EnterFunction, Found, Return, Leave, Exit
<1>4. ASSUME BlockOpen \/ BlockClose \/ DotOpen \/ DotClose \/ EndModule \/ FunctionType
      PROVE  ProbePath'
  BY <1>4, <1>b DEF BlockOpen, BlockClose, DotOpen, DotClose, EndModule, FunctionType, Exit
<1>5. ASSUME AssignType PROVE ProbePath'
  <2>1. PICK id \in 1 .. Len(vars), t \in HostTypes :
               vars' = [vars EXCEPT ![id].typee = t]
    BY <1>5 DEF AssignType
  <2>2. vars \in Seq(Variable) /\ vars[id] \in Variable
    BY DEF TabOK
  <2>3. vars' = [vars EXCEPT ![id] = [vars[id] EXCEPT !.typee = t]]
    BY <2>1, <2>2
  <2>4. /\ [vars[id] EXCEPT !.typee = t].name = vars[id].name
        /\ [vars[id] EXCEPT !.typee = t].scope = vars[id].scope
    BY <2>2 DEF Variable
  <2>5. /\ Len(vars') = Len(vars)
        /\ \A i \in 1 .. Len(vars) : /\ vars'[i].name = vars[i].name
                                      /\ vars'[i].scope = vars[i].scope
    BY <2>2, <2>3, <2>4
  <2> QED
    BY <1>5, <2>5, SamePath DEF AssignType
<1>6. ASSUME NEW op, NEW nm, NEW t, NEW s, StartLookup(op, nm, t, s) PROVE ProbePath'
  BY <1>6, <1>b DEF StartLookup
<1>7. ASSUME UNCHANGED allvars PROVE ProbePath'
  BY <1>7 DEF allvars, tab, probe, ProbePath, Inserted, HomeSlot, Before
<1> QED
  BY <1>a, <1>1, <1>2, <1>3, <1>4, <1>5, <1>6, <1>7,
     InsertStepKeepsPath, InsertFreeKeepsPath
     DEF Next, Step, Begin, Ended, Identifier, Function, AddSymbol, GetSymbol,
         External, Use

LEMMA InitPath == Init => ProbePath
  BY DEF Init, ProbePath, Inserted

(* No collision, no wrap around and no rebuild ever puts a variable where   *)
(* varFind's probe would give up before it.                                 *)
THEOREM PathsAreUnbroken == Spec => []ProbePath
<1> QED
  BY InitTree, InitTab, InitPath, StepKeepsTree, StepKeepsTab, StepKeepsPath, PTL DEF Spec

-----------------------------------------------------------------------------
(* SymTab implements SymDict: for every hash, every set of names and every  *)
(* bound, what the program sees of the table is the dictionary.             *)

Chain(s) == chains[s + 1]
Key(id, nm, s) == vars[id].name = nm /\ vars[id].scope = s

(* the place of slot q in a probe that begins at slot h *)
Distance(h, q) == IF h <= q THEN q - h ELSE q - h + cap

(* A scope is visible from itself and from the scopes below it.             *)
ChainOK ==
    /\ chains \in Seq(SUBSET Nat) /\ Len(chains) = Len(scopes)
    /\ Chain(0) = {0}
    /\ \A s \in ScopeIds : s # 0 => Chain(s) = Chain(Parent(s)) \cup {s}
    /\ \A s \in ScopeIds : Chain(s) \subseteq 0 .. s

(* No scope binds a name twice.                                             *)
OneBinding == \A i, j \in 1 .. Len(vars) :
                 Key(i, vars[j].name, vars[j].scope) => i = j

(* The caller looks from the scope it is in, or from the global one.        *)
CallerOK ==
    /\ pc \in {"find", "answer"} =>
          /\ req.op \in {"identifier", "function"} => req.from = scope
          /\ req.op \in {"add", "external"} => req.from = 1
    /\ pc \in {"idle", "find", "enter"} => res = -1

(* varLookup has found nothing in the scopes that it has left, and varFind  *)
(* nothing in the slots that lie behind it.                                 *)
SearchOK ==
    pc = "find" =>
       /\ at \in Chain(req.from) /\ Chain(at) \subseteq Chain(req.from)
       /\ \A id \in 1 .. Len(vars) :
             vars[id].name = req.name /\ vars[id].scope \in Chain(req.from)
                => vars[id].scope \in Chain(at)
       /\ cap # 0 =>
             /\ Distance(HashSlot(req.name, at, cap), slot) = n \/ n = cap
             /\ \A q \in 0 .. cap - 1 :
                   Distance(HashSlot(req.name, at, cap), q) < n
                      => map[q] # 0 /\ ~ IsKey(map[q])

(* An answer of NULL is right until the caller has declared the name.       *)
AnswerOK ==
    pc = "answer" /\ res = 0 =>
       \A id \in 1 .. Len(vars) : vars[id].name = req.name
                                     => vars[id].scope \notin Chain(req.from)

BaseInv == TreeInv /\ TabOK /\ CallOK /\ ProbePath
LookInv == ChainOK /\ OneBinding /\ CallerOK /\ SearchOK /\ AnswerOK

-----------------------------------------------------------------------------
(* Chains.                                                                  *)
LEMMA SeesItself ==
    ASSUME TreeInv, ChainOK, NEW s \in ScopeIds
    PROVE  s \in Chain(s) /\ 0 \in Chain(1)
<1>1. s \in Chain(s)
  BY DEF ChainOK
<1>2. 1 \in ScopeIds /\ Parent(1) = 0
  <2>1. 1 \in ScopeIds /\ 1 \in 1 .. Len(scopes) - 1
    BY InScopes DEF ScopeIds
  <2>2. Parent(1) \in 0 .. 1 - 1
    BY <2>1 DEF TreeInv, TreeOK
  <2> QED
    BY <2>1, <2>2
<1>3. Chain(1) = {0} \cup {1}
  BY <1>2 DEF ChainOK
<1> QED
  BY <1>1, <1>3

LEMMA SameChains ==
    ASSUME ChainOK, UNCHANGED <<scopes, chains>>
    PROVE  ChainOK'
BY DEF ChainOK, ScopeIds, Parent, Chain

LEMMA EnterKeepsChains ==
    ASSUME TreeInv, ChainOK, NEW kind, ScopeEnter(kind)
    PROVE  ChainOK' /\ Len(chains) < MaxScopes
           /\ chains' = Append(chains, Chain(scope) \cup {Len(chains)})
<1> PICK k : k = Len(scopes)
  OBVIOUS
<1>1. /\ k \in Nat /\ k >= 2 /\ scopes \in Seq(Int) /\ scope \in 0 .. k - 1
      /\ ScopeIds = 0 .. k - 1
  BY DEF TreeInv, TreeOK, ScopeIds
<1>2. /\ chains \in Seq(SUBSET Nat) /\ Len(chains) = k
      /\ chains' = Append(chains, Chain(scope) \cup {k})
      /\ scopes' = Append(scopes, scope) /\ k < MaxScopes
  BY DEF ChainOK, ScopeEnter, Chain
<1>3. Chain(scope) \subseteq 0 .. scope
  BY <1>1 DEF ChainOK
<1>4. Chain(scope) \cup {k} \in SUBSET Nat
  BY <1>1, <1>3
<1>5. /\ chains' \in Seq(SUBSET Nat) /\ Len(chains') = k + 1
      /\ \A s \in 0 .. k - 1 : Chain(s)' = Chain(s)
      /\ Chain(k)' = Chain(scope) \cup {k}
  BY <1>1, <1>2, <1>4 DEF Chain
<1>6. /\ Len(scopes') = k + 1 /\ ScopeIds' = 0 .. k
      /\ \A s \in 0 .. k - 1 : Parent(s)' = Parent(s)
      /\ Parent(k)' = scope
  BY <1>1, <1>2 DEF ScopeIds, Parent
<1>7. ASSUME NEW s \in 0 .. k, s # 0
      PROVE  Chain(s)' = chains'[Parent(s)' + 1] \cup {s}
  <2>1. CASE s = k
    BY <1>1, <1>5, <1>6, <2>1 DEF Chain
  <2>2. CASE s \in 0 .. k - 1
    <3>1. Parent(s) \in 0 .. k - 1
      BY <1>1, <1>7, <2>2 DEF TreeInv, TreeOK
    <3>2. Chain(s) = Chain(Parent(s)) \cup {s}
      BY <1>1, <1>7, <2>2 DEF ChainOK
    <3> QED
      BY <1>5, <1>6, <2>2, <3>1, <3>2 DEF Chain
  <2> QED
    BY <1>1, <2>1, <2>2
<1>8. ASSUME NEW s \in 0 .. k PROVE Chain(s)' \subseteq 0 .. s
  <2>1. CASE s = k
    BY <1>1, <1>3, <1>5, <2>1
  <2>2. CASE s \in 0 .. k - 1
    BY <1>1, <1>5, <2>2 DEF ChainOK
  <2> QED
    BY <1>1, <2>1, <2>2
<1>9. Chain(0)' = {0}
  BY <1>1, <1>5 DEF ChainOK
<1> QED
  BY <1>2, <1>5, <1>6, <1>7, <1>8, <1>9 DEF ChainOK, Chain

-----------------------------------------------------------------------------
(* One lookup.                                                              *)
LEMMA HashInside ==
    ASSUME BaseInv, cap # 0, NEW nm \in AllNames, NEW s \in ScopeIds
    PROVE  /\ cap \in Nat \ {0}
           /\ HashSlot(nm, s, cap) \in 0 .. cap - 1
<1>1. cap \in Capacities
  BY DEF BaseInv, TabOK
<1>2. s \in 0 .. MaxScopes - 1
  BY InScopes DEF BaseInv
<1> QED
  BY <1>1, <1>2, HashAssumption DEF Capacities

(* A probe begins at its own slot, with nothing behind it.                  *)
LEMMA ProbeBegins ==
    ASSUME BaseInv, cap # 0, NEW nm \in AllNames, NEW s \in ScopeIds
    PROVE  LET h == HashSlot(nm, s, cap)
           IN  /\ Distance(h, h) = 0
               /\ \A q \in 0 .. cap - 1 : ~ Distance(h, q) < 0
  BY HashInside DEF Distance

(* Where varFind gives up, the name is not bound in its scope.              *)
LEMMA NoKeyThere ==
    ASSUME BaseInv, LookInv, pc = "find", ~ Probing
    PROVE  \A id \in 1 .. Len(vars) : ~ Key(id, req.name, at)
<1> SUFFICES ASSUME NEW id \in 1 .. Len(vars), Key(id, req.name, at) PROVE FALSE
  OBVIOUS
<1>1. /\ cap \in Nat \ {0} /\ Len(vars) \in Nat /\ n \in 0 .. cap
      /\ slot \in 0 .. cap - 1
  BY DEF BaseInv, TabOK, CallOK, Capacities
<1> DEFINE h == HashSlot(req.name, at, cap)
<1>2. h \in 0 .. cap - 1
  <2>1. req.name \in AllNames /\ at \in ScopeIds
    BY DEF BaseInv, CallOK, Call
  <2> QED
    BY <1>1, <2>1, HashInside
<1>3. HomeSlot(id) = h /\ id \in Inserted /\ id # 0
  BY DEF HomeSlot, Key, Inserted
<1> HIDE DEF h
<1>4. PICK p \in 0 .. cap - 1 :
         /\ map[p] = id
         /\ \A q \in 0 .. cap - 1 : Before(h, q, p) => map[q] # 0
  BY <1>3 DEF BaseInv, ProbePath
<1>5. IsKey(map[p])
  BY <1>4 DEF IsKey, Key
<1>6. ~ Distance(h, p) < n
  BY <1>1, <1>4, <1>5 DEF LookInv, SearchOK, h
<1>7. CASE n = cap
  BY <1>1, <1>2, <1>6, <1>7 DEF Distance
<1>8. CASE n # cap
  <2>1. map[slot] = 0 /\ n < cap
    BY <1>1, <1>8 DEF Probing
  <2>2. Distance(h, slot) = n
    BY <1>1, <1>8 DEF LookInv, SearchOK, h
  <2>3. p # slot
    BY <1>3, <1>4, <2>1
  <2>4. ~ Before(h, slot, p)
    BY <1>1, <1>4, <2>1
  <2>5. Distance(h, p) < Distance(h, slot)
    BY <1>1, <1>2, <2>3, <2>4 DEF Distance, Before
  <2> QED
    BY <1>6, <2>2, <2>5
<1> QED
  BY <1>7, <1>8

(* What varFind has found is the binding that varLookup has to answer with. *)
Seen(id) == id \in 1 .. Len(vars) /\ vars[id].name = req.name
            /\ vars[id].scope \in Chain(req.from)

LEMMA HitIsInnermost ==
    ASSUME BaseInv, LookInv, FindHit
    PROVE  /\ res' = map[slot] /\ Seen(map[slot])
           /\ \A j : Seen(j) => \/ vars[j].scope < vars[map[slot]].scope
                                \/ j = map[slot]
<1> DEFINE r == map[slot]
<1>1. /\ pc = "find" /\ n < cap /\ r # 0 /\ IsKey(r) /\ res' = r
  BY DEF FindHit, Probing, Answer
<1>2. /\ cap \in Nat /\ Len(vars) \in Nat /\ n \in 0 .. cap /\ slot \in 0 .. cap - 1
      /\ map \in [0 .. cap - 1 -> 0 .. Len(vars)]
  BY <1>1 DEF BaseInv, TabOK, CallOK, Capacities
<1>3. r \in 1 .. Len(vars)
  BY <1>1, <1>2
<1> HIDE DEF r
<1>4. at \in Chain(req.from) /\ at \in ScopeIds
  BY <1>1 DEF LookInv, SearchOK, BaseInv, CallOK
<1>5. Seen(r) /\ vars[r].scope = at
  BY <1>1, <1>3, <1>4 DEF IsKey, Seen
<1>6. ASSUME NEW j, Seen(j) PROVE vars[j].scope < at \/ j = r
  <2>1. vars[j].scope \in Chain(at)
    BY <1>1, <1>6 DEF LookInv, SearchOK, Seen
  <2>2. vars[j].scope \in 0 .. at /\ at \in Nat
    BY <1>4, <2>1, InScopes DEF LookInv, ChainOK, BaseInv
  <2>3. CASE vars[j].scope = at
    <3>1. Key(j, vars[r].name, vars[r].scope)
      BY <1>1, <1>5, <1>6, <2>3 DEF Key, Seen
    <3> QED
      BY <1>3, <1>6, <3>1 DEF LookInv, OneBinding, Seen
  <2> QED
    BY <2>2, <2>3
<1> QED
  BY <1>1, <1>5, <1>6 DEF r

(* At the root nothing is left to look for.                                 *)
LEMMA MissAtRoot ==
    ASSUME BaseInv, LookInv, pc = "find", ~ Probing, at = 0
    PROVE  \A id : ~ Seen(id)
<1> SUFFICES ASSUME NEW id, Seen(id) PROVE FALSE
  OBVIOUS
<1>1. vars[id].scope \in Chain(0)
  BY DEF LookInv, SearchOK, Seen
<1>2. vars[id].scope = 0
  BY <1>1 DEF LookInv, ChainOK
<1> QED
  BY <1>2, NoKeyThere DEF Key, Seen

-----------------------------------------------------------------------------
(* The invariant is inductive: one lemma for each of its parts.             *)
LEMMA StepKeepsChains ==
    ASSUME TreeInv, ChainOK, [Next]_allvars
    PROVE  ChainOK'
<1> USE DEF tree, Return, Leave, Exit, Answer, Put, StartFind
<1>1. ASSUME UNCHANGED tree PROVE ChainOK'
  BY <1>1, SameChains
<1>2. ASSUME NEW kind, ScopeEnter(kind) PROVE ChainOK'
  BY <1>2, EnterKeepsChains
<1>3. ASSUME Step PROVE UNCHANGED tree \/ \E kind : ScopeEnter(kind)
  BY <1>3 DEF Step, FindMiss, NotInScope, FindHit, FindStep, InsertStep, InsertFree,
     DeclareIdentifier, DeclareSymbol, DeclareExternal, Known, Got, ExternalExists,
     Redefined, FunctionKnown, EnterFunction
<1>4. ASSUME EndModule PROVE ChainOK'
  BY <1>4, SameChains DEF EndModule
<1>5. ASSUME Begin PROVE EndModule \/ UNCHANGED tree \/ \E kind : ScopeEnter(kind)
  BY <1>5 DEF Begin, BlockOpen, BlockClose, DotOpen, DotClose,
     AssignType, FunctionType, Identifier, Function, AddSymbol, GetSymbol,
     External, Use, StartLookup
<1> QED
  BY <1>1, <1>2, <1>3, <1>4, <1>5 DEF Next, Ended, allvars

(* The caller and its scope.                                                *)
LEMMA StepKeepsCaller ==
    ASSUME CallerOK, [Next]_allvars
    PROVE  CallerOK'
<1> USE DEF CallerOK
<1>1. ASSUME UNCHANGED <<parser, req>>, pc = "find", pc' \in {"find", "answer"},
             pc' = "find" => res' = res
      PROVE  CallerOK'
  BY <1>1 DEF parser
<1>2. ASSUME FindMiss \/ FindHit \/ FindStep PROVE CallerOK'
  BY <1>1, <1>2 DEF FindMiss, FindHit, FindStep, NotInScope, Answer
<1>3. ASSUME pc' = "insert" \/ pc' = "exited" PROVE CallerOK'
  BY <1>3
<1>4. ASSUME Leave("idle") \/ Leave("enter") PROVE CallerOK'
  BY <1>4 DEF Leave
<1>5. ASSUME pc \in {"idle", "enter"}, pc' = "idle", res' = res PROVE CallerOK'
  BY <1>5
<1>6. ASSUME NEW op, NEW nm, NEW t, NEW s, StartLookup(op, nm, t, s),
             op \in {"identifier", "function"} => s = scope,
             op \in {"add", "external"} => s = 1
      PROVE  CallerOK'
  <2>1. /\ pc = "idle" /\ pc' = "find" /\ res' = res /\ scope' = scope
        /\ req' = [op |-> op, name |-> nm, typee |-> t, from |-> s]
    BY <1>6 DEF StartLookup, parser
  <2>2. req'.op = op /\ req'.from = s
    BY <2>1
  <2>3. res' = -1
    BY <2>1
  <2> QED
    BY <1>6, <2>1, <2>2, <2>3
<1>7. ASSUME InsertStep \/ InsertFree PROVE CallerOK'
  BY <1>3, <1>4, <1>7 DEF InsertStep, InsertFree
<1>8. ASSUME DeclareIdentifier \/ DeclareSymbol \/ DeclareExternal PROVE CallerOK'
  BY <1>3, <1>8 DEF DeclareIdentifier, DeclareSymbol, DeclareExternal, Put
<1>9. ASSUME Known \/ Got \/ FunctionKnown PROVE CallerOK'
  BY <1>4, <1>9 DEF Known, Got, FunctionKnown, Return
<1>10. ASSUME ExternalExists \/ Redefined \/ FunctionType PROVE CallerOK'
  BY <1>3, <1>10 DEF ExternalExists, Redefined, FunctionType, Exit
<1>11. ASSUME BlockOpen \/ BlockClose \/ DotOpen \/ DotClose \/ EndModule
              \/ AssignType \/ EnterFunction
       PROVE  CallerOK'
  BY <1>5, <1>11 DEF BlockOpen, BlockClose, DotOpen, DotClose, EndModule,
     AssignType, EnterFunction
<1>12. ASSUME NEW nm, NEW t, NEW s,
              \/ Identifier(nm) \/ Function(nm) \/ GetSymbol(nm)
              \/ AddSymbol(nm, t) \/ External(nm, t) \/ Use(nm, s)
       PROVE  CallerOK'
  BY <1>6, <1>12 DEF Identifier, Function, GetSymbol, AddSymbol, External, Use
<1>13. ASSUME UNCHANGED allvars PROVE CallerOK'
  BY <1>13 DEF allvars, parser
<1> QED
  BY <1>2, <1>7, <1>8, <1>9, <1>10, <1>11, <1>12, <1>13 DEF Next, Step, Begin, Ended

(* putVar: the name is not bound in any scope that is visible from where    *)
(* the caller looked, and the variable is put in one of these.              *)
LEMMA PutKeepsOneBinding ==
    ASSUME TabOK, OneBinding, NEW t, NEW s, Put(t, s),
           \A id \in 1 .. Len(vars) : ~ Key(id, req.name, s)
    PROVE  OneBinding'
<1> PICK k : k = Len(vars)
  OBVIOUS
<1>1. vars \in Seq(Variable) /\ k \in Nat
  BY DEF TabOK
<1>2. /\ Len(vars') = k + 1
      /\ \A i \in 1 .. k : vars'[i] = vars[i]
      /\ vars'[k + 1].name = req.name /\ vars'[k + 1].scope = s
  BY <1>1 DEF Put
<1> SUFFICES ASSUME NEW i \in 1 .. k + 1, NEW j \in 1 .. k + 1,
                    vars'[i].name = vars'[j].name, vars'[i].scope = vars'[j].scope
             PROVE  i = j
  BY <1>2 DEF OneBinding, Key
<1>3. \A m \in 1 .. k : ~ (vars[m].name = req.name /\ vars[m].scope = s)
  BY DEF Key
<1>4. CASE i = k + 1
  BY <1>1, <1>2, <1>3, <1>4
<1>5. CASE j = k + 1
  BY <1>1, <1>2, <1>3, <1>5
<1>6. CASE i \in 1 .. k /\ j \in 1 .. k
  BY <1>2, <1>6 DEF OneBinding, Key
<1> QED
  BY <1>1, <1>4, <1>5, <1>6

(* A type keeps the keys: eq() of the resolver changes no name and scope.   *)
LEMMA AssignKeepsKeys ==
    ASSUME TabOK, AssignType
    PROVE  /\ Len(vars') = Len(vars)
           /\ \A i \in 1 .. Len(vars) : /\ vars'[i].name = vars[i].name
                                        /\ vars'[i].scope = vars[i].scope
<1>1. PICK id \in 1 .. Len(vars), t \in HostTypes :
             vars' = [vars EXCEPT ![id].typee = t]
  BY DEF AssignType
<1>2. vars \in Seq(Variable) /\ vars[id] \in Variable
  BY DEF TabOK
<1>3. vars' = [vars EXCEPT ![id] = [vars[id] EXCEPT !.typee = t]]
  BY <1>1, <1>2
<1>4. /\ [vars[id] EXCEPT !.typee = t].name = vars[id].name
      /\ [vars[id] EXCEPT !.typee = t].scope = vars[id].scope
  BY <1>2 DEF Variable
<1> QED
  BY <1>2, <1>3, <1>4

(* The scope that a caller puts its variable in was searched.               *)
LEMMA DeclaredWhereSearched ==
    ASSUME BaseInv, LookInv, NotFound, NEW s,
           \/ req.op \in {"identifier", "function"} /\ s = scope
           \/ req.op = "add" /\ s = 1
           \/ req.op = "external" /\ s = 0
    PROVE  /\ \A id \in 1 .. Len(vars) : ~ Key(id, req.name, s)
           /\ s = req.from \/ (req.from = 1 /\ s = 0)
           /\ s \in ScopeIds /\ Room
<1>1. pc = "answer" /\ res = 0
  BY DEF NotFound
<1>2. s = req.from \/ (req.from = 1 /\ s = 0)
  BY <1>1 DEF LookInv, CallerOK
<1>3. req.from \in ScopeIds /\ 0 \in ScopeIds /\ Room
  BY <1>1, InScopes DEF BaseInv, CallOK
<1>4. s \in Chain(req.from)
  BY <1>2, <1>3, SeesItself DEF BaseInv, LookInv
<1> QED
  BY <1>1, <1>2, <1>3, <1>4 DEF LookInv, AnswerOK, Key

LEMMA StepKeepsBinding ==
    ASSUME BaseInv, LookInv, [Next]_allvars
    PROVE  OneBinding'
<1>1. ASSUME vars' = vars PROVE OneBinding'
  BY <1>1 DEF LookInv, OneBinding, Key
<1>2. ASSUME DeclareIdentifier \/ DeclareSymbol \/ DeclareExternal PROVE OneBinding'
  BY <1>2, DeclaredWhereSearched, PutKeepsOneBinding
     DEF BaseInv, LookInv, DeclareIdentifier, DeclareSymbol, DeclareExternal
<1>3. ASSUME AssignType PROVE OneBinding'
  BY <1>3, AssignKeepsKeys DEF BaseInv, LookInv, OneBinding, Key
<1> USE DEF tab, Return, Leave, Exit, Answer, StartFind
<1>4. ASSUME Step
      PROVE  vars' = vars \/ DeclareIdentifier \/ DeclareSymbol \/ DeclareExternal
  BY <1>4 DEF Step, FindMiss, NotInScope, FindHit, FindStep, InsertStep, InsertFree,
     Known, Got, ExternalExists, Redefined, FunctionKnown, EnterFunction
<1>5. ASSUME Begin PROVE vars' = vars \/ AssignType
  BY <1>5 DEF Begin, BlockOpen, BlockClose, DotOpen, DotClose, EndModule,
     FunctionType, Identifier, Function, AddSymbol, GetSymbol, External, Use,
     StartLookup
<1> QED
  BY <1>1, <1>2, <1>3, <1>4, <1>5 DEF Next, Ended, allvars

(* An answer of NULL comes from the root, with nothing left to look for.    *)
LEMMA StepKeepsAnswer ==
    ASSUME BaseInv, LookInv, [Next]_allvars
    PROVE  AnswerOK'
<1> SUFFICES ASSUME pc' = "answer", res' = 0 PROVE AnswerOK'
  BY DEF AnswerOK
<1>1. ASSUME UNCHANGED allvars PROVE AnswerOK'
  BY <1>1 DEF allvars, tab, tree, LookInv, AnswerOK, Chain
<1>2. ASSUME FindMiss PROVE AnswerOK'
  <2>1. pc = "find" /\ ~ Probing /\ at = 0 /\ UNCHANGED <<vars, chains, req>>
    BY <1>2 DEF FindMiss, NotInScope, Answer, tab, tree
  <2>2. \A id : ~ Seen(id)
    BY <2>1, MissAtRoot
  <2> QED
    BY <2>1, <2>2 DEF AnswerOK, Seen, Chain
<1>3. ASSUME FindHit PROVE FALSE
  BY <1>3 DEF FindHit, Probing, Answer
<1> USE DEF Return, Leave, Exit
<1>4. ASSUME Step PROVE FindMiss \/ FindHit
  BY <1>4 DEF Step, FindStep, InsertStep, InsertFree, DeclareIdentifier,
     DeclareSymbol, DeclareExternal, Put, Known, Got, ExternalExists, Redefined,
     FunctionKnown, EnterFunction
<1>5. ASSUME Begin PROVE FALSE
  BY <1>5 DEF Begin, BlockOpen, BlockClose, DotOpen, DotClose, EndModule,
     AssignType, FunctionType, Identifier, Function, AddSymbol, GetSymbol,
     External, Use, StartLookup
<1> QED
  BY <1>1, <1>2, <1>3, <1>4, <1>5 DEF Next, Ended

(* varLookup begins where the caller looks from, with nothing behind it.    *)
LEMMA LookupBegins ==
    ASSUME BaseInv, LookInv, NEW op, NEW nm \in AllNames, NEW t, NEW s \in ScopeIds,
           StartLookup(op, nm, t, s)
    PROVE  SearchOK'
<1>1. /\ at' = s /\ n' = 0 /\ req'.name = nm /\ req'.from = s
      /\ UNCHANGED <<vars, cap, map, chains>>
      /\ slot' = IF cap = 0 THEN 0 ELSE HashSlot(nm, s, cap)
  BY DEF StartLookup, StartFind, tab, tree
<1>2. s \in Chain(s)
  BY SeesItself DEF BaseInv, LookInv
<1>3. cap # 0 => /\ Distance(HashSlot(nm, s, cap), slot') = 0
                 /\ \A q \in 0 .. cap - 1 : ~ Distance(HashSlot(nm, s, cap), q) < 0
  BY <1>1, ProbeBegins
<1> QED
  BY <1>1, <1>2, <1>3 DEF SearchOK, Chain, Distance

(* The scope that was searched is left for its parent.                      *)
LEMMA ParentBegins ==
    ASSUME BaseInv, LookInv, FindMiss, at # 0
    PROVE  SearchOK'
<1>1. /\ pc = "find" /\ ~ Probing /\ at' = Parent(at) /\ n' = 0
      /\ UNCHANGED <<vars, cap, map, chains, req>>
      /\ slot' = IF cap = 0 THEN 0 ELSE HashSlot(req.name, Parent(at), cap)
  BY DEF FindMiss, NotInScope, StartFind, tab, tree
<1>2. at \in ScopeIds /\ Parent(at) \in ScopeIds /\ req.name \in AllNames
  BY InScopes DEF BaseInv, CallOK, Call
<1>3. /\ Chain(at) = Chain(Parent(at)) \cup {at}
      /\ Parent(at) \in Chain(Parent(at))
  BY <1>2, SeesItself DEF BaseInv, LookInv, ChainOK
<1>4. Chain(at) \subseteq Chain(req.from)
  BY <1>1 DEF LookInv, SearchOK
<1>5. /\ Parent(at) \in Chain(req.from)
      /\ Chain(Parent(at)) \subseteq Chain(req.from)
  BY <1>3, <1>4
<1>6. ASSUME NEW id \in 1 .. Len(vars), vars[id].name = req.name,
             vars[id].scope \in Chain(req.from)
      PROVE  vars[id].scope \in Chain(Parent(at))
  <2>1. vars[id].scope \in Chain(at)
    BY <1>1, <1>6 DEF LookInv, SearchOK
  <2>2. vars[id].scope # at
    BY <1>1, <1>6, NoKeyThere DEF Key
  <2> QED
    BY <1>3, <2>1, <2>2
<1>7. cap # 0 => /\ Distance(HashSlot(req.name, Parent(at), cap), slot') = 0
                 /\ \A q \in 0 .. cap - 1 :
                       ~ Distance(HashSlot(req.name, Parent(at), cap), q) < 0
  BY <1>1, <1>2, ProbeBegins
<1> QED
  BY <1>1, <1>5, <1>6, <1>7 DEF SearchOK, Chain, Distance

(* i = (i + 1) & (capacity - 1), n++: one more slot lies behind the probe.  *)
LEMMA ProbeGoesOn ==
    ASSUME BaseInv, LookInv, FindStep
    PROVE  SearchOK'
<1>1. /\ pc = "find" /\ n < cap /\ map[slot] # 0 /\ ~ IsKey(map[slot])
      /\ slot' = NextSlot(slot) /\ n' = n + 1
      /\ UNCHANGED <<vars, cap, map, chains, req, at>>
  BY DEF FindStep, Probing, tab, tree
<1>2. cap \in Nat \ {0} /\ n \in Nat /\ slot \in 0 .. cap - 1
  BY <1>1 DEF BaseInv, TabOK, CallOK, Capacities
<1> DEFINE h == HashSlot(req.name, at, cap)
<1>3. h \in 0 .. cap - 1
  <2>1. req.name \in AllNames /\ at \in ScopeIds
    BY DEF BaseInv, CallOK, Call
  <2> QED
    BY <1>2, <2>1, HashInside
<1>4. Distance(h, slot) = n
  BY <1>1, <1>2 DEF LookInv, SearchOK
<1>5. \A q \in 0 .. cap - 1 : Distance(h, q) < n => map[q] # 0 /\ ~ IsKey(map[q])
  BY <1>1, <1>2 DEF LookInv, SearchOK
<1>6. h' = h /\ \A q : Distance(h, q)' = Distance(h, q)
  BY <1>1 DEF Distance
<1> HIDE DEF h
<1>7. Distance(h, slot') = n + 1 \/ n + 1 = cap
  BY <1>1, <1>2, <1>3, <1>4 DEF Distance, NextSlot
<1>8. ASSUME NEW q \in 0 .. cap - 1, Distance(h, q) < n + 1
      PROVE  map[q] # 0 /\ ~ IsKey(map[q])
  <2>1. CASE Distance(h, q) < n
    BY <1>5, <2>1
  <2>2. CASE Distance(h, q) = n
    <3>1. q = slot
      BY <1>2, <1>3, <1>4, <2>2 DEF Distance
    <3> QED
      BY <1>1, <3>1
  <2> QED
    BY <1>2, <1>3, <1>8, <2>1, <2>2 DEF Distance
<1>9. \A id : IsKey(id)' = IsKey(id)
  BY <1>1 DEF IsKey
<1>10. cap # 0 =>
          /\ Distance(h, slot') = n' \/ n' = cap
          /\ \A q \in 0 .. cap - 1 : Distance(h, q) < n' => map[q] # 0 /\ ~ IsKey(map[q])
  BY <1>1, <1>7, <1>8
<1>11. /\ at \in Chain(req.from) /\ Chain(at) \subseteq Chain(req.from)
       /\ \A id \in 1 .. Len(vars) :
             vars[id].name = req.name /\ vars[id].scope \in Chain(req.from)
                => vars[id].scope \in Chain(at)
  BY <1>1 DEF LookInv, SearchOK
<1> QED
  BY <1>1, <1>9, <1>10, <1>11 DEF SearchOK, Chain, Distance, IsKey, h

LEMMA StepKeepsSearch ==
    ASSUME BaseInv, LookInv, [Next]_allvars
    PROVE  SearchOK'
<1> SUFFICES ASSUME pc' = "find" PROVE SearchOK'
  BY DEF SearchOK
<1>1. ASSUME UNCHANGED allvars PROVE SearchOK'
  BY <1>1 DEF allvars, tab, tree, probe, LookInv, SearchOK, Chain, Distance, IsKey
<1>2. ASSUME FindMiss PROVE SearchOK'
  BY <1>2, ParentBegins DEF FindMiss, NotInScope, Answer
<1>3. ASSUME FindStep PROVE SearchOK'
  BY <1>3, ProbeGoesOn
<1> USE DEF Return, Leave, Exit
<1>4. ASSUME Step PROVE FindMiss \/ FindStep
  BY <1>4 DEF Step, FindHit, Answer, InsertStep, InsertFree, DeclareIdentifier,
     DeclareSymbol, DeclareExternal, Put, Known, Got, ExternalExists, Redefined,
     FunctionKnown, EnterFunction
<1>5. ASSUME Begin PROVE SearchOK'
  <2>1. 1 \in ScopeIds /\ scope \in ScopeIds /\ 1 .. 1 + entered \subseteq ScopeIds
    BY InScopes DEF BaseInv, TreeInv, TreeOK, ScopeIds
  <2>2. Names \subseteq AllNames
    BY DEF AllNames
  <2>3. ASSUME NEW nm \in Names, NEW t,
               Identifier(nm) \/ Function(nm) \/ External(nm, t)
        PROVE  SearchOK'
    BY <2>1, <2>2, <2>3, LookupBegins DEF Identifier, Function, External
  <2>4. ASSUME NEW nm \in AllNames, NEW t, AddSymbol(nm, t) \/ GetSymbol(nm)
        PROVE  SearchOK'
    BY <2>1, <2>4, LookupBegins DEF AddSymbol, GetSymbol
  <2>5. ASSUME NEW nm \in AllNames, NEW s \in 1 .. 1 + entered, Use(nm, s)
        PROVE  SearchOK'
    BY <2>1, <2>5, LookupBegins DEF Use
  <2>6. ~ (BlockOpen \/ BlockClose \/ DotOpen \/ DotClose \/ EndModule
           \/ AssignType \/ FunctionType)
    BY DEF BlockOpen, BlockClose, DotOpen, DotClose, EndModule, AssignType,
       FunctionType
  <2> QED
    BY <1>5, <2>3, <2>4, <2>5, <2>6 DEF Begin
<1> QED
  BY <1>1, <1>2, <1>3, <1>4, <1>5 DEF Next, Ended

LEMMA InitLook == Init => LookInv
<1> SUFFICES ASSUME Init PROVE LookInv
  OBVIOUS
<1>1. /\ scopes = <<SIZE_MAX, 0>> /\ chains = <<{0}, {0, 1}>> /\ vars = <<>>
      /\ cap = 0 /\ pc = "find" /\ at = 1 /\ res = -1
      /\ req = [op |-> "add", name |-> This, typee |-> "some", from |-> 1]
  BY DEF Init
<1>2. /\ Len(scopes) = 2 /\ Len(chains) = 2 /\ chains \in Seq(SUBSET Nat)
      /\ Chain(0) = {0} /\ Chain(1) = {0, 1} /\ Parent(1) = 0
      /\ ScopeIds = {0, 1}
  BY <1>1 DEF Chain, Parent, ScopeIds
<1>3. ChainOK
  BY <1>2 DEF ChainOK
<1>4. OneBinding /\ AnswerOK
  BY <1>1 DEF OneBinding, AnswerOK
<1>5. CallerOK
  BY <1>1 DEF CallerOK
<1>6. SearchOK
  BY <1>1, <1>2 DEF SearchOK
<1> QED
  BY <1>3, <1>4, <1>5, <1>6 DEF LookInv

LEMMA InitBase == Init => BaseInv
  BY InitTree, InitTab, InitPath DEF BaseInv

LEMMA StepKeepsBase == BaseInv /\ [Next]_allvars => BaseInv'
  BY StepKeepsTree, StepKeepsTab, StepKeepsPath DEF BaseInv

LEMMA StepKeepsLook == BaseInv /\ LookInv /\ [Next]_allvars => LookInv'
<1> SUFFICES ASSUME BaseInv, LookInv, [Next]_allvars PROVE LookInv'
  OBVIOUS
<1>1. TreeInv /\ ChainOK /\ CallerOK
  BY DEF BaseInv, LookInv
<1> QED
  BY <1>1, StepKeepsChains, StepKeepsBinding, StepKeepsCaller, StepKeepsSearch,
     StepKeepsAnswer DEF LookInv

-----------------------------------------------------------------------------
(* Every step is a step of the dictionary, or none that it shows.           *)

(* the bindings and the answer that the dictionary sees *)
Binds == [id \in 1 .. Len(vars) |->
            [name |-> vars[id].name, scope |-> vars[id].scope]]
Answered == IF res = -1 THEN [name |-> This, from |-> 0, id |-> -1]
            ELSE [name |-> req.name, from |-> req.from, id |-> res]

LEMMA SameBinds ==
    ASSUME Len(vars') = Len(vars),
           \A i \in 1 .. Len(vars) : /\ vars'[i].name = vars[i].name
                                     /\ vars'[i].scope = vars[i].scope
    PROVE  Binds' = Binds
  BY DEF Binds

(* what a call, its probes and its insertions do inside the table *)
LEMMA ShowsNothing ==
    ASSUME UNCHANGED <<chains, Binds, Answered>>
    PROVE  UNCHANGED Dict!dvars
  BY DEF Dict!dvars, Binds, Answered

(* scope_enter *)
LEMMA EnterIsEnter ==
    ASSUME BaseInv, LookInv, NEW kind, ScopeEnter(kind), vars' = vars,
           res' = res, req' = req
    PROVE  Dict!Next
<1>1. /\ Len(chains) < MaxScopes
      /\ chains' = Append(chains, Chain(scope) \cup {Len(chains)})
  BY EnterKeepsChains DEF BaseInv, LookInv
<1>2. Binds' = Binds /\ Answered' = Answered
  BY DEF Binds, Answered
<1>3. scope \in Dict!Scopes
  BY DEF BaseInv, TreeInv, TreeOK, LookInv, ChainOK, ScopeIds, Dict!Scopes
<1>4. Dict!Enter(scope)
  BY <1>1, <1>2 DEF Dict!Enter, Dict!Chain, Chain, Binds, Answered
<1> QED
  BY <1>3, <1>4 DEF Dict!Next

(* varLookup's answer is the oldest binding of the innermost scope.         *)
LEMMA AnswerIsFind ==
    ASSUME BaseInv, LookInv, NEW r \in 0 .. Len(vars), Answer(r), pc = "find",
           \/ r = 0 /\ \A j : ~ Seen(j)
           \/ /\ Seen(r)
              /\ \A j : Seen(j) => vars[j].scope < vars[r].scope \/ j = r
    PROVE  Dict!Next
<1>1. UNCHANGED <<vars, chains, req>> /\ res' = r
  BY DEF Answer, tab, tree
<1>2. /\ req.name \in AllNames /\ req.from \in ScopeIds /\ Len(vars) \in Nat
      /\ \A j \in 1 .. Len(vars) : vars[j].scope \in Nat
  BY InScopes DEF BaseInv, CallOK, Call, TabOK
<1>3. req.from \in Dict!Scopes /\ req.name \in Dict!AllNames
  BY <1>2 DEF LookInv, ChainOK, ScopeIds, Dict!Scopes, Dict!AllNames, AllNames
<1>4. Len(Binds) = Len(vars)
  BY <1>2 DEF Binds
<1>5. \A j \in 1 .. Len(vars) : /\ Binds[j].name = vars[j].name
                                /\ Binds[j].scope = vars[j].scope
  BY DEF Binds
<1>6. \A j : j \in Dict!Visible(req.name, req.from) <=> Seen(j)
  BY <1>4, <1>5 DEF Dict!Visible, Dict!Chain, Chain, Seen, Binds
<1>7. ASSUME Seen(r), NEW j, Seen(j),
             vars[j].scope < vars[r].scope \/ j = r
      PROVE  Dict!Prefers(r, j)
  <2>1. j \in 1 .. Len(vars) /\ r \in 1 .. Len(vars)
    BY <1>7 DEF Seen
  <2> QED
    BY <1>2, <1>5, <1>7, <2>1 DEF Dict!Prefers, Binds
<1>8. Dict!Resolves(req.name, req.from, r)
  BY <1>6, <1>7 DEF Dict!Resolves
<1>9. /\ Binds' = Binds
      /\ Answered' = [name |-> req.name, from |-> req.from, id |-> r]
  BY <1>1, <1>2 DEF Binds, Answered
<1>10. Dict!Find(req.name, req.from)
  BY <1>1, <1>4, <1>8, <1>9 DEF Dict!Find, Binds, Answered
<1> QED
  BY <1>3, <1>10 DEF Dict!Next

(* putVar, as its caller sees it                                            *)
LEMMA PutIsDeclare ==
    ASSUME BaseInv, LookInv, NotFound, NEW t, NEW s, Put(t, s),
           \/ req.op \in {"identifier", "function"} /\ s = scope
           \/ req.op = "add" /\ s = 1
           \/ req.op = "external" /\ s = 0
    PROVE  Dict!Next
<1> PICK k : k = Len(vars)
  OBVIOUS
<1>1. /\ vars \in Seq(Variable) /\ k \in Nat /\ k < MaxVars
      /\ s = req.from \/ (req.from = 1 /\ s = 0)
      /\ s \in ScopeIds
  <2>1. (s = req.from \/ (req.from = 1 /\ s = 0)) /\ s \in ScopeIds /\ Room
    BY DeclaredWhereSearched
  <2> QED
    BY <2>1 DEF BaseInv, TabOK, Room
<1>2. /\ Len(vars') = k + 1
      /\ \A i \in 1 .. k : vars'[i] = vars[i]
      /\ vars'[k + 1].name = req.name /\ vars'[k + 1].scope = s
      /\ res = 0 /\ res' = k + 1 /\ req' = req /\ chains' = chains
  BY <1>1 DEF Put, NotFound, tree
<1>3. Answered = [name |-> req.name, from |-> req.from, id |-> 0]
  BY <1>2 DEF Answered
<1>4. Answered' = [name |-> req.name, from |-> req.from, id |-> k + 1]
  BY <1>1, <1>2 DEF Answered
<1>5. Len(Binds) = k /\ Binds' = Append(Binds, [name |-> req.name, scope |-> s])
  <2>1. Len(Binds) = k
    BY <1>1 DEF Binds
  <2>2. Binds' = [i \in 1 .. k + 1 |->
                    [name |-> vars'[i].name, scope |-> vars'[i].scope]]
    BY <1>2 DEF Binds
  <2>3. Append(Binds, [name |-> req.name, scope |-> s])
          = [i \in 1 .. k + 1 |-> IF i \in 1 .. k THEN Binds[i]
                                  ELSE [name |-> req.name, scope |-> s]]
    BY <1>1, <2>1 DEF Binds
  <2>4. \A i \in 1 .. k + 1 :
           [name |-> vars'[i].name, scope |-> vars'[i].scope]
              = IF i \in 1 .. k THEN Binds[i] ELSE [name |-> req.name, scope |-> s]
    BY <1>1, <1>2 DEF Binds
  <2> QED
    BY <2>1, <2>2, <2>3, <2>4
<1>6. Dict!Declare(s)
  BY <1>1, <1>2, <1>3, <1>4, <1>5 DEF Dict!Declare, Binds, Answered
<1>7. s \in Dict!Scopes
  BY <1>1 DEF LookInv, ChainOK, ScopeIds, Dict!Scopes
<1> QED
  BY <1>6, <1>7 DEF Dict!Next

(* the caller is done with the answer *)
LEMMA LeaveIsTake ==
    ASSUME NEW p, Leave(p), vars' = vars, chains' = chains
    PROVE  Dict!Next
<1>1. Binds' = Binds /\ Answered' = [name |-> This, from |-> 0, id |-> -1]
  BY DEF Binds, Answered, Leave
<1>2. Dict!Take
  BY <1>1 DEF Dict!Take, Dict!NoAnswer, Binds, Answered
<1> QED
  BY <1>2 DEF Dict!Next

LEMMA StepIsDictStep ==
    BaseInv /\ LookInv /\ [Next]_allvars => [Dict!Next]_(Dict!dvars)
<1> SUFFICES ASSUME BaseInv, LookInv, [Next]_allvars
             PROVE  Dict!Next \/ UNCHANGED Dict!dvars
  OBVIOUS
<1>a. ASSUME UNCHANGED <<vars, chains>>, \/ UNCHANGED <<res, req>>
                                         \/ res = -1 /\ res' = -1
      PROVE  UNCHANGED Dict!dvars
  BY <1>a, ShowsNothing DEF Binds, Answered
<1>1. ASSUME FindMiss PROVE Dict!Next \/ UNCHANGED Dict!dvars
  <2>1. CASE at = 0 /\ Answer(0)
    <3>1. \A id : ~ Seen(id)
      BY <1>1, <2>1, MissAtRoot DEF FindMiss
    <3>2. 0 \in 0 .. Len(vars)
      BY DEF BaseInv, TabOK
    <3> QED
      BY <1>1, <2>1, <3>1, <3>2, AnswerIsFind DEF FindMiss
  <2>2. CASE UNCHANGED <<tab, tree, req, res>>
    BY <2>2, <1>a DEF tab, tree
  <2> QED
    BY <1>1, <2>1, <2>2 DEF FindMiss, NotInScope
<1>2. ASSUME FindHit PROVE Dict!Next
  <2>1. /\ Seen(map[slot])
        /\ \A j : Seen(j) => vars[j].scope < vars[map[slot]].scope \/ j = map[slot]
    BY <1>2, HitIsInnermost
  <2>2. map[slot] \in 0 .. Len(vars)
    BY <2>1 DEF Seen
  <2> QED
    BY <1>2, <2>1, <2>2, AnswerIsFind DEF FindHit
<1>3. ASSUME FindStep \/ InsertStep PROVE UNCHANGED Dict!dvars
  BY <1>3, <1>a DEF FindStep, InsertStep, tab, tree
<1>4. ASSUME InsertFree PROVE Dict!Next \/ UNCHANGED Dict!dvars
  BY <1>4, <1>a, LeaveIsTake DEF InsertFree, tree
<1>5. ASSUME DeclareIdentifier \/ DeclareSymbol \/ DeclareExternal PROVE Dict!Next
  BY <1>5, PutIsDeclare DEF DeclareIdentifier, DeclareSymbol, DeclareExternal
<1>6. ASSUME Known \/ Got \/ FunctionKnown PROVE Dict!Next
  BY <1>6, LeaveIsTake DEF Known, Got, FunctionKnown, Return, tab, tree
<1>7. ASSUME ExternalExists \/ Redefined \/ FunctionType PROVE UNCHANGED Dict!dvars
  BY <1>7, <1>a DEF ExternalExists, Redefined, FunctionType, Exit, tab, tree
<1>8. ASSUME EnterFunction \/ BlockOpen PROVE Dict!Next
  BY <1>8, EnterIsEnter DEF EnterFunction, BlockOpen, tab
<1>9. ASSUME BlockClose \/ DotOpen \/ DotClose \/ EndModule PROVE UNCHANGED Dict!dvars
  BY <1>9, <1>a DEF BlockClose, DotOpen, DotClose, EndModule, tab, tree
<1>10. ASSUME AssignType PROVE UNCHANGED Dict!dvars
  <2>1. Binds' = Binds
    BY <1>10, AssignKeepsKeys, SameBinds DEF BaseInv
  <2>2. Answered' = Answered /\ chains' = chains
    BY <1>10 DEF AssignType, Answered, tree
  <2> QED
    BY <2>1, <2>2, ShowsNothing
<1>11. ASSUME NEW op, NEW nm, NEW t, NEW s, StartLookup(op, nm, t, s)
       PROVE  UNCHANGED Dict!dvars
  <2>1. pc = "idle" /\ res' = res /\ vars' = vars /\ chains' = chains
    BY <1>11 DEF StartLookup, tab, tree
  <2>2. res = -1
    BY <2>1 DEF LookInv, CallerOK
  <2> QED
    BY <2>1, <2>2, <1>a
<1>12. ASSUME UNCHANGED allvars PROVE UNCHANGED Dict!dvars
  BY <1>12, <1>a DEF allvars, tab, tree
<1> QED
  BY <1>1, <1>2, <1>3, <1>4, <1>5, <1>6, <1>7, <1>8, <1>9, <1>10, <1>11, <1>12
     DEF Next, Step, Begin, Ended, Identifier, Function, AddSymbol, GetSymbol,
         External, Use

LEMMA InitIsDictInit == Init => Dict!Init
<1> SUFFICES ASSUME Init PROVE Dict!Init
  OBVIOUS
<1>1. chains = <<{0}, {0, 1}>> /\ vars = <<>> /\ res = -1
  BY DEF Init
<1>2. Binds = <<>>
  BY <1>1 DEF Binds
<1>3. Answered = Dict!NoAnswer
  BY <1>1 DEF Answered, Dict!NoAnswer
<1> QED
  BY <1>1, <1>2, <1>3 DEF Dict!Init, Binds, Answered

(* What the program sees of the table is a dictionary: every varLookup      *)
(* answers with the oldest binding of the innermost scope, and putVar only  *)
(* adds a binding after its caller looked and found none, whatever hashes   *)
(* collide and whenever the table is rebuilt.                               *)
THEOREM TableIsDictionary == Spec => ImplementsDict
<1>1. Init => BaseInv /\ LookInv /\ Dict!Init
  BY InitBase, InitLook, InitIsDictInit
<1>2. BaseInv /\ LookInv /\ [Next]_allvars => BaseInv' /\ LookInv'
  BY StepKeepsBase, StepKeepsLook
<1> QED
  BY <1>1, <1>2, StepIsDictStep, PTL DEF Spec, ImplementsDict, Dict!Spec
=============================================================================
