--------------------------- MODULE Session_proofs ---------------------------
(* Proofs about Session: no file is compiled twice, code runs once for      *)
(* every module that the resolver has accepted, there are pages below all   *)
(* code, and types that are found are the types that were asked for.        *)
EXTENDS Session, TypeTable_proofs

Record == [path : Files, text : Files \cup Sources, accepted : BOOLEAN, ran : BOOLEAN,
           size : Int, capacity : Int, mapped : Int]

(* The list of modules, and those that parse() is in, from the outermost to *)
(* the innermost, which are in the order in which they were begun.          *)
ListOK == /\ modules \in Seq(Record)
          /\ parsing \in Seq(1 .. Len(modules))
          /\ \A i, j \in 1 .. Len(parsing) : i < j => parsing[i] < parsing[j]
          /\ phase \in {"parse", "resolve", "emit"}

(* No two modules have one path. *)
OnePath == \A i, j \in 1 .. Len(modules) : modules[i].path = modules[j].path => i = j

(* Only the innermost module can have been accepted and not have run yet,   *)
(* and that while its code is written; the outer ones wait in their parser. *)
Waiting(i) == \E k \in 1 .. Len(parsing) : parsing[k] = i
RunOK == /\ \A k \in 1 .. Len(parsing) : ~ modules[parsing[k]].ran
         /\ \A k \in 1 .. Len(parsing) :
               modules[parsing[k]].accepted <=> k = Len(parsing) /\ phase = "emit"
         /\ \A i \in 1 .. Len(modules) : modules[i].ran => modules[i].accepted
         /\ \A i \in 1 .. Len(modules) :
               ~ Waiting(i) /\ modules[i].accepted => modules[i].ran

SessionInv == ListOK /\ OnePath /\ RunOK

-----------------------------------------------------------------------------
(* All of a sequence but its last element.                                  *)
LEMMA FrontOf ==
    ASSUME NEW S, NEW s \in Seq(S), s # <<>>
    PROVE  /\ Front(s) \in Seq(S) /\ Len(Front(s)) = Len(s) - 1
           /\ \A k \in 1 .. Len(s) - 1 : Front(s)[k] = s[k]
<1>1. Len(s) \in Nat \ {0} /\ Front(s) = SubSeq(s, 1, Len(s) - 1)
  BY DEF Front
<1> DEFINE l == Len(s) - 1
<1>2. l \in Int /\ 1 \in Int /\ \A k \in 1 .. l : s[k] \in S
  BY <1>1
<1> HIDE DEF l
<1>3. /\ SubSeq(s, 1, l) \in Seq(S)
      /\ Len(SubSeq(s, 1, l)) = IF 1 <= l THEN l - 1 + 1 ELSE 0
      /\ \A k \in 1 .. l - 1 + 1 : SubSeq(s, 1, l)[k] = s[1 + k - 1]
  BY <1>2, SubSeqProperties
<1> DEFINE t == SubSeq(s, 1, l)
<1>4. Front(s) = t
  BY <1>1 DEF l
<1> HIDE DEF t
<1>5. /\ t \in Seq(S) /\ Len(t) = l /\ \A k \in 1 .. l : t[k] = s[k]
  <2>1. /\ t \in Seq(S)
        /\ Len(t) = IF 1 <= l THEN l - 1 + 1 ELSE 0
        /\ \A k \in 1 .. l - 1 + 1 : t[k] = s[1 + k - 1]
    BY <1>3, Zenon DEF t
  <2>2. l \in Nat
    BY <1>1 DEF l
  <2> QED
    BY <2>1, <2>2
<1> QED
  BY <1>4, <1>5 DEF l

(* A module that is begun is new and has not been accepted; the one that    *)
(* imports it is in its parser.                                             *)
LEMMA BeginKeeps ==
    ASSUME SessionInv, NEW path \in Files, NEW text \in Files \cup Sources,
           SameFile(path) = {}, phase = "parse" \/ parsing = <<>>, Begin(path, text)
    PROVE  SessionInv'
<1> DEFINE n == Len(modules)
           d == Len(parsing)
<1>1. /\ modules \in Seq(Record) /\ parsing \in Seq(1 .. n) /\ n \in Nat /\ d \in Nat
      /\ \A k \in 1 .. d : parsing[k] \in 1 .. n
  BY DEF SessionInv, ListOK
<1>2. Fresh(path, text) \in Record /\ Fresh(path, text).path = path
      /\ Fresh(path, text).accepted = FALSE /\ Fresh(path, text).ran = FALSE
  BY DEF Fresh, Record
<1>3. /\ Len(modules') = n + 1
      /\ modules'[n + 1] = Fresh(path, text)
      /\ \A i \in 1 .. n : modules'[i] = modules[i]
      /\ modules' \in Seq(Record)
  BY <1>1, <1>2 DEF Begin
<1>4. /\ Len(parsing') = d + 1
      /\ parsing'[d + 1] = n + 1
      /\ \A k \in 1 .. d : parsing'[k] = parsing[k]
      /\ parsing' \in Seq(1 .. n + 1)
      /\ phase' = "parse"
  <2>1. parsing \in Seq(1 .. n + 1)
    BY <1>1
  <2> QED
    BY <1>1, <2>1 DEF Begin
<1>5. ListOK'
  <2>1. \A i, j \in 1 .. d + 1 : i < j => parsing'[i] < parsing'[j]
    <3> SUFFICES ASSUME NEW i \in 1 .. d + 1, NEW j \in 1 .. d + 1, i < j
                 PROVE  parsing'[i] < parsing'[j]
      OBVIOUS
    <3>1. i \in 1 .. d /\ parsing'[i] = parsing[i] /\ parsing[i] \in 1 .. n
      BY <1>1, <1>4
    <3>2. CASE j = d + 1
      BY <1>1, <1>4, <3>1, <3>2
    <3>3. CASE j \in 1 .. d
      <4>1. parsing'[j] = parsing[j]
        BY <1>4, <3>3
      <4>2. parsing[i] < parsing[j]
        BY <3>1, <3>3 DEF SessionInv, ListOK
      <4> QED
        BY <3>1, <4>1, <4>2
    <3>4. j = d + 1 \/ j \in 1 .. d
      <4>1. d \in Nat
        BY <1>1
      <4> HIDE DEF d
      <4> QED
        BY <4>1
    <3> QED
      BY <3>2, <3>3, <3>4
  <2>2. modules' \in Seq(Record) /\ parsing' \in Seq(1 .. Len(modules'))
    BY <1>3, <1>4
  <2>3. \A i, j \in 1 .. Len(parsing') : i < j => parsing'[i] < parsing'[j]
    BY <1>4, <2>1
  <2>4. phase' \in {"parse", "resolve", "emit"}
    BY <1>4
  <2> QED
    BY <2>2, <2>3, <2>4, Zenon DEF ListOK
<1>6. OnePath'
  <2>1. \A i \in 1 .. n : modules[i].path # path
    BY <1>1 DEF SameFile
  <2> SUFFICES ASSUME NEW i \in 1 .. n + 1, NEW j \in 1 .. n + 1,
                      modules'[i].path = modules'[j].path
               PROVE  i = j
    BY <1>3 DEF OnePath
  <2>2. CASE i \in 1 .. n /\ j \in 1 .. n
    BY <1>3, <2>2 DEF SessionInv, OnePath
  <2>3. CASE i = n + 1 \/ j = n + 1
    BY <1>1, <1>2, <1>3, <2>1, <2>3
  <2> QED
    BY <1>1, <2>2, <2>3
<1>7. RunOK'
  <2>1. \A k \in 1 .. d + 1 : ~ modules'[parsing'[k]].ran /\ ~ modules'[parsing'[k]].accepted
    <3> SUFFICES ASSUME NEW k \in 1 .. d + 1
                 PROVE  ~ modules'[parsing'[k]].ran /\ ~ modules'[parsing'[k]].accepted
      OBVIOUS
    <3>1. CASE k = d + 1
      BY <1>2, <1>3, <1>4, <3>1
    <3>2. CASE k \in 1 .. d
      <4>1. parsing # <<>> /\ phase = "parse"
        BY <1>1, <3>2
      <4> QED
        BY <1>1, <1>3, <1>4, <3>2, <4>1 DEF SessionInv, RunOK
    <3> QED
      BY <1>1, <3>1, <3>2
  <2>2. \A i \in 1 .. n + 1 : modules'[i].ran => modules'[i].accepted
    BY <1>1, <1>2, <1>3 DEF SessionInv, RunOK
  <2>3. \A i \in 1 .. n + 1 : ~ Waiting(i)' /\ modules'[i].accepted => modules'[i].ran
    <3> SUFFICES ASSUME NEW i \in 1 .. n + 1, ~ Waiting(i)', modules'[i].accepted
                 PROVE  modules'[i].ran
      OBVIOUS
    <3>1. i \in 1 .. n /\ modules'[i] = modules[i]
      BY <1>1, <1>2, <1>3
    <3>2. ~ Waiting(i)
      <4> SUFFICES ASSUME NEW k \in 1 .. d, parsing[k] = i PROVE FALSE
        BY DEF Waiting
      <4>1. k \in 1 .. Len(parsing') /\ parsing'[k] = i
        BY <1>1, <1>4
      <4> QED
        BY <4>1 DEF Waiting
    <3> QED
      BY <3>1, <3>2 DEF SessionInv, RunOK
  <2> QED
    BY <1>3, <1>4, <2>1, <2>2, <2>3 DEF RunOK
<1> QED
  BY <1>5, <1>6, <1>7 DEF SessionInv

(* The innermost module is one of the list and was begun last.              *)
LEMMA CurrentIsLast ==
    ASSUME SessionInv, parsing # <<>>
    PROVE  /\ Len(parsing) \in Nat \ {0}
           /\ Current = parsing[Len(parsing)]
           /\ Current \in 1 .. Len(modules)
           /\ modules[Current] \in Record
           /\ \A k \in 1 .. Len(parsing) : parsing[k] = Current => k = Len(parsing)
<1>1. /\ modules \in Seq(Record) /\ parsing \in Seq(1 .. Len(modules))
      /\ \A i, j \in 1 .. Len(parsing) : i < j => parsing[i] < parsing[j]
  BY DEF SessionInv, ListOK
<1>2. Len(parsing) \in Nat \ {0} /\ Current = parsing[Len(parsing)]
  BY <1>1 DEF Current, Last
<1>3. Current \in 1 .. Len(modules) /\ modules[Current] \in Record
  BY <1>1, <1>2
<1>4. \A k \in 1 .. Len(parsing) : parsing[k] = Current => k = Len(parsing)
  <2> SUFFICES ASSUME NEW k \in 1 .. Len(parsing), k < Len(parsing), parsing[k] = Current
               PROVE  FALSE
    BY <1>2
  <2>1. parsing[k] < parsing[Len(parsing)]
    BY <1>1, <1>2
  <2>2. parsing[k] \in 1 .. Len(modules)
    BY <1>1
  <2> QED
    BY <1>2, <2>1, <2>2
<1> QED
  BY <1>2, <1>3, <1>4

(* Changing the innermost module in a way that keeps its path.              *)
LEMMA ChangeKeepsList ==
    ASSUME SessionInv, parsing # <<>>, NEW m \in Record, m.path = modules[Current].path,
           modules' = [modules EXCEPT ![Current] = m]
    PROVE  /\ modules' \in Seq(Record) /\ Len(modules') = Len(modules)
           /\ modules'[Current] = m
           /\ \A i \in 1 .. Len(modules) : i # Current => modules'[i] = modules[i]
           /\ OnePath'
<1>1. /\ modules \in Seq(Record) /\ Current \in 1 .. Len(modules)
  BY CurrentIsLast DEF SessionInv, ListOK
<1>2. /\ modules' \in Seq(Record) /\ Len(modules') = Len(modules)
      /\ modules'[Current] = m
      /\ \A i \in 1 .. Len(modules) : i # Current => modules'[i] = modules[i]
  BY <1>1
<1>3. \A i \in 1 .. Len(modules) : modules'[i].path = modules[i].path
  BY <1>1, <1>2
<1> QED
  BY <1>2, <1>3 DEF SessionInv, OnePath

(* The end of a module: what parse() was in before is left but for the      *)
(* innermost, which has run if it has been accepted.                        *)
LEMMA ReturnKeeps ==
    ASSUME SessionInv, parsing # <<>>, parsing' = Front(parsing), phase' = "parse",
           \/ phase # "emit" /\ UNCHANGED modules
           \/ phase = "emit" /\ modules' = [modules EXCEPT ![Current].ran = TRUE]
    PROVE  SessionInv'
<1> DEFINE n == Len(modules)
           d == Len(parsing)
<1>1. /\ modules \in Seq(Record) /\ parsing \in Seq(1 .. n) /\ n \in Nat
      /\ \A i, j \in 1 .. d : i < j => parsing[i] < parsing[j]
      /\ d \in Nat \ {0} /\ Current = parsing[d] /\ Current \in 1 .. n
      /\ modules[Current] \in Record
      /\ \A k \in 1 .. d : parsing[k] = Current => k = d
  BY CurrentIsLast DEF SessionInv, ListOK
<1>2. /\ parsing' \in Seq(1 .. n) /\ Len(parsing') = d - 1
      /\ \A k \in 1 .. d - 1 : parsing'[k] = parsing[k]
  BY <1>1, FrontOf
<1>3. /\ modules' \in Seq(Record) /\ Len(modules') = n /\ OnePath'
      /\ \A i \in 1 .. n : i # Current => modules'[i] = modules[i]
      /\ modules'[Current].accepted = modules[Current].accepted
      /\ modules'[Current].ran = (phase = "emit")
  <2>1. CASE phase # "emit"
    <3>1. modules' = modules
      BY <2>1
    <3>2. modules[Current].ran = FALSE
      <4>1. ~ modules[Current].ran
        <5>1. \A k \in 1 .. d : ~ modules[parsing[k]].ran
          BY DEF SessionInv, RunOK
        <5> QED
          BY <1>1, <5>1
      <4>2. modules[Current].ran \in BOOLEAN
        BY <1>1 DEF Record
      <4> QED
        BY <4>1, <4>2
    <3>3. OnePath'
      BY <3>1 DEF SessionInv, OnePath
    <3>4. (phase = "emit") = FALSE
      BY <2>1
    <3> QED
      BY <1>1, <3>1, <3>2, <3>3, <3>4
  <2>2. CASE phase = "emit"
    <3> DEFINE m == [modules[Current] EXCEPT !.ran = TRUE]
    <3>1. /\ m \in Record /\ m.path = modules[Current].path /\ m.ran = TRUE
          /\ m.accepted = modules[Current].accepted
      BY <1>1 DEF Record
    <3>2. modules' = [modules EXCEPT ![Current] = m]
      BY <1>1, <2>2
    <3> HIDE DEF m
    <3>3. /\ modules' \in Seq(Record) /\ Len(modules') = n /\ modules'[Current] = m /\ OnePath'
          /\ \A i \in 1 .. n : i # Current => modules'[i] = modules[i]
      BY <3>1, <3>2, ChangeKeepsList
    <3> QED
      BY <2>2, <3>1, <3>3
  <2> QED
    BY <2>1, <2>2
<1>4. ListOK'
  <2>1. \A i, j \in 1 .. d - 1 : i < j => parsing'[i] < parsing'[j]
    <3> SUFFICES ASSUME NEW i \in 1 .. d - 1, NEW j \in 1 .. d - 1, i < j
                 PROVE  parsing'[i] < parsing'[j]
      OBVIOUS
    <3>1. /\ parsing'[i] = parsing[i] /\ parsing'[j] = parsing[j]
          /\ i \in 1 .. d /\ j \in 1 .. d
      <4>1. d \in Nat
        BY <1>1
      <4> HIDE DEF d
      <4>2. i \in 1 .. d /\ j \in 1 .. d
        BY <4>1
      <4> QED
        BY <1>2, <4>2
    <3> QED
      BY <1>1, <3>1
  <2>2. modules' \in Seq(Record) /\ parsing' \in Seq(1 .. Len(modules'))
    BY <1>2, <1>3
  <2>3. \A i, j \in 1 .. Len(parsing') : i < j => parsing'[i] < parsing'[j]
    BY <1>2, <2>1
  <2>4. phase' \in {"parse", "resolve", "emit"}
    OBVIOUS
  <2> QED
    BY <2>2, <2>3, <2>4, Zenon DEF ListOK
<1>5. \A k \in 1 .. d - 1 : /\ parsing[k] # Current /\ parsing[k] \in 1 .. n
                           /\ modules'[parsing[k]] = modules[parsing[k]]
  BY <1>1, <1>3
<1>6. \A k \in 1 .. d - 1 : ~ modules'[parsing'[k]].ran /\ ~ modules'[parsing'[k]].accepted
  <2> SUFFICES ASSUME NEW k \in 1 .. d - 1
               PROVE  ~ modules'[parsing'[k]].ran /\ ~ modules'[parsing'[k]].accepted
    OBVIOUS
  <2>1. modules'[parsing'[k]] = modules[parsing[k]] /\ k \in 1 .. d /\ k # d
    <3>1. k \in 1 .. d /\ k # d
      <4>1. d \in Nat
        BY <1>1
      <4> HIDE DEF d
      <4> QED
        BY <4>1
    <3>2. parsing'[k] = parsing[k]
      BY <1>2
    <3>3. modules'[parsing[k]] = modules[parsing[k]]
      BY <1>5
    <3> QED
      BY <3>1, <3>2, <3>3
  <2>2. ~ modules[parsing[k]].ran
    BY <2>1 DEF SessionInv, RunOK
  <2>3. ~ modules[parsing[k]].accepted
    BY <2>1 DEF SessionInv, RunOK
  <2> QED
    BY <2>1, <2>2, <2>3
<1>7. \A i \in 1 .. n : modules'[i].ran => modules'[i].accepted
  <2>1. modules[Current].accepted <=> phase = "emit"
    BY <1>1 DEF SessionInv, RunOK
  <2> QED
    BY <1>1, <1>3, <2>1 DEF SessionInv, RunOK
<1>8. \A i \in 1 .. n : ~ Waiting(i)' /\ modules'[i].accepted => modules'[i].ran
  <2> SUFFICES ASSUME NEW i \in 1 .. n, ~ Waiting(i)', modules'[i].accepted
               PROVE  modules'[i].ran
    OBVIOUS
  <2>1. CASE i = Current
    <3>1. modules[Current].accepted <=> phase = "emit"
      BY <1>1 DEF SessionInv, RunOK
    <3> QED
      BY <1>3, <2>1, <3>1
  <2>2. CASE i # Current
    <3>1. ~ Waiting(i)
      <4> SUFFICES ASSUME NEW k \in 1 .. d, parsing[k] = i PROVE FALSE
        BY DEF Waiting
      <4>1. k \in 1 .. d - 1
        BY <1>1, <2>2
      <4>2. k \in 1 .. Len(parsing') /\ parsing'[k] = i
        BY <1>2, <4>1
      <4> QED
        BY <4>2 DEF Waiting
    <3> QED
      BY <1>3, <2>2, <3>1 DEF SessionInv, RunOK
  <2> QED
    BY <2>1, <2>2
<1> QED
  BY <1>2, <1>3, <1>4, <1>6, <1>7, <1>8 DEF SessionInv, RunOK

(* Writing code for the innermost module, once it has been accepted.        *)
LEMMA ChangeKeeps ==
    ASSUME SessionInv, parsing # <<>>, NEW m \in Record, m.path = modules[Current].path,
           m.ran = modules[Current].ran, m.accepted = TRUE,
           modules' = [modules EXCEPT ![Current] = m], UNCHANGED parsing, phase' = "emit"
    PROVE  SessionInv'
<1> DEFINE n == Len(modules)
           d == Len(parsing)
<1>1. /\ d \in Nat \ {0} /\ Current = parsing[d] /\ Current \in 1 .. n
      /\ \A k \in 1 .. d : parsing[k] = Current => k = d
      /\ \A k \in 1 .. d : parsing[k] \in 1 .. n
  BY CurrentIsLast DEF SessionInv, ListOK
<1>2. /\ modules' \in Seq(Record) /\ Len(modules') = n /\ modules'[Current] = m
      /\ \A i \in 1 .. n : i # Current => modules'[i] = modules[i]
      /\ OnePath'
  BY ChangeKeepsList
<1>3. ListOK'
  BY <1>2 DEF SessionInv, ListOK
<1>4. ~ modules[Current].ran
  BY <1>1 DEF SessionInv, RunOK
<1>5. \A k \in 1 .. d : /\ ~ modules'[parsing[k]].ran
                         /\ modules'[parsing[k]].accepted <=> k = d
  <2> SUFFICES ASSUME NEW k \in 1 .. d
               PROVE  /\ ~ modules'[parsing[k]].ran
                      /\ modules'[parsing[k]].accepted <=> k = d
    OBVIOUS
  <2>1. CASE k = d
    BY <1>1, <1>2, <1>4, <2>1
  <2>2. CASE k # d
    <3>1. modules'[parsing[k]] = modules[parsing[k]]
      BY <1>1, <1>2, <2>2
    <3> QED
      BY <2>2, <3>1 DEF SessionInv, RunOK
  <2> QED
    BY <2>1, <2>2
<1>6. \A i \in 1 .. n : modules'[i].ran => modules'[i].accepted
  BY <1>2 DEF SessionInv, RunOK
<1>7. \A i \in 1 .. n : ~ Waiting(i)' /\ modules'[i].accepted => modules'[i].ran
  <2> SUFFICES ASSUME NEW i \in 1 .. n, ~ Waiting(i), modules'[i].accepted
               PROVE  modules'[i].ran
    BY DEF Waiting
  <2>1. i # Current
    BY <1>1 DEF Waiting
  <2> QED
    BY <1>2, <2>1 DEF SessionInv, RunOK
<1> QED
  BY <1>2, <1>3, <1>5, <1>6, <1>7 DEF SessionInv, RunOK

(* Steps that change neither the modules nor which of them are parsed.      *)
LEMMA StayKeeps ==
    ASSUME SessionInv, UNCHANGED <<modules, parsing>>,
           phase' \in {"parse", "resolve", "emit"}, phase' = "emit" <=> phase = "emit"
    PROVE  SessionInv'
<1>1. ListOK' /\ OnePath'
  BY DEF SessionInv, ListOK, OnePath
<1>2. RunOK'
  BY DEF SessionInv, RunOK, Waiting
<1> QED
  BY <1>1, <1>2 DEF SessionInv

(* munmap() changes only how many pages a module has.                       *)
LEMMA UnmappedKeeps ==
    ASSUME NEW m \in Record
    PROVE  /\ Unmapped(m) \in Record /\ Unmapped(m).path = m.path
           /\ Unmapped(m).accepted = m.accepted /\ Unmapped(m).ran = m.ran
<1> DEFINE x == m.mapped - Pages(m.size)
<1>1. m.size \in Int /\ m.mapped \in Int
  BY DEF Record
<1>2. x \in Int
  BY <1>1, SessionAssumption DEF Pages
<1>3. Unmapped(m) = m \/ Unmapped(m) = [m EXCEPT !.mapped = x]
  BY DEF Unmapped
<1> HIDE DEF x
<1> QED
  BY <1>2, <1>3 DEF Record

(* A module that has been accepted is what it was before otherwise.         *)
LEMMA AcceptKeeps ==
    ASSUME NEW r \in Record
    PROVE  LET m == [r EXCEPT !.accepted = TRUE, !.size = 0]
           IN  m \in Record /\ m.path = r.path /\ m.ran = r.ran /\ m.accepted = TRUE
<1>1. ASSUME NEW x \in BOOLEAN, NEW z \in Int
      PROVE  LET w == [r EXCEPT !.accepted = x, !.size = z]
             IN  w \in Record /\ w.path = r.path /\ w.ran = r.ran /\ w.accepted = x
  BY DEF Record
<1>2. TRUE \in BOOLEAN /\ 0 \in Int
  OBVIOUS
<1> QED
  BY <1>1, <1>2, Zenon

(* emit() changes the size, the capacity and the pages of a module.         *)
LEMMA EmitKeeps ==
    ASSUME NEW m \in Record, NEW b \in Chunks
    PROVE  /\ emit(m, b) \in Record /\ emit(m, b).path = m.path
           /\ emit(m, b).accepted = m.accepted /\ emit(m, b).ran = m.ran
<1>1. /\ m.size \in Int /\ m.capacity \in Int /\ m.mapped \in Int
      /\ b \in Int /\ PAGESIZE \in Nat \ {0}
  BY SessionAssumption DEF Record
<1>2. ASSUME NEW c \in Int PROVE Pages(c) \in Int
  BY <1>1 DEF Pages
<1>3. ASSUME NEW c \in Int, NEW z \in Int PROVE Grown(c, z) \in Int
  <2>1. Pages(z - c) \in Int
    BY <1>2
  <2> QED
    BY <1>1, <2>1 DEF Grown
<1> DEFINE capacity == IF m.mapped = 0 THEN PAGESIZE ELSE m.capacity
           size == m.size + b
           grown == Grown(capacity, size)
           mapped == IF m.mapped = 0 THEN Pages(b) ELSE m.mapped
           now == IF grown = capacity THEN mapped
                  ELSE mapped - Pages(capacity) + Pages(grown)
<1>4. capacity \in Int /\ size \in Int
  BY <1>1
<1>5. grown \in Int
  BY <1>3, <1>4
<1>6. now \in Int
  <2>1. Pages(b) \in Int /\ Pages(capacity) \in Int /\ Pages(grown) \in Int
    BY <1>1, <1>2, <1>4, <1>5
  <2> HIDE DEF grown, capacity
  <2> QED
    BY <1>1, <2>1
<1>7. emit(m, b) = [m EXCEPT !.size = size, !.capacity = grown, !.mapped = now]
  BY DEF emit
<1> HIDE DEF size, grown, now
<1> QED
  BY <1>4, <1>5, <1>6, <1>7 DEF Record

(* cup_delete() gives pages back and leaves all else of the modules.        *)
LEMMA DeleteKeeps ==
    ASSUME SessionInv, cup_delete
    PROVE  SessionInv'
<1> DEFINE n == Len(modules)
<1>1. /\ modules \in Seq(Record) /\ n \in Nat /\ DOMAIN modules = 1 .. n
      /\ \A i \in 1 .. n : modules[i] \in Record
      /\ parsing = <<>> /\ parsing' = parsing /\ phase' = phase
  BY DEF SessionInv, ListOK, cup_delete, Idle
<1>2. /\ modules' = [i \in 1 .. n |-> Unmapped(modules[i])]
      /\ \A i \in 1 .. n : /\ Unmapped(modules[i]) \in Record
                            /\ Unmapped(modules[i]).path = modules[i].path
                            /\ Unmapped(modules[i]).accepted = modules[i].accepted
                            /\ Unmapped(modules[i]).ran = modules[i].ran
  <2>1. modules' = [i \in 1 .. n |-> Unmapped(modules[i])]
    BY <1>1 DEF cup_delete
  <2> SUFFICES ASSUME NEW i \in 1 .. n
               PROVE  /\ Unmapped(modules[i]) \in Record
                      /\ Unmapped(modules[i]).path = modules[i].path
                      /\ Unmapped(modules[i]).accepted = modules[i].accepted
                      /\ Unmapped(modules[i]).ran = modules[i].ran
    BY <2>1
  <2> QED
    BY <1>1, UnmappedKeeps
<1>3. /\ modules' \in Seq(Record) /\ Len(modules') = n
      /\ \A i \in 1 .. n : /\ modules'[i].path = modules[i].path
                            /\ modules'[i].accepted = modules[i].accepted
                            /\ modules'[i].ran = modules[i].ran
  BY <1>1, <1>2
<1>4. ListOK' /\ OnePath'
  BY <1>1, <1>3 DEF SessionInv, ListOK, OnePath
<1>5. RunOK'
  BY <1>1, <1>3 DEF SessionInv, RunOK, Waiting
<1> QED
  BY <1>4, <1>5 DEF SessionInv

-----------------------------------------------------------------------------
(* A new state has no modules.                                              *)
LEMMA InitHolds == Init => SessionInv
<1> SUFFICES ASSUME Init PROVE SessionInv
  OBVIOUS
<1>1. modules = <<>> /\ parsing = <<>> /\ phase = "parse"
  BY DEF Init
<1>2. modules \in Seq(Record) /\ parsing \in Seq(1 .. Len(modules))
      /\ Len(modules) = 0 /\ Len(parsing) = 0
  BY <1>1
<1> QED
  BY <1>1, <1>2 DEF SessionInv, ListOK, OnePath, RunOK

(* Every step of the host, the parser, the resolver and the generator keeps *)
(* the invariant.                                                           *)
LEMMA StepKeeps == SessionInv /\ [Next]_vars => SessionInv'
<1> SUFFICES ASSUME SessionInv, [Next]_vars PROVE SessionInv'
  OBVIOUS
<1>1. phase \in {"parse", "resolve", "emit"}
  BY DEF SessionInv, ListOK
<1>2. CASE importModule
  <2>1. PICK path \in Files :
            UNCHANGED <<modules, parsing, phase>> \/ (SameFile(path) = {} /\ Begin(path, path))
    BY <1>2 DEF importModule
  <2>2. phase = "parse"
    BY <1>2 DEF importModule, In
  <2> QED
    BY <1>1, <2>1, <2>2, BeginKeeps, StayKeeps
<1>3. CASE cup_compile_string \/ cup_compile_file
  <2>1. PICK path \in Files, text \in Files \cup Sources : cup_compile(path, text)
    BY <1>3, SessionAssumption DEF cup_compile_string, cup_compile_file
  <2>2. parsing = <<>>
    BY <2>1 DEF cup_compile, Idle
  <2>3. \/ UNCHANGED <<modules, parsing, phase>>
        \/ SameFile(path) = {} /\ Begin(path, text)
    BY <2>1 DEF cup_compile
  <2> QED
    BY <1>1, <2>2, <2>3, BeginKeeps, StayKeeps
<1>4. CASE externalModule \/ externalSymbol \/ Declare
  BY <1>1, <1>4, StayKeeps DEF externalModule, externalSymbol, Declare
<1>5. CASE EndOfText
  BY <1>5, StayKeeps DEF EndOfText, In
<1>6. CASE StringLiteral \/ ArrayLiteral \/ cup_gen_call \/ HostType
  <2>1. PICK t : AskType(t)
    BY <1>6 DEF StringLiteral, ArrayLiteral, cup_gen_call, HostType
  <2>2. UNCHANGED <<modules, parsing, phase>>
    BY <2>1 DEF AskType
  <2> QED
    BY <1>1, <2>2, StayKeeps
<1>7. CASE Reject
  <2>1. /\ parsing # <<>> /\ phase # "emit" /\ parsing' = Front(parsing)
        /\ phase' = "parse" /\ UNCHANGED modules
    BY <1>7 DEF Reject, Return, In
  <2> QED
    BY <2>1, ReturnKeeps
<1>8. CASE Run
  <2>1. /\ parsing # <<>> /\ phase = "emit" /\ parsing' = Front(parsing)
        /\ phase' = "parse" /\ modules' = [modules EXCEPT ![Current].ran = TRUE]
    BY <1>8 DEF Run, Return, In
  <2> QED
    BY <2>1, ReturnKeeps
<1>9. CASE Accept
  <2>1. /\ parsing # <<>> /\ phase' = "emit" /\ UNCHANGED parsing
        /\ modules' = [modules EXCEPT ![Current].accepted = TRUE, ![Current].size = 0]
    BY <1>9 DEF Accept, In
  <2>2. /\ modules[Current] \in Record /\ modules \in Seq(Record)
        /\ Current \in 1 .. Len(modules)
    BY <2>1, CurrentIsLast DEF SessionInv, ListOK
  <2> DEFINE m == [modules[Current] EXCEPT !.accepted = TRUE, !.size = 0]
  <2>3. /\ m \in Record /\ m.path = modules[Current].path
        /\ m.ran = modules[Current].ran /\ m.accepted = TRUE
    BY <2>2, AcceptKeeps
  <2>4. modules' = [modules EXCEPT ![Current] = m]
    BY <2>1, <2>2
  <2> HIDE DEF m
  <2> QED
    BY <2>1, <2>3, <2>4, ChangeKeeps
<1>10. CASE Emit
  <2>1. parsing # <<>> /\ phase = "emit" /\ UNCHANGED <<parsing, phase>>
    BY <1>10 DEF Emit, In
  <2>2. PICK b \in Chunks : modules' = [modules EXCEPT ![Current] = emit(modules[Current], b)]
    BY <1>10 DEF Emit
  <2>3. modules[Current] \in Record /\ modules[Current].accepted = TRUE
    BY <2>1, CurrentIsLast DEF SessionInv, RunOK, Record
  <2> DEFINE m == emit(modules[Current], b)
  <2>4. /\ m \in Record /\ m.path = modules[Current].path
        /\ m.ran = modules[Current].ran /\ m.accepted = TRUE
    BY <2>3, EmitKeeps
  <2>5. modules' = [modules EXCEPT ![Current] = m]
    BY <2>2
  <2> HIDE DEF m
  <2> QED
    BY <2>1, <2>4, <2>5, ChangeKeeps
<1>11. CASE cup_delete
  BY <1>11, DeleteKeeps
<1>12. CASE UNCHANGED vars
  BY <1>1, <1>12, StayKeeps DEF vars
<1> QED
  BY <1>2, <1>3, <1>4, <1>5, <1>6, <1>7, <1>8, <1>9, <1>10, <1>11, <1>12
     DEF Next, InParse, InResolve, InEmit, Host

-----------------------------------------------------------------------------
(* What is assured of the modules holds in all states of the session.       *)
THEOREM SessionInvAlways == Spec => []SessionInv
<1> QED
  BY InitHolds, StepKeeps, PTL DEF Spec

(* No file is compiled twice into one state, whether the host or an import  *)
(* asks for it, and also while it is being compiled: parse() adds a module  *)
(* to the list before it reads the first token.                             *)
THEOREM CompiledOnceAlways == Spec => []CompiledOnce
<1>1. SessionInv => CompiledOnce
  <2> SUFFICES ASSUME SessionInv PROVE CompiledOnce
    OBVIOUS
  <2>1. /\ modules \in Seq(Record) /\ parsing \in Seq(1 .. Len(modules))
        /\ \A i, j \in 1 .. Len(parsing) : i < j => parsing[i] < parsing[j]
        /\ DOMAIN modules = 1 .. Len(modules) /\ DOMAIN parsing = 1 .. Len(parsing)
    BY DEF SessionInv, ListOK
  <2>2. \A i, j \in 1 .. Len(parsing) : parsing[i] = parsing[j] => i = j
    <3> SUFFICES ASSUME NEW i \in 1 .. Len(parsing), NEW j \in 1 .. Len(parsing),
                        parsing[i] = parsing[j], i # j
                 PROVE  FALSE
      OBVIOUS
    <3>1. parsing[i] \in Int /\ (i < j \/ j < i)
      BY <2>1
    <3> QED
      BY <2>1, <3>1
  <2> QED
    BY <2>1, <2>2 DEF SessionInv, OnePath, CompiledOnce
<1> QED
  BY <1>1, SessionInvAlways, PTL

(* The code of a module runs only after the resolver has accepted it, and   *)
(* when the module is returned it has run if and only if it was accepted,   *)
(* however deep it was imported.                                            *)
THEOREM RunsAcceptedAlways == Spec => []RunsAccepted
<1>1. SessionInv => RunsAccepted
  <2> SUFFICES ASSUME SessionInv, NEW i \in DOMAIN modules
               PROVE  /\ modules[i].ran => modules[i].accepted
                      /\ i \notin Range(parsing) => modules[i].ran = modules[i].accepted
    BY DEF RunsAccepted
  <2>1. i \in 1 .. Len(modules) /\ modules[i] \in Record
    BY DEF SessionInv, ListOK
  <2>2. modules[i].ran => modules[i].accepted
    BY <2>1 DEF SessionInv, RunOK
  <2>3. ASSUME i \notin Range(parsing) PROVE ~ Waiting(i)
    BY <2>3 DEF Range, Waiting, SessionInv, ListOK
  <2>4. modules[i].ran \in BOOLEAN /\ modules[i].accepted \in BOOLEAN
    BY <2>1 DEF Record
  <2>5. ~ Waiting(i) /\ modules[i].accepted => modules[i].ran
    BY <2>1 DEF SessionInv, RunOK
  <2> QED
    BY <2>2, <2>3, <2>4, <2>5, Zenon
<1> QED
  BY <1>1, SessionInvAlways, PTL

-----------------------------------------------------------------------------

(* A module has no code and no pages, or pages as its capacity says, the    *)
(* last of which is needed for its size.                                    *)
Unwritten(m) == m.size = 0 /\ m.mapped = 0
Written(m) == /\ m.mapped \in Nat \ {0}
              /\ m.capacity = PAGESIZE * m.mapped
              /\ m.capacity - PAGESIZE < m.size
              /\ m.size <= m.capacity

(* Only what has been accepted has code, and a session that has been        *)
(* deleted has no pages.                                                    *)
PagesInv == \A i \in 1 .. Len(modules) :
               /\ process # "deleted" => Unwritten(modules[i]) \/ Written(modules[i])
               /\ process # "deleted" /\ ~ modules[i].accepted => Unwritten(modules[i])
               /\ process = "deleted" => modules[i].mapped = 0 /\ modules[i].size \in Nat

-----------------------------------------------------------------------------
(* Division is what it should be: the only whole number of pages that fits. *)
LEMMA Quotient ==
    ASSUME NEW a \in Nat, NEW q \in Nat, PAGESIZE * q <= a, a < PAGESIZE * q + PAGESIZE
    PROVE  a \div PAGESIZE = q
<1> DEFINE P == PAGESIZE
           d == a \div P
<1>1. P \in Nat /\ P > 0
  BY SessionAssumption
<1>2. d \in Int /\ P * d <= a /\ a < P * d + P
  BY <1>1
<1> HIDE DEF d
<1>3. ASSUME d < q PROVE FALSE
  <2>1. P * (d + 1) <= P * q
    BY <1>1, <1>2, <1>3
  <2>2. P * (d + 1) = P * d + P
    BY <1>1, <1>2
  <2>3. P * q \in Int /\ P * d \in Int
    BY <1>1, <1>2
  <2> QED
    BY <1>1, <1>2, <2>1, <2>2, <2>3
<1>4. ASSUME q < d PROVE FALSE
  <2>1. P * (q + 1) <= P * d
    BY <1>1, <1>2, <1>4
  <2>2. P * (q + 1) = P * q + P
    BY <1>1, <1>2
  <2>3. P * q \in Int /\ P * d \in Int
    BY <1>1, <1>2
  <2> QED
    BY <1>1, <1>2, <2>1, <2>2, <2>3
<1> QED
  BY <1>2, <1>3, <1>4 DEF d

(* The pages that a size needs, when the last of them is needed for it.     *)
LEMMA PagesFor ==
    ASSUME NEW q \in Nat \ {0}, NEW size \in Int,
           PAGESIZE * q - PAGESIZE < size, size <= PAGESIZE * q
    PROVE  Pages(size) = q
<1>1. PAGESIZE \in Nat \ {0} /\ PAGESIZE * q \in Nat
  BY SessionAssumption
<1> DEFINE n == PAGESIZE * q
           a == size + PAGESIZE - 1
<1>2. a \in Nat /\ n <= a /\ a < n + PAGESIZE
  <2> HIDE DEF n
  <2>1. n - PAGESIZE < size /\ size <= n /\ n \in Nat
    BY <1>1 DEF n
  <2>2. n >= PAGESIZE
    BY <1>1 DEF n
  <2> QED
    BY <1>1, <2>1, <2>2
<1>3. a \div PAGESIZE = q
  <2> HIDE DEF a
  <2> QED
    BY <1>2, Quotient
<1> QED
  BY <1>3 DEF Pages

LEMMA WrittenPages ==
    ASSUME NEW m \in Record, Written(m)
    PROVE  m.mapped = Pages(m.size)
<1>1. m.size \in Int /\ m.capacity \in Int
  BY DEF Record
<1> QED
  BY <1>1, PagesFor DEF Written

(* The first bytes of a module need one page, and bytes behind the capacity *)
(* one more.                                                                *)
LEMMA EmitWrites ==
    ASSUME NEW m \in Record, NEW n \in Chunks, Unwritten(m) \/ Written(m)
    PROVE  Written(emit(m, n))
<1>1. /\ PAGESIZE \in Nat \ {0} /\ n \in Int /\ 1 <= n /\ n <= PAGESIZE
      /\ m.size \in Int /\ m.capacity \in Int /\ m.mapped \in Int
  BY SessionAssumption DEF Record
<1> DEFINE P == PAGESIZE
           e == emit(m, n)
<1>2. ASSUME NEW x \in Int, NEW y \in Int, NEW z \in Int
      PROVE  LET r == [m EXCEPT !.size = x, !.capacity = y, !.mapped = z]
             IN  r.size = x /\ r.capacity = y /\ r.mapped = z
  BY DEF Record
<1>3. CASE Unwritten(m)
  <2>1. m.mapped = 0 /\ m.size = 0 /\ P * 1 = P
    BY <1>1, <1>3 DEF Unwritten
  <2>2. Grown(P, n) = P
    BY <1>1 DEF Grown
  <2>3. Pages(n) = 1
    <3>1. P * 1 - P < n /\ n <= P * 1
      BY <1>1, <2>1
    <3> QED
      BY <1>1, <3>1, PagesFor
  <2>4. m.size + n = n
    BY <1>1, <2>1
  <2>5. e = [m EXCEPT !.size = n, !.capacity = P, !.mapped = 1]
    BY <2>1, <2>2, <2>3, <2>4 DEF emit
  <2>6. e.size = n /\ e.capacity = P /\ e.mapped = 1
    BY <1>1, <1>2, <2>5
  <2> HIDE DEF e
  <2> QED
    BY <1>1, <2>1, <2>6 DEF Written, e
<1>4. CASE Written(m)
  <2>1. /\ m.mapped \in Nat \ {0} /\ m.capacity = P * m.mapped
        /\ m.capacity - P < m.size /\ m.size <= m.capacity
    BY <1>4 DEF Written
  <2> DEFINE c == m.capacity
             s == m.size + n
  <2>2. s \in Int /\ c \in Int /\ c - P < s /\ s <= c + P
    BY <1>1, <2>1
  <2>3. m.mapped # 0
    BY <2>1
  <2>4. CASE s <= c
    <3>1. Grown(c, s) = c
      BY <2>4 DEF Grown
    <3>2. e = [m EXCEPT !.size = s, !.capacity = c, !.mapped = m.mapped]
      BY <2>3, <3>1 DEF emit
    <3>3. e.size = s /\ e.capacity = c /\ e.mapped = m.mapped
      BY <1>1, <1>2, <2>2, <3>2
    <3> HIDE DEF e
    <3> QED
      BY <2>1, <2>2, <2>4, <3>3 DEF Written, e
  <2>5. CASE c < s
    <3>1. Pages(s - c) = 1
      <4>1. P * 1 - P < s - c /\ s - c <= P * 1 /\ s - c \in Int
        BY <1>1, <2>2, <2>5
      <4> QED
        BY <4>1, PagesFor
    <3>2. P * (m.mapped + 1) = c + P
      BY <1>1, <2>1
    <3>3. Grown(c, s) = c + P
      <4>1. ~ s <= c /\ P * 1 = P
        BY <1>1, <2>2, <2>5
      <4> QED
        BY <3>1, <4>1 DEF Grown
    <3>4. Pages(c) = m.mapped
      <4>1. P * m.mapped - P < c /\ c <= P * m.mapped
        BY <1>1, <2>1
      <4> QED
        BY <1>1, <2>1, <4>1, PagesFor
    <3>5. Pages(c + P) = m.mapped + 1
      <4>1. /\ m.mapped + 1 \in Nat \ {0} /\ c + P \in Int
            /\ P * (m.mapped + 1) - P < c + P /\ c + P <= P * (m.mapped + 1)
        BY <1>1, <2>1, <3>2
      <4> QED
        BY <4>1, PagesFor
    <3>6. c + P # c /\ m.mapped - m.mapped + (m.mapped + 1) = m.mapped + 1
      BY <1>1, <2>1
    <3>7. e = [m EXCEPT !.size = s, !.capacity = c + P, !.mapped = m.mapped + 1]
      BY <2>3, <3>3, <3>4, <3>5, <3>6 DEF emit
    <3> DEFINE k == m.mapped + 1
               g == c + P
    <3>8. e.size = s /\ e.capacity = g /\ e.mapped = k
      <4>1. g \in Int /\ k \in Int
        BY <1>1
      <4> QED
        BY <1>2, <2>2, <3>7, <4>1
    <3>9. k \in Nat \ {0} /\ g = P * k /\ g - P < s /\ s <= g
      BY <1>1, <2>1, <2>2, <2>5, <3>2
    <3> HIDE DEF e, s, c, P, k, g
    <3>10. /\ e.mapped \in Nat \ {0} /\ e.capacity = P * e.mapped
           /\ e.capacity - P < e.size /\ e.size <= e.capacity
      BY <3>8, <3>9, Zenon
    <3>11. Written(e)
      BY <3>10 DEF Written, P
    <3> QED
      BY <3>11 DEF e
  <2> QED
    BY <2>2, <2>4, <2>5
<1> QED
  BY <1>3, <1>4

(* The size of a module with code is a positive number.                     *)
LEMMA SizeCounts ==
    ASSUME NEW m \in Record, Written(m)
    PROVE  m.size \in Nat \ {0}
<1>1. /\ PAGESIZE \in Nat \ {0} /\ m.mapped \in Nat \ {0} /\ m.size \in Int
      /\ PAGESIZE * m.mapped - PAGESIZE < m.size
  BY SessionAssumption DEF Written, Record
<1>2. PAGESIZE * m.mapped >= PAGESIZE
  BY <1>1
<1> QED
  BY <1>1, <1>2

(* What cup_delete() unmaps is what was mapped.                             *)
LEMMA UnmappedAll ==
    ASSUME NEW m \in Record, Unwritten(m) \/ Written(m)
    PROVE  Unmapped(m).mapped = 0 /\ Unmapped(m).size \in Nat
<1>1. m.size \in Int /\ m.mapped \in Int
  BY DEF Record
<1>2. CASE Unwritten(m)
  BY <1>2 DEF Unwritten, Unmapped
<1>3. CASE Written(m)
  <2>1. m.mapped - Pages(m.size) = 0
    BY <1>1, <1>3, WrittenPages
  <2>2. m.size \in Nat \ {0}
    BY <1>3, SizeCounts
  <2>3. Unmapped(m) = [m EXCEPT !.mapped = m.mapped - Pages(m.size)]
    BY <2>2 DEF Unmapped
  <2>4. \A x : [m EXCEPT !.mapped = x].mapped = x /\ [m EXCEPT !.mapped = x].size = m.size
    BY DEF Record
  <2> QED
    BY <2>1, <2>2, <2>3, <2>4
<1> QED
  BY <1>2, <1>3

-----------------------------------------------------------------------------
(* A step that changes no module and does not delete the session.           *)
LEMMA PagesStay ==
    ASSUME PagesInv, UNCHANGED modules, process' = process \/ (process # "deleted" /\ process' # "deleted")
    PROVE  PagesInv'
BY DEF PagesInv

LEMMA PagesStep == SessionInv /\ PagesInv /\ [Next]_vars => PagesInv'
<1> SUFFICES ASSUME SessionInv, PagesInv, [Next]_vars PROVE PagesInv'
  OBVIOUS
<1> DEFINE n == Len(modules)
           OK(m) == /\ Unwritten(m) \/ Written(m)
                    /\ ~ m.accepted => Unwritten(m)
<1>1. modules \in Seq(Record) /\ n \in Nat
  BY DEF SessionInv, ListOK
<1>2. ASSUME process = "alive" PROVE \A i \in 1 .. n : OK(modules[i])
  BY <1>2 DEF PagesInv
<1>3. ASSUME Len(modules') = n, process' # "deleted", \A i \in 1 .. n : OK(modules'[i])
      PROVE  PagesInv'
  BY <1>3 DEF PagesInv
(* the innermost module changes, and the others do not *)
<1>4. ASSUME process = "alive", process' # "deleted", parsing # <<>>, NEW m, OK(m),
             modules' = [modules EXCEPT ![Current] = m]
      PROVE  PagesInv'
  <2>1. Current \in 1 .. n
    BY <1>4, CurrentIsLast
  <2>2. /\ Len(modules') = n
        /\ \A i \in 1 .. n : modules'[i] = IF i = Current THEN m ELSE modules[i]
    BY <1>1, <1>4, <2>1
  <2>3. \A i \in 1 .. n : OK(modules[i])
    BY <1>2, <1>4
  <2> HIDE DEF OK
  <2>4. \A i \in 1 .. n : OK(modules'[i])
    BY <1>4, <2>2, <2>3
  <2> QED
    BY <1>3, <1>4, <2>2, <2>4
<1>5. ASSUME NEW path, NEW text, Begin(path, text), process = "alive", process' # "deleted"
      PROVE  PagesInv'
  <2>1. modules' = Append(modules, Fresh(path, text))
    BY <1>5 DEF Begin
  <2>2. OK(Fresh(path, text))
    BY DEF Fresh, Unwritten
  <2>3. /\ Len(modules') = n + 1
        /\ \A i \in 1 .. n + 1 : modules'[i] = IF i = n + 1 THEN Fresh(path, text) ELSE modules[i]
    BY <1>1, <2>1
  <2>4. \A i \in 1 .. n : OK(modules[i])
    BY <1>2, <1>5
  <2> HIDE DEF OK
  <2>5. \A i \in 1 .. n + 1 : OK(modules'[i])
    BY <1>1, <2>2, <2>3, <2>4
  <2> QED
    BY <1>5, <2>3, <2>5 DEF PagesInv, OK
<1>6. CASE importModule
  <2>1. process = "alive" /\ process' # "deleted"
    BY <1>6 DEF importModule, In
  <2>2. UNCHANGED modules \/ \E path \in Files : Begin(path, path)
    BY <1>6 DEF importModule
  <2> QED
    BY <1>5, <2>1, <2>2, PagesStay
<1>7. CASE cup_compile_string \/ cup_compile_file
  <2>1. PICK path, text : cup_compile(path, text)
    BY <1>7 DEF cup_compile_string, cup_compile_file
  <2>2. process = "alive" /\ process' = process
    BY <2>1 DEF cup_compile, Idle
  <2>3. UNCHANGED modules \/ Begin(path, text)
    BY <2>1 DEF cup_compile
  <2> QED
    BY <1>5, <2>2, <2>3, PagesStay
<1>8. CASE externalModule \/ externalSymbol \/ Declare \/ EndOfText \/ Reject
  <2>1. process = "alive" /\ process' # "deleted" /\ UNCHANGED modules
    BY <1>8 DEF externalModule, externalSymbol, Declare, EndOfText, Reject, Return, In
  <2> QED
    BY <2>1, PagesStay
<1>9. CASE StringLiteral \/ ArrayLiteral \/ cup_gen_call \/ HostType
  <2>1. process = "alive" /\ \E t : AskType(t)
    BY <1>9 DEF StringLiteral, ArrayLiteral, cup_gen_call, HostType, In, Idle
  <2>2. UNCHANGED modules /\ process' # "deleted"
    BY <2>1 DEF AskType, Learn
  <2> QED
    BY <2>1, <2>2, PagesStay
<1> DEFINE r == modules[Current]
<1>10. ASSUME parsing # <<>>, process = "alive"
       PROVE  r \in Record /\ OK(r)
  BY <1>1, <1>2, <1>10, CurrentIsLast
<1>11. CASE Accept
  <2>1. /\ process = "alive" /\ process' = process /\ parsing # <<>> /\ phase = "resolve"
        /\ modules' = [modules EXCEPT ![Current].accepted = TRUE, ![Current].size = 0]
    BY <1>11 DEF Accept, In
  <2> DEFINE m == [r EXCEPT !.accepted = TRUE, !.size = 0]
  <2>2. r \in Record /\ OK(r)
    BY <1>10, <2>1
  <2>3. ~ r.accepted
    BY <2>1, CurrentIsLast DEF SessionInv, RunOK
  <2>4. m.accepted = TRUE /\ m.size = 0 /\ m.mapped = r.mapped
    BY <2>2 DEF Record
  <2>5. OK(m)
    BY <2>2, <2>3, <2>4 DEF Unwritten
  <2>6. modules' = [modules EXCEPT ![Current] = m]
    BY <1>1, <2>1, CurrentIsLast
  <2> HIDE DEF m, OK
  <2> QED
    BY <1>4, <2>1, <2>5, <2>6
<1>12. CASE Emit
  <2>1. process = "alive" /\ process' = process /\ parsing # <<>> /\ phase = "emit"
    BY <1>12 DEF Emit, In
  <2>2. PICK b \in Chunks : modules' = [modules EXCEPT ![Current] = emit(modules[Current], b)]
    BY <1>12 DEF Emit
  <2> DEFINE m == emit(r, b)
  <2>3. r \in Record /\ OK(r)
    BY <1>10, <2>1
  <2>4. r.accepted
    BY <2>1, CurrentIsLast DEF SessionInv, RunOK
  <2>5. Written(m) /\ m.accepted = r.accepted
    BY <2>3, EmitWrites, EmitKeeps
  <2>6. OK(m)
    BY <2>4, <2>5
  <2>7. modules' = [modules EXCEPT ![Current] = m]
    BY <2>2
  <2> HIDE DEF m, OK
  <2> QED
    BY <1>4, <2>1, <2>6, <2>7
<1>13. CASE Run
  <2>1. /\ process = "alive" /\ process' # "deleted" /\ parsing # <<>> /\ phase = "emit"
        /\ modules' = [modules EXCEPT ![Current].ran = TRUE]
    BY <1>13 DEF Run, In, Return
  <2> DEFINE m == [r EXCEPT !.ran = TRUE]
  <2>2. r \in Record /\ OK(r)
    BY <1>10, <2>1
  <2>3. /\ m.accepted = r.accepted /\ m.size = r.size /\ m.mapped = r.mapped
        /\ m.capacity = r.capacity
    BY <2>2 DEF Record
  <2>4. OK(m)
    BY <2>2, <2>3 DEF Unwritten, Written
  <2>5. modules' = [modules EXCEPT ![Current] = m]
    BY <1>1, <2>1, CurrentIsLast
  <2> HIDE DEF m, OK
  <2> QED
    BY <1>4, <2>1, <2>4, <2>5
<1>14. CASE cup_delete
  <2>1. /\ process = "alive" /\ process' = "deleted"
        /\ modules' = [i \in DOMAIN modules |-> Unmapped(modules[i])]
    BY <1>14 DEF cup_delete, Idle
  <2>2. DOMAIN modules = 1 .. n /\ Len(modules') = n
    BY <1>1, <2>1
  <2>3. \A i \in 1 .. n : modules[i] \in Record /\ OK(modules[i])
    BY <1>1, <1>2, <2>1
  <2>4. \A i \in 1 .. n : Unmapped(modules[i]).mapped = 0 /\ Unmapped(modules[i]).size \in Nat
    BY <2>3, UnmappedAll
  <2> QED
    BY <2>1, <2>2, <2>4 DEF PagesInv
<1>15. CASE UNCHANGED vars
  BY <1>15, PagesStay DEF vars
<1> QED
  BY <1>6, <1>7, <1>8, <1>9, <1>11, <1>12, <1>13, <1>14, <1>15
     DEF Next, InParse, InResolve, InEmit, Host

-----------------------------------------------------------------------------
(* What is assured of the pages holds in all states.                        *)
THEOREM PagesInvAlways == Spec => [](SessionInv /\ PagesInv)
<1>1. Init => PagesInv
  BY DEF Init, PagesInv
<1> QED
  BY <1>1, PagesStep, SessionInvAlways, PTL DEF Spec

(* Below all code that emit() has written there are pages, no more than it  *)
(* needs, and cup_delete(), which asks by the size and not by the capacity, *)
(* gives all of them back.                                                  *)
THEOREM PagesAlwaysKept == Spec => []PagesKept
<1>1. SessionInv /\ PagesInv => PagesKept
  <2> SUFFICES ASSUME SessionInv, PagesInv, NEW i \in DOMAIN modules
               PROVE  IF process = "deleted" THEN modules[i].mapped = 0
                      ELSE /\ modules[i].size <= PAGESIZE * modules[i].mapped
                           /\ modules[i].mapped > 0 => modules[i].mapped = Pages(modules[i].size)
    BY DEF PagesKept
  <2>1. i \in 1 .. Len(modules) /\ modules[i] \in Record
    BY DEF SessionInv, ListOK
  <2>2. process = "deleted" => modules[i].mapped = 0
    BY <2>1 DEF PagesInv
  <2>3. process # "deleted" => Unwritten(modules[i]) \/ Written(modules[i])
    BY <2>1 DEF PagesInv
  <2>4. ASSUME Unwritten(modules[i])
        PROVE  modules[i].size <= PAGESIZE * modules[i].mapped /\ ~ modules[i].mapped > 0
    BY <2>4, SessionAssumption DEF Unwritten
  <2>5. ASSUME Written(modules[i])
        PROVE  modules[i].size <= PAGESIZE * modules[i].mapped
               /\ modules[i].mapped = Pages(modules[i].size)
    BY <2>1, <2>5, WrittenPages DEF Written
  <2> QED
    BY <2>2, <2>3, <2>4, <2>5
<1> QED
  BY <1>1, PagesInvAlways, PTL

-----------------------------------------------------------------------------
(* The table is one of types, and the last answer is still true of it.      *)
AskedInv == /\ Table(types)
            /\ asked.p # Null => /\ IsEntry(asked.p) /\ asked.p[2] \in 1 .. Len(types)
                                 /\ Matches(types, types[asked.p[2]], asked.t)
ProcessOK == process \in {"alive", "ended", "deleted"}
TypesInv == AskedInv /\ ProcessOK

(* The table may grow between two questions.                                *)
LEMMA AskedStays ==
    ASSUME AskedInv, Table(types'), Extends(types, types'), UNCHANGED asked
    PROVE  AskedInv'
<1> SUFFICES ASSUME asked.p # Null
             PROVE  /\ IsEntry(asked.p) /\ asked.p[2] \in 1 .. Len(types')
                    /\ Matches(types', types'[asked.p[2]], asked.t)
  BY DEF AskedInv
<1> DEFINE i == asked.p[2]
<1>1. IsEntry(asked.p) /\ i \in 1 .. Len(types) /\ Matches(types, types[i], asked.t)
  BY DEF AskedInv
<1>2. i \in 1 .. Len(types') /\ types'[i] = types[i]
  <2>1. Len(types) \in Nat /\ Len(types') \in Nat
    BY DEF AskedInv, Table
  <2> QED
    BY <1>1, <2>1 DEF Extends
<1>3. Matches(types', types[i], asked.t)
  BY <1>1, MatchesStays DEF AskedInv
<1> QED
  BY <1>1, <1>2, <1>3

LEMMA AskedSame ==
    ASSUME AskedInv, UNCHANGED <<types, asked>>
    PROVE  AskedInv'
BY DEF AskedInv

(* A question is answered with an entry that is what was asked for.         *)
LEMMA AskKeeps ==
    ASSUME TypesInv, NEW t \in AllTypes, AskType(t)
    PROVE  TypesInv'
<1>1. Table(types) /\ DOMAIN types = 1 .. Len(types)
  BY DEF TypesInv, AskedInv, Table
<1>2. \A j \in DOMAIN t.elems : Inside(types, t.elems[j])
  BY <1>1 DEF AskType, Known, Inside
<1>3. PICK out \in cup_type(types, t) : Learn(out, t)
  BY DEF AskType
<1>4. Answer(types, t, out)
  BY <1>1, <1>2, TypeAnswers
<1>5. CASE out.dead
  <2>1. types' = out.types /\ UNCHANGED asked /\ process' = "ended"
    BY <1>3, <1>5 DEF Learn
  <2>2. AskedInv'
    BY <1>4, <2>1, AskedStays DEF Answer, TypesInv
  <2> QED
    BY <2>1, <2>2 DEF TypesInv, ProcessOK
<1>6. CASE ~ out.dead
  <2>1. types' = out.types /\ asked' = [t |-> t, p |-> out.ans] /\ process' = process
    BY <1>3, <1>6 DEF Learn
  <2>2. asked'.p = out.ans /\ asked'.t = t
    BY <2>1
  <2>3. AskedInv'
    BY <1>4, <1>6, <2>1, <2>2 DEF Answer, AskedInv
  <2> QED
    BY <2>1, <2>3 DEF TypesInv, ProcessOK
<1> QED
  BY <1>5, <1>6

LEMMA TypesInit == Init => TypesInv
<1> SUFFICES ASSUME Init PROVE TypesInv
  OBVIOUS
<1> DEFINE m == MetaType("meta_this")
<1>1. Pointer("meta_this") \in Pointers /\ ~ IsEntry(Pointer("meta_this"))
  BY TypeTableAssumption, PointerKinds
<1>2. m \in AllTypes /\ m.elems = <<Pointer("meta_this")>>
  BY <1>1 DEF AllTypes, MetaType, Type
<1>3. types = <<m>>
  BY DEF Init
<1> HIDE DEF m
<1>4. types \in Seq(AllTypes) /\ DOMAIN types = 1 .. 1 /\ types[1] = m
  BY <1>2, <1>3
<1>5. WellFormed(types)
  BY <1>1, <1>2, <1>4 DEF WellFormed
<1>6. NoTwins(types)
  BY <1>4 DEF NoTwins
<1>7. asked.p = Null
  BY DEF Init, NoQuestion
<1> QED
  BY <1>4, <1>5, <1>6, <1>7 DEF Init, TypesInv, AskedInv, ProcessOK, Table

LEMMA TypesStep == TypesInv /\ [Next]_vars => TypesInv'
<1> SUFFICES ASSUME TypesInv, [Next]_vars PROVE TypesInv'
  OBVIOUS
<1>1. ASSUME UNCHANGED <<types, asked>>, process' \in {"alive", "ended", "deleted"}
      PROVE  TypesInv'
  BY <1>1, AskedSame DEF TypesInv, ProcessOK
<1>2. CASE importModule
  BY <1>1, <1>2 DEF importModule, TypesInv, ProcessOK
<1>3. CASE externalModule
  BY <1>1, <1>3 DEF externalModule, TypesInv, ProcessOK
<1>4. CASE externalSymbol
  <2>0. PICK sig \in Signatures : \E out \in cup_type_parse(types, sig) :
           types' = out.types /\ process' \in {process, "ended"}
    BY <1>4 DEF externalSymbol
  <2>1. PICK out \in cup_type_parse(types, sig) :
           types' = out.types /\ process' \in {process, "ended"}
    BY <2>0
  <2>2. sig.args \in Seq(Codes)
    BY SessionAssumption
  <2>3. Table(out.types) /\ Extends(types, out.types)
    BY <2>2, SignatureParsed DEF TypesInv, AskedInv
  <2>4. UNCHANGED asked
    BY <1>4 DEF externalSymbol
  <2>5. AskedInv'
    BY <2>1, <2>3, <2>4, AskedStays DEF TypesInv
  <2> QED
    BY <2>1, <2>5 DEF TypesInv, ProcessOK
<1>5. CASE Declare \/ EndOfText \/ Accept \/ Emit
  BY <1>1, <1>5 DEF Declare, EndOfText, Accept, Emit, TypesInv, ProcessOK
<1>6. CASE Reject \/ Run
  BY <1>1, <1>6 DEF Reject, Run, Return, TypesInv, ProcessOK
<1>7. CASE StringLiteral \/ ArrayLiteral
  <2>1. Pointer("uint8") \in Pointers
    BY TypeTableAssumption, PointerKinds
  <2>2. PICK n \in Counts, p \in Elements \cup {Pointer("uint8")} : AskType(ArrayOf(n, p))
    BY <1>7 DEF StringLiteral, ArrayLiteral
  <2>3. ArrayOf(n, p) \in AllTypes
    BY <2>1, SessionAssumption DEF AllTypes, ArrayOf, Type
  <2> QED
    BY <2>2, <2>3, AskKeeps
<1>8. CASE cup_gen_call \/ HostType
  <2>1. PICK t \in HostTypes : AskType(t)
    BY <1>8 DEF cup_gen_call, HostType
  <2> QED
    BY <2>1, SessionAssumption, AskKeeps
<1>9. CASE cup_compile_string \/ cup_compile_file
  <2>1. PICK path, text : cup_compile(path, text)
    BY <1>9 DEF cup_compile_string, cup_compile_file
  <2> QED
    BY <1>1, <2>1 DEF cup_compile, TypesInv, ProcessOK
<1>10. CASE cup_delete
  <2>1. process' = "deleted" /\ types' = <<>> /\ asked'.p = Null
    BY <1>10 DEF cup_delete, NoQuestion
  <2>2. Table(<<>>)
    BY DEF Table, WellFormed, NoTwins
  <2> QED
    BY <2>1, <2>2 DEF TypesInv, AskedInv, ProcessOK
<1>11. CASE UNCHANGED vars
  BY <1>1, <1>11 DEF vars, TypesInv, ProcessOK
<1> QED
  BY <1>2, <1>3, <1>4, <1>5, <1>6, <1>7, <1>8, <1>9, <1>10, <1>11
     DEF Next, InParse, InResolve, InEmit, Host

(* What is assured of the table and of the last answer holds in all states. *)
THEOREM TypesInvAlways == Spec => []TypesInv
<1> QED
  BY TypesInit, TypesStep, PTL DEF Spec

(* cup_type() answers with what it was asked for, and that entry stays what *)
(* it is while host, modules and externals go on to fill the table.         *)
THEOREM AnswerIsAskedAlways == Spec => []AnswerIsAsked
<1>1. TypesInv => AnswerIsAsked
  BY DEF TypesInv, AskedInv, AnswerIsAsked
<1> QED
  BY <1>1, TypesInvAlways, PTL

(* Of a type there is one entry, but for meta types, functions with a slot  *)
(* that newtype() has not set, and functions of an argument with a twin.    *)
THEOREM OnePointerEachAlways == Spec => []OnePointerEach
<1>1. TypesInv => OnePointerEach
  BY DEF TypesInv, AskedInv, OnePointerEach, Table
<1> QED
  BY <1>1, TypesInvAlways, PTL

(* Entries are made of older ones; what parse() is in is in the list; code  *)
(* and pages are never less than nothing.                                   *)
THEOREM SessionTyped == Spec => []TypeOK
<1>1. SessionInv /\ PagesInv /\ TypesInv => TypeOK
  <2> SUFFICES ASSUME SessionInv, PagesInv, TypesInv PROVE TypeOK
    OBVIOUS
  <2>1. /\ modules \in Seq(Record) /\ parsing \in Seq(1 .. Len(modules))
        /\ phase \in {"parse", "resolve", "emit"}
    BY DEF SessionInv, ListOK
  <2>2. \A i \in DOMAIN parsing : parsing[i] \in DOMAIN modules
    BY <2>1
  <2>3. ASSUME NEW i \in DOMAIN modules
        PROVE  modules[i].mapped \in Nat /\ modules[i].size \in Nat
    <3>1. i \in 1 .. Len(modules) /\ modules[i] \in Record
      BY <2>1
    <3>2. CASE process = "deleted"
      BY <3>1, <3>2 DEF PagesInv
    <3>3. CASE process # "deleted"
      <4>1. Unwritten(modules[i]) \/ Written(modules[i])
        BY <3>1, <3>3 DEF PagesInv
      <4> QED
        BY <3>1, <4>1, SizeCounts DEF Unwritten, Written
    <3> QED
      BY <3>2, <3>3
  <2> QED
    BY <2>1, <2>2, <2>3 DEF TypesInv, AskedInv, ProcessOK, Table, TypeOK
<1> QED
  BY <1>1, PagesInvAlways, SessionInvAlways, TypesInvAlways, PTL
=============================================================================
