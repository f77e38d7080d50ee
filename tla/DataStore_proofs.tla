-------------------------- MODULE DataStore_proofs --------------------------
(* The invariants of DataStore, for every set of texts and every bound.     *)
(* A literal that is waiting to be compiled is held by a node of the        *)
(* current module or of one that imports it; what makes its node right is   *)
(* LiteralOK, and what a step does to store and arrays preserves it.        *)
EXTENDS DataStore, SequenceTheorems, TLAPS

Held == lits \cup UNION { outer[i].lits : i \in DOMAIN outer }

(* Two arrays one behind the other. *)
After(a, b) == a.off + Size(a) <= b.off

ArrayOK(a) ==
    /\ a \in Array
    /\ a.off + Size(a) <= Len(data)
    /\ ~ a.filled => \A x \in Bytes(a.off, Size(a)) : data[x + 1] = 0

LiteralOK(l) ==
    /\ l \in Literal
    /\ l.off + Len(l.text) <= Len(data)
    /\ \A a \in arrays : Covers(a, l) => a.off \in l.filled
    /\ (\A a \in arrays : ~ Covers(a, l)) => Occurs(l.text, l.off)

DataOK   == data \in Seq(Nat) /\ base \in Nat
ArraysOK == \A a \in arrays : ArrayOK(a)
Apart    == \A a, b \in arrays : a # b => After(a, b) \/ After(b, a)
HeldOK   == \A l \in Held : LiteralOK(l)

(* No code has been made yet of a module that is being read.                *)
Phases == {"host", "parse", "resolved", "run", "exited", "crashed"}
ModulesOK ==
    /\ phase \in Phases /\ count \in Nat /\ current \in 0 .. count
    /\ outer \in Seq([module : 0 .. count, lits : SUBSET Literal])
    /\ \A i \in DOMAIN outer : outer[i].module # current
    /\ \A i, j \in DOMAIN outer : i # j => outer[i].module # outer[j].module
CodeOK ==
    \A p \in code \cup varcode :
       /\ p.module \in 0 .. count
       /\ \A i \in DOMAIN outer : p.module # outer[i].module
       /\ phase \in {"parse", "resolved"} => p.module # current

StoreInv == DataOK /\ ArraysOK /\ Apart /\ HeldOK /\ ModulesOK /\ CodeOK
            /\ OwnAddressesLive

-----------------------------------------------------------------------------
(* What is known of sizes, so that their product need not be opened again.  *)
LEMMA Sizes ==
    ASSUME NEW a \in Array
    PROVE  /\ a.off \in Nat /\ a.slots \in 1 .. 2 /\ Size(a) \in Nat /\ Size(a) > 0
           /\ \A i \in 0 .. a.slots - 1 : i * SlotBytes \in Nat /\ i * SlotBytes < Size(a)
  <1>1. a.off \in Nat /\ a.slots \in 1 .. 2
    BY DEF Array
  <1>2. CASE a.slots = 1
    BY <1>1, <1>2, StoreAssumption DEF Size
  <1>3. CASE a.slots = 2
    BY <1>1, <1>3, StoreAssumption DEF Size
  <1> QED
    BY <1>1, <1>2, <1>3

LEMMA Lengths ==
    ASSUME NEW t \in Texts
    PROVE  /\ t \in Seq(Nat) /\ Len(t) \in Nat
           /\ \A i \in 1 .. Len(t) : t[i] \in Letters /\ t[i] # 0 /\ t[i] \in Nat
  <1>1. t \in Seq(Letters)
    BY StoreAssumption
  <1>2. Len(t) \in Nat /\ \A i \in 1 .. Len(t) : t[i] \in Letters
    BY <1>1
  <1>3. \A x \in Letters : x # 0 /\ x \in Nat
    BY StoreAssumption
  <1>4. t = [i \in 1 .. Len(t) |-> t[i]]
    BY <1>1
  <1>5. t \in Seq(Nat)
    BY <1>2, <1>3, <1>4
  <1> QED
    BY <1>2, <1>3, <1>5

(* Two stretches of bytes that one has ends before the other one begins.    *)
LEMMA DisjointBytes ==
    ASSUME NEW o \in Nat, NEW n \in Nat, NEW p \in Nat, NEW m \in Nat
    PROVE  /\ o + n <= p => Bytes(o, n) \cap Bytes(p, m) = {}
           /\ p + m <= o => Bytes(o, n) \cap Bytes(p, m) = {}
  BY DEF Bytes

-----------------------------------------------------------------------------
(* Bytes behind the end disturb no array and no literal.                    *)
LEMMA GrownArray ==
    ASSUME NEW a, ArrayOK(a), data \in Seq(Nat),
           NEW bytes \in Seq(Nat), data' = data \o bytes
    PROVE  ArrayOK(a)'
  <1>1. a \in Array /\ a.off + Size(a) <= Len(data)
    BY DEF ArrayOK
  <1>2. a.off \in Nat /\ Size(a) \in Nat
    BY <1>1, Sizes
  <1>3. Len(data') = Len(data) + Len(bytes) /\ Len(data) \in Nat /\ Len(bytes) \in Nat
        /\ \A k \in 1 .. Len(data) : data'[k] = data[k]
    OBVIOUS
  <1>4. a.off + Size(a) <= Len(data')
    BY <1>1, <1>2, <1>3
  <1>5. \A x \in Bytes(a.off, Size(a)) : data'[x + 1] = data[x + 1]
    BY <1>1, <1>2, <1>3 DEF Bytes
  <1>6. ~ a.filled => \A x \in Bytes(a.off, Size(a)) : data[x + 1] = 0
    BY DEF ArrayOK
  <1> QED
    BY <1>1, <1>4, <1>5, <1>6 DEF ArrayOK

LEMMA GrownLiteral ==
    ASSUME NEW l, LiteralOK(l), data \in Seq(Nat), ArraysOK,
           NEW bytes \in Seq(Nat), data' = data \o bytes,
           arrays \subseteq arrays',
           \A a \in arrays' \ arrays : a \in Array /\ a.off = Len(data)
    PROVE  LiteralOK(l)'
  <1>1. l \in Literal /\ l.off + Len(l.text) <= Len(data)
    BY DEF LiteralOK
  <1>2. l.off \in Nat /\ l.text \in Texts /\ Len(l.text) \in Nat
    BY <1>1, Lengths DEF Literal
  <1>3. Len(data') = Len(data) + Len(bytes) /\ Len(data) \in Nat /\ Len(bytes) \in Nat
        /\ \A k \in 1 .. Len(data) : data'[k] = data[k]
    OBVIOUS
  <1>4. l.off + Len(l.text) <= Len(data')
    BY <1>1, <1>2, <1>3
  <1>5. ASSUME Occurs(l.text, l.off) PROVE Occurs(l.text, l.off)'
    <2>1. \A i \in 1 .. Len(l.text) : l.off + i \in 1 .. Len(data)
      BY <1>1, <1>2, <1>3
    <2>2. \A i \in 1 .. Len(l.text) : data'[l.off + i] = data[l.off + i]
      BY <1>3, <2>1
    <2> QED
      BY <1>5, <2>2 DEF Occurs
  <1>6. ASSUME NEW a \in arrays' \ arrays PROVE ~ Covers(a, l)
    <2>1. a \in Array /\ a.off = Len(data)
      BY <1>6
    <2>2. Size(a) \in Nat
      BY <2>1, Sizes
    <2> QED
      BY <2>1, <2>2, <1>1, <1>2, <1>3, DisjointBytes DEF Covers
  <1>7. \A a \in arrays : Covers(a, l) => a.off \in l.filled
    BY DEF LiteralOK
  <1>8. \A a \in arrays' : Covers(a, l) => a.off \in l.filled
    BY <1>6, <1>7
  <1>9. (\A a \in arrays' : ~ Covers(a, l)) => Occurs(l.text, l.off)'
    BY <1>5 DEF LiteralOK
  <1> QED
    BY <1>1, <1>4, <1>8, <1>9 DEF LiteralOK

-----------------------------------------------------------------------------
(* A text that is found in the store is not in a slot that is still zero.   *)
LEMMA FoundOutside ==
    ASSUME NEW t \in Texts, NEW o \in Nat, data \in Seq(Nat), o + Len(t) <= Len(data),
           Occurs(t, o), NEW a \in arrays, ArrayOK(a),
           Bytes(a.off, Size(a)) \cap Bytes(o, Len(t)) # {}
    PROVE  a.filled
  <1>1. PICK x \in Bytes(a.off, Size(a)) : x \in Bytes(o, Len(t))
    OBVIOUS
  <1>2. Len(t) \in Nat /\ \A i \in 1 .. Len(t) : t[i] # 0
    BY Lengths
  <1>3. x - o + 1 \in 1 .. Len(t) /\ o + (x - o + 1) = x + 1
    BY <1>1, <1>2 DEF Bytes
  <1>4. data[x + 1] # 0
    BY <1>2, <1>3 DEF Occurs
  <1> QED
    BY <1>1, <1>4 DEF ArrayOK

(* The node of a text that occurs at its offset.                            *)
LEMMA NewNode ==
    ASSUME NEW t \in Texts, NEW o \in Nat, NEW b \in Nat, DataOK, ArraysOK,
           o + Len(t) <= Len(data), Occurs(t, o)
    PROVE  LiteralOK(Node(t, o, b))
  <1> DEFINE l == Node(t, o, b)
  <1>1. FilledArrays \subseteq Nat
    BY Sizes DEF FilledArrays, ArraysOK, ArrayOK
  <1>2. l \in Literal /\ l.text = t /\ l.off = o /\ l.filled = FilledArrays
    BY <1>1 DEF Node, Literal
  <1> HIDE DEF l
  <1>3. ASSUME NEW a \in arrays, Covers(a, l) PROVE a.off \in l.filled
    <2>1. Bytes(a.off, Size(a)) \cap Bytes(o, Len(t)) # {}
      BY <1>2, <1>3 DEF Covers
    <2>2. a.filled
      BY <2>1, FoundOutside DEF ArraysOK, DataOK
    <2> QED
      BY <1>2, <2>2 DEF FilledArrays
  <1>4. LiteralOK(l)
    BY <1>2, <1>3 DEF LiteralOK
  <1> QED
    BY <1>4 DEF l

(* What the module and the arrays of the store keep, nodes keep.            *)
LEMMA SameLiteral ==
    ASSUME NEW l, LiteralOK(l), data' = data,
           \A a \in arrays' : \E b \in arrays : b.off = a.off /\ b.slots = a.slots,
           \A b \in arrays : \E a \in arrays' : b.off = a.off /\ b.slots = a.slots
    PROVE  LiteralOK(l)'
  <1>1. \A a, b : b.off = a.off /\ b.slots = a.slots => (Covers(a, l) <=> Covers(b, l))
    BY DEF Covers, Size
  <1>2. \A a \in arrays' : Covers(a, l) => a.off \in l.filled
    BY <1>1 DEF LiteralOK
  <1>3. (\A a \in arrays' : ~ Covers(a, l)) => \A a \in arrays : ~ Covers(a, l)
    BY <1>1
  <1>4. Occurs(l.text, l.off)' <=> Occurs(l.text, l.off)
    BY DEF Occurs
  <1> QED
    BY <1>2, <1>3, <1>4 DEF LiteralOK

-----------------------------------------------------------------------------
(* getToken() on a string literal.                                          *)
LEMMA StringTokenData ==
    ASSUME DataOK, ArraysOK, Apart, HeldOK, NEW t \in Texts, StringToken(t)
    PROVE  DataOK' /\ ArraysOK' /\ Apart' /\ HeldOK'
  <1>1. t \in Seq(Nat) /\ Len(t) \in Nat
    BY Lengths
  <1>2. arrays' = arrays /\ outer' = outer
    BY DEF StringToken, modulevars
  <1>3. Apart'
    BY <1>2 DEF Apart, After, Size
  <1>4. CASE Occurrences(t) # {}
    <2>1. data' = data /\ base' = base
      BY <1>4 DEF StringToken
    <2>2. PICK o \in Last(Occurrences(t)) : lits' = lits \cup {Node(t, o, base)}
      BY <1>4 DEF StringToken
    <2>3. o \in Nat /\ o + Len(t) <= Len(data) /\ Occurs(t, o)
      BY <2>2, <1>1, <1>4 DEF Last, Occurrences, DataOK
    <2>4. LiteralOK(Node(t, o, base))
      BY <2>3, NewNode DEF DataOK
    <2>5. \A l \in Held' : LiteralOK(l)
      BY <2>2, <2>4, <1>2 DEF Held, HeldOK
    <2>6. \A l \in Held' : LiteralOK(l)'
      BY <2>1, <2>5, <1>2, SameLiteral
    <2>7. DataOK' /\ ArraysOK'
      BY <2>1, <1>2 DEF DataOK, ArraysOK, ArrayOK
    <2> QED
      BY <2>6, <2>7, <1>3 DEF HeldOK
  <1>5. CASE Occurrences(t) = {}
    <2>0. PICK new : new = Node(t, Len(data), base')
      OBVIOUS
    <2>1. data' = data \o (t \o <<0>>) /\ base' \in {base, base + 1}
          /\ lits' = lits \cup {new}
      BY <1>5, <2>0 DEF StringToken, Grow
    <2>2. t \o <<0>> \in Seq(Nat) /\ Len(t \o <<0>>) = Len(t) + 1
          /\ \A i \in 1 .. Len(t) : (t \o <<0>>)[i] = t[i]
      BY <1>1
    <2>3. DataOK'
      BY <2>1, <2>2 DEF DataOK
    <2>4. ArraysOK'
      BY <2>1, <2>2, <1>2, GrownArray DEF ArraysOK, DataOK
    <2>5. \A l \in Held : LiteralOK(l)'
      BY <2>1, <2>2, <1>2, GrownLiteral DEF HeldOK, DataOK
    <2>6. new \in Literal /\ new.text = t /\ new.off = Len(data)
      <3>1. FilledArrays \subseteq Nat
        BY Sizes DEF FilledArrays, ArraysOK, ArrayOK
      <3> QED
        BY <3>1, <2>0, <2>3 DEF Node, Literal, DataOK
    <2>7. Len(data') = Len(data) + Len(t) + 1 /\ Len(data) \in Nat
          /\ \A i \in 1 .. Len(t) : data'[Len(data) + i] = t[i]
      BY <2>1, <2>2, <1>1 DEF DataOK
    <2>8. ASSUME NEW a \in arrays PROVE ~ Covers(a, new)
      <3>1. a \in Array /\ a.off + Size(a) <= Len(data)
        BY DEF ArraysOK, ArrayOK
      <3>2. a.off \in Nat /\ Size(a) \in Nat
        BY <3>1, Sizes
      <3> QED
        BY <3>1, <3>2, <2>6, <2>7, <1>1, DisjointBytes DEF Covers
    <2>9. LiteralOK(new)'
      BY <2>6, <2>7, <2>8, <1>1, <1>2 DEF LiteralOK, Occurs
    <2>10. Held' = Held \cup {new}
      BY <2>1, <1>2 DEF Held
    <2> QED
      BY <2>3, <2>4, <2>5, <2>9, <2>10, <1>3 DEF HeldOK
  <1> QED
    BY <1>4, <1>5

(* The slots of an array literal begin behind all there is.                 *)
LEMMA ArrayTokenData ==
    ASSUME DataOK, ArraysOK, Apart, HeldOK, ModulesOK, NEW k \in 1 .. 2, ArrayToken(k)
    PROVE  DataOK' /\ ArraysOK' /\ Apart' /\ HeldOK'
  <1> DEFINE zeros == [i \in 1 .. k * SlotBytes |-> 0]
  <1>0. PICK new : new = Reserve(Len(data), k)
    OBVIOUS
  <1>1. new \in Array /\ new.off = Len(data) /\ new.slots = k /\ ~ new.filled
    BY <1>0 DEF Reserve, Array, ModulesOK, DataOK
  <1>2. Size(new) \in Nat /\ Size(new) = k * SlotBytes
    BY <1>1, Sizes DEF Size
  <1>3. data' = data \o zeros /\ base' \in {base, base + 1} /\ arrays' = arrays \cup {new}
        /\ lits' = lits /\ outer' = outer
    BY <1>0 DEF ArrayToken, Grow, modulevars
  <1>4. zeros \in Seq(Nat) /\ Len(zeros) = Size(new) /\ \A i \in 1 .. Size(new) : zeros[i] = 0
    BY <1>2
  <1> HIDE DEF zeros
  <1>5. DataOK'
    BY <1>3, <1>4 DEF DataOK
  <1>6. Len(data') = Len(data) + Size(new) /\ Len(data) \in Nat
        /\ \A i \in 1 .. Size(new) : data'[Len(data) + i] = 0
    <2>1. Len(data \o zeros) = Len(data) + Len(zeros) /\ Len(data) \in Nat
          /\ \A i \in 1 .. Len(zeros) : (data \o zeros)[Len(data) + i] = zeros[i]
      <3>1. data \in Seq(Nat) /\ zeros \in Seq(Nat)
        BY <1>4 DEF DataOK
      <3> QED
        BY <3>1
    <2> QED
      BY <2>1, <1>3, <1>4
  <1>7. ASSUME NEW x \in Bytes(new.off, Size(new)) PROVE data'[x + 1] = 0
    <2> DEFINE i == x - Len(data) + 1
    <2>1. x \in Len(data) .. Len(data) + Size(new) - 1
      BY <1>1 DEF Bytes
    <2>2. i \in 1 .. Size(new) /\ Len(data) + i = x + 1
      BY <2>1, <1>2, <1>6
    <2> QED
      BY <2>2, <1>6
  <1>8. ArrayOK(new)'
    BY <1>1, <1>2, <1>6, <1>7 DEF ArrayOK
  <1>9. \A a \in arrays : ArrayOK(a)'
    BY <1>3, <1>4, GrownArray DEF ArraysOK, DataOK
  <1>10. ArraysOK'
    BY <1>3, <1>8, <1>9 DEF ArraysOK
  <1>11. \A a \in arrays : After(a, new)
    BY <1>1 DEF ArraysOK, ArrayOK, After
  <1>12. \A a, b \in arrays' : a # b => After(a, b) \/ After(b, a)
    BY <1>3, <1>11 DEF Apart
  <1>13. Apart'
    BY <1>12 DEF Apart, After, Size
  <1>14. \A l \in Held : LiteralOK(l)'
    BY <1>1, <1>3, <1>4, GrownLiteral DEF HeldOK, DataOK
  <1> QED
    BY <1>3, <1>5, <1>10, <1>13, <1>14 DEF HeldOK, Held

-----------------------------------------------------------------------------
(* The code that runs writes into one slot of an array: no other array and  *)
(* no literal outside the arrays sees it.                                   *)
LEMMA StoreData ==
    ASSUME DataOK, ArraysOK, Apart, HeldOK, Store
    PROVE  DataOK' /\ ArraysOK' /\ Apart' /\ HeldOK'
  <1>0. PICK a \in arrays, v \in Letters \cup {0} :
           /\ \E i \in 0 .. a.slots - 1 : data' = [data EXCEPT ![a.off + i * SlotBytes + 1] = v]
           /\ arrays' = (arrays \ {a}) \cup {[a EXCEPT !.filled = TRUE]}
    BY DEF Store
  <1>1. PICK i \in 0 .. a.slots - 1 : data' = [data EXCEPT ![a.off + i * SlotBytes + 1] = v]
    BY <1>0
  <1>2. base' = base /\ lits' = lits /\ outer' = outer
    BY DEF Store, modulevars
  <1>3. PICK c : c = [a EXCEPT !.filled = TRUE]
    OBVIOUS
  <1>4. a \in Array /\ a.off + Size(a) <= Len(data)
    BY DEF ArraysOK, ArrayOK
  <1>5. c \in Array /\ c.off = a.off /\ c.slots = a.slots /\ c.filled
    BY <1>3, <1>4 DEF Array
  <1>6. arrays' = (arrays \ {a}) \cup {c}
    BY <1>0, <1>3
  <1>7. PICK x : x = a.off + i * SlotBytes
    OBVIOUS
  <1>8. x \in Bytes(a.off, Size(a)) /\ x \in Nat /\ x < Len(data) /\ Size(c) = Size(a)
    <2>1. a.off \in Nat /\ Size(a) \in Nat /\ i * SlotBytes \in Nat /\ i * SlotBytes < Size(a)
      BY <1>1, <1>4, Sizes
    <2> QED
      BY <2>1, <1>4, <1>5, <1>7 DEF Bytes, Size, DataOK
  <1>9. data' = [data EXCEPT ![x + 1] = v]
    BY <1>1, <1>7
  <1>10. v \in Nat
    BY StoreAssumption
  <1>11. DataOK' /\ Len(data') = Len(data)
         /\ \A y \in 0 .. Len(data) - 1 : y # x => data'[y + 1] = data[y + 1]
    BY <1>2, <1>8, <1>9, <1>10 DEF DataOK
  <1>12. ASSUME NEW b \in arrays, b # a PROVE ArrayOK(b)'
    <2>1. b \in Array /\ b.off \in Nat /\ Size(b) \in Nat /\ b.off + Size(b) <= Len(data)
      BY Sizes DEF ArraysOK, ArrayOK
    <2>2. a.off \in Nat /\ Size(a) \in Nat
      BY <1>4, Sizes
    <2>3. x \notin Bytes(b.off, Size(b))
      <3>1. a.off + Size(a) <= b.off \/ b.off + Size(b) <= a.off
        BY <1>12 DEF Apart, After
      <3> QED
        BY <3>1, <2>1, <2>2, <1>8 DEF Bytes
    <2>4. ASSUME NEW y \in Bytes(b.off, Size(b)) PROVE data'[y + 1] = data[y + 1]
      <3>1. Len(data) \in Nat
        BY DEF DataOK
      <3>2. y \in 0 .. Len(data) - 1
        BY <2>1, <3>1 DEF Bytes
      <3> QED
        BY <2>3, <3>2, <1>11
    <2> QED
      BY <2>1, <2>4, <1>11 DEF ArraysOK, ArrayOK
  <1>13. ArrayOK(c)'
    BY <1>4, <1>5, <1>8, <1>11 DEF ArrayOK
  <1>14. ArraysOK'
    BY <1>6, <1>12, <1>13 DEF ArraysOK
  <1>15. Apart'
    <2>1. \A b \in arrays : b # a => After(b, c) \/ After(c, b)
      BY <1>5, <1>8 DEF Apart, After
    <2>2. \A b, d \in arrays' : b # d => After(b, d) \/ After(d, b)
      BY <2>1, <1>6 DEF Apart
    <2> QED
      BY <2>2 DEF Apart, After, Size
  <1>16. ASSUME NEW l \in Held PROVE LiteralOK(l)'
    <2>1. LiteralOK(l) /\ l \in Literal /\ l.off + Len(l.text) <= Len(data)
      BY DEF HeldOK, LiteralOK
    <2>2. l.off \in Nat /\ Len(l.text) \in Nat
      BY <2>1, Lengths DEF Literal
    <2>3. Covers(c, l) <=> Covers(a, l)
      BY <1>5, <1>8 DEF Covers
    <2>4. \A b \in arrays' : Covers(b, l) => b.off \in l.filled
      BY <2>1, <2>3, <1>5, <1>6 DEF LiteralOK
    <2>5. ASSUME \A b \in arrays' : ~ Covers(b, l) PROVE Occurs(l.text, l.off)'
      <3>1. \A b \in arrays : ~ Covers(b, l)
        BY <2>3, <2>5, <1>6
      <3>2. Occurs(l.text, l.off)
        BY <2>1, <3>1 DEF LiteralOK
      <3>3. x \notin Bytes(l.off, Len(l.text))
        BY <3>1, <1>8 DEF Covers
      <3>4. ASSUME NEW k \in 1 .. Len(l.text) PROVE data'[l.off + k] = data[l.off + k]
        <4>1. PICK y : y = l.off + k - 1
          OBVIOUS
        <4>2. y \in Bytes(l.off, Len(l.text)) /\ y \in 0 .. Len(data) - 1 /\ y + 1 = l.off + k
          <5>1. l.off <= y /\ y < l.off + Len(l.text) /\ y + 1 = l.off + k /\ y \in Nat
            BY <4>1, <2>2
          <5>2. Len(data) \in Nat
            BY DEF DataOK
          <5> QED
            BY <5>1, <5>2, <2>1, <2>2 DEF Bytes
        <4> QED
          BY <4>2, <3>3, <1>11
      <3> QED
        BY <3>2, <3>4 DEF Occurs
    <2> QED
      BY <2>1, <2>4, <2>5, <1>11 DEF LiteralOK
  <1> QED
    BY <1>2, <1>11, <1>14, <1>15, <1>16 DEF HeldOK, Held

-----------------------------------------------------------------------------
(* The code that is made has the addresses of the store as it is.           *)
LEMMA GenerateData ==
    ASSUME DataOK, ArraysOK, Apart, HeldOK, Generate
    PROVE  DataOK' /\ ArraysOK' /\ Apart' /\ HeldOK'
  <1> DEFINE Moved(a) == IF a.module = current THEN [a EXCEPT !.base = base] ELSE a
  <1>1. data' = data /\ base' = base /\ lits' = lits /\ outer' = outer
        /\ arrays' = {Moved(a) : a \in arrays}
    BY DEF Generate, modulevars
  <1>2. ASSUME NEW a \in arrays
        PROVE  Moved(a) \in Array /\ Moved(a).off = a.off /\ Moved(a).slots = a.slots
               /\ Moved(a).filled = a.filled
    BY DEF Array, ArraysOK, ArrayOK, DataOK
  <1> HIDE DEF Moved
  <1>3. ASSUME NEW a \in arrays, NEW c, c = Moved(a) PROVE ArrayOK(c)'
    <2>1. ArrayOK(a) /\ c \in Array /\ c.off = a.off /\ Size(c) = Size(a) /\ c.filled = a.filled
      BY <1>2, <1>3 DEF ArraysOK, Size
    <2> QED
      BY <2>1, <1>1 DEF ArrayOK
  <1>4. ArraysOK'
    BY <1>1, <1>3 DEF ArraysOK
  <1>5. ASSUME NEW c \in arrays', NEW d \in arrays', c # d
        PROVE  After(c, d) \/ After(d, c)
    <2>1. PICK a \in arrays, b \in arrays : c = Moved(a) /\ d = Moved(b)
      BY <1>1
    <2>2. a # b /\ c.off = a.off /\ c.slots = a.slots /\ d.off = b.off /\ d.slots = b.slots
      BY <2>1, <1>2, <1>5
    <2> QED
      BY <2>2 DEF Apart, After, Size
  <1>6. Apart'
    BY <1>5 DEF Apart, After, Size
  <1>7. ASSUME NEW l \in Held PROVE LiteralOK(l)'
    <2>1. \A c \in arrays' : \E a \in arrays : a.off = c.off /\ a.slots = c.slots
      BY <1>1, <1>2
    <2>2. \A a \in arrays : \E c \in arrays' : a.off = c.off /\ a.slots = c.slots
      BY <1>1, <1>2
    <2> QED
      BY <2>1, <2>2, <1>1, SameLiteral DEF HeldOK
  <1> QED
    BY <1>1, <1>4, <1>6, <1>7 DEF DataOK, HeldOK, Held

(* Steps that touch neither store nor arrays, and add no literal.           *)
LEMMA QuietData ==
    ASSUME DataOK, ArraysOK, Apart, HeldOK, UNCHANGED <<data, base, arrays>>,
           Held' \subseteq Held
    PROVE  DataOK' /\ ArraysOK' /\ Apart' /\ HeldOK'
  <1>1. DataOK' /\ ArraysOK' /\ Apart'
    BY DEF DataOK, ArraysOK, ArrayOK, Apart, After, Size
  <1>2. \A l \in Held : LiteralOK(l)'
    BY SameLiteral DEF HeldOK
  <1> QED
    BY <1>1, <1>2 DEF HeldOK

-----------------------------------------------------------------------------
(* Imports nest: who waits for whom, and that no code is there of either.   *)
Nesting == ModulesOK /\ CodeOK /\ OwnAddressesLive

LEMMA HeldIsLiteral ==
    ASSUME HeldOK
    PROVE  lits \in SUBSET Literal
  BY DEF HeldOK, Held, LiteralOK

LEMMA SeqOfMore ==
    ASSUME NEW S, NEW T, S \subseteq T, NEW s \in Seq(S)
    PROVE  s \in Seq(T)
  <1>1. s = [i \in 1 .. Len(s) |-> s[i]] /\ Len(s) \in Nat
    OBVIOUS
  <1>2. \A i \in 1 .. Len(s) : s[i] \in T
    OBVIOUS
  <1> QED
    BY <1>1, <1>2

LEMMA SeqElements ==
    ASSUME NEW S, NEW s \in Seq(S)
    PROVE  /\ Len(s) \in Nat /\ DOMAIN s = 1 .. Len(s)
           /\ \A i \in DOMAIN s : s[i] \in S
  OBVIOUS

(* The modules that wait, one by one and after one more has begun.          *)
LEMMA Waiting ==
    ASSUME ModulesOK
    PROVE  /\ Len(outer) \in Nat /\ DOMAIN outer = 1 .. Len(outer)
           /\ \A i \in DOMAIN outer : outer[i].module \in 0 .. count
           /\ outer \in Seq([module : 0 .. count + 1, lits : SUBSET Literal])
  <1> DEFINE S == [module : 0 .. count, lits : SUBSET Literal]
             T == [module : 0 .. count + 1, lits : SUBSET Literal]
  <1>1. outer \in Seq(S) /\ count \in Nat
    BY DEF ModulesOK
  <1>2. \A m \in S : m \in T /\ m.module \in 0 .. count
    BY <1>1
  <1> HIDE DEF S, T
  <1>3. Len(outer) \in Nat /\ DOMAIN outer = 1 .. Len(outer)
        /\ \A i \in DOMAIN outer : outer[i] \in S
    BY <1>1, SeqElements
  <1>4. outer \in Seq(T)
    BY <1>1, <1>2, SeqOfMore
  <1> QED
    BY <1>2, <1>3, <1>4 DEF T

(* Steps that leave the modules where they are.                             *)
LEMMA QuietNesting ==
    ASSUME Nesting, UNCHANGED <<code, varcode, modulevars>>,
           phase' \in Phases, phase' # "run",
           phase' \in {"parse", "resolved"} => phase \in {"parse", "resolved"}
    PROVE  Nesting'
  <1>1. code' = code /\ varcode' = varcode /\ current' = current /\ outer' = outer
        /\ count' = count
    BY DEF modulevars
  <1>2. ModulesOK'
    BY <1>1 DEF Nesting, ModulesOK
  <1>3. CodeOK'
    BY <1>1 DEF Nesting, CodeOK
  <1> QED
    BY <1>2, <1>3 DEF Nesting, OwnAddressesLive

LEMMA GenerateNesting ==
    ASSUME Nesting, Generate
    PROVE  Nesting'
  <1>1. /\ phase = "resolved" /\ phase' = "run"
        /\ current' = current /\ outer' = outer /\ count' = count
        /\ base' = base /\ vars' = vars
        /\ code' = code \cup { Patched(l, base) : l \in lits }
        /\ varcode' = varcode \cup {[base |-> vars, module |-> current]}
        /\ arrays' = { IF a.module = current THEN [a EXCEPT !.base = base] ELSE a : a \in arrays }
    BY DEF Generate, modulevars
  <1>2. ModulesOK'
    BY <1>1 DEF Nesting, ModulesOK, Phases
  <1>3. \A p \in code' \cup varcode' : p \in code \cup varcode \/ p.module = current
    BY <1>1 DEF Patched
  <1>4. CodeOK'
    BY <1>1, <1>3 DEF Nesting, CodeOK, ModulesOK
  <1>5. \A p \in code' : p.module = current => p.base = base
    BY <1>1 DEF Nesting, CodeOK, Patched
  <1>6. \A p \in varcode' : p.module = current => p.base = vars
    BY <1>1 DEF Nesting, CodeOK
  <1>7. ASSUME NEW c \in arrays', c.module = current PROVE c.base = base
    <2>1. PICK a \in arrays :
             c = IF a.module = current THEN [a EXCEPT !.base = base] ELSE a
      BY <1>1
    <2>2. CASE a.module = current
      BY <2>1, <2>2
    <2>3. CASE a.module # current
      BY <2>1, <2>3, <1>7
    <2> QED
      BY <2>2, <2>3
  <1>8. OwnAddressesLive'
    BY <1>1, <1>5, <1>6, <1>7 DEF OwnAddressesLive
  <1> QED
    BY <1>2, <1>4, <1>8 DEF Nesting

LEMMA ReturnNesting ==
    ASSUME Nesting, Return
    PROVE  Nesting' /\ Held' \subseteq Held
  <1>1. phase = "run" /\ code' = code /\ varcode' = varcode /\ count' = count
    BY DEF Return
  <1>2. CASE outer = <<>>
    <2>1. phase' = "host" /\ UNCHANGED modulevars /\ lits' = lits
      BY <1>1, <1>2 DEF Return, modulevars
    <2>2. Nesting'
      BY <1>1, <2>1, QuietNesting DEF Phases
    <2> QED
      BY <2>1, <2>2 DEF Held, modulevars
  <1>3. CASE outer # <<>>
    <2>1. phase' = "parse" /\ outer' = Tail(outer) /\ current' = outer[1].module
          /\ lits' = outer[1].lits
      BY <1>3 DEF Return
    <2>2. outer \in Seq([module : 0 .. count, lits : SUBSET Literal]) /\ Len(outer) > 0
      BY <1>3 DEF Nesting, ModulesOK
    <2>3. /\ Tail(outer) \in Seq([module : 0 .. count, lits : SUBSET Literal])
          /\ DOMAIN Tail(outer) = 1 .. Len(outer) - 1
          /\ \A i \in 1 .. Len(outer) - 1 : Tail(outer)[i] = outer[i + 1]
      BY <2>2
    <2>4. 1 \in DOMAIN outer /\ \A i \in DOMAIN outer' :
             i + 1 \in DOMAIN outer /\ outer'[i] = outer[i + 1] /\ i + 1 # 1
      BY <2>1, <2>2, <2>3
    <2>5. \A i \in DOMAIN outer' : outer'[i].module # current'
      BY <2>1, <2>4 DEF Nesting, ModulesOK
    <2>6. ASSUME NEW i \in DOMAIN outer', NEW j \in DOMAIN outer', i # j
          PROVE  outer'[i].module # outer'[j].module
      <3>1. i + 1 # j + 1
        BY <2>1, <2>3, <2>6
      <3> QED
        BY <2>4, <3>1 DEF Nesting, ModulesOK
    <2>7. current' \in 0 .. count
      BY <2>1, <2>4, Waiting DEF Nesting
    <2>8. ModulesOK'
      BY <1>1, <2>1, <2>3, <2>5, <2>6, <2>7 DEF Nesting, ModulesOK, Phases
    <2>9. CodeOK'
      BY <1>1, <2>1, <2>4 DEF Nesting, CodeOK
    <2>10. OwnAddressesLive'
      BY <2>1 DEF OwnAddressesLive
    <2>11. Held' \subseteq Held
      BY <2>1, <2>4 DEF Held
    <2> QED
      BY <2>8, <2>9, <2>10, <2>11 DEF Nesting
  <1> QED
    BY <1>2, <1>3

LEMMA BeginNesting ==
    ASSUME Nesting, HeldOK, BeginModule
    PROVE  Nesting' /\ Held' \subseteq Held
  <1>1. /\ phase \in {"host", "parse"} /\ phase' = "parse" /\ count' = count + 1
        /\ current' = count + 1 /\ lits' = {} /\ code' = code /\ varcode' = varcode
    BY DEF BeginModule
  <1>2. count \in Nat /\ current \in 0 .. count
        /\ outer \in Seq([module : 0 .. count, lits : SUBSET Literal])
    BY DEF Nesting, ModulesOK
  <1>3. /\ \A i \in DOMAIN outer : outer[i].module \in 0 .. count
        /\ Len(outer) \in Nat /\ DOMAIN outer = 1 .. Len(outer)
        /\ outer \in Seq([module : 0 .. count', lits : SUBSET Literal])
    BY <1>1, Waiting DEF Nesting
  <1>4. \A p \in code \cup varcode : p.module \in 0 .. count /\ p.module \in 0 .. count'
    BY <1>1, <1>2 DEF Nesting, CodeOK
  <1>5. \A m \in 0 .. count : m # count + 1 /\ m \in 0 .. count'
    BY <1>1, <1>2
  <1>6. CASE phase = "host"
    <2>1. outer' = outer
      BY <1>6 DEF BeginModule
    <2>2. outer' \in Seq([module : 0 .. count', lits : SUBSET Literal])
      BY <1>3, <2>1
    <2>3. ModulesOK'
      BY <1>1, <1>2, <1>3, <1>5, <2>1, <2>2 DEF Nesting, ModulesOK, Phases
    <2>4. CodeOK'
      BY <1>1, <1>4, <1>5, <2>1 DEF Nesting, CodeOK
    <2> QED
      BY <1>1, <2>1, <2>3, <2>4 DEF Nesting, OwnAddressesLive, Held
  <1>7. CASE phase = "parse"
    <2> DEFINE top == [module |-> current, lits |-> lits]
    <2>1. outer' = <<top>> \o outer
      BY <1>7 DEF BeginModule
    <2>2. top \in [module : 0 .. count', lits : SUBSET Literal]
          /\ top.module = current /\ top.lits = lits
      BY <1>2, <1>5, HeldIsLiteral
    <2> HIDE DEF top
    <2>3. outer \in Seq([module : 0 .. count', lits : SUBSET Literal])
      BY <1>3
    <2>4. /\ outer' \in Seq([module : 0 .. count', lits : SUBSET Literal])
          /\ DOMAIN outer' = 1 .. Len(outer) + 1 /\ outer'[1] = top
          /\ \A i \in 1 .. Len(outer) : outer'[i + 1] = outer[i]
      BY <2>1, <2>2, <2>3
    <2>5. \A i \in DOMAIN outer' :
             i = 1 \/ (i - 1 \in DOMAIN outer /\ outer'[i] = outer[i - 1])
      BY <1>3, <2>4
    <2>6. \A i \in DOMAIN outer' : outer'[i].module \in 0 .. count
      BY <2>2, <2>4, <2>5, <1>2, <1>3
    <2>7. ASSUME NEW i \in DOMAIN outer', NEW j \in DOMAIN outer', i # j
          PROVE  outer'[i].module # outer'[j].module
      <3>1. \A k \in DOMAIN outer : outer[k].module # current
        BY DEF Nesting, ModulesOK
      <3>2. CASE i = 1
        BY <3>1, <3>2, <2>2, <2>4, <2>5, <2>7
      <3>3. CASE j = 1
        BY <3>1, <3>3, <2>2, <2>4, <2>5, <2>7
      <3>4. CASE i # 1 /\ j # 1
        <4>1. i - 1 # j - 1
          BY <2>4, <2>7
        <4> QED
          BY <3>4, <4>1, <2>5 DEF Nesting, ModulesOK
      <3> QED
        BY <3>2, <3>3, <3>4
    <2>8. ModulesOK'
      BY <1>1, <1>2, <1>5, <2>4, <2>6, <2>7 DEF ModulesOK, Phases
    <2>9. ASSUME NEW p \in code \cup varcode, NEW i \in DOMAIN outer'
          PROVE  p.module # outer'[i].module
      <3>1. p.module # current /\ \A k \in DOMAIN outer : p.module # outer[k].module
        BY <1>7 DEF Nesting, CodeOK
      <3> QED
        BY <3>1, <2>2, <2>4, <2>5
    <2>10. CodeOK'
      BY <1>1, <1>4, <1>5, <2>9 DEF CodeOK
    <2>11. \A l \in Held' : l \in Held
      BY <1>1, <2>2, <2>4, <2>5 DEF Held
    <2> QED
      BY <1>1, <2>8, <2>10, <2>11 DEF Nesting, OwnAddressesLive
  <1> QED
    BY <1>1, <1>6, <1>7

-----------------------------------------------------------------------------
DataPart == DataOK /\ ArraysOK /\ Apart /\ HeldOK

LEMMA InvParts == StoreInv <=> DataPart /\ Nesting
  BY DEF StoreInv, DataPart, Nesting

LEMMA InvInit == Init => StoreInv
  <1> SUFFICES ASSUME Init PROVE StoreInv
    OBVIOUS
  <1>1. DataPart
    BY DEF Init, DataPart, DataOK, ArraysOK, Apart, HeldOK, Held
  <1>2. ModulesOK
    BY DEF Init, ModulesOK, Phases
  <1>3. CodeOK /\ OwnAddressesLive
    BY DEF Init, CodeOK, OwnAddressesLive
  <1> QED
    BY <1>1, <1>2, <1>3, InvParts DEF Nesting

LEMMA InvStep == StoreInv /\ [Next]_storevars => StoreInv'
  <1> SUFFICES ASSUME DataPart, Nesting, [Next]_storevars PROVE DataPart' /\ Nesting'
    BY InvParts DEF StoreInv, DataPart, Nesting
  <1> USE DEF DataPart
  <1>1. ASSUME NEW t \in Texts, StringToken(t) PROVE DataPart' /\ Nesting'
    <2>1. phase = "parse" /\ phase' = phase /\ UNCHANGED <<code, varcode, modulevars>>
      BY <1>1 DEF StringToken
    <2> QED
      BY <1>1, <2>1, StringTokenData, QuietNesting DEF Phases
  <1>2. ASSUME NEW k \in 1 .. 2, ArrayToken(k) PROVE DataPart' /\ Nesting'
    <2>1. phase = "parse" /\ phase' = phase /\ UNCHANGED <<code, varcode, modulevars>>
      BY <1>2 DEF ArrayToken
    <2> QED
      BY <1>2, <2>1, ArrayTokenData, QuietNesting DEF Phases, Nesting
  <1>3. CASE Resolve
    <2>1. phase = "parse" /\ phase' \in {"resolved", "crashed"}
          /\ UNCHANGED <<data, base, arrays, code, varcode, modulevars>> /\ lits' = lits
      BY <1>3 DEF Resolve
    <2>2. Held' = Held
      BY <2>1 DEF Held, modulevars
    <2> QED
      BY <2>1, <2>2, QuietData, QuietNesting DEF Phases
  <1>4. CASE Reject
    <2>1. phase' \in {"host", "exited"}
          /\ UNCHANGED <<data, base, arrays, code, varcode, modulevars>> /\ lits' = lits
      BY <1>4 DEF Reject
    <2>2. Held' = Held
      BY <2>1 DEF Held, modulevars
    <2> QED
      BY <2>1, <2>2, QuietData, QuietNesting DEF Phases
  <1>5. CASE Generate
    BY <1>5, GenerateData, GenerateNesting
  <1>6. CASE Store
    <2>1. phase = "run" /\ phase' = phase
          /\ UNCHANGED <<base, vars, code, varcode, modulevars>>
      BY <1>6 DEF Store
    <2>2. ModulesOK' /\ CodeOK'
      BY <2>1 DEF Nesting, ModulesOK, CodeOK, modulevars
    <2>3. ASSUME NEW c \in arrays', c.module = current PROVE c.base = base
      <3>1. PICK a \in arrays : a.base = base
                                /\ arrays' = (arrays \ {a}) \cup {[a EXCEPT !.filled = TRUE]}
        BY <1>6 DEF Store
      <3>2. a \in Array
        BY DEF ArraysOK, ArrayOK
      <3>3. [a EXCEPT !.filled = TRUE].base = base
        BY <3>1, <3>2 DEF Array
      <3>4. c \in arrays \/ c.base = base
        BY <3>1, <3>3
      <3> QED
        BY <3>4, <2>1, <2>3 DEF Nesting, OwnAddressesLive
    <2>4. OwnAddressesLive'
      BY <2>1, <2>3 DEF Nesting, OwnAddressesLive, modulevars
    <2> QED
      BY <1>6, <2>2, <2>4, StoreData DEF Nesting
  <1>7. CASE Return
    <2>1. UNCHANGED <<data, base, arrays>>
      BY <1>7 DEF Return
    <2> QED
      BY <1>7, <2>1, ReturnNesting, QuietData
  <1>8. CASE BeginModule
    <2>1. UNCHANGED <<data, base, arrays>>
      BY <1>8 DEF BeginModule
    <2> QED
      BY <1>8, <2>1, BeginNesting, QuietData
  <1>9. CASE putVar
    <2>1. phase \in {"host", "parse"} /\ phase' = phase
          /\ UNCHANGED <<data, base, arrays, code, varcode, modulevars>> /\ lits' = lits
      BY <1>9 DEF putVar
    <2>2. Held' = Held
      BY <2>1 DEF Held, modulevars
    <2> QED
      BY <2>1, <2>2, QuietData, QuietNesting DEF Phases
  <1>10. CASE UNCHANGED storevars
    <2>1. UNCHANGED <<data, base, lits, arrays, code, vars, varcode, phase, current, outer, count>>
      BY <1>10 DEF storevars
    <2>2. Held' = Held
      BY <2>1 DEF Held
    <2>3. Nesting'
      BY <2>1 DEF Nesting, ModulesOK, CodeOK, OwnAddressesLive
    <2> QED
      BY <2>1, <2>2, <2>3, QuietData
  <1> QED
    BY <1>1, <1>2, <1>3, <1>4, <1>5, <1>6, <1>7, <1>8, <1>9, <1>10 DEF Next

(* The strengthened invariant holds in every state.                         *)
THEOREM StoreInvariant == Spec => []StoreInv
  BY InvInit, InvStep, PTL DEF Spec

(* Arrays do not share bytes, and no literal is read from a slot that is    *)
(* still zero (primary(), parser.c:506-538; getdata(), lexer.c:45-52).      *)
THEOREM ArraysDisjoint == Spec => []Disjoint
  <1>1. StoreInv => Disjoint
    <2> SUFFICES ASSUME StoreInv PROVE Disjoint
      OBVIOUS
    <2>1. ASSUME NEW a \in arrays, NEW b \in arrays, a # b
          PROVE  Bytes(a.off, Size(a)) \cap Bytes(b.off, Size(b)) = {}
      <3>1. a.off \in Nat /\ Size(a) \in Nat /\ b.off \in Nat /\ Size(b) \in Nat
        BY Sizes DEF StoreInv, ArraysOK, ArrayOK
      <3>2. After(a, b) \/ After(b, a)
        BY <2>1 DEF StoreInv, Apart
      <3> QED
        BY <3>1, <3>2, DisjointBytes DEF After
    <2>2. lits \cup Pending \subseteq Held
      BY DEF Pending, Held
    <2>3. \A a \in arrays, l \in lits \cup Pending : Covers(a, l) => a.off \in l.filled
      BY <2>2 DEF StoreInv, HeldOK, LiteralOK
    <2> QED
      BY <2>1, <2>3 DEF Disjoint
  <1> QED
    BY <1>1, StoreInvariant, PTL

(* Until a module is compiled its literals stay where they were interned,   *)
(* whatever is read or run meanwhile (getToken(), lexer.c:321-343).         *)
THEOREM LiteralsInPlace == Spec => []TextInPlace
  <1>1. StoreInv => TextInPlace
    BY DEF StoreInv, HeldOK, LiteralOK, TextInPlace, Pending, Held
  <1> QED
    BY <1>1, StoreInvariant, PTL

(* A module runs with addresses of the store and of the variables as they   *)
(* are (codegen_expr(), x64codegen.c:558-593, leaf_address() at 409).       *)
THEOREM AddressesLive == Spec => []OwnAddressesLive
  <1>1. StoreInv => OwnAddressesLive
    BY DEF StoreInv
  <1> QED
    BY <1>1, StoreInvariant, PTL

(* The store only grows, and only slots of arrays change in it.             *)
THEOREM StoreAppends == Spec => AppendOnly
  <1> DEFINE A == /\ Len(data') >= Len(data)
                  /\ \A i \in 1 .. Len(data) : data'[i] # data[i] =>
                        \E a \in arrays : i - 1 \in Bytes(a.off, Size(a))
  <1>1. ASSUME DataOK, ArraysOK, [Next]_storevars PROVE A
    <2>1. ASSUME NEW bytes \in Seq(Nat), data' = data \o bytes PROVE A
      BY <1>1, <2>1 DEF DataOK
    <2>2. ASSUME data' = data PROVE A
      BY <1>1, <2>2 DEF DataOK
    <2> HIDE DEF A
    <2>3. ASSUME NEW t \in Texts, StringToken(t) PROVE A
      <3>1. t \o <<0>> \in Seq(Nat)
        BY Lengths
      <3> QED
        BY <2>1, <2>2, <2>3, <3>1 DEF StringToken, Grow
    <2>4. ASSUME NEW k \in 1 .. 2, ArrayToken(k) PROVE A
      <3>1. k * SlotBytes \in Nat
        BY StoreAssumption
      <3>2. [i \in 1 .. k * SlotBytes |-> 0] \in Seq(Nat)
        BY <3>1
      <3> QED
        BY <2>1, <2>4, <3>2 DEF ArrayToken, Grow
    <2>5. CASE Store
      <3>1. PICK a \in arrays, v \in Letters \cup {0} :
               \E i \in 0 .. a.slots - 1 : data' = [data EXCEPT ![a.off + i * SlotBytes + 1] = v]
        BY <2>5 DEF Store
      <3>2. PICK i \in 0 .. a.slots - 1 : data' = [data EXCEPT ![a.off + i * SlotBytes + 1] = v]
        BY <3>1
      <3>3. PICK x : x = a.off + i * SlotBytes
        OBVIOUS
      <3>4. a.off \in Nat /\ Size(a) \in Nat /\ i * SlotBytes \in Nat /\ i * SlotBytes < Size(a)
        BY <1>1, <3>2, Sizes DEF ArraysOK, ArrayOK
      <3>5. x \in Nat /\ x + 1 - 1 = x /\ x \in Bytes(a.off, Size(a))
        BY <3>3, <3>4 DEF Bytes
      <3>6. data' = [data EXCEPT ![x + 1] = v]
        BY <3>2, <3>3
      <3>7. Len(data') = Len(data) /\ Len(data) \in Nat
            /\ \A k \in 1 .. Len(data) : k # x + 1 => data'[k] = data[k]
        BY <1>1, <3>6 DEF DataOK
      <3> QED
        BY <3>5, <3>7 DEF A
    <2>6. CASE Resolve \/ Reject \/ Generate \/ Return \/ BeginModule \/ putVar
               \/ UNCHANGED storevars
      <3>1. data' = data
        BY <2>6 DEF Resolve, Reject, Generate, Return, BeginModule, putVar, storevars
      <3> QED
        BY <2>2, <3>1
    <2> QED
      BY <1>1, <2>3, <2>4, <2>5, <2>6 DEF Next
  <1>2. StoreInv /\ [Next]_storevars => [A]_storevars
    BY <1>1 DEF StoreInv
  <1>3. Spec => [][A]_storevars
    BY <1>2, StoreInvariant, PTL DEF Spec
  <1> QED
    BY <1>3 DEF AppendOnly
=============================================================================
