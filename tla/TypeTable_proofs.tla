-------------------------- MODULE TypeTable_proofs --------------------------
(* Proofs about cup_type() and cup_type_parse(): what they answer, and what *)
(* the table is afterwards.  A statement about all numbers of arguments is  *)
(* proved by the least number for which it would fail (LeastNat).           *)
EXTENDS TypeTable, SequenceTheorems, WellFoundedInduction, TLAPS

(* An entry of the table, or any other pointer                              *)
Inside(T, p) == IsEntry(p) => p[2] \in 1 .. Len(T)

(* What is true of every table of types                                     *)
Table(T) == T \in Seq(AllTypes) /\ WellFormed(T) /\ NoTwins(T)

(* Entries stay where and what they are.                                    *)
Extends(T, U) == Len(T) <= Len(U) /\ \A i \in 1 .. Len(T) : U[i] = T[i]

-----------------------------------------------------------------------------
(* Every set of natural numbers has a least element.                        *)
LEMMA LeastNat ==
    ASSUME NEW S \in SUBSET Nat, S # {}
    PROVE  \E m \in S : \A t \in S : m <= t
<1> DEFINE R == OpToRel(<, Nat)
<1>1. IsWellFoundedOn(R, Nat)
  BY NatLessThanWellFounded
<1>2. \A x, y \in Nat : <<x, y>> \in R <=> x < y
  BY DEF OpToRel
<1> HIDE DEF R
<1>3. PICK m \in S : \A t \in S : ~ (<<t, m>> \in R)
  BY <1>1, WFMin
<1>4. \A t \in S : ~ (t < m)
  BY <1>2, <1>3
<1> QED
  BY <1>4

(* Pointers to simple types and to entries are pointers, no entry is one of *)
(* the first, and neither are Null and Void.                                *)
LEMMA PointerKinds ==
    /\ \A name \in Simple \cup Callbacks :
          Pointer(name) \in Pointers /\ ~ IsEntry(Pointer(name))
    /\ Null \in Pointers /\ Void \in Pointers /\ ~ IsEntry(Null) /\ ~ IsEntry(Void)
    /\ \A i \in Nat : EntryAt(i) \in Pointers
    /\ \A i : EntryAt(i)[2] = i /\ IsEntry(EntryAt(i))
              /\ EntryAt(i) # Null /\ EntryAt(i) # Pointer("exit")
    /\ \A p \in Pointers : IsEntry(p) => p = EntryAt(p[2]) /\ p[2] \in Nat
    /\ Pointer("exit") \notin Pointers
<1>1. \A name \in Simple \cup Callbacks :
         Pointer(name) \in Pointers /\ ~ IsEntry(Pointer(name))
  BY TypeTableAssumption DEF Pointer, Pointers, IsEntry
<1>2. Null \in Pointers /\ ~ IsEntry(Null)
  BY DEF Pointer, Pointers, IsEntry, Null
<1>3. Void \in Pointers /\ ~ IsEntry(Void)
  BY <1>1, TypeTableAssumption DEF Void
<1>4. \A i \in Nat : EntryAt(i) \in Pointers
  BY DEF EntryAt, Pointers
<1>5. \A i : EntryAt(i)[2] = i /\ IsEntry(EntryAt(i))
             /\ EntryAt(i) # Null /\ EntryAt(i) # Pointer("exit")
  BY DEF EntryAt, IsEntry, Null, Pointer
<1>6. \A p \in Pointers : IsEntry(p) => p = EntryAt(p[2]) /\ p[2] \in Nat
  BY TypeTableAssumption DEF EntryAt, IsEntry, Pointers
<1>7. Pointer("exit") \notin Pointers
  BY TypeTableAssumption DEF Pointer, Pointers
<1> QED
  BY <1>1, <1>2, <1>3, <1>4, <1>5, <1>6, <1>7

(* One more entry: what it is made of was there before, and no entry is the *)
(* same if callers rely on that.                                            *)
LEMMA AppendKeeps ==
    ASSUME NEW T, Table(T), NEW e \in AllTypes,
           \A j \in DOMAIN e.elems : Inside(T, e.elems[j]) \/ e.elems[j] \in Leftover,
           Settled(T, e) => \A i \in 1 .. Len(T) : T[i] # e
    PROVE  Table(Append(T, e)) /\ Extends(T, Append(T, e))
<1> DEFINE n == Len(T)
           U == Append(T, e)
<1>1. T \in Seq(AllTypes) /\ n \in Nat /\ DOMAIN T = 1 .. n
  BY DEF Table
<1>2. /\ U \in Seq(AllTypes) /\ Len(U) = n + 1 /\ DOMAIN U = 1 .. n + 1
      /\ U[n + 1] = e /\ \A i \in 1 .. n : U[i] = T[i]
  BY <1>1
<1> HIDE DEF U, n
<1>3. WellFormed(U)
  <2> SUFFICES ASSUME NEW i \in 1 .. n + 1, NEW j \in DOMAIN U[i].elems, IsEntry(U[i].elems[j])
               PROVE  U[i].elems[j][2] \in 1 .. i - 1 \/ U[i].elems[j] \in Leftover
    BY <1>2 DEF WellFormed
  <2>1. CASE i = n + 1
    <3>1. U[i] = e
      BY <1>2, <2>1
    <3>2. Inside(T, e.elems[j]) \/ e.elems[j] \in Leftover
      BY <3>1
    <3>3. e.elems[j][2] \in 1 .. n \/ e.elems[j] \in Leftover
      BY <3>1, <3>2 DEF Inside, n
    <3> QED
      BY <1>1, <2>1, <3>1, <3>3
  <2>2. CASE i \in 1 .. n
    BY <1>1, <1>2, <2>2 DEF Table, WellFormed
  <2> QED
    BY <1>1, <2>1, <2>2
<1>4. ASSUME NEW i \in 1 .. n, NEW j \in DOMAIN T[i].elems,
             T[i].elems[j] \notin Leftover, IsEntry(T[i].elems[j]), Single(U, T[i].elems[j])
      PROVE  Single(T, T[i].elems[j])
  <2> DEFINE p == T[i].elems[j]
  <2>1. p[2] \in 1 .. n
    <3>1. p[2] \in 1 .. i - 1
      BY <1>1, <1>4 DEF Table, WellFormed
    <3> QED
      BY <1>1, <3>1
  <2> HIDE DEF p
  <2>2. Single(U, p) => Single(T, p)
    BY <1>1, <1>2, <2>1 DEF Single
  <2> QED
    BY <1>4, <2>2 DEF p
<1>5. ASSUME NEW i \in 1 .. n, Settled(U, T[i]) PROVE Settled(T, T[i])
  <2>1. T[i] \in AllTypes /\ T[i].elems \in Seq(Pointers)
    <3>1. T[i] \in AllTypes
      BY <1>1
    <3> QED
      BY <3>1 DEF AllTypes
  <2> SUFFICES ASSUME T[i].kind = "function", NEW j \in 2 .. Len(T[i].elems)
               PROVE  /\ T[i].elems[j] \notin Leftover
                      /\ IsEntry(T[i].elems[j]) => Single(T, T[i].elems[j])
    BY <1>5 DEF Settled
  <2>2. j \in DOMAIN T[i].elems
    BY <2>1
  <2> QED
    BY <1>4, <1>5, <2>2 DEF Settled
<1>6. ASSUME NEW j \in DOMAIN e.elems,
             e.elems[j] \notin Leftover, IsEntry(e.elems[j]), Single(U, e.elems[j])
      PROVE  Single(T, e.elems[j])
  <2> DEFINE p == e.elems[j]
  <2>1. p[2] \in 1 .. n
    BY <1>6 DEF Inside, n
  <2> HIDE DEF p
  <2>2. Single(U, p) => Single(T, p)
    BY <1>1, <1>2, <2>1 DEF Single
  <2> QED
    BY <1>6, <2>2 DEF p
<1>7. Settled(U, e) => Settled(T, e)
  <2>1. e.elems \in Seq(Pointers)
    BY DEF AllTypes
  <2> SUFFICES ASSUME Settled(U, e), e.kind = "function", NEW j \in 2 .. Len(e.elems)
               PROVE  /\ e.elems[j] \notin Leftover
                      /\ IsEntry(e.elems[j]) => Single(T, e.elems[j])
    BY DEF Settled
  <2>2. j \in DOMAIN e.elems
    BY <2>1
  <2> QED
    BY <1>6, <2>2 DEF Settled
<1>8. NoTwins(U)
  <2> SUFFICES ASSUME NEW i \in 1 .. n + 1, NEW j \in 1 .. n + 1,
                      U[i] = U[j], Settled(U, U[i])
               PROVE  i = j
    BY <1>2 DEF NoTwins
  <2>1. CASE i \in 1 .. n /\ j \in 1 .. n
    <3>1. T[i] = T[j] /\ Settled(T, T[i])
      BY <1>2, <1>5, <2>1
    <3> QED
      BY <1>1, <2>1, <3>1 DEF Table, NoTwins
  <2>2. CASE i = n + 1 \/ j = n + 1
    <3>1. U[i] = e /\ U[j] = e
      BY <1>2, <2>2
    <3>2. \A k \in 1 .. n : T[k] # e
      BY <1>7, <3>1 DEF n
    <3>3. i \notin 1 .. n /\ j \notin 1 .. n
      BY <1>2, <3>1, <3>2
    <3> QED
      BY <1>1, <3>3
  <2> QED
    BY <1>1, <2>1, <2>2
<1> QED
  BY <1>1, <1>2, <1>3, <1>8 DEF Table, Extends, U, n

LEMMA ExtendsTrans ==
    ASSUME NEW T, NEW U, NEW V, Table(T), Table(U), Table(V), Extends(T, U), Extends(U, V)
    PROVE  Extends(T, V)
<1>1. Len(T) \in Nat /\ Len(U) \in Nat /\ Len(V) \in Nat
  BY DEF Table
<1> QED
  BY <1>1 DEF Extends

LEMMA ExtendsSelf ==
    ASSUME NEW T, Table(T)
    PROVE  Extends(T, T)
BY DEF Extends, Table

(* What was answered once stays true.                                       *)
LEMMA MatchesStays ==
    ASSUME NEW T, NEW U, Table(T), Table(U), Extends(T, U), NEW e, NEW t, Matches(T, e, t)
    PROVE  Matches(U, e, t)
<1>1. /\ Len(T) \in Nat /\ Len(U) \in Nat /\ DOMAIN T = 1 .. Len(T) /\ DOMAIN U = 1 .. Len(U)
  BY DEF Table
<1>2. \A p, q : SameType(T, p, q) => SameType(U, p, q)
  <2> SUFFICES ASSUME NEW p, NEW q, IsEntry(p), IsEntry(q),
                      p[2] \in 1 .. Len(T), q[2] \in 1 .. Len(T), T[p[2]] = T[q[2]]
               PROVE  SameType(U, p, q)
    BY <1>1 DEF SameType
  <2>1. p[2] \in 1 .. Len(U) /\ q[2] \in 1 .. Len(U)
    BY <1>1 DEF Extends
  <2>2. U[p[2]] = U[q[2]]
    BY DEF Extends
  <2> QED
    BY <1>1, <2>1, <2>2 DEF SameType
<1> QED
  BY <1>2 DEF Matches

(* What a call of cup_type() may end with: a table that has grown and, if   *)
(* the process goes on, an entry that is what was asked for.                *)
Answer(T, t, out) ==
    /\ Table(out.types) /\ Extends(T, out.types)
    /\ ~ out.dead => /\ out.ans \in Pointers /\ IsEntry(out.ans)
                     /\ out.ans[2] \in 1 .. Len(out.types)
                     /\ Matches(out.types, out.types[out.ans[2]], t)

(* The search begins at the oldest entry.                                   *)
LEMMA Oldest ==
    ASSUME NEW S \in SUBSET Nat, S # {}
    PROVE  Min(S) \in S /\ \A t \in S : Min(S) <= t
BY LeastNat DEF Min

(* An element that is an entry is found by its own memory, but for an older *)
(* function that is equal to it, and a pointer or an array of the same size *)
(* that ends the process.                                                   *)
LEMMA ElementFound ==
    ASSUME NEW T, Table(T), NEW p \in Pointers, Inside(T, p), Element(T, p) # Pointer("exit")
    PROVE  /\ Element(T, p) \in Pointers /\ Inside(T, Element(T, p))
           /\ SameType(T, Element(T, p), p)
<1>1. CASE ~ IsEntry(p)
  BY <1>1 DEF Element, Inside, SameType
<1>2. CASE IsEntry(p)
  <2> DEFINE at == p[2]
             t == T[at]
             hits == Stops(T, t, at)
             m == Min(hits)
  <2>1. at \in 1 .. Len(T) /\ DOMAIN T = 1 .. Len(T) /\ Len(T) \in Nat /\ T \in Seq(AllTypes)
    BY <1>2 DEF Inside, Table
  <2>2. hits \in SUBSET Nat /\ hits # {} /\ hits \subseteq 1 .. Len(T)
    BY <2>1 DEF Stops
  <2>3. m \in hits
    BY <2>2, Oldest
  <2>4. Element(T, p) = EntryAt(m) /\ (m = at \/ t.kind = "function")
    BY <1>2, <1>2, <2>2 DEF Element, cup_type_get
  <2>5. T[m] = T[at]
    <3>1. CASE m = at
      BY <3>1
    <3>2. CASE m # at /\ t.kind = "function"
      <4>1. T[m].kind = t.kind /\ T[m].size = t.size /\ T[m].elems = t.elems
        BY <2>3, <3>2 DEF Stops, SameElements
      <4>2. T[m] \in AllTypes /\ T[at] \in AllTypes
        BY <2>1, <2>2, <2>3
      <4> HIDE DEF m
      <4> QED
        BY <4>1, <4>2 DEF AllTypes
    <3> QED
      BY <2>4, <3>1, <3>2
  <2>6. m \in 1 .. Len(T)
    BY <2>2, <2>3
  <2> HIDE DEF m
  <2>7. EntryAt(m) \in Pointers /\ IsEntry(EntryAt(m)) /\ EntryAt(m)[2] = m
    BY <2>1, <2>6, PointerKinds
  <2> QED
    BY <1>2, <2>1, <2>4, <2>5, <2>6, <2>7 DEF Inside, SameType
<1> QED
  BY <1>1, <1>2

(* What newtype() makes, of what the search has not found.                  *)
LEMMA NewtypeAnswers ==
    ASSUME NEW T, Table(T), NEW t \in AllTypes, \A j \in DOMAIN t.elems : Inside(T, t.elems[j]),
           Stops(T, t, 0) = {}, NEW out \in newtype(T, t)
    PROVE  Answer(T, t, out)
<1> DEFINE slots == [j \in DOMAIN t.elems |-> Slot(T, t, j)]
           dead == VoidArgument(t) \/ \E j \in DOMAIN slots : Pointer("exit") \in slots[j]
<1>1. /\ T \in Seq(AllTypes) /\ Len(T) \in Nat /\ DOMAIN T = 1 .. Len(T)
      /\ t.elems \in Seq(Pointers) /\ DOMAIN t.elems = 1 .. Len(t.elems) /\ Len(t.elems) \in Nat
      /\ \A j \in DOMAIN t.elems : t.elems[j] \in Pointers
  BY DEF Table, AllTypes
<1>2. CASE dead
  <2>1. out = Ended(T)
    BY <1>2 DEF newtype
  <2> QED
    BY <2>1, ExtendsSelf DEF Answer, Ended
<1>3. CASE ~ dead
  <2>1. PICK elems \in [DOMAIN t.elems -> UNION {slots[j] : j \in DOMAIN slots}] :
           /\ \A j \in DOMAIN elems : elems[j] \in slots[j]
           /\ out = Found(Append(T, [t EXCEPT !.elems = elems]), EntryAt(Len(T) + 1))
    BY <1>3 DEF newtype
  <2> DEFINE e == [t EXCEPT !.elems = elems]
  <2>2. DOMAIN elems = 1 .. Len(t.elems)
    BY <1>1
  <2>3. ASSUME NEW j \in 1 .. Len(t.elems)
        PROVE  elems[j] \in Slot(T, t, j) /\ Slot(T, t, j) = slots[j] /\ Pointer("exit") # elems[j]
    BY <1>1, <1>3, <2>1, <2>2
  <2>4. ASSUME NEW j \in 1 .. Len(t.elems)
        PROVE  /\ elems[j] \in Pointers
               /\ Inside(T, elems[j]) \/ elems[j] \in Leftover
               /\ t.elems[j] = Null \/ SameType(T, elems[j], t.elems[j])
    <3>1. CASE t.kind = "meta" \/ (t.kind = "function" /\ j = 1)
      <4>1. elems[j] = t.elems[j]
        BY <2>3, <3>1 DEF Slot
      <4> QED
        BY <1>1, <4>1 DEF SameType
    <3>2. CASE ~ (t.kind = "meta" \/ (t.kind = "function" /\ j = 1))
               /\ t.kind = "function" /\ t.elems[j] = Null
      <4>1. elems[j] \in Leftover
        BY <2>3, <3>2 DEF Slot
      <4> QED
        BY <3>2, <4>1, TypeTableAssumption
    <3>3. CASE ~ (t.kind = "meta" \/ (t.kind = "function" /\ j = 1))
               /\ ~ (t.kind = "function" /\ t.elems[j] = Null)
      <4>1. elems[j] = Element(T, t.elems[j])
        BY <2>3, <3>3 DEF Slot
      <4>2. t.elems[j] \in Pointers /\ Inside(T, t.elems[j])
        BY <1>1
      <4>3. Element(T, t.elems[j]) # Pointer("exit")
        BY <2>3, <4>1
      <4>4. /\ Element(T, t.elems[j]) \in Pointers /\ Inside(T, Element(T, t.elems[j]))
            /\ SameType(T, Element(T, t.elems[j]), t.elems[j])
        BY <4>2, <4>3, ElementFound
      <4> QED
        BY <4>1, <4>4
    <3> QED
      BY <3>1, <3>2, <3>3
  <2>5. elems \in Seq(Pointers) /\ Len(elems) = Len(t.elems)
    BY <1>1, <2>2, <2>4
  <2>6. e \in AllTypes /\ e.elems = elems /\ e.kind = t.kind /\ e.size = t.size
    BY <2>5 DEF AllTypes
  <2> HIDE DEF e
  <2>7. ASSUME Settled(T, e), NEW i \in 1 .. Len(T), T[i] = e PROVE FALSE
    <3>1. e.kind \in {"pointer", "array", "function"}
      BY <2>6, <2>7 DEF Settled, AllTypes
    <3>2. CASE e.kind \in {"pointer", "array"}
      <4>1. i \in Stops(T, t, 0)
        BY <1>1, <2>6, <2>7, <3>2 DEF Stops
      <4> QED
        BY <4>1
    <3>3. CASE e.kind = "function"
      <4>1. ASSUME NEW j \in 1 .. Len(t.elems) PROVE elems[j] = t.elems[j]
        <5>1. CASE j = 1
          BY <2>3, <2>6, <3>3, <5>1 DEF Slot
        <5>2. CASE j # 1
          <6>1. j \in 2 .. Len(e.elems)
            BY <1>1, <2>5, <2>6, <5>2
          <6>2. elems[j] \notin Leftover /\ (IsEntry(elems[j]) => Single(T, elems[j]))
            BY <2>6, <2>7, <3>3, <6>1 DEF Settled
          <6>3. t.elems[j] # Null
            BY <2>3, <2>6, <3>3, <5>2, <6>2 DEF Slot
          <6>4. SameType(T, elems[j], t.elems[j])
            BY <2>4, <6>3
          <6>5. CASE IsEntry(elems[j]) /\ IsEntry(t.elems[j]) /\ t.elems[j][2] \in DOMAIN T
                     /\ T[elems[j][2]] = T[t.elems[j][2]]
            <7>1. t.elems[j][2] = elems[j][2]
              BY <6>2, <6>5 DEF Single
            <7>2. elems[j] = EntryAt(elems[j][2]) /\ t.elems[j] = EntryAt(t.elems[j][2])
              BY <1>1, <2>4, <6>5, PointerKinds
            <7> QED
              BY <7>1, <7>2
          <6> QED
            BY <6>4, <6>5 DEF SameType
        <5> QED
          BY <5>1, <5>2
      <4>2. elems = t.elems
        BY <1>1, <2>5, <4>1
      <4>3. i \in Stops(T, t, 0)
        BY <1>1, <2>6, <2>7, <3>3, <4>2 DEF Stops, SameElements
      <4> QED
        BY <4>3
    <3> QED
      BY <3>1, <3>2, <3>3
  <2>8. \A j \in DOMAIN e.elems : Inside(T, e.elems[j]) \/ e.elems[j] \in Leftover
    BY <2>2, <2>4, <2>6
  <2>9. Table(Append(T, e)) /\ Extends(T, Append(T, e))
    <3>1. Settled(T, e) => \A i \in 1 .. Len(T) : T[i] # e
      BY <2>7
    <3> QED
      BY <2>6, <2>8, <3>1, AppendKeeps
  <2>10. /\ out.types = Append(T, e) /\ out.ans = EntryAt(Len(T) + 1)
    BY <2>1 DEF Found, e
  <2>11. Matches(T, e, t)
    BY <1>1, <2>4, <2>6 DEF Matches
  <2>12. Matches(Append(T, e), e, t)
    BY <2>9, <2>11, MatchesStays
  <2>13. /\ Len(Append(T, e)) = Len(T) + 1 /\ Append(T, e)[Len(T) + 1] = e
    BY <1>1, <2>6
  <2>14. /\ EntryAt(Len(T) + 1) \in Pointers /\ IsEntry(EntryAt(Len(T) + 1))
         /\ EntryAt(Len(T) + 1)[2] = Len(T) + 1 /\ Len(T) + 1 \in 1 .. Len(T) + 1
    BY <1>1, PointerKinds
  <2> QED
    BY <2>9, <2>10, <2>12, <2>13, <2>14 DEF Answer
<1> QED
  BY <1>2, <1>3

(* All ends of cup_type().                                                  *)
LEMMA TypeAnswers ==
    ASSUME NEW T, Table(T), NEW t \in AllTypes, \A j \in DOMAIN t.elems : Inside(T, t.elems[j]),
           NEW out \in cup_type(T, t)
    PROVE  Answer(T, t, out)
<1> DEFINE hits == Stops(T, t, 0)
           m == Min(hits)
           p == cup_type_get(T, t, 0)
<1>1. T \in Seq(AllTypes) /\ Len(T) \in Nat /\ DOMAIN T = 1 .. Len(T)
  BY DEF Table
<1>2. hits \in SUBSET Nat /\ hits \subseteq 1 .. Len(T)
  BY <1>1 DEF Stops
<1>3. CASE out = Ended(T)
  BY <1>3, ExtendsSelf DEF Answer, Ended
<1>4. CASE out # Ended(T) /\ hits = {}
  <2>1. p = Null /\ Null # Pointer("exit")
    BY <1>4 DEF cup_type_get, Null, Pointer
  <2>2. out \in newtype(T, t)
    BY <1>4, <2>1 DEF cup_type
  <2> QED
    BY <1>4, <2>2, NewtypeAnswers
<1>5. CASE out # Ended(T) /\ hits # {}
  <2>1. m \in hits
    BY <1>2, <1>5, Oldest
  <2>2. m \in 1 .. Len(T) /\ m # 0
    BY <1>1, <1>2, <2>1
  <2> HIDE DEF m
  <2>3. p # Pointer("exit")
    BY <1>5 DEF cup_type
  <2>4. t.kind = "function" /\ p = EntryAt(m)
    BY <1>5, <2>2, <2>3 DEF cup_type_get, m
  <2>5. out = Found(T, EntryAt(m))
    <3>1. EntryAt(m) # Null
      BY PointerKinds
    <3> QED
      BY <2>3, <2>4, <3>1 DEF cup_type
  <2>6. T[m].kind = t.kind /\ T[m].size = t.size /\ T[m].elems = t.elems
    BY <2>1, <2>2, <2>4 DEF Stops, SameElements
  <2>7. Matches(T, T[m], t)
    BY <2>6 DEF Matches, SameType
  <2>8. EntryAt(m) \in Pointers /\ IsEntry(EntryAt(m)) /\ EntryAt(m)[2] = m
    BY <2>2, PointerKinds
  <2> QED
    BY <2>2, <2>5, <2>7, <2>8, ExtendsSelf DEF Answer, Found
<1> QED
  BY <1>3, <1>4, <1>5

-----------------------------------------------------------------------------
(* What reading a type of a signature may end with, and a list of them      *)
Parsed(T, out) ==
    /\ Table(out.types) /\ Extends(T, out.types)
    /\ ~ out.dead => out.ans \in Pointers /\ Inside(out.types, out.ans)
ParsedList(T, out) ==
    /\ Table(out.types) /\ Extends(T, out.types)
    /\ ~ out.dead => /\ out.ans \in Seq(Pointers)
                     /\ \A j \in DOMAIN out.ans : Inside(out.types, out.ans[j])

(* A pointer is made only if there is none yet.                             *)
LEMMA PointerParsed ==
    ASSUME NEW T, Table(T), NEW out \in MadePointer(T)
    PROVE  Parsed(T, out)
<1>1. T \in Seq(AllTypes) /\ Len(T) \in Nat /\ DOMAIN T = 1 .. Len(T)
  BY DEF Table
<1>2. CASE out = Ended(T)
  BY <1>2, ExtendsSelf DEF Parsed, Ended
<1> DEFINE meta == Append(T, MetaType("stack"))
           end == EntryAt(Len(T) + 1)
<1>3. CASE out # Ended(T)
  <2>1. cup_type_get(T, PointerTo(Void), 0) = Null
    BY <1>3 DEF MadePointer
  <2>2. Stops(T, PointerTo(Void), 0) = {}
    BY <2>1, PointerKinds DEF cup_type_get
  <2>3. \A i \in 1 .. Len(T) : ~ (T[i].kind = "pointer" /\ T[i].size = 8)
    BY <1>1, <2>2 DEF Stops, PointerTo, Type
  <2>4. ASSUME NEW U, Table(U), Extends(T, U), NEW p \in Pointers, Inside(U, p),
               \A i \in 1 .. Len(U) : ~ (U[i].kind = "pointer" /\ U[i].size = 8),
               out = Found(Append(U, PointerTo(p)), EntryAt(Len(U) + 1))
        PROVE  Parsed(T, out)
    <3> DEFINE e == PointerTo(p)
    <3>1. e \in AllTypes /\ e.elems = <<p>> /\ e.kind = "pointer" /\ e.size = 8
      BY DEF AllTypes, PointerTo, Type
    <3> HIDE DEF e
    <3>2. \A j \in DOMAIN e.elems : Inside(U, e.elems[j])
      BY <2>4, <3>1
    <3>3. \A i \in 1 .. Len(U) : U[i] # e
      BY <2>4, <3>1
    <3>4. Table(Append(U, e)) /\ Extends(U, Append(U, e))
      BY <2>4, <3>1, <3>2, <3>3, AppendKeeps
    <3>5. Extends(T, Append(U, e))
      BY <2>4, <3>4, ExtendsTrans
    <3>6. Len(Append(U, e)) = Len(U) + 1 /\ Len(U) \in Nat
      BY <2>4, <3>1 DEF Table
    <3>7. EntryAt(Len(U) + 1) \in Pointers /\ Inside(Append(U, e), EntryAt(Len(U) + 1))
      BY <3>6, PointerKinds DEF Inside
    <3>8. out.types = Append(U, e) /\ out.ans = EntryAt(Len(U) + 1)
      BY <2>4 DEF Found, e
    <3> QED
      BY <3>4, <3>5, <3>7, <3>8 DEF Parsed
  <2>5. CASE \E p \in {Void, Pointer("uint32")} : out = Found(Append(T, PointerTo(p)), end)
    <3>1. PICK p \in {Void, Pointer("uint32")} : out = Found(Append(T, PointerTo(p)), end)
      BY <2>5
    <3>2. p \in Pointers /\ ~ IsEntry(p)
      BY <3>1, TypeTableAssumption, PointerKinds
    <3> QED
      BY <2>3, <2>4, <3>1, <3>2, ExtendsSelf DEF Inside
  <2>6. CASE out = Found(Append(meta, PointerTo(end)), EntryAt(Len(T) + 2))
    <3> DEFINE e == MetaType("stack")
    <3>1. e \in AllTypes /\ e.elems = <<Pointer("stack")>> /\ e.kind = "meta"
      <4>1. Pointer("stack") \in Pointers
        BY TypeTableAssumption, PointerKinds
      <4> QED
        BY <4>1 DEF AllTypes, MetaType, Type
    <3>2. \A j \in DOMAIN e.elems : Inside(T, e.elems[j])
      BY <3>1, TypeTableAssumption, PointerKinds DEF Inside
    <3>3. ~ Settled(T, e)
      BY <3>1 DEF Settled
    <3> HIDE DEF e
    <3>4. Table(Append(T, e)) /\ Extends(T, Append(T, e))
      BY <3>1, <3>2, <3>3, AppendKeeps
    <3>5. /\ Len(Append(T, e)) = Len(T) + 1 /\ Append(T, e)[Len(T) + 1] = e
          /\ \A i \in 1 .. Len(T) : Append(T, e)[i] = T[i]
      BY <1>1, <3>1
    <3>6. \A i \in 1 .. Len(Append(T, e)) :
             ~ (Append(T, e)[i].kind = "pointer" /\ Append(T, e)[i].size = 8)
      BY <1>1, <2>3, <3>1, <3>5
    <3>7. end \in Pointers /\ Inside(Append(T, e), end)
      BY <1>1, <3>5, PointerKinds DEF Inside
    <3>8. out = Found(Append(Append(T, e), PointerTo(end)), EntryAt(Len(Append(T, e)) + 1))
      <4>1. Len(Append(T, e)) + 1 = Len(T) + 2
        BY <1>1, <3>5
      <4> QED
        BY <2>6, <4>1 DEF e
    <3> QED
      BY <2>4, <3>4, <3>6, <3>7, <3>8
  <2> QED
    BY <1>3, <2>1, <2>5, <2>6 DEF MadePointer
<1> QED
  BY <1>2, <1>3

(* One type of a signature.                                                 *)
LEMMA OneTypeParsed ==
    ASSUME NEW T, Table(T), NEW code, NEW out \in parse_one_type(T, code)
    PROVE  Parsed(T, out)
<1>1. CASE code \in Simple
  <2>1. out = Found(T, Pointer(code))
    BY <1>1 DEF parse_one_type
  <2>2. Pointer(code) \in Pointers /\ ~ IsEntry(Pointer(code))
    BY <1>1, PointerKinds
  <2> QED
    BY <2>1, <2>2, ExtendsSelf DEF Parsed, Found, Inside
<1>2. CASE code \notin Simple /\ code = "pointer"
  <2>1. out \in MadePointer(T)
    BY <1>2 DEF parse_one_type
  <2> QED
    BY <2>1, PointerParsed
<1>3. CASE code \notin Simple /\ code # "pointer"
  <2>1. out = Found(T, Null)
    BY <1>3 DEF parse_one_type
  <2> QED
    BY <2>1, PointerKinds, ExtendsSelf DEF Parsed, Found, Inside
<1> QED
  BY <1>1, <1>2, <1>3

(* What was inside the table stays inside.                                  *)
LEMMA InsideStays ==
    ASSUME NEW T, NEW U, Table(T), Table(U), Extends(T, U), NEW p, Inside(T, p)
    PROVE  Inside(U, p)
<1>1. Len(T) \in Nat /\ Len(U) \in Nat
  BY DEF Table
<1> QED
  BY <1>1 DEF Inside, Extends

(* One argument after the others.                                           *)
LEMMA ArgumentParsed ==
    ASSUME NEW T, Table(T), NEW outs, \A out \in outs : ParsedList(T, out),
           NEW code, NEW next \in NextArgument(outs, code)
    PROVE  ParsedList(T, next)
<1>1. PICK out \in outs :
         next \in IF out.dead THEN {out}
                  ELSE {IF o.dead \/ o.ans = Null THEN Ended(o.types)
                        ELSE Found(o.types, Append(out.ans, o.ans)) :
                        o \in parse_one_type(out.types, code)}
  BY DEF NextArgument
<1>2. ParsedList(T, out)
  BY <1>1
<1>3. CASE out.dead
  BY <1>1, <1>2, <1>3
<1>4. CASE ~ out.dead
  <2>1. PICK o \in parse_one_type(out.types, code) :
           next = IF o.dead \/ o.ans = Null THEN Ended(o.types)
                  ELSE Found(o.types, Append(out.ans, o.ans))
    BY <1>1, <1>4
  <2>2. Parsed(out.types, o)
    BY <1>2, OneTypeParsed DEF ParsedList
  <2>3. Table(o.types) /\ Extends(T, o.types)
    BY <1>2, <2>2, ExtendsTrans DEF Parsed, ParsedList
  <2>4. CASE o.dead \/ o.ans = Null
    BY <2>1, <2>3, <2>4 DEF ParsedList, Ended
  <2>5. CASE ~ o.dead /\ o.ans # Null
    <3>1. out.ans \in Seq(Pointers) /\ o.ans \in Pointers /\ Inside(o.types, o.ans)
      BY <1>2, <1>4, <2>2, <2>5 DEF Parsed, ParsedList
    <3>2. \A j \in 1 .. Len(out.ans) : Inside(o.types, out.ans[j])
      <4> SUFFICES ASSUME NEW j \in 1 .. Len(out.ans) PROVE Inside(o.types, out.ans[j])
        OBVIOUS
      <4>1. Inside(out.types, out.ans[j])
        BY <1>2, <1>4, <3>1 DEF ParsedList
      <4> QED
        BY <1>2, <2>2, <4>1, InsideStays DEF Parsed, ParsedList
    <3> DEFINE list == Append(out.ans, o.ans)
    <3>3. /\ list \in Seq(Pointers) /\ DOMAIN list = 1 .. Len(out.ans) + 1 /\ Len(out.ans) \in Nat
          /\ list[Len(out.ans) + 1] = o.ans
          /\ \A j \in 1 .. Len(out.ans) : list[j] = out.ans[j]
      BY <3>1
    <3> HIDE DEF list
    <3>4. \A j \in DOMAIN list : Inside(o.types, list[j])
      <4> SUFFICES ASSUME NEW j \in 1 .. Len(out.ans) + 1 PROVE Inside(o.types, list[j])
        BY <3>3
      <4>1. CASE j = Len(out.ans) + 1
        BY <3>1, <3>3, <4>1
      <4>2. CASE j \in 1 .. Len(out.ans)
        BY <3>2, <3>3, <4>2
      <4> QED
        BY <3>3, <4>1, <4>2
    <3>5. next.types = o.types /\ next.ans = list
      BY <2>1, <2>5 DEF Found, list
    <3> QED
      BY <2>3, <3>3, <3>4, <3>5 DEF ParsedList
  <2> QED
    BY <2>4, <2>5
<1> QED
  BY <1>3, <1>4

(* The arguments of a signature, one after the other: the lists that there  *)
(* are after n of them are a function of n, which exists.                   *)
Recursion(start, args, k, g) ==
    g = [n \in 0 .. k |-> IF n = 0 THEN start ELSE NextArgument(g[n - 1], args[n])]

LEMMA RecursionExists ==
    ASSUME NEW start, NEW args, NEW k \in Nat
    PROVE  \E g : Recursion(start, args, k, g)
<1> SUFFICES ASSUME \A g : ~ Recursion(start, args, k, g) PROVE FALSE
  OBVIOUS
<1> DEFINE Bad == {n \in Nat : \A g : ~ Recursion(start, args, n, g)}
<1>1. PICK m \in Bad : \A n \in Bad : m <= n
  <2>1. Bad \in SUBSET Nat /\ Bad # {}
    OBVIOUS
  <2> QED
    BY <2>1, LeastNat
<1>2. CASE m = 0
  <2> DEFINE g == [n \in 0 .. 0 |-> start]
  <2>1. g = [n \in 0 .. 0 |-> IF n = 0 THEN start ELSE NextArgument(g[n - 1], args[n])]
    <3>1. \A n \in 0 .. 0 : n = 0
      OBVIOUS
    <3> QED
      BY <3>1
  <2> QED
    BY <1>1, <1>2, <2>1 DEF Recursion
<1>3. CASE m # 0
  <2>1. m - 1 \in Nat /\ m \in Nat /\ m - 1 \notin Bad
    BY <1>1, <1>3
  <2>2. PICK f : Recursion(start, args, m - 1, f)
    BY <2>1
  <2> DEFINE g == [n \in 0 .. m |-> IF n = m THEN NextArgument(f[m - 1], args[m]) ELSE f[n]]
             step(n, h) == IF n = 0 THEN start ELSE NextArgument(h[n - 1], args[n])
  <2>3. f = [n \in 0 .. m - 1 |-> step(n, f)]
    BY <2>2 DEF Recursion
  <2>4. ASSUME NEW n \in 0 .. m PROVE g[n] = step(n, g)
    <3>1. CASE n = m
      <4>1. g[n] = NextArgument(f[m - 1], args[m]) /\ g[m - 1] = f[m - 1]
        BY <2>1, <3>1
      <4> QED
        BY <1>3, <3>1, <4>1
    <3>2. CASE n # m /\ n = 0
      <4>1. g[n] = f[n] /\ n \in 0 .. m - 1
        BY <2>1, <3>2
      <4> QED
        BY <2>3, <3>2, <4>1
    <3>3. CASE n # m /\ n # 0
      <4>1. g[n] = f[n] /\ n \in 0 .. m - 1 /\ n - 1 \in 0 .. m /\ n - 1 # m
        BY <2>1, <3>3
      <4>2. g[n - 1] = f[n - 1]
        BY <4>1
      <4>3. f[n] = NextArgument(f[n - 1], args[n])
        BY <2>3, <3>3, <4>1
      <4> QED
        BY <3>3, <4>1, <4>2, <4>3
    <3> QED
      BY <3>1, <3>2, <3>3
  <2>5. g = [n \in 0 .. m |-> step(n, g)]
    <3> DEFINE h == [n \in 0 .. m |-> step(n, g)]
    <3>1. DOMAIN g = 0 .. m /\ DOMAIN h = 0 .. m
      OBVIOUS
    <3>2. \A n \in 0 .. m : g[n] = h[n]
      BY <2>4
    <3> HIDE DEF g, step
    <3>3. h = [n \in 0 .. m |-> h[n]]
      OBVIOUS
    <3>4. g = [n \in 0 .. m |-> g[n]]
      BY DEF g
    <3> HIDE DEF h
    <3>5. g = h
      BY <3>2, <3>3, <3>4
    <3> QED
      BY <3>5 DEF h
  <2>6. Recursion(start, args, m, g)
    <3> HIDE DEF g
    <3> QED
      BY <2>5 DEF Recursion
  <2> QED
    BY <1>1, <2>6
<1> QED
  BY <1>2, <1>3

LEMMA ArgumentsParsed ==
    ASSUME NEW T, Table(T), NEW start, \A out \in start : ParsedList(T, out),
           NEW args \in Seq(Codes), NEW last \in Arguments(start, args)
    PROVE  ParsedList(T, last)
<1> DEFINE k == Len(args)
           outs == CHOOSE g : Recursion(start, args, k, g)
<1>1. k \in Nat
  OBVIOUS
<1>2. Arguments(start, args) = outs[k]
  BY DEF Arguments, Recursion
<1>3. outs = [n \in 0 .. k |-> IF n = 0 THEN start ELSE NextArgument(outs[n - 1], args[n])]
  <2> HIDE DEF k
  <2>1. Recursion(start, args, k, outs)
    <3>1. \E g : Recursion(start, args, k, g)
      BY <1>1, RecursionExists
    <3> QED
      BY <3>1
  <2> HIDE DEF outs
  <2> QED
    BY <2>1 DEF Recursion
<1> HIDE DEF outs, k
<1> SUFFICES ASSUME ~ ParsedList(T, last) PROVE FALSE
  OBVIOUS
<1> DEFINE Bad == {n \in 0 .. k : \E out \in outs[n] : ~ ParsedList(T, out)}
<1>4. PICK m \in Bad : \A n \in Bad : m <= n
  <2>1. Bad \in SUBSET Nat /\ Bad # {}
    BY <1>1, <1>2
  <2> QED
    BY <2>1, LeastNat
<1>5. PICK out \in outs[m] : ~ ParsedList(T, out)
  BY <1>4
<1>6. CASE m = 0
  BY <1>1, <1>3, <1>5, <1>6
<1>7. CASE m # 0
  <2>1. m \in 0 .. k /\ m - 1 \in 0 .. k /\ m - 1 \notin Bad
    BY <1>1, <1>4, <1>7
  <2>2. outs[m] = NextArgument(outs[m - 1], args[m])
    BY <1>3, <1>7, <2>1
  <2>3. \A o \in outs[m - 1] : ParsedList(T, o)
    BY <2>1
  <2>4. ParsedList(T, out)
    BY <1>5, <2>2, <2>3, ArgumentParsed
  <2> QED
    BY <1>5, <2>4
<1> QED
  BY <1>6, <1>7

(* All ends of cup_type_parse().                                            *)
LEMMA SignatureParsed ==
    ASSUME NEW T, Table(T), NEW sig, sig.args \in Seq(Codes), NEW out \in cup_type_parse(T, sig)
    PROVE  Table(out.types) /\ Extends(T, out.types)
<1>1. PICK ret \in parse_one_type(T, sig.ret) :
         out \in IF ret.dead \/ ~ sig.call THEN {ret}
                 ELSE UNION {IF o.dead THEN {o}
                             ELSE cup_type(o.types, FunctionType(Append(o.ans, Void),
                                                                 Len(sig.args) + 1)) :
                             o \in Arguments({Found(ret.types, <<ret.ans>>)}, sig.args)}
  BY DEF cup_type_parse
<1>2. Parsed(T, ret)
  BY OneTypeParsed
<1>3. CASE ret.dead \/ ~ sig.call
  BY <1>1, <1>2, <1>3 DEF Parsed
<1>4. CASE ~ (ret.dead \/ ~ sig.call)
  <2> DEFINE start == {Found(ret.types, <<ret.ans>>)}
  <2>1. PICK o \in Arguments(start, sig.args) :
           out \in IF o.dead THEN {o}
                   ELSE cup_type(o.types, FunctionType(Append(o.ans, Void), Len(sig.args) + 1))
    BY <1>1, <1>4
  <2>2. \A s \in start : ParsedList(T, s)
    <3>1. <<ret.ans>> \in Seq(Pointers) /\ DOMAIN <<ret.ans>> = 1 .. 1 /\ <<ret.ans>>[1] = ret.ans
      BY <1>2, <1>4 DEF Parsed
    <3>2. \A j \in DOMAIN <<ret.ans>> : Inside(ret.types, <<ret.ans>>[j])
      BY <1>2, <1>4, <3>1 DEF Parsed
    <3> DEFINE s == Found(ret.types, <<ret.ans>>)
    <3>3. s.types = ret.types /\ s.ans = <<ret.ans>>
      BY DEF Found
    <3>4. ParsedList(T, s)
      BY <1>2, <3>1, <3>2, <3>3, Zenon DEF Parsed, ParsedList
    <3> QED
      BY <3>4
  <2>3. ParsedList(T, o)
    BY <2>1, <2>2, ArgumentsParsed
  <2>4. CASE o.dead
    BY <2>1, <2>3, <2>4 DEF ParsedList
  <2>5. CASE ~ o.dead
    <3> DEFINE t == FunctionType(Append(o.ans, Void), Len(sig.args) + 1)
    <3>1. o.ans \in Seq(Pointers) /\ Len(o.ans) \in Nat
      BY <2>3, <2>5 DEF ParsedList
    <3>2. /\ Append(o.ans, Void) \in Seq(Pointers)
          /\ DOMAIN Append(o.ans, Void) = 1 .. Len(o.ans) + 1
          /\ Append(o.ans, Void)[Len(o.ans) + 1] = Void
          /\ \A j \in 1 .. Len(o.ans) : Append(o.ans, Void)[j] = o.ans[j]
      BY <3>1, PointerKinds
    <3>3. \A j \in 1 .. Len(o.ans) + 1 : Inside(o.types, Append(o.ans, Void)[j])
      <4> SUFFICES ASSUME NEW j \in 1 .. Len(o.ans) + 1
                   PROVE  Inside(o.types, Append(o.ans, Void)[j])
        OBVIOUS
      <4>1. CASE j = Len(o.ans) + 1
        BY <3>2, <4>1, PointerKinds DEF Inside
      <4>2. CASE j \in 1 .. Len(o.ans)
        <5>1. Inside(o.types, o.ans[j])
          BY <2>3, <2>5, <3>1, <4>2 DEF ParsedList
        <5> QED
          BY <3>2, <4>2, <5>1
      <4> QED
        BY <3>1, <4>1, <4>2
    <3>4. t \in AllTypes /\ t.elems = Append(o.ans, Void)
      BY <3>2 DEF AllTypes, FunctionType, Type
    <3>5. out \in cup_type(o.types, t)
      BY <2>1, <2>5
    <3> HIDE DEF t
    <3>6. \A j \in DOMAIN t.elems : Inside(o.types, t.elems[j])
      BY <3>2, <3>3, <3>4
    <3>7. Answer(o.types, t, out)
      BY <2>3, <3>4, <3>5, <3>6, TypeAnswers DEF ParsedList
    <3> QED
      BY <2>3, <3>7, ExtendsTrans DEF Answer, ParsedList
  <2> QED
    BY <2>4, <2>5
<1> QED
  BY <1>3, <1>4
=============================================================================
