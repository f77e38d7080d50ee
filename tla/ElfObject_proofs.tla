-------------------------- MODULE ElfObject_proofs --------------------------
(* Proofs about ElfObject: whatever a caller does to an object, in the      *)
(* files that are written nothing overlaps, what a program loads is in its  *)
(* segments, relocations are for the symbols that they were added for, and  *)
(* a section of a program that keeps its bytes keeps its place.             *)
EXTENDS ElfObject, FiniteSetTheorems, SequenceTheorems, WellFoundedInduction, TLAPS

-----------------------------------------------------------------------------
(* A set of numbers that is not empty has a least one.                      *)
LEMMA LeastNat ==
    ASSUME NEW S \in SUBSET Nat, S # {}
    PROVE  \E m \in S : \A t \in S : m <= t
<1> DEFINE R == OpToRel(<, Nat)
<1>1. IsWellFoundedOn(R, Nat)
  BY NatLessThanWellFounded
<1>2. \A x, y \in Nat : <<x, y>> \in R <=> x < y
  BY DEF OpToRel
<1> HIDE DEF R
<1>3. PICK m \in S : \A t \in S : ~ (<<t, m>> \in R)
  BY <1>1, WFMin
<1>4. \A t \in S : ~ (t < m)
  BY <1>2, <1>3
<1> QED
  BY <1>4

(* A number is its quotient and its remainder.                              *)
LEMMA ModDef ==
    ASSUME NEW Z \in Nat \ {0}, NEW a \in Nat
    PROVE  (a % Z) \in 0 .. Z - 1 /\ (a \div Z) \in Nat /\ a = Z * (a \div Z) + (a % Z)
OBVIOUS

(* A smaller multiple leaves room for a whole remainder.                    *)
LEMMA Smaller ==
    ASSUME NEW Z \in Nat \ {0}, NEW p \in Nat, NEW q \in Nat, p < q
    PROVE  Z * p + Z <= Z * q
<1>1. PICK d \in Nat : q = p + 1 + d
  <2>1. q - p - 1 \in Nat /\ q = p + 1 + (q - p - 1)
    OBVIOUS
  <2> QED
    BY <2>1
<1>2. Z * q = Z * p + Z + Z * d
  BY <1>1
<1>3. Z * d \in Nat /\ Z * p \in Nat
  OBVIOUS
<1> QED
  BY <1>2, <1>3

(* A number has one remainder.                                              *)
LEMMA ModUnique ==
    ASSUME NEW Z \in Nat \ {0}, NEW p \in Nat, NEW q \in Nat, NEW r \in 0 .. Z - 1, NEW s \in 0 .. Z - 1,
           Z * p + r = Z * q + s
    PROVE  r = s
<1>1. Z * p \in Nat /\ Z * q \in Nat /\ r < Z /\ s < Z
  OBVIOUS
<1>2. ~ (p < q)
  BY <1>1, Smaller
<1>3. ~ (q < p)
  BY <1>1, Smaller
<1>4. p = q
  BY <1>2, <1>3
<1> QED
  BY <1>1, <1>4


(* A place that is aligned up is a multiple of the alignment, not before    *)
(* the place.                                                               *)
LEMMA AlignedUp ==
    ASSUME NEW v \in Nat, NEW a \in Nat
    PROVE  /\ AlignUp(v, a) \in Nat /\ AlignUp(v, a) >= v
           /\ a # 0 => (AlignUp(v, a) % a) = 0
<1>1. CASE a <= 1
  <2>1. AlignUp(v, a) = v
    BY <1>1 DEF AlignUp
  <2>2. a # 0 => (v % a) = 0
    BY <1>1
  <2> QED
    BY <2>1, <2>2
<1>2. CASE a > 1
  <2> DEFINE x == v + (a - 1)
  <2>1. AlignUp(v, a) = (x \div a) * a
    BY <1>2 DEF AlignUp
  <2>2. x \in Nat /\ x >= v + (a - 1) /\ a \in Nat \ {0}
    BY <1>2
  <2> HIDE DEF x
  <2>3. PICK q \in Nat, r \in 0 .. a - 1 : q = (x \div a) /\ x = a * q + r
    BY <2>2, ModDef
  <2>4. PICK y \in Nat : y = a * q
    <3>1. a * q \in Nat
      OBVIOUS
    <3> QED
      BY <3>1
  <2>5. AlignUp(v, a) = y
    BY <2>1, <2>3, <2>4
  <2>6. y >= v
    BY <2>2, <2>3, <2>4
  <2>7. (y % a) = 0
    <3>1. PICK p \in Nat, s \in 0 .. a - 1 : s = (y % a) /\ y = a * p + s
      BY <2>2, ModDef
    <3>2. a * p + s = a * q + 0 /\ 0 \in 0 .. a - 1
      BY <2>2, <2>4, <3>1
    <3>3. s = 0
      BY <2>2, <3>2, ModUnique
    <3> QED
      BY <3>1, <3>3
  <2> QED
    BY <2>5, <2>6, <2>7
<1> QED
  BY <1>1, <1>2

(* A recursion over V: g begins with x and follows step.                    *)
Follows(V, g, n, x, step) ==
    g[0] = x /\ \A k \in 1 .. n : g[k - 1] \in V => g[k] = step[k][g[k - 1]]

(* A recursion over 1 .. n has a solution, by the least place that it could *)
(* not reach.                                                               *)
LEMMA CountsUp ==
    ASSUME NEW V, NEW n \in Nat, NEW x \in V, NEW step \in [1 .. n -> [V -> V]]
    PROVE  \E g \in [0 .. n -> V] : Follows(V, g, n, x, step)
<1> DEFINE Grows(k) == \E g \in [0 .. k -> V] :
                           g[0] = x /\ \A j \in 1 .. k : g[j] = step[j][g[j - 1]]
           Bad == {k \in 0 .. n : ~ Grows(k)}
<1>1. Grows(0)
  <2> DEFINE g == [k \in 0 .. 0 |-> x]
  <2>1. g \in [0 .. 0 -> V] /\ g[0] = x /\ \A j \in 1 .. 0 : FALSE
    OBVIOUS
  <2> HIDE DEF g
  <2> QED
    BY <2>1
<1>2. ASSUME NEW k \in 1 .. n, Grows(k - 1) PROVE Grows(k)
  <2>1. PICK f \in [0 .. k - 1 -> V] : f[0] = x /\ \A j \in 1 .. k - 1 : f[j] = step[j][f[j - 1]]
    BY <1>2
  <2> DEFINE top == step[k][f[k - 1]]
             g == [j \in 0 .. k |-> IF j = k THEN top ELSE f[j]]
  <2>2. top \in V
    <3>1. f[k - 1] \in V /\ step[k] \in [V -> V]
      OBVIOUS
    <3> QED
      BY <3>1
  <2> HIDE DEF top
  <2>3. /\ g \in [0 .. k -> V] /\ g[k] = top
        /\ \A j \in 0 .. k - 1 : g[j] = f[j]
    <3>1. k \in 0 .. k /\ \A j \in 0 .. k - 1 : j # k /\ j \in 0 .. k
      OBVIOUS
    <3>2. \A j \in 0 .. k : j # k => j \in 0 .. k - 1
      OBVIOUS
    <3>3. \A j \in 0 .. k : (IF j = k THEN top ELSE f[j]) \in V
      BY <2>2, <3>2
    <3> QED
      BY <3>1, <3>3
  <2> HIDE DEF g
  <2>4. g[0] = x
    BY <2>1, <2>3
  <2>5. \A j \in 1 .. k : g[j] = step[j][g[j - 1]]
    <3> SUFFICES ASSUME NEW j \in 1 .. k PROVE g[j] = step[j][g[j - 1]]
      OBVIOUS
    <3>1. j - 1 \in 0 .. k - 1 /\ g[j - 1] = f[j - 1]
      BY <2>3
    <3>2. CASE j = k
      BY <2>3, <3>1, <3>2 DEF top
    <3>3. CASE j # k
      <4>1. j \in 1 .. k - 1 /\ j \in 0 .. k - 1
        BY <3>3
      <4> QED
        BY <2>1, <2>3, <3>1, <4>1
    <3> QED
      BY <3>2, <3>3
  <2> QED
    BY <2>3, <2>4, <2>5
<1> HIDE DEF Grows
<1>3. Bad = {}
  <2> SUFFICES ASSUME Bad # {} PROVE FALSE
    OBVIOUS
  <2>1. PICK m \in Bad : \A k \in Bad : m <= k
    <3>1. Bad \in SUBSET Nat
      OBVIOUS
    <3> QED
      BY <3>1, LeastNat
  <2>2. m \in 1 .. n
    BY <1>1, <2>1
  <2>3. m - 1 \in 0 .. n /\ m - 1 \notin Bad
    BY <2>1, <2>2
  <2> QED
    BY <1>2, <2>1, <2>2, <2>3
<1>4. Grows(n)
  <2>1. n \in 0 .. n
    OBVIOUS
  <2> QED
    BY <1>3, <2>1
<1> QED
  BY <1>4 DEF Grows, Follows

(* Two functions that begin and go on alike                                 *)
Same(f, g, n) == f[0] = g[0] /\ \A k \in 1 .. n : f[k - 1] = g[k - 1] => f[k] = g[k]

(* They are the same up to n.                                               *)
LEMMA SameRecursion ==
    ASSUME NEW n \in Nat, NEW f, NEW g, Same(f, g, n)
    PROVE  \A k \in 0 .. n : f[k] = g[k]
<1> DEFINE Bad == {k \in 0 .. n : f[k] # g[k]}
<1> SUFFICES ASSUME Bad # {} PROVE FALSE
  OBVIOUS
<1>1. PICK m \in Bad : \A k \in Bad : m <= k
  <2>1. Bad \in SUBSET Nat
    OBVIOUS
  <2> QED
    BY <2>1, LeastNat
<1>2. m \in 1 .. n
  BY <1>1 DEF Same
<1>3. m - 1 \in 0 .. n /\ m - 1 \notin Bad
  BY <1>1, <1>2
<1> QED
  BY <1>1, <1>2, <1>3 DEF Same

(* What a recursion over V defines is in V.                                 *)
LEMMA Recursion ==
    ASSUME NEW V, NEW n \in Nat, NEW x \in V, NEW step \in [1 .. n -> [V -> V]],
           NEW f, Follows(V, f, n, x, step)
    PROVE  \A k \in 0 .. n : f[k] \in V
<1>1. PICK g \in [0 .. n -> V] : Follows(V, g, n, x, step)
  BY CountsUp
<1>2. Same(f, g, n)
  <2>1. \A k \in 1 .. n : g[k - 1] \in V
    OBVIOUS
  <2> QED
    BY <1>1, <2>1 DEF Follows, Same
<1>3. \A k \in 0 .. n : f[k] = g[k]
  BY <1>2, SameRecursion
<1> QED
  BY <1>3

-----------------------------------------------------------------------------
(* Parts that are put one behind the other                                  *)
IsParts(parts) == /\ Len(parts) \in Nat
                  /\ \A k \in 1 .. Len(parts) : parts[k].align \in Nat /\ parts[k].size \in Nat
EndIs(start, parts, g) ==
    g = [i \in 0 .. Len(parts) |->
           IF i = 0 THEN start ELSE AlignUp(g[i - 1], parts[i].align) + parts[i].size]
Stacked(start, parts, f) ==
    /\ f \in [0 .. Len(parts) -> Nat] /\ f[0] = start
    /\ \A k \in 1 .. Len(parts) : f[k] = AlignUp(f[k - 1], parts[k].align) + parts[k].size

(* Ends gives a place behind each of them.                                  *)
LEMMA EndsStacked ==
    ASSUME NEW start \in Nat, NEW parts, IsParts(parts)
    PROVE  Stacked(start, parts, Ends(start, parts))
<1> DEFINE n == Len(parts)
           f == Ends(start, parts)
           next(k, x) == AlignUp(x, parts[k].align) + parts[k].size
           step == [k \in 1 .. n |-> [x \in Nat |-> next(k, x)]]
<1>0. f = CHOOSE g : EndIs(start, parts, g)
  BY DEF Ends, EndIs
<1>1. \A g : EndIs(start, parts, g) <=> g = [k \in 0 .. n |-> IF k = 0 THEN start ELSE next(k, g[k - 1])]
  BY DEF EndIs
<1>2. \A k \in 1 .. n : \A x \in Nat : next(k, x) \in Nat
  BY AlignedUp DEF IsParts
<1>3. \A k \in 1 .. n : \A x : next(k, x) = AlignUp(x, parts[k].align) + parts[k].size
  OBVIOUS
<1> HIDE DEF next, f
<1>4. /\ step \in [1 .. n -> [Nat -> Nat]]
      /\ \A k \in 1 .. n : \A x \in Nat : step[k][x] = next(k, x)
  BY <1>2
<1>14. n \in Nat
  BY DEF IsParts
<1>13. n = Len(parts)
  OBVIOUS
<1> HIDE DEF step, n
<1>5. 0 .. n = {0} \cup 1 .. n /\ 0 \notin 1 .. n /\ \A k \in 1 .. n : k - 1 \in 0 .. n
  BY <1>14
<1>6. PICK g \in [0 .. n -> Nat] : Follows(Nat, g, n, start, step)
  BY <1>4, <1>14, CountsUp
<1>7. EndIs(start, parts, g)
  <2>1. \A k \in 1 .. n : g[k] = next(k, g[k - 1])
    BY <1>4, <1>5, <1>6 DEF Follows
  <2>2. \A k \in 0 .. n : g[k] = IF k = 0 THEN start ELSE next(k, g[k - 1])
    BY <1>5, <1>6, <2>1 DEF Follows
  <2>3. g = [k \in 0 .. n |-> g[k]]
    OBVIOUS
  <2>4. g = [k \in 0 .. n |-> IF k = 0 THEN start ELSE next(k, g[k - 1])]
    BY <2>2, <2>3
  <2> QED
    BY <1>1, <2>4
<1>8. f = [k \in 0 .. n |-> IF k = 0 THEN start ELSE next(k, f[k - 1])]
  <2>1. EndIs(start, parts, f)
    BY <1>0, <1>7
  <2> QED
    BY <1>1, <2>1
<1>9. f[0] = start /\ \A k \in 1 .. n : f[k] = next(k, f[k - 1])
  BY <1>5, <1>8
<1>10. \A k \in 0 .. n : f[k] \in Nat
  <2>1. Follows(Nat, f, n, start, step)
    BY <1>4, <1>9 DEF Follows
  <2> QED
    BY <1>4, <1>14, <2>1, Recursion
<1>11. f \in [0 .. n -> Nat]
  <2>1. f = [k \in 0 .. n |-> f[k]]
    BY <1>8
  <2> QED
    BY <1>10, <2>1
<1>12. Stacked(start, parts, f)
  BY <1>3, <1>9, <1>11, <1>13 DEF Stacked
<1> QED
  BY <1>12 DEF f

(* What rises from one to the next rises altogether.                        *)
LEMMA Rising ==
    ASSUME NEW n \in Nat, NEW e \in [0 .. n -> Nat], \A k \in 1 .. n : e[k - 1] <= e[k]
    PROVE  \A j \in 0 .. n : \A i \in 0 .. j : e[i] <= e[j]
<1> DEFINE Bad == {j \in 0 .. n : \E i \in 0 .. j : ~ (e[i] <= e[j])}
<1> SUFFICES ASSUME Bad # {} PROVE FALSE
  BY DEF Bad
<1>1. PICK m \in Bad : \A j \in Bad : m <= j
  <2>1. Bad \in SUBSET Nat
    OBVIOUS
  <2> QED
    BY <2>1, LeastNat
<1>2. PICK i \in 0 .. m : ~ (e[i] <= e[m])
  BY <1>1
<1>3. e[m] \in Nat /\ m \in 0 .. n
  BY <1>1
<1>4. i # m
  BY <1>2, <1>3
<1>5. m \in 1 .. n /\ m - 1 \in 0 .. n /\ i \in 0 .. m - 1 /\ m - 1 \notin Bad
  BY <1>1, <1>3, <1>4
<1>6. e[i] <= e[m - 1] /\ e[m - 1] <= e[m]
  BY <1>5
<1>7. e[i] \in Nat /\ e[m - 1] \in Nat
  BY <1>5
<1> QED
  BY <1>2, <1>3, <1>6, <1>7

(* One of them begins behind those before it, and what is behind more of    *)
(* them is behind.                                                          *)
LEMMA StacksUp ==
    ASSUME NEW start \in Nat, NEW parts, IsParts(parts), NEW e, Stacked(start, parts, e)
    PROVE  \A j \in 0 .. Len(parts) : \A i \in 0 .. j : e[i] <= e[j]
<1> DEFINE n == Len(parts)
<1>1. n \in Nat /\ e \in [0 .. n -> Nat]
  BY DEF IsParts, Stacked
<1>2. \A k \in 1 .. n : e[k - 1] <= e[k]
  <2> SUFFICES ASSUME NEW k \in 1 .. n PROVE e[k - 1] <= e[k]
    OBVIOUS
  <2>1. e[k - 1] \in Nat /\ parts[k].align \in Nat /\ parts[k].size \in Nat
    BY <1>1 DEF IsParts
  <2>2. e[k] = AlignUp(e[k - 1], parts[k].align) + parts[k].size
    BY DEF Stacked
  <2>3. AlignUp(e[k - 1], parts[k].align) \in Nat /\ AlignUp(e[k - 1], parts[k].align) >= e[k - 1]
    BY <2>1, AlignedUp
  <2> QED
    BY <2>1, <2>2, <2>3
<1> HIDE DEF n
<1>3. \A j \in 0 .. n : \A i \in 0 .. j : e[i] <= e[j]
  BY <1>1, <1>2, Rising
<1> QED
  BY <1>3 DEF n

-----------------------------------------------------------------------------
(* The end of what keeps its place                                          *)
Fixed(b) == {i \in DOMAIN b.sections : ClassOf(b, b.sections[i]) = "fixed"}
HasSizes(b) == /\ Len(b.sections) \in Nat /\ DOMAIN b.sections = 1 .. Len(b.sections)
               /\ \A i \in 1 .. Len(b.sections) :
                     b.sections[i].offset \in Nat /\ b.sections[i].size \in Nat
FixedEndIs(b, headers, g) ==
    g = [i \in 0 .. Len(b.sections) |->
           IF i = 0 THEN headers
           ELSE IF ClassOf(b, b.sections[i]) # "fixed" THEN g[i - 1]
           ELSE Larger(b.sections[i].offset + FileSize(b.sections[i]), g[i - 1])]

(* All of it ends there, and what headers says of the headers.              *)
LEMMA FixedEndBehind ==
    ASSUME NEW b, HasSizes(b), NEW headers \in Nat
    PROVE  /\ FixedEndFrom(b, headers) \in Nat /\ FixedEndFrom(b, headers) >= headers
           /\ \A i \in Fixed(b) : b.sections[i].offset + FileSize(b.sections[i])
                                  <= FixedEndFrom(b, headers)
<1> DEFINE n == Len(b.sections)
           f == CHOOSE g : FixedEndIs(b, headers, g)
           end(k) == b.sections[k].offset + FileSize(b.sections[k])
           next(k, x) == IF k \notin Fixed(b) THEN x ELSE Larger(end(k), x)
           step == [k \in 1 .. n |-> [x \in Nat |-> next(k, x)]]
<1>1. FixedEndFrom(b, headers) = f[n]
  BY DEF FixedEndFrom, FixedEndIs
<1>2. n \in Nat /\ DOMAIN b.sections = 1 .. n
  BY DEF HasSizes
<1>3. \A k \in 1 .. n : end(k) \in Nat
  BY SMTT(30) DEF HasSizes, FileSize
<1>4. \A k \in 1 .. n : k \in Fixed(b) <=> ClassOf(b, b.sections[k]) = "fixed"
  BY <1>2 DEF Fixed
<1>5. \A g : FixedEndIs(b, headers, g)
             <=> g = [k \in 0 .. n |-> IF k = 0 THEN headers ELSE next(k, g[k - 1])]
  <2> SUFFICES ASSUME NEW g
               PROVE [i \in 0 .. n |->
                         IF i = 0 THEN headers
                         ELSE IF ClassOf(b, b.sections[i]) # "fixed" THEN g[i - 1]
                         ELSE Larger(end(i), g[i - 1])]
                     = [k \in 0 .. n |-> IF k = 0 THEN headers ELSE next(k, g[k - 1])]
    BY Zenon DEF FixedEndIs
  <2>1. \A k \in 0 .. n : k = 0 \/ k \in 1 .. n
    BY <1>2
  <2> HIDE DEF n, end
  <2> QED
    BY <1>4, <2>1
<1> HIDE DEF end
<1>6. \A k \in 1 .. n : \A x \in Nat : /\ next(k, x) \in Nat /\ x <= next(k, x)
                                       /\ k \in Fixed(b) => end(k) <= next(k, x)
  BY <1>3 DEF Larger
<1> HIDE DEF next, f
<1>7. /\ step \in [1 .. n -> [Nat -> Nat]]
      /\ \A k \in 1 .. n : \A x \in Nat : step[k][x] = next(k, x)
  BY <1>6
<1> HIDE DEF step, n
<1>8. 0 .. n = {0} \cup 1 .. n /\ 0 \notin 1 .. n /\ \A k \in 1 .. n : k - 1 \in 0 .. n
  BY <1>2
<1>9. PICK g \in [0 .. n -> Nat] : Follows(Nat, g, n, headers, step)
  BY <1>2, <1>7, CountsUp
<1>10. FixedEndIs(b, headers, g)
  <2>1. \A k \in 1 .. n : g[k] = next(k, g[k - 1])
    BY <1>7, <1>8, <1>9 DEF Follows
  <2>2. \A k \in 0 .. n : g[k] = IF k = 0 THEN headers ELSE next(k, g[k - 1])
    BY <1>8, <1>9, <2>1 DEF Follows
  <2>3. g = [k \in 0 .. n |-> g[k]]
    OBVIOUS
  <2>4. g = [k \in 0 .. n |-> IF k = 0 THEN headers ELSE next(k, g[k - 1])]
    BY <2>2, <2>3
  <2> QED
    BY <1>5, <2>4
<1>11. f = [k \in 0 .. n |-> IF k = 0 THEN headers ELSE next(k, f[k - 1])]
  <2>1. FixedEndIs(b, headers, f)
    BY <1>10 DEF f
  <2> QED
    BY <1>5, <2>1
<1>12. f[0] = headers /\ \A k \in 1 .. n : f[k] = next(k, f[k - 1])
  BY <1>8, <1>11
<1>13. \A k \in 0 .. n : f[k] \in Nat
  <2>1. Follows(Nat, f, n, headers, step)
    BY <1>7, <1>12 DEF Follows
  <2> QED
    BY <1>2, <1>7, <2>1, Recursion
<1>14. f \in [0 .. n -> Nat]
  <2>1. f = [k \in 0 .. n |-> f[k]]
    BY <1>11
  <2> QED
    BY <1>13, <2>1
<1>15. \A k \in 1 .. n : f[k - 1] <= f[k] /\ (k \in Fixed(b) => end(k) <= f[k])
  BY <1>6, <1>8, <1>12, <1>13
<1>16. \A j \in 0 .. n : \A i \in 0 .. j : f[i] <= f[j]
  BY <1>2, <1>14, <1>15, Rising
<1>17. n \in 0 .. n /\ 0 \in 0 .. n /\ \A k \in 1 .. n : k \in 0 .. n
  BY <1>2
<1>18. f[n] \in Nat /\ f[n] >= headers
  BY <1>12, <1>13, <1>16, <1>17
<1>19. \A i \in Fixed(b) : end(i) <= f[n]
  <2> SUFFICES ASSUME NEW i \in Fixed(b) PROVE end(i) <= f[n]
    OBVIOUS
  <2>1. i \in 1 .. n
    BY <1>2 DEF Fixed
  <2>2. end(i) <= f[i] /\ f[i] <= f[n]
    BY <1>15, <1>16, <1>17, <2>1
  <2>3. end(i) \in Nat /\ f[i] \in Nat /\ f[n] \in Nat
    BY <1>3, <1>13, <1>17, <2>1
  <2> QED
    BY <2>2, <2>3
<1> QED
  BY <1>1, <1>18, <1>19 DEF end

-----------------------------------------------------------------------------
(* Sequences                                                                *)
LEMMA AnySeq ==
    ASSUME NEW V, NEW x \in Seq(V)
    PROVE  IsSeq(x)
<1>1. Len(x) \in Nat /\ x \in [1 .. Len(x) -> V] /\ DOMAIN x = 1 .. Len(x)
  OBVIOUS
<1>2. \A i \in 1 .. Len(x) : x[i] \in {x[k] : k \in DOMAIN x}
  BY <1>1
<1>3. x \in Seq({x[k] : k \in DOMAIN x})
  BY <1>1, <1>2, SeqDef
<1> QED
  BY <1>3 DEF IsSeq

(* A sequence is a function of the places up to its length.                 *)
LEMMA SeqPlaces ==
    ASSUME NEW x, IsSeq(x)
    PROVE  Len(x) \in Nat /\ DOMAIN x = 1 .. Len(x) /\ \E V : x \in Seq(V)
BY DEF IsSeq

(* A function of the places of a sequence is one.                           *)
LEMMA SeqMapped ==
    ASSUME NEW x, NEW n \in Nat, x = [i \in 1 .. n |-> x[i]]
    PROVE  IsSeq(x) /\ Len(x) = n
<1> DEFINE V == {x[i] : i \in 1 .. n}
<1>1. x \in [1 .. n -> V]
  OBVIOUS
<1>2. x \in Seq(V)
  BY <1>1, SeqDef
<1> HIDE DEF V
<1>3. DOMAIN x = 1 .. n /\ DOMAIN x = 1 .. Len(x) /\ Len(x) \in Nat
  BY <1>1, <1>2
<1>4. Len(x) = n
  BY <1>3
<1>5. IsSeq(x)
  BY <1>2, AnySeq
<1> QED
  BY <1>4, <1>5

(* A table that has no elements.                                            *)
LEMMA NoElements ==
    ASSUME NEW x, IsSeq(x)
    PROVE  x = <<>> <=> Len(x) = 0
<1>1. PICK V : x \in Seq(V)
  BY SeqPlaces
<1> QED
  BY <1>1

(* Sequences, put together                                                  *)
FlatIs(parts, g) ==
    g = [i \in 1 .. Len(parts) |-> IF i = 1 THEN parts[i] ELSE g[i - 1] \o parts[i]]

(* Sequences put together, step by step                                     *)
Flattens(parts, f) ==
    /\ f[0] = <<>> /\ FlattenSeq(parts) = f[Len(parts)]
    /\ \A k \in 0 .. Len(parts) : IsSeq(f[k])
    /\ \A k \in 1 .. Len(parts) : f[k] = f[k - 1] \o parts[k]

(* FlattenSeq puts one sequence behind the other.                           *)
LEMMA FlatSteps ==
    ASSUME NEW parts, IsSeq(parts), \A i \in DOMAIN parts : IsSeq(parts[i])
    PROVE  \E f : Flattens(parts, f)
<1> DEFINE n == Len(parts)
           V == UNION {{parts[i][k] : k \in DOMAIN parts[i]} : i \in DOMAIN parts}
           S == Seq(V)
           step == [k \in 1 .. n |-> [x \in S |-> x \o parts[k]]]
<1>1. n \in Nat /\ DOMAIN parts = 1 .. n
  BY SeqPlaces
<1>2. \A i \in 1 .. n : parts[i] \in S
  <2> SUFFICES ASSUME NEW i \in 1 .. n PROVE parts[i] \in S
    OBVIOUS
  <2>1. {parts[i][k] : k \in DOMAIN parts[i]} \subseteq V
    BY <1>1
  <2>2. parts[i] \in Seq({parts[i][k] : k \in DOMAIN parts[i]})
    BY <1>1 DEF IsSeq
  <2> HIDE DEF V
  <2> QED
    BY <2>1, <2>2
<1> HIDE DEF V
<1>3. <<>> \in S /\ \A x \in S : \A k \in 1 .. n : x \o parts[k] \in S
  BY <1>2
<1>4. \A k \in 1 .. n : <<>> \o parts[k] = parts[k]
  BY <1>2
<1>10. \A x \in S : IsSeq(x)
  BY AnySeq DEF S
<1> HIDE DEF S
<1>5. /\ step \in [1 .. n -> [S -> S]]
      /\ \A k \in 1 .. n : \A x \in S : step[k][x] = x \o parts[k]
  BY <1>3
<1> HIDE DEF step
<1>6. CASE n = 0
  <2> DEFINE f == [k \in {0} |-> <<>>]
  <2>1. FlattenSeq(parts) = parts /\ parts = <<>>
    BY <1>6, NoElements DEF FlattenSeq
  <2>2. f[0] = <<>> /\ IsSeq(f[0]) /\ 0 .. n = {0} /\ 1 .. n = {}
    BY <1>3, <1>6, <1>10
  <2> HIDE DEF f
  <2>3. Flattens(parts, f)
    BY <1>6, <2>1, <2>2 DEF Flattens
  <2> QED
    BY <2>3
<1>7. CASE n # 0
  <2> DEFINE f == CHOOSE g : FlatIs(parts, g)
  <2>1. FlattenSeq(parts) = f[n]
    BY <1>7 DEF FlattenSeq, FlatIs
  <2>2. PICK g \in [0 .. n -> S] : Follows(S, g, n, <<>>, step)
    BY <1>1, <1>3, <1>5, CountsUp
  <2> HIDE DEF n
  <2>3. 1 \in 1 .. n /\ n \in 1 .. n /\ \A k \in 1 .. n : k # 1 => k - 1 \in 1 .. n
    BY <1>1, <1>7
  <2>4. \A k \in 1 .. n : k \in 0 .. n /\ k - 1 \in 0 .. n
    BY <1>1
  <2>5. \A k \in 1 .. n : g[k] = g[k - 1] \o parts[k]
    BY <1>5, <2>2, <2>4 DEF Follows
  <2> DEFINE h == [k \in 1 .. n |-> g[k]]
  <2>6. \A k \in 1 .. n : h[k] = IF k = 1 THEN parts[k] ELSE h[k - 1] \o parts[k]
    <3> SUFFICES ASSUME NEW k \in 1 .. n PROVE h[k] = IF k = 1 THEN parts[k] ELSE h[k - 1] \o parts[k]
      OBVIOUS
    <3>1. CASE k = 1
      <4>1. g[k - 1] = <<>>
        BY <2>2, <3>1 DEF Follows
      <4> QED
        BY <1>4, <2>5, <3>1, <4>1
    <3>2. CASE k # 1
      BY <2>3, <2>5, <3>2
    <3> QED
      BY <3>1, <3>2
  <2>7. FlatIs(parts, h)
    <3>1. h = [k \in 1 .. n |-> h[k]]
      OBVIOUS
    <3> HIDE DEF h
    <3>2. h = [k \in 1 .. n |-> IF k = 1 THEN parts[k] ELSE h[k - 1] \o parts[k]]
      BY <2>6, <3>1
    <3> QED
      BY <3>2 DEF FlatIs, n
  <2>8. FlatIs(parts, f)
    BY <2>7, Zenon
  <2> HIDE DEF f, h
  <2>9. f = [k \in 1 .. n |-> IF k = 1 THEN parts[k] ELSE f[k - 1] \o parts[k]]
    BY <2>8 DEF FlatIs, n
  <2>10. \A k \in 1 .. n : f[k] = IF k = 1 THEN parts[k] ELSE f[k - 1] \o parts[k]
    <3> HIDE <2>8
    <3> DEFINE t(k) == IF k = 1 THEN parts[k] ELSE f[k - 1] \o parts[k]
    <3>1. f = [k \in 1 .. n |-> t(k)]
      BY <2>9
    <3> HIDE DEF t
    <3>2. \A k \in 1 .. n : f[k] = t(k)
      BY <3>1
    <3> QED
      BY <3>2 DEF t
  <2> DEFINE e == [k \in 0 .. n |-> IF k = 0 THEN <<>> ELSE f[k]]
  <2>11. e[0] = <<>> /\ \A k \in 1 .. n : e[k] = f[k]
    BY <1>1, <2>4
  <2> HIDE DEF e
  <2>12. \A k \in 1 .. n : e[k] = e[k - 1] \o parts[k]
    <3> SUFFICES ASSUME NEW k \in 1 .. n PROVE e[k] = e[k - 1] \o parts[k]
      OBVIOUS
    <3>1. CASE k = 1
      <4>1. k - 1 = 0 /\ e[k - 1] = <<>>
        BY <2>11, <3>1
      <4>2. e[k] = f[k] /\ f[k] = parts[k]
        BY <2>10, <2>11, <3>1
      <4> QED
        BY <1>4, <4>1, <4>2
    <3>2. CASE k # 1
      BY <2>3, <2>10, <2>11, <3>2
    <3> QED
      BY <3>1, <3>2
  <2>13. \A k \in 0 .. n : e[k] \in S
    <3>1. Same(e, g, n)
      BY <2>2, <2>5, <2>11, <2>12, Zenon DEF Same, Follows
    <3> QED
      BY <1>1, <3>1, SameRecursion
  <2>15. FlattenSeq(parts) = e[n] /\ \A k \in 0 .. n : IsSeq(e[k])
    BY <1>10, <2>1, <2>3, <2>11, <2>13
  <2>14. Flattens(parts, e)
    BY <2>11, <2>12, <2>15 DEF Flattens, n
  <2> QED
    BY <2>14
<1> QED
  BY <1>6, <1>7

(* Sequences put together, as by FlattenSeq, are a sequence.                *)
LEMMA Flat ==
    ASSUME NEW parts, IsSeq(parts), \A i \in DOMAIN parts : IsSeq(parts[i])
    PROVE  IsSeq(FlattenSeq(parts))
<1>1. PICK f : Flattens(parts, f)
  BY FlatSteps
<1>2. Len(parts) \in 0 .. Len(parts)
  BY SeqPlaces
<1> QED
  BY <1>1, <1>2 DEF Flattens

(* Some of the elements of a sequence                                       *)
LEMMA KeptSeq ==
    ASSUME NEW x, IsSeq(x), NEW places
    PROVE  IsSeq(Kept(x, places))
<1> DEFINE parts == [i \in DOMAIN x |-> IF i \in places THEN <<x[i]>> ELSE <<>>]
<1>1. IsSeq(parts) /\ DOMAIN parts = DOMAIN x
  <2>1. Len(x) \in Nat /\ DOMAIN x = 1 .. Len(x)
    BY SeqPlaces
  <2>2. parts = [i \in 1 .. Len(x) |-> parts[i]] /\ DOMAIN parts = DOMAIN x
    BY <2>1
  <2> HIDE DEF parts
  <2> QED
    BY <2>1, <2>2, SeqMapped
<1>2. \A i \in DOMAIN x : IsSeq(parts[i])
  <2> SUFFICES ASSUME NEW i \in DOMAIN x PROVE IsSeq(parts[i])
    OBVIOUS
  <2>1. CASE i \in places
    <3>1. parts[i] = <<x[i]>> /\ <<x[i]>> \in Seq({x[i]})
      BY <2>1
    <3> HIDE DEF parts
    <3> QED
      BY <3>1, AnySeq
  <2>2. CASE i \notin places
    <3>1. parts[i] = <<>> /\ <<>> \in Seq({0})
      BY <2>2
    <3> HIDE DEF parts
    <3> QED
      BY <3>1, AnySeq
  <2> QED
    BY <2>1, <2>2
<1> HIDE DEF parts
<1>3. IsSeq(FlattenSeq(parts))
  BY <1>1, <1>2, Flat
<1> QED
  BY <1>3 DEF Kept, parts

(* Two sequences, one behind the other                                      *)
LEMMA BothSeq ==
    ASSUME NEW x, IsSeq(x), NEW y, IsSeq(y)
    PROVE  /\ IsSeq(x \o y) /\ Len(x \o y) = Len(x) + Len(y)
           /\ \A i \in 1 .. Len(x) + Len(y) : (x \o y)[i] = IF i <= Len(x) THEN x[i] ELSE y[i - Len(x)]
<1>1. PICK V : x \in Seq(V)
  BY SeqPlaces
<1>2. PICK W : y \in Seq(W)
  BY SeqPlaces
<1>3. x \in Seq(V \cup W) /\ y \in Seq(V \cup W)
  BY <1>1, <1>2
<1>4. x \o y \in Seq(V \cup W)
  BY <1>3
<1>5. Len(x \o y) = Len(x) + Len(y)
  BY <1>3
<1>6. IsSeq(x \o y)
  BY <1>4, AnySeq
<1>7. \A i \in 1 .. Len(x) + Len(y) : (x \o y)[i] = IF i <= Len(x) THEN x[i] ELSE y[i - Len(x)]
  BY <1>3
<1> QED
  BY <1>5, <1>6, <1>7

-----------------------------------------------------------------------------
(* Objects and their sections.  A section that has no bytes in a file is    *)
(* never given a table, so that one that becomes a table is written anew.   *)
Fields == {"name", "type", "flags", "addr", "offset", "size", "link", "info", "align",
           "entsize", "data", "kind", "loaded", "dirty", "relaDynamic", "relaTarget"}
HasFields(s) == s = [f \in Fields |-> s[f]]
IsSec(s) ==
    /\ HasFields(s)
    /\ s.offset \in Nat /\ s.size \in Nat /\ Aligned(s.align)
    /\ s.loaded \in BOOLEAN /\ s.dirty \in BOOLEAN
    /\ IsSeq(s.data.of)
    /\ s.type = "NOBITS" => s.data.of = <<>> /\ s.kind # "rela"

Record(b) ==
    b = [etype |-> b.etype, base |-> b.base, phoff |-> b.phoff, sections |-> b.sections,
         segments |-> b.segments, symbols |-> b.symbols, relocs |-> b.relocs,
         dynamic |-> b.dynamic]

Shape(b) ==
    /\ Record(b)
    /\ b.phoff \in Nat /\ b.base \in Int
    /\ IsSeq(b.sections) /\ IsSeq(b.segments) /\ IsSeq(b.relocs) /\ IsSeq(b.dynamic)
    /\ b.symbols = [d \in BOOLEAN |-> b.symbols[d]]
    /\ IsSeq(b.symbols[FALSE]) /\ IsSeq(b.symbols[TRUE])
    /\ \A i \in DOMAIN b.sections : IsSec(b.sections[i])

(* Sections that keep their place: aligned, behind the header of the file,  *)
(* apart from one another and from the headers of segments, and in one of   *)
(* the segments, which all have the same distance                           *)
Start(b, i) == b.sections[i].offset
End(b, i) == b.sections[i].offset + FileSize(b.sections[i])
Occupies(b, i) == FileSize(b.sections[i]) > 0
FixedOK(b) ==
    /\ \A i \in Fixed(b) : (Start(b, i) % Larger(b.sections[i].align, 1)) = 0
    /\ \A i \in Fixed(b) : Occupies(b, i) =>
          /\ EHDR <= Start(b, i)
          /\ End(b, i) <= b.phoff \/ b.phoff + PHDR * Len(b.segments) <= Start(b, i)
          /\ \A j \in Fixed(b) : j # i /\ Occupies(b, j) =>
                End(b, i) <= Start(b, j) \/ End(b, j) <= Start(b, i)
    /\ b.segments # <<>> => EHDR <= b.phoff
    /\ b.etype # "REL" => OneDistance(b.segments)
    /\ \A i \in Fixed(b) : Occupies(b, i) => InSegment(b.segments, b.sections[i])

BinOK(b) == Shape(b) /\ FixedOK(b)

(* A section that has not been changed has its place and its size.          *)
Unmoved(s, t) ==
    ~ t.dirty => /\ ~ s.dirty /\ t.offset = s.offset /\ FileSize(t) = FileSize(s)
                 /\ t.addr = s.addr
                 /\ t.align = s.align /\ t.flags = s.flags /\ t.loaded = s.loaded

(* One object comes from another: its sections that are not dirty were      *)
(* there, at other places of the list.                                      *)
ComesFrom(b, c, f) ==
    /\ c.etype = b.etype /\ c.segments = b.segments /\ c.phoff = b.phoff
    /\ \A i \in DOMAIN c.sections : ~ c.sections[i].dirty =>
          f[i] \in DOMAIN b.sections /\ Unmoved(b.sections[f[i]], c.sections[i])
    /\ \A i, j \in DOMAIN c.sections : f[i] = f[j] => i = j

(* What comes from an object that can be laid out can be laid out: its      *)
(* sections that are not dirty are where they were.                         *)
LEMMA StillFixed ==
    ASSUME NEW b, BinOK(b), NEW c, Shape(c), NEW f, ComesFrom(b, c, f)
    PROVE  BinOK(c)
<1>1. \A i \in Fixed(c) : /\ f[i] \in Fixed(b) /\ Start(c, i) = Start(b, f[i])
                          /\ FileSize(c.sections[i]) = FileSize(b.sections[f[i]])
                          /\ c.sections[i].align = b.sections[f[i]].align
  <2> SUFFICES ASSUME NEW i \in Fixed(c)
               PROVE /\ f[i] \in Fixed(b) /\ Start(c, i) = Start(b, f[i])
                     /\ FileSize(c.sections[i]) = FileSize(b.sections[f[i]])
                     /\ c.sections[i].align = b.sections[f[i]].align
    OBVIOUS
  <2> DEFINE s == b.sections[f[i]]
             t == c.sections[i]
  <2>1. i \in DOMAIN c.sections /\ ClassOf(c, t) = "fixed"
    BY DEF Fixed
  <2>2. "ALLOC" \in t.flags /\ c.etype # "REL" /\ t.loaded /\ ~ t.dirty /\ c.segments # <<>>
    BY <2>1 DEF ClassOf
  <2>3. f[i] \in DOMAIN b.sections /\ Unmoved(s, t)
    BY <2>1, <2>2 DEF ComesFrom
  <2>4. "ALLOC" \in s.flags /\ b.etype # "REL" /\ s.loaded /\ ~ s.dirty /\ b.segments # <<>>
    BY <2>2, <2>3 DEF Unmoved, ComesFrom
  <2>5. f[i] \in Fixed(b)
    BY <2>3, <2>4 DEF ClassOf, Fixed
  <2> QED
    BY <2>2, <2>3, <2>5 DEF Unmoved, Start
<1>2. \A i \in Fixed(c) : End(c, i) = End(b, f[i]) /\ (Occupies(c, i) <=> Occupies(b, f[i]))
  BY <1>1 DEF End, Start, Occupies
<1>3. \A i, j \in Fixed(c) : j # i => f[j] # f[i]
  BY DEF ComesFrom, Fixed
<1>4. c.phoff = b.phoff /\ c.segments = b.segments /\ c.etype = b.etype
  BY DEF ComesFrom
<1>5. FixedOK(b)
  BY DEF BinOK
<1>6. \A i \in Fixed(c) : (Start(c, i) % Larger(c.sections[i].align, 1)) = 0
  BY <1>1, <1>5 DEF FixedOK
<1>7. ASSUME NEW i \in Fixed(c), Occupies(c, i)
      PROVE /\ EHDR <= Start(c, i)
            /\ End(c, i) <= c.phoff \/ c.phoff + PHDR * Len(c.segments) <= Start(c, i)
            /\ \A j \in Fixed(c) : j # i /\ Occupies(c, j) =>
                  End(c, i) <= Start(c, j) \/ End(c, j) <= Start(c, i)
  BY <1>1, <1>2, <1>3, <1>4, <1>5, <1>7 DEF FixedOK
<1>8. c.segments # <<>> => EHDR <= c.phoff
  BY <1>4, <1>5 DEF FixedOK
<1>9. ASSUME NEW i \in Fixed(c), Occupies(c, i)
      PROVE  InSegment(c.segments, c.sections[i])
  <2> DEFINE s == b.sections[f[i]]
             t == c.sections[i]
  <2>1. i \in DOMAIN c.sections /\ ~ t.dirty
    BY DEF Fixed, ClassOf
  <2>2. t.offset = s.offset /\ t.addr = s.addr
    BY <2>1 DEF ComesFrom, Unmoved
  <2>3. t.size = s.size
    BY <1>1, <1>9, <2>1 DEF FileSize, Occupies, Fixed
  <2>4. InSegment(b.segments, s)
    BY <1>1, <1>2, <1>5, <1>9 DEF FixedOK
  <2> HIDE DEF s, t
  <2>5. InSegment(c.segments, t)
    BY <1>4, <2>2, <2>3, <2>4 DEF InSegment
  <2> QED
    BY <2>5 DEF t
<1>10. FixedOK(c)
  BY <1>4, <1>5, <1>6, <1>7, <1>8, <1>9 DEF FixedOK
<1> QED
  BY <1>10 DEF BinOK

(* The same sections at the same places of the list, and others             *)
Goes(b, c) ==
    /\ c.etype = b.etype /\ c.segments = b.segments /\ c.phoff = b.phoff
    /\ \A i \in DOMAIN c.sections :
          c.sections[i].dirty \/ (i \in DOMAIN b.sections /\ Unmoved(b.sections[i], c.sections[i]))

(* So can one whose sections stay at their places of the list.              *)
LEMMA GoesOn ==
    ASSUME NEW b, BinOK(b), NEW c, Shape(c), Goes(b, c)
    PROVE  BinOK(c)
<1> DEFINE f == [i \in DOMAIN c.sections |-> i]
<1>1. \A i \in DOMAIN c.sections : f[i] = i
  OBVIOUS
<1> HIDE DEF f
<1>2. ComesFrom(b, c, f)
  BY <1>1 DEF Goes, ComesFrom
<1> QED
  BY <1>2, StillFixed

-----------------------------------------------------------------------------
(* Other sections of an object                                              *)
Put(b, x) == [b EXCEPT !.sections = x]

(* Putting other sections into an object keeps its other fields.            *)
LEMMA PutRecord ==
    ASSUME NEW b, Record(b), NEW x
    PROVE  /\ Record(Put(b, x)) /\ Put(b, x).sections = x
           /\ Put(b, x).etype = b.etype /\ Put(b, x).base = b.base /\ Put(b, x).phoff = b.phoff
           /\ Put(b, x).segments = b.segments /\ Put(b, x).symbols = b.symbols
           /\ Put(b, x).relocs = b.relocs /\ Put(b, x).dynamic = b.dynamic
<1> DEFINE c == [etype |-> b.etype, base |-> b.base, phoff |-> b.phoff, sections |-> x,
                 segments |-> b.segments, symbols |-> b.symbols, relocs |-> b.relocs,
                 dynamic |-> b.dynamic]
<1>1. Put(b, x) = c
  BY DEF Put, Record
<1> QED
  BY <1>1 DEF Record

(* They may be put into it when those that are not dirty are unmoved.       *)
LEMMA PutOK ==
    ASSUME NEW b, BinOK(b), NEW x, IsSeq(x),
           \A i \in DOMAIN x :
              /\ IsSec(x[i])
              /\ x[i].dirty \/ (i \in DOMAIN b.sections /\ Unmoved(b.sections[i], x[i]))
    PROVE  BinOK(Put(b, x))
<1>1. Shape(b) /\ Record(b)
  BY DEF BinOK, Shape
<1> DEFINE c == Put(b, x)
<1>2. /\ Record(c) /\ c.sections = x
      /\ c.etype = b.etype /\ c.base = b.base /\ c.phoff = b.phoff
      /\ c.segments = b.segments /\ c.symbols = b.symbols
      /\ c.relocs = b.relocs /\ c.dynamic = b.dynamic
  BY <1>1, PutRecord
<1> HIDE DEF c
<1>3. Shape(c)
  BY <1>1, <1>2 DEF Shape
<1>4. Goes(b, c)
  BY <1>2 DEF Goes
<1>5. BinOK(c)
  BY <1>3, <1>4, GoesOn
<1> QED
  BY <1>5 DEF c

(* Append() keeps the elements and adds one at the end.                     *)
LEMMA AppendSeq ==
    ASSUME NEW x, IsSeq(x), NEW e
    PROVE  /\ IsSeq(Append(x, e)) /\ Len(Append(x, e)) = Len(x) + 1
           /\ DOMAIN Append(x, e) = 1 .. Len(x) + 1
           /\ \A i \in 1 .. Len(x) + 1 : Append(x, e)[i] = IF i <= Len(x) THEN x[i] ELSE e
<1>1. PICK V : x \in Seq(V)
  BY SeqPlaces
<1>2. x \in Seq(V \cup {e}) /\ e \in V \cup {e}
  BY <1>1
<1> HIDE <1>1
<1>3. /\ Append(x, e) \in Seq(V \cup {e}) /\ Len(Append(x, e)) = Len(x) + 1
      /\ DOMAIN Append(x, e) = 1 .. Len(x) + 1
  BY <1>2
<1>4. \A i \in 1 .. Len(x) + 1 : Append(x, e)[i] = IF i <= Len(x) THEN x[i] ELSE e
  BY <1>2
<1>5. IsSeq(Append(x, e))
  BY <1>3, AnySeq
<1> QED
  BY <1>3, <1>4, <1>5

(* A sequence with one element changed is one of the same length.           *)
LEMMA SeqWith ==
    ASSUME NEW x, IsSeq(x), NEW i, NEW v
    PROVE  /\ IsSeq([x EXCEPT ![i] = v]) /\ DOMAIN [x EXCEPT ![i] = v] = DOMAIN x
           /\ \A k \in DOMAIN x : [x EXCEPT ![i] = v][k] = IF k = i THEN v ELSE x[k]
<1> DEFINE y == [x EXCEPT ![i] = v]
<1>1. Len(x) \in Nat /\ DOMAIN x = 1 .. Len(x)
  BY SeqPlaces
<1>2. x = [k \in 1 .. Len(x) |-> x[k]]
  BY <1>1 DEF IsSeq
<1>3. y = [k \in 1 .. Len(x) |-> y[k]] /\ DOMAIN y = DOMAIN x
      /\ \A k \in DOMAIN x : y[k] = IF k = i THEN v ELSE x[k]
  BY <1>1, <1>2
<1> HIDE DEF y
<1>4. IsSeq(y)
  BY <1>1, <1>3, SeqMapped
<1>5. IsSeq(y) /\ DOMAIN y = DOMAIN x /\ \A k \in DOMAIN x : y[k] = IF k = i THEN v ELSE x[k]
  BY <1>3, <1>4
<1> QED
  BY <1>5 DEF y

(* A section is unmoved by a step that leaves it alone.                     *)
LEMMA ItselfUnmoved ==
    ASSUME NEW s PROVE Unmoved(s, s)
BY DEF Unmoved

(* A dirty section may be added to an object.                               *)
LEMMA AddedOK ==
    ASSUME NEW b, BinOK(b), NEW sec, IsSec(sec), sec.dirty
    PROVE  BinOK(AddedSection(b, sec))
<1> DEFINE x == Append(b.sections, sec)
           n == Len(b.sections)
<1>1. IsSeq(b.sections) /\ \A i \in DOMAIN b.sections : IsSec(b.sections[i])
  BY DEF BinOK, Shape
<1>2. n \in Nat /\ DOMAIN b.sections = 1 .. n
  BY <1>1, SeqPlaces
<1>3. /\ IsSeq(x) /\ DOMAIN x = 1 .. n + 1
      /\ \A i \in 1 .. n + 1 : x[i] = IF i <= n THEN b.sections[i] ELSE sec
  BY <1>1, AppendSeq
<1>4. AddedSection(b, sec) = Put(b, x)
  BY DEF AddedSection, Put
<1> HIDE DEF x, n
<1>5. \A i \in DOMAIN x :
         /\ IsSec(x[i])
         /\ x[i].dirty \/ (i \in DOMAIN b.sections /\ Unmoved(b.sections[i], x[i]))
  BY <1>1, <1>2, <1>3, ItselfUnmoved
<1> QED
  BY <1>3, <1>4, <1>5, PutOK

(* A section may be replaced by one that is unmoved.                        *)
LEMMA ChangedOK ==
    ASSUME NEW b, BinOK(b), NEW i, NEW v,
           i \in DOMAIN b.sections => IsSec(v) /\ Unmoved(b.sections[i], v)
    PROVE  BinOK([b EXCEPT !.sections = [b.sections EXCEPT ![i] = v]])
<1> DEFINE x == [b.sections EXCEPT ![i] = v]
<1>1. IsSeq(b.sections) /\ \A k \in DOMAIN b.sections : IsSec(b.sections[k])
  BY DEF BinOK, Shape
<1>2. /\ IsSeq(x) /\ DOMAIN x = DOMAIN b.sections
      /\ \A k \in DOMAIN b.sections : x[k] = IF k = i THEN v ELSE b.sections[k]
  BY <1>1, SeqWith
<1> HIDE DEF x
<1>3. \A k \in DOMAIN x :
         /\ IsSec(x[k])
         /\ x[k].dirty \/ (k \in DOMAIN b.sections /\ Unmoved(b.sections[k], x[k]))
  BY <1>1, <1>2, ItselfUnmoved
<1>4. BinOK(Put(b, x))
  BY <1>2, <1>3, PutOK
<1> QED
  BY <1>4 DEF Put, x

(* Alignments                                                               *)
LEMMA Alignments ==
    /\ Aligned(1) /\ Aligned(8)
    /\ \A a : Aligned(a) => a \in Nat /\ Aligned(Larger(a, 1)) /\ Larger(a, 1) \in Nat \ {0}
<1>1. 1 = 2 ^ 0 /\ 8 = 2 ^ 3
  BY Z3
<1>2. Aligned(1) /\ Aligned(8)
  <2>1. 0 \in 0 .. 30 /\ 3 \in 0 .. 30 /\ 1 \in Nat /\ 8 \in Nat
    OBVIOUS
  <2> QED
    BY <1>1, <2>1 DEF Aligned
<1>3. ASSUME NEW a, Aligned(a)
      PROVE a \in Nat /\ Aligned(Larger(a, 1)) /\ Larger(a, 1) \in Nat \ {0}
  <2>1. a \in Nat
    BY <1>3 DEF Aligned
  <2>2. CASE a > 1
    BY <1>3, <2>1, <2>2 DEF Larger
  <2>3. CASE ~ (a > 1)
    BY <1>2, <2>1, <2>3 DEF Larger
  <2> QED
    BY <2>1, <2>2, <2>3
<1> QED
  BY <1>2, <1>3

(* Fields stay when one is changed.                                         *)
LEMMA FieldSet ==
    ASSUME NEW s, HasFields(s), NEW f, NEW v
    PROVE  HasFields([s EXCEPT ![f] = v])
<1>1. ASSUME NEW F, s = [g \in F |-> s[g]]
      PROVE  [s EXCEPT ![f] = v] = [g \in F |-> [s EXCEPT ![f] = v][g]]
  BY <1>1
<1> QED
  BY <1>1 DEF HasFields

(* A section that is new, and one that gets what is in it                   *)
LEMMA NewSection ==
    ASSUME NEW name, NEW type, NEW flags, NEW data, NEW size \in Nat, NEW align,
           Aligned(align), IsSeq(data.of)
    PROVE  /\ IsSec(Section(name, type, flags, data, size, align))
           /\ Section(name, type, flags, data, size, align).dirty
<1> DEFINE d == IF type = "NOBITS" \/ size = 0 THEN NoData ELSE data
           s == Section(name, type, flags, data, size, align)
<1>1. IsSeq(d.of) /\ (type = "NOBITS" => d.of = <<>>)
  <2>1. NoData.of = <<>> /\ <<>> \in Seq({0})
    BY DEF NoData
  <2>2. IsSeq(NoData.of)
    BY <2>1, AnySeq
  <2> QED
    BY <2>1, <2>2
<1>2. Aligned(Larger(align, 1))
  BY Alignments
<1>3. s = [name |-> name, type |-> type, flags |-> flags, addr |-> 0, offset |-> 0,
           size |-> size, link |-> 0, info |-> 0, align |-> Larger(align, 1), entsize |-> 0,
           data |-> d, kind |-> "normal", loaded |-> FALSE, dirty |-> TRUE,
           relaDynamic |-> FALSE, relaTarget |-> ""]
  BY DEF Section
<1> HIDE DEF d, s
<1>5. HasFields(s)
  BY <1>3 DEF HasFields, Fields
<1>4. IsSec(s) /\ s.dirty
  BY <1>1, <1>2, <1>3, <1>5 DEF IsSec
<1> QED
  BY <1>4 DEF s

(* s is t but for what a table says of itself.                              *)
Alike(s, t) ==
    /\ t.offset = s.offset /\ t.addr = s.addr /\ t.size = s.size /\ t.align = s.align
    /\ t.flags = s.flags /\ t.loaded = s.loaded /\ t.dirty = s.dirty /\ t.data = s.data

(* lielf_build() gives a table its bytes and its size: the section becomes  *)
(* dirty, or its size is what it was.                                       *)
LEMMA UpdatedOK ==
    ASSUME NEW s, IsSec(s), NEW t, IsSec(t), Alike(s, t), NEW data, IsSeq(data.of), NEW size \in Nat,
           t.type = "NOBITS" => data.of = <<>>,
           t.type # s.type => t.type # "NOBITS" /\ data.of # <<>>
    PROVE  IsSec(Updated(t, data, size)) /\ Unmoved(s, Updated(t, data, size))
<1> DEFINE u == [t EXCEPT !.data = data, !.size = size, !.dirty = TRUE]
<1>1. CASE t.data # NoData /\ t.size = size /\ t.data = data
  <2>1. Updated(t, data, size) = t
    BY <1>1 DEF Updated
  <2>2. t.type = s.type \/ (t.type # "NOBITS" /\ s.type # "NOBITS")
    BY <1>1 DEF Alike, IsSec
  <2>3. FileSize(t) = FileSize(s)
    BY <2>2 DEF FileSize, Alike
  <2>4. Unmoved(s, t)
    BY <2>3 DEF Unmoved, Alike
  <2> QED
    BY <2>1, <2>4
<1>2. CASE ~ (t.data # NoData /\ t.size = size /\ t.data = data)
  <2>1. Updated(t, data, size) = u
    BY <1>2 DEF Updated
  <2>2. HasFields(u)
    <3>1. u = [[[t EXCEPT !.data = data] EXCEPT !.size = size] EXCEPT !.dirty = TRUE]
      OBVIOUS
    <3>2. HasFields([t EXCEPT !.data = data])
      BY FieldSet DEF IsSec
    <3>3. HasFields([[t EXCEPT !.data = data] EXCEPT !.size = size])
      BY <3>2, FieldSet
    <3> QED
      BY <3>1, <3>3, FieldSet
  <2>5. /\ u.data = data /\ u.size = size /\ u.dirty = TRUE /\ u.type = t.type
        /\ u.offset = t.offset /\ u.align = t.align /\ u.loaded = t.loaded /\ u.kind = t.kind
    BY DEF IsSec, HasFields, Fields
  <2> HIDE DEF u
  <2>3. IsSec(u) /\ u.dirty
    BY <2>2, <2>5 DEF IsSec
  <2> QED
    BY <2>1, <2>3 DEF Unmoved
<1> QED
  BY <1>1, <1>2

-----------------------------------------------------------------------------
(* lielf_build() regenerates the tables: no section that keeps its place    *)
(* changes its size.                                                        *)
LEMMA OthersOK ==
    ASSUME NEW b, BinOK(b), NEW c, Record(c), c.sections = b.sections, c.segments = b.segments,
           c.etype = b.etype, c.base = b.base, c.phoff = b.phoff, IsSeq(c.relocs), IsSeq(c.dynamic),
           c.symbols = [d \in BOOLEAN |-> c.symbols[d]],
           IsSeq(c.symbols[FALSE]), IsSeq(c.symbols[TRUE])
    PROVE  BinOK(c)
<1>1. Shape(b)
  BY DEF BinOK
<1>2. Shape(c)
  BY <1>1 DEF Shape
<1>3. Goes(b, c)
  BY ItselfUnmoved DEF Goes
<1> QED
  BY <1>2, <1>3, GoesOn

(* lielf__ensure_section() keeps an object that can be laid out one.        *)
LEMMA EnsuredOK ==
    ASSUME NEW b, BinOK(b), NEW name, NEW type, NEW flags, NEW align, Aligned(align)
    PROVE  BinOK(Ensured(b, name, type, flags, align))
<1>1. IsSeq(NoData.of) /\ 0 \in Nat
  <2>1. NoData.of = <<>> /\ <<>> \in Seq({0})
    BY DEF NoData
  <2> QED
    BY <2>1, AnySeq
<1>2. LET s == Section(name, type, flags, NoData, 0, align) IN IsSec(s) /\ s.dirty
  BY <1>1, NewSection
<1>3. BinOK(AddedSection(b, Section(name, type, flags, NoData, 0, align)))
  BY <1>2, AddedOK
<1> QED
  BY <1>3 DEF Ensured

(* A sequence of as many                                                    *)
LEMMA SeqAlong ==
    ASSUME NEW x, IsSeq(x), NEW y, y = [i \in DOMAIN x |-> y[i]]
    PROVE  IsSeq(y) /\ Len(y) = Len(x) /\ DOMAIN y = DOMAIN x
<1>1. Len(x) \in Nat /\ DOMAIN x = 1 .. Len(x)
  BY SeqPlaces
<1>2. y = [i \in 1 .. Len(x) |-> y[i]]
  BY <1>1
<1>3. IsSeq(y) /\ Len(y) = Len(x)
  BY <1>1, <1>2, SeqMapped
<1> QED
  BY <1>1, <1>3, SeqPlaces

(* The strings of a table are a sequence.                                   *)
LEMMA NamesSeq ==
    ASSUME NEW x, IsSeq(x)
    PROVE  IsSeq(NamesOf(x)) /\ Len(NamesOf(x)) = Len(x)
<1> DEFINE y == NamesOf(x)
<1>1. y = [i \in DOMAIN x |-> y[i]]
  BY DEF NamesOf
<1> HIDE DEF y
<1>2. IsSeq(y) /\ Len(y) = Len(x)
  BY <1>1, SeqAlong
<1> QED
  BY <1>2 DEF y

(* The bytes that they take are a number.                                   *)
LEMMA SpaceNat ==
    ASSUME NEW x, IsSeq(x)
    PROVE  SpaceOf(x) \in Nat
<1> DEFINE parts == [i \in DOMAIN x |-> Part(1, StringLength(x[i]) + 1)]
<1>1. parts = [i \in DOMAIN x |-> parts[i]]
  OBVIOUS
<1>2. \A i \in DOMAIN x : parts[i].align \in Nat /\ parts[i].size \in Nat
  BY DEF Part, StringLength
<1>3. SpaceOf(x) = Ends(0, parts)[Len(x)]
  BY DEF SpaceOf
<1> HIDE DEF parts
<1>4. Len(parts) = Len(x) /\ DOMAIN parts = DOMAIN x /\ Len(x) \in Nat /\ DOMAIN x = 1 .. Len(x)
  BY <1>1, SeqAlong, SeqPlaces
<1>5. IsParts(parts)
  BY <1>2, <1>4 DEF IsParts
<1>6. Stacked(0, parts, Ends(0, parts))
  BY <1>5, EndsStacked
<1>7. Ends(0, parts) \in [0 .. Len(x) -> Nat] /\ Len(x) \in 0 .. Len(x)
  BY <1>4, <1>6 DEF Stacked
<1> QED
  BY <1>3, <1>7

(* lielf__sort_symbols_local_first()                                        *)
LEMMA SortedOK ==
    ASSUME NEW b, BinOK(b), NEW d \in BOOLEAN
    PROVE  BinOK(Sorted(b, d))
<1> DEFINE syms == b.symbols[d]
           kept == LocalsFirst(syms)
           symbols == [b.symbols EXCEPT ![d] = kept]
           relocs == [i \in DOMAIN b.relocs |->
                        IF b.relocs[i].dynamic = d
                        THEN [b.relocs[i] EXCEPT !.sym = Remap(syms, b.relocs[i].sym)]
                        ELSE b.relocs[i]]
           c == [etype |-> b.etype, base |-> b.base, phoff |-> b.phoff,
                 sections |-> b.sections, segments |-> b.segments, symbols |-> symbols,
                 relocs |-> relocs, dynamic |-> b.dynamic]
<1>1. Shape(b) /\ Record(b)
  BY DEF BinOK, Shape
<1>2. Sorted(b, d) = [[b EXCEPT !.symbols = symbols] EXCEPT !.relocs = relocs]
  BY DEF Sorted
<1>3. IsSeq(syms)
  BY <1>1 DEF Shape
<1>4. IsSeq(kept)
  <2>1. IsSeq(Kept(syms, Locals(syms))) /\ IsSeq(Kept(syms, DOMAIN syms \ Locals(syms)))
    BY <1>3, KeptSeq
  <2> QED
    BY <2>1, BothSeq DEF LocalsFirst
<1>5. symbols = [e \in BOOLEAN |-> symbols[e]] /\ IsSeq(symbols[FALSE]) /\ IsSeq(symbols[TRUE])
  <2>1. b.symbols = [e \in BOOLEAN |-> b.symbols[e]] /\ IsSeq(b.symbols[FALSE]) /\ IsSeq(b.symbols[TRUE])
    BY <1>1 DEF Shape
  <2> HIDE DEF kept, syms
  <2>2. symbols = [e \in BOOLEAN |-> IF e = d THEN kept ELSE b.symbols[e]]
    BY <2>1
  <2> HIDE DEF symbols
  <2> QED
    BY <1>4, <2>1, <2>2
<1>6. IsSeq(relocs)
  <2>1. relocs = [i \in DOMAIN b.relocs |-> relocs[i]]
    OBVIOUS
  <2>2. IsSeq(b.relocs)
    BY <1>1 DEF Shape
  <2> HIDE DEF relocs
  <2> QED
    BY <2>1, <2>2, SeqAlong
<1> HIDE DEF relocs, symbols
<1>7. Sorted(b, d) = c
  BY <1>1, <1>2 DEF Record
<1>8. Record(c)
  BY DEF Record
<1>9. IsSeq(b.dynamic)
  BY <1>1 DEF Shape
<1>10. /\ c.sections = b.sections /\ c.segments = b.segments /\ c.etype = b.etype
       /\ c.base = b.base /\ c.phoff = b.phoff /\ c.relocs = relocs /\ c.dynamic = b.dynamic /\ c.symbols = symbols
  OBVIOUS
<1> HIDE DEF c
<1>11. BinOK(c)
  BY <1>5, <1>6, <1>8, <1>9, <1>10, OthersOK
<1> QED
  BY <1>7, <1>11

(* A section that gets a table                                              *)
LEMMA TableOK ==
    ASSUME NEW s, IsSec(s), NEW t, HasFields(t), Alike(s, t), t.type # "NOBITS",
           NEW rows, IsSeq(rows), rows # <<>>, NEW size \in Nat
    PROVE  IsSec(Updated(t, Table(rows), size)) /\ Unmoved(s, Updated(t, Table(rows), size))
<1>1. IsSec(t)
  BY DEF IsSec, Alike
<1>2. Table(rows).of = rows
  BY DEF Table
<1> QED
  BY <1>1, <1>2, UpdatedOK

(* One that gets an empty table and stays what it is                        *)
LEMMA EmptiedOK ==
    ASSUME NEW s, IsSec(s), NEW rows, IsSeq(rows), rows = <<>>, NEW size \in Nat
    PROVE  IsSec(Updated(s, Table(rows), size)) /\ Unmoved(s, Updated(s, Table(rows), size))
<1>1. Alike(s, s)
  BY DEF Alike
<1>2. Table(rows).of = rows
  BY DEF Table
<1> QED
  BY <1>1, <1>2, UpdatedOK

(* lielf__rebuild_symtab()                                                  *)
LEMMA RebuiltSymtabOK ==
    ASSUME NEW unsorted, BinOK(unsorted), NEW d \in BOOLEAN
    PROVE  BinOK(RebuiltSymtab(unsorted, d))
<1> DEFINE b    == Sorted(unsorted, d)
           syms == b.symbols[d]
           raw  == [i \in DOMAIN syms |->
                      [name |-> OffsetOf(NamesOf(syms), i), local |-> syms[i].local,
                       shndx |-> syms[i].shndx, value |-> syms[i].value]]
           type == IF d THEN "DYNSYM" ELSE "SYMTAB"
           info == Cardinality(Locals(syms)) + 1
           e    == Ensured(b, SymtabName(d), type, AllocIf(d), 8)
           i    == SectionIndex(e, SymtabName(d))
           size == SYM * (Len(syms) + 1)
           t    == [e.sections[i] EXCEPT !.type = type, !.entsize = SYM, !.kind = SymtabName(d),
                                         !.info = info]
           set(v) == [e EXCEPT !.sections = [e.sections EXCEPT ![i] = v]]
<1>1. RebuiltSymtab(unsorted, d) =
        IF syms # <<>> THEN set(Updated(t, Table(raw), size))
        ELSE IF SectionIndex(b, SymtabName(d)) = 0 THEN b
        ELSE set(Updated(e.sections[i], Table(raw), size))
  BY DEF RebuiltSymtab, SymtabType
<1>2. raw = [k \in DOMAIN syms |-> raw[k]]
  OBVIOUS
<1>3. type # "NOBITS"
  OBVIOUS
<1> HIDE DEF raw, type, info
<1>4. BinOK(b)
  BY SortedOK
<1> HIDE DEF b
<1>5. IsSeq(syms)
  BY <1>4 DEF BinOK, Shape
<1>6. BinOK(e)
  BY <1>4, EnsuredOK, Alignments
<1>7. IsSeq(raw) /\ Len(raw) = Len(syms) /\ Len(syms) \in Nat
  BY <1>2, <1>5, SeqAlong, SeqPlaces
<1>8. size \in Nat
  BY <1>7 DEF SYM
<1>9. raw = <<>> <=> syms = <<>>
  BY <1>5, <1>7, NoElements
<1>10. i \in DOMAIN e.sections => IsSec(e.sections[i])
  BY <1>6 DEF BinOK, Shape
<1> HIDE DEF e, i, size, syms
<1>11. CASE syms # <<>>
  <2>1. ASSUME i \in DOMAIN e.sections
        PROVE  IsSec(Updated(t, Table(raw), size)) /\ Unmoved(e.sections[i], Updated(t, Table(raw), size))
    <3> DEFINE s == e.sections[i]
    <3>1. IsSec(s)
      BY <1>10, <2>1
    <3>2. t = [[[[s EXCEPT !.type = type] EXCEPT !.entsize = SYM] EXCEPT !.kind = SymtabName(d)]
               EXCEPT !.info = info]
      OBVIOUS
    <3> HIDE DEF s
    <3>3. HasFields([s EXCEPT !.type = type])
      BY <3>1, FieldSet DEF IsSec
    <3>4. HasFields([[s EXCEPT !.type = type] EXCEPT !.entsize = SYM])
      BY <3>3, FieldSet
    <3>5. HasFields([[[s EXCEPT !.type = type] EXCEPT !.entsize = SYM] EXCEPT !.kind = SymtabName(d)])
      BY <3>4, FieldSet
    <3>6. HasFields(t)
      BY <3>2, <3>5, FieldSet
    <3>7. Alike(s, t) /\ t.type = type
      BY <3>1 DEF IsSec, HasFields, Fields, Alike, s
    <3> HIDE DEF t
    <3>8. IsSec(Updated(t, Table(raw), size)) /\ Unmoved(s, Updated(t, Table(raw), size))
      BY <1>3, <1>7, <1>8, <1>9, <1>11, <3>1, <3>6, <3>7, TableOK
    <3> QED
      BY <3>8 DEF s
  <2> HIDE DEF t
  <2>2. BinOK(set(Updated(t, Table(raw), size)))
    BY <1>6, <2>1, ChangedOK
  <2> HIDE DEF set
  <2> QED
    BY <1>1, <1>11, <2>2
<1>12. CASE syms = <<>>
  <2>1. ASSUME i \in DOMAIN e.sections
        PROVE  /\ IsSec(Updated(e.sections[i], Table(raw), size))
               /\ Unmoved(e.sections[i], Updated(e.sections[i], Table(raw), size))
    BY <1>7, <1>8, <1>9, <1>10, <1>12, <2>1, EmptiedOK
  <2>2. BinOK(set(Updated(e.sections[i], Table(raw), size)))
    BY <1>6, <2>1, ChangedOK
  <2> HIDE DEF set
  <2> QED
    BY <1>1, <1>4, <1>12, <2>2
<1> QED
  BY <1>11, <1>12

(* A section that becomes a table of some kind                              *)
LEMMA RetypedOK ==
    ASSUME NEW s, IsSec(s), NEW type, type # "NOBITS", NEW entsize, NEW kind,
           NEW rows, IsSeq(rows), rows # <<>>, NEW size \in Nat
    PROVE  LET u == Updated([s EXCEPT !.type = type, !.entsize = entsize, !.kind = kind],
                            Table(rows), size)
           IN IsSec(u) /\ Unmoved(s, u)
<1> DEFINE t == [s EXCEPT !.type = type, !.entsize = entsize, !.kind = kind]
<1>1. t = [[[s EXCEPT !.type = type] EXCEPT !.entsize = entsize] EXCEPT !.kind = kind]
  OBVIOUS
<1>2. HasFields([s EXCEPT !.type = type])
  BY FieldSet DEF IsSec
<1>3. HasFields([[s EXCEPT !.type = type] EXCEPT !.entsize = entsize])
  BY <1>2, FieldSet
<1>4. HasFields(t)
  BY <1>1, <1>3, FieldSet
<1>5. Alike(s, t) /\ t.type = type
  BY DEF IsSec, HasFields, Fields, Alike
<1> HIDE DEF t
<1>6. IsSec(Updated(t, Table(rows), size)) /\ Unmoved(s, Updated(t, Table(rows), size))
  BY <1>4, <1>5, TableOK
<1> QED
  BY <1>6 DEF t

(* lielf__rebuild_strtab()                                                  *)
LEMMA RebuiltStrtabOK ==
    ASSUME NEW b, BinOK(b), NEW d \in BOOLEAN
    PROVE  BinOK(RebuiltStrtab(b, d))
<1> DEFINE names == NamesOf(b.symbols[d])
           e    == Ensured(b, StrtabName(d), "STRTAB", AllocIf(d), 1)
           i    == SectionIndex(e, StrtabName(d))
           size == 1 + SpaceOf(names)
           t    == [e.sections[i] EXCEPT !.type = "STRTAB", !.entsize = 0, !.kind = StrtabName(d)]
           set(v) == [e EXCEPT !.sections = [e.sections EXCEPT ![i] = v]]
<1>1. RebuiltStrtab(b, d) =
        IF names # <<>> THEN set(Updated(t, Table(names), size))
        ELSE IF SectionIndex(b, StrtabName(d)) = 0 THEN b
        ELSE set(Updated(e.sections[i], Table(names), 1))
  BY DEF RebuiltStrtab
<1>2. IsSeq(b.symbols[d])
  BY DEF BinOK, Shape
<1>3. IsSeq(names)
  BY <1>2, NamesSeq
<1> HIDE DEF names
<1>4. size \in Nat
  BY <1>3, SpaceNat
<1>5. BinOK(e)
  BY EnsuredOK, Alignments
<1>6. i \in DOMAIN e.sections => IsSec(e.sections[i])
  BY <1>5 DEF BinOK, Shape
<1> HIDE DEF e, i, size
<1>7. CASE names # <<>>
  <2>1. i \in DOMAIN e.sections => IsSec(Updated(t, Table(names), size))
                                   /\ Unmoved(e.sections[i], Updated(t, Table(names), size))
    BY <1>3, <1>4, <1>6, <1>7, RetypedOK
  <2> HIDE DEF t
  <2>2. BinOK(set(Updated(t, Table(names), size)))
    BY <1>5, <2>1, ChangedOK
  <2> HIDE DEF set
  <2> QED
    BY <1>1, <1>7, <2>2
<1>8. CASE names = <<>>
  <2>1. i \in DOMAIN e.sections => /\ IsSec(Updated(e.sections[i], Table(names), 1))
                                   /\ Unmoved(e.sections[i], Updated(e.sections[i], Table(names), 1))
    BY <1>3, <1>6, <1>8, EmptiedOK
  <2>2. BinOK(set(Updated(e.sections[i], Table(names), 1)))
    BY <1>5, <2>1, ChangedOK
  <2> HIDE DEF set
  <2> QED
    BY <1>1, <1>8, <2>2
<1> QED
  BY <1>7, <1>8

(* lielf__rebuild_dynamic()                                                 *)
LEMMA RebuiltDynamicOK ==
    ASSUME NEW b, BinOK(b)
    PROVE  BinOK(RebuiltDynamic(b))
<1> DEFINE rows == b.dynamic
           e    == Ensured(b, ".dynamic", "DYNAMIC", {"ALLOC", "WRITE"}, 8)
           i    == SectionIndex(e, ".dynamic")
           size == DYN * (Len(rows) + 1)
           t    == [e.sections[i] EXCEPT !.type = "DYNAMIC", !.entsize = DYN, !.kind = "dynamic"]
           set(v) == [e EXCEPT !.sections = [e.sections EXCEPT ![i] = v]]
<1>1. RebuiltDynamic(b) = IF rows = <<>> THEN b ELSE set(Updated(t, Table(rows), size))
  BY DEF RebuiltDynamic
<1>2. IsSeq(rows)
  BY DEF BinOK, Shape
<1> HIDE DEF rows
<1>3. size \in Nat
  BY <1>2, SeqPlaces DEF DYN
<1>4. BinOK(e)
  BY EnsuredOK, Alignments
<1>5. i \in DOMAIN e.sections => IsSec(e.sections[i])
  BY <1>4 DEF BinOK, Shape
<1> HIDE DEF e, i, size
<1>6. CASE rows # <<>>
  <2>1. i \in DOMAIN e.sections => IsSec(Updated(t, Table(rows), size))
                                   /\ Unmoved(e.sections[i], Updated(t, Table(rows), size))
    BY <1>2, <1>3, <1>5, <1>6, RetypedOK
  <2> HIDE DEF t
  <2>2. BinOK(set(Updated(t, Table(rows), size)))
    BY <1>4, <2>1, ChangedOK
  <2> HIDE DEF set
  <2> QED
    BY <1>1, <1>6, <2>2
<1> QED
  BY <1>1, <1>6

(* lielf__rebuild_shstrtab()                                                *)
LEMMA RebuiltShstrtabOK ==
    ASSUME NEW b, BinOK(b)
    PROVE  BinOK(RebuiltShstrtab(b))
<1> DEFINE e    == Ensured(b, ".shstrtab", "STRTAB", {}, 1)
           names == SectionNames(e)
           i    == SectionIndex(e, ".shstrtab")
           size == 1 + SpaceOf(names)
           t    == [e.sections[i] EXCEPT !.type = "STRTAB", !.entsize = 0, !.kind = "shstrtab"]
<1>1. RebuiltShstrtab(b)
        = [e EXCEPT !.sections = [e.sections EXCEPT ![i] = Updated(t, Table(names), size)]]
  BY DEF RebuiltShstrtab
<1>2. BinOK(e)
  BY EnsuredOK, Alignments
<1> HIDE DEF e
<1>3. IsSeq(names) /\ names # <<>>
  <2>1. IsSeq(NamesOf(e.sections)) /\ IsSeq(<<"">>) /\ Len(<<"">>) = 1
    <3>1. IsSeq(e.sections) /\ <<"">> \in Seq({""})
      BY <1>2 DEF BinOK, Shape
    <3> QED
      BY <3>1, NamesSeq, AnySeq
  <2>3. Len(NamesOf(e.sections)) \in Nat
    BY <2>1, SeqPlaces
  <2>4. names = <<"">> \o NamesOf(e.sections)
    BY DEF SectionNames
  <2> HIDE DEF names
  <2>2. IsSeq(names) /\ Len(names) = 1 + Len(NamesOf(e.sections))
    BY <2>1, <2>4, BothSeq
  <2> QED
    BY <2>2, <2>3, NoElements
<1> HIDE DEF names
<1>4. size \in Nat
  BY <1>3, SpaceNat
<1>5. i \in DOMAIN e.sections => IsSec(e.sections[i])
  BY <1>2 DEF BinOK, Shape
<1> HIDE DEF i, size
<1>6. i \in DOMAIN e.sections => IsSec(Updated(t, Table(names), size))
                                 /\ Unmoved(e.sections[i], Updated(t, Table(names), size))
  BY <1>3, <1>4, <1>5, RetypedOK
<1> HIDE DEF t
<1> DEFINE c == [e EXCEPT !.sections = [e.sections EXCEPT ![i] = Updated(t, Table(names), size)]]
<1>7. BinOK(c)
  BY <1>2, <1>6, ChangedOK
<1> HIDE DEF c
<1> QED
  BY <1>1, <1>7 DEF c

(* lielf__find_or_create_rela()                                             *)
LEMMA RelaForOK ==
    ASSUME NEW r
    PROVE  IsSec(RelaFor(r)) /\ RelaFor(r).dirty
<1> DEFINE s == Section(RelaName(r), "RELA", AllocIf(r.dynamic), NoData, 0, 8)
           t == RelaFor(r)
<1>1. t = [[[s EXCEPT !.kind = "rela"] EXCEPT !.relaDynamic = r.dynamic] EXCEPT !.relaTarget = r.target]
  BY DEF RelaFor
<1>2. IsSeq(NoData.of) /\ Aligned(8) /\ 0 \in Nat
  <2>1. NoData.of = <<>> /\ <<>> \in Seq({0})
    BY DEF NoData
  <2> QED
    BY <2>1, AnySeq, Alignments
<1>3. s.type = "RELA"
  BY DEF Section
<1> HIDE DEF t
<1>4. IsSec(s) /\ s.dirty
  BY <1>2, NewSection
<1> HIDE DEF s
<1>5. HasFields([s EXCEPT !.kind = "rela"])
  BY <1>4, FieldSet DEF IsSec
<1>6. HasFields([[s EXCEPT !.kind = "rela"] EXCEPT !.relaDynamic = r.dynamic])
  BY <1>5, FieldSet
<1>7. HasFields(t)
  BY <1>1, <1>6, FieldSet
<1>8. Alike(s, t) /\ t.type = s.type
  BY <1>1, <1>4 DEF Alike, IsSec, HasFields, Fields
<1>9. IsSec(t) /\ t.dirty
  BY <1>3, <1>4, <1>7, <1>8 DEF IsSec, Alike
<1> QED
  BY <1>9 DEF t

(* The relocation tables that the relocations ask for are added.            *)
LEMMA WithRelasOK ==
    ASSUME NEW b, BinOK(b)
    PROVE  BinOK(WithRelas(b))
<1> DEFINE homeless == {i \in DOMAIN b.relocs :
                          /\ \A k \in DOMAIN b.sections : ~ Relocates(b.sections[k], b.relocs[i])
                          /\ \A k \in 1 .. i - 1 : ~ Relocates(RelaFor(b.relocs[k]), b.relocs[i])}
           first == Kept(b.relocs, homeless)
           new   == [i \in DOMAIN first |-> RelaFor(first[i])]
           x     == b.sections \o new
<1>1. WithRelas(b) = Put(b, x)
  BY DEF WithRelas, Put
<1>2. /\ IsSeq(b.relocs) /\ IsSeq(b.sections)
      /\ \A i \in DOMAIN b.sections : IsSec(b.sections[i])
  BY DEF BinOK, Shape
<1> HIDE DEF homeless
<1>3. IsSeq(first)
  BY <1>2, KeptSeq
<1> HIDE DEF first
<1>4. new = [i \in DOMAIN first |-> new[i]]
  OBVIOUS
<1>5. \A i \in DOMAIN first : IsSec(new[i]) /\ new[i].dirty
  BY RelaForOK
<1> HIDE DEF new
<1>6. IsSeq(new) /\ DOMAIN new = DOMAIN first
  BY <1>3, <1>4, SeqAlong
<1> DEFINE n == Len(b.sections)
           m == Len(new)
<1>7. n \in Nat /\ DOMAIN b.sections = 1 .. n /\ m \in Nat /\ DOMAIN new = 1 .. m
  BY <1>2, <1>6, SeqPlaces
<1>8. /\ IsSeq(x) /\ Len(x) = n + m
      /\ \A i \in 1 .. n + m : x[i] = IF i <= n THEN b.sections[i] ELSE new[i - n]
  BY <1>2, <1>6, BothSeq
<1> HIDE DEF n, m, x
<1>9. DOMAIN x = 1 .. n + m
  BY <1>8, SeqPlaces
<1>10. ASSUME NEW i \in DOMAIN x
       PROVE  /\ IsSec(x[i])
              /\ x[i].dirty \/ (i \in DOMAIN b.sections /\ Unmoved(b.sections[i], x[i]))
  <2>1. CASE i <= n
    <3>1. i \in DOMAIN b.sections /\ x[i] = b.sections[i]
      BY <1>7, <1>8, <1>9, <2>1
    <3> QED
      BY <1>2, <3>1, ItselfUnmoved
  <2>2. CASE ~ (i <= n)
    <3>1. i - n \in DOMAIN new /\ x[i] = new[i - n]
      BY <1>7, <1>8, <1>9, <2>2
    <3> QED
      BY <1>5, <1>6, <3>1
  <2> QED
    BY <2>1, <2>2
<1> QED
  BY <1>1, <1>8, <1>10, PutOK

(* lielf__rebuild_one_rela()                                                *)
LEMMA RebuiltOneRelaOK ==
    ASSUME NEW b, BinOK(b), NEW s, IsSec(s), s.kind = "rela"
    PROVE  IsSec(RebuiltOneRela(b, s)) /\ Unmoved(s, RebuiltOneRela(b, s))
<1> DEFINE mine == Kept(b.relocs, {i \in DOMAIN b.relocs : Relocates(s, b.relocs[i])})
           raw  == [i \in DOMAIN mine |-> [offset |-> mine[i].offset, sym |-> mine[i].sym]]
           t    == [s EXCEPT !.entsize = RELA]
           data == IF mine = <<>> THEN NoData ELSE Table(raw)
           size == RELA * Len(mine)
<1>1. RebuiltOneRela(b, s) = Updated(t, data, size)
  BY DEF RebuiltOneRela
<1>2. raw = [i \in DOMAIN mine |-> raw[i]]
  OBVIOUS
<1> HIDE DEF raw
<1>3. IsSeq(b.relocs)
  BY DEF BinOK, Shape
<1>4. IsSeq(mine)
  BY <1>3, KeptSeq
<1> HIDE DEF mine
<1>5. IsSeq(raw)
  BY <1>2, <1>4, SeqAlong
<1>6. size \in Nat
  BY <1>4, SeqPlaces DEF RELA
<1>7. IsSeq(data.of)
  <2>1. NoData.of = <<>> /\ <<>> \in Seq({0}) /\ Table(raw).of = raw
    BY DEF NoData, Table
  <2>2. IsSeq(NoData.of) /\ IsSeq(Table(raw).of)
    BY <1>5, <2>1, AnySeq
  <2> QED
    BY <2>2
<1> HIDE DEF data, size
<1>8. s.type # "NOBITS"
  BY DEF IsSec
<1>9. HasFields(t)
  BY FieldSet DEF IsSec
<1>10. Alike(s, t) /\ t.type = s.type
  BY DEF Alike, IsSec, HasFields, Fields
<1> HIDE DEF t
<1>11. IsSec(t)
  BY <1>8, <1>9, <1>10 DEF IsSec, Alike
<1> QED
  BY <1>1, <1>6, <1>7, <1>8, <1>10, <1>11, UpdatedOK

(* Every section changed in place                                           *)
LEMMA AllChangedOK ==
    ASSUME NEW b, BinOK(b), NEW x, x = [i \in DOMAIN b.sections |-> x[i]],
           \A i \in DOMAIN b.sections : IsSec(x[i]) /\ Unmoved(b.sections[i], x[i])
    PROVE  BinOK(Put(b, x))
<1>1. IsSeq(b.sections)
  BY DEF BinOK, Shape
<1>2. IsSeq(x) /\ DOMAIN x = DOMAIN b.sections
  BY <1>1, SeqAlong
<1> QED
  BY <1>2, PutOK

(* lielf__rebuild_relas()                                                   *)
LEMMA RebuiltRelasOK ==
    ASSUME NEW b, BinOK(b)
    PROVE  BinOK(RebuiltRelas(b))
<1> DEFINE e == WithRelas(b)
           x == [i \in DOMAIN e.sections |->
                   IF e.sections[i].kind = "rela" THEN RebuiltOneRela(e, e.sections[i])
                   ELSE e.sections[i]]
<1>1. RebuiltRelas(b) = Put(e, x)
  BY DEF RebuiltRelas, Put
<1>2. BinOK(e)
  BY WithRelasOK
<1> HIDE DEF e
<1>3. \A i \in DOMAIN e.sections : IsSec(e.sections[i])
  BY <1>2 DEF BinOK, Shape
<1>4. x = [i \in DOMAIN e.sections |-> x[i]]
  OBVIOUS
<1>5. \A i \in DOMAIN e.sections : IsSec(x[i]) /\ Unmoved(e.sections[i], x[i])
  BY <1>2, <1>3, RebuiltOneRelaOK, ItselfUnmoved
<1> HIDE DEF x
<1> QED
  BY <1>1, <1>2, <1>4, <1>5, AllChangedOK

(* lielf__resolve_links()                                                   *)
LEMMA LinkedOK ==
    ASSUME NEW s, IsSec(s), NEW t, HasFields(t), Alike(s, t), t.type = s.type, t.kind = s.kind
    PROVE  IsSec(t) /\ Unmoved(s, t)
BY DEF IsSec, Alike, Unmoved, FileSize

(* lielf__resolve_links() changes links and infos alone.                    *)
LEMMA ResolvedOK ==
    ASSUME NEW b, BinOK(b)
    PROVE  BinOK(Resolved(b))
<1> DEFINE one(s) ==
             CASE s.kind = ".symtab" -> [s EXCEPT !.link = SectionIndex(b, ".strtab")]
               [] s.kind = ".dynsym" -> [s EXCEPT !.link = SectionIndex(b, ".dynstr")]
               [] s.kind = "rela" ->
                    [s EXCEPT !.link = SectionIndex(b, SymtabName(s.relaDynamic)),
                              !.info = IF s.relaTarget = "" THEN 0
                                       ELSE SectionIndex(b, s.relaTarget)]
               [] OTHER -> s
           x == [i \in DOMAIN b.sections |-> one(b.sections[i])]
<1>1. Resolved(b) = Put(b, x)
  BY DEF Resolved, Put
<1>2. \A i \in DOMAIN b.sections : IsSec(b.sections[i])
  BY DEF BinOK, Shape
<1>3. ASSUME NEW s, IsSec(s) PROVE IsSec(one(s)) /\ Unmoved(s, one(s))
  <2>1. ASSUME NEW v, NEW w
        PROVE /\ IsSec([s EXCEPT !.link = v]) /\ Unmoved(s, [s EXCEPT !.link = v])
              /\ IsSec([s EXCEPT !.link = v, !.info = w]) /\ Unmoved(s, [s EXCEPT !.link = v, !.info = w])
    <3> DEFINE t == [s EXCEPT !.link = v]
               u == [s EXCEPT !.link = v, !.info = w]
    <3>1. HasFields(t)
      BY <1>3, FieldSet DEF IsSec
    <3>2. HasFields(u)
      <4>1. u = [[s EXCEPT !.link = v] EXCEPT !.info = w]
        OBVIOUS
      <4> QED
        BY <3>1, <4>1, FieldSet
    <3>3. Alike(s, t) /\ t.type = s.type /\ t.kind = s.kind
      BY <1>3 DEF Alike, IsSec, HasFields, Fields
    <3>4. Alike(s, u) /\ u.type = s.type /\ u.kind = s.kind
      BY <1>3 DEF Alike, IsSec, HasFields, Fields
    <3> HIDE DEF t, u
    <3>5. IsSec(t) /\ Unmoved(s, t) /\ IsSec(u) /\ Unmoved(s, u)
      BY <1>3, <3>1, <3>2, <3>3, <3>4, LinkedOK
    <3> QED
      BY <3>5 DEF t, u
  <2>2. \/ one(s) = s
        \/ \E v : one(s) = [s EXCEPT !.link = v]
        \/ \E v, w : one(s) = [s EXCEPT !.link = v, !.info = w]
    <3>1. CASE s.kind = ".symtab"
      BY <3>1
    <3>2. CASE s.kind = ".dynsym"
      BY <3>2
    <3>3. CASE s.kind = "rela"
      BY <3>3
    <3>4. CASE s.kind \notin {".symtab", ".dynsym", "rela"}
      BY <3>4
    <3> QED
      BY <3>1, <3>2, <3>3, <3>4
  <2> HIDE DEF one
  <2>3. CASE one(s) = s
    BY <1>3, <2>3, ItselfUnmoved
  <2>4. CASE \E v : one(s) = [s EXCEPT !.link = v]
    <3>1. PICK v : one(s) = [s EXCEPT !.link = v]
      BY <2>4
    <3> QED
      BY <2>1, <3>1, Zenon
  <2>5. CASE \E v, w : one(s) = [s EXCEPT !.link = v, !.info = w]
    <3>1. PICK v, w : one(s) = [s EXCEPT !.link = v, !.info = w]
      BY <2>5
    <3>2. IsSec([s EXCEPT !.link = v, !.info = w]) /\ Unmoved(s, [s EXCEPT !.link = v, !.info = w])
      BY <2>1, Zenon
    <3> QED
      BY <3>1, <3>2, Zenon
  <2> QED
    BY <2>2, <2>3, <2>4, <2>5, Zenon
<1> HIDE DEF one
<1>4. x = [i \in DOMAIN b.sections |-> x[i]]
  OBVIOUS
<1>5. \A i \in DOMAIN b.sections : IsSec(x[i]) /\ Unmoved(b.sections[i], x[i])
  BY <1>2, <1>3
<1> HIDE DEF x
<1> QED
  BY <1>1, <1>4, <1>5, AllChangedOK

(* All the tables, one after the other as lielf_build() does it             *)
LEMMA RegeneratedOK ==
    ASSUME NEW b, BinOK(b)
    PROVE  BinOK(Regenerated(b))
<1> DEFINE syms == RebuiltStrtab(RebuiltSymtab(b, FALSE), FALSE)
           dyns == RebuiltStrtab(RebuiltSymtab(syms, TRUE), TRUE)
<1>1. BinOK(syms)
  BY RebuiltSymtabOK, RebuiltStrtabOK
<1>2. BinOK(dyns)
  <2> HIDE DEF syms
  <2> QED
    BY <1>1, RebuiltSymtabOK, RebuiltStrtabOK
<1>3. Regenerated(b) = Resolved(RebuiltShstrtab(RebuiltDynamic(RebuiltRelas(dyns))))
  BY DEF Regenerated
<1> HIDE DEF dyns, syms
<1>4. BinOK(RebuiltRelas(dyns))
  BY <1>2, RebuiltRelasOK
<1>5. BinOK(RebuiltDynamic(RebuiltRelas(dyns)))
  BY <1>4, RebuiltDynamicOK
<1>6. BinOK(RebuiltShstrtab(RebuiltDynamic(RebuiltRelas(dyns))))
  BY <1>5, RebuiltShstrtabOK
<1> QED
  BY <1>3, <1>6, ResolvedOK

-----------------------------------------------------------------------------
(* lielf_build() lays out the sections, class by class.                     *)
Shifted(s, t) ==
    /\ t.size = s.size /\ t.type = s.type /\ t.align = s.align /\ t.flags = s.flags
    /\ t.loaded = s.loaded /\ t.dirty = s.dirty /\ t.data = s.data /\ t.kind = s.kind
    /\ t.name = s.name /\ t.link = s.link /\ t.info = s.info
    /\ t.relaDynamic = s.relaDynamic /\ t.relaTarget = s.relaTarget

(* Where a section is between two places that parts end at                  *)
Within(s, low, high) ==
    /\ low <= s.offset /\ s.offset + FileSize(s) = high
    /\ (s.offset % Larger(s.align, 1)) = 0

(* p is b with its sections of a class placed at the ends e.                *)
PlacedIs(b, p, class, e) ==
    /\ Shape(p) /\ p.etype = b.etype /\ p.segments = b.segments /\ p.phoff = b.phoff
    /\ p.symbols = b.symbols /\ p.relocs = b.relocs
    /\ Len(p.sections) = Len(b.sections) /\ DOMAIN p.sections = DOMAIN b.sections
    /\ \A i \in DOMAIN b.sections :
          /\ Shifted(b.sections[i], p.sections[i])
          /\ ClassOf(b, b.sections[i]) # class => /\ p.sections[i].offset = b.sections[i].offset
                                                 /\ p.sections[i].addr = b.sections[i].addr
          /\ ClassOf(b, b.sections[i]) = class => Within(p.sections[i], e[i - 1], e[i])
          /\ ClassOf(b, b.sections[i]) = class /\ class = "new" /\ b.etype # "REL" =>
                p.sections[i].addr = BaseOf(b) + p.sections[i].offset

(* The parts of a class are the sizes of its sections, aligned as they ask  *)
(* for.                                                                     *)
LEMMA PartsOfIs ==
    ASSUME NEW b, Shape(b), NEW class
    PROVE  /\ IsParts(PartsOf(b, class)) /\ Len(PartsOf(b, class)) = Len(b.sections)
           /\ \A i \in DOMAIN b.sections : ClassOf(b, b.sections[i]) = class =>
                 PartsOf(b, class)[i] = Part(Larger(b.sections[i].align, 1), FileSize(b.sections[i]))
<1> DEFINE x == PartsOf(b, class)
           one(s) == IF ClassOf(b, s) = class THEN Part(Larger(s.align, 1), FileSize(s)) ELSE Part(1, 0)
<1>1. IsSeq(b.sections) /\ \A i \in DOMAIN b.sections : IsSec(b.sections[i])
  BY DEF Shape
<1>2. x = [i \in DOMAIN b.sections |-> one(b.sections[i])]
  BY DEF PartsOf
<1>3. ASSUME NEW s, IsSec(s) PROVE one(s).align \in Nat /\ one(s).size \in Nat
  BY <1>3, Alignments DEF Part, IsSec, FileSize
<1>4. \A i \in DOMAIN b.sections : ClassOf(b, b.sections[i]) = class =>
         x[i] = Part(Larger(b.sections[i].align, 1), FileSize(b.sections[i]))
  BY <1>2
<1> HIDE DEF one, x
<1>5. x = [i \in DOMAIN b.sections |-> x[i]]
  BY <1>2
<1>6. /\ Len(x) = Len(b.sections) /\ Len(b.sections) \in Nat
      /\ DOMAIN b.sections = 1 .. Len(b.sections)
  BY <1>1, <1>5, SeqAlong, SeqPlaces
<1>7. IsParts(x)
  BY <1>1, <1>2, <1>3, <1>6 DEF IsParts
<1> QED
  BY <1>4, <1>6, <1>7 DEF x

(* Placing a class gives each of its sections the room between two ends,    *)
(* and leaves the others where they are.                                    *)
LEMMA PlacedOK ==
    ASSUME NEW b, Shape(b), NEW class, NEW start \in Nat
    PROVE  PlacedIs(b, Placed(b, class, start), class, Ends(start, PartsOf(b, class)))
<1> DEFINE n  == Len(b.sections)
           e  == Ends(start, PartsOf(b, class))
           At(i) == AlignUp(e[i - 1], Larger(b.sections[i].align, 1))
           Addr(i) == IF class = "meta" \/ b.etype = "REL" THEN 0 ELSE BaseOf(b) + At(i)
           x  == [i \in DOMAIN b.sections |->
                    IF ClassOf(b, b.sections[i]) # class THEN b.sections[i]
                    ELSE [b.sections[i] EXCEPT !.offset = At(i), !.addr = Addr(i)]]
           p  == Put(b, x)
<1>1. Placed(b, class, start) = p
  BY DEF Placed, Put
<1>2. /\ Record(b) /\ IsSeq(b.sections) /\ \A i \in DOMAIN b.sections : IsSec(b.sections[i])
  BY DEF Shape
<1>3. n \in Nat /\ DOMAIN b.sections = 1 .. n
  BY <1>2, SeqPlaces
<1>4. Stacked(start, PartsOf(b, class), e)
  BY PartsOfIs, EndsStacked
<1> HIDE DEF e
<1>5. Len(PartsOf(b, class)) = n
  BY PartsOfIs
<1>6. ASSUME NEW i \in DOMAIN b.sections
      PROVE  /\ IsSec(x[i]) /\ Shifted(b.sections[i], x[i])
             /\ ClassOf(b, b.sections[i]) # class => /\ x[i].offset = b.sections[i].offset
                                                    /\ x[i].addr = b.sections[i].addr
             /\ ClassOf(b, b.sections[i]) = class => Within(x[i], e[i - 1], e[i])
             /\ ClassOf(b, b.sections[i]) = class /\ class = "new" /\ b.etype # "REL" =>
                   x[i].addr = BaseOf(b) + x[i].offset
  <2> DEFINE s == b.sections[i]
             t == [s EXCEPT !.offset = At(i), !.addr = Addr(i)]
  <2>1. IsSec(s)
    BY <1>2
  <2>2. CASE ClassOf(b, s) # class
    <3>1. x[i] = s
      BY <2>2
    <3> HIDE DEF x
    <3> QED
      BY <2>1, <2>2, <3>1 DEF Shifted
  <2>3. CASE ClassOf(b, s) = class
    <3>1. x[i] = t
      BY <2>3
    <3>2. /\ At(i) = AlignUp(e[i - 1], Larger(s.align, 1))
          /\ class = "new" /\ b.etype # "REL" => Addr(i) = BaseOf(b) + At(i)
      OBVIOUS
    <3> HIDE DEF x, At, Addr
    <3>3. PartsOf(b, class)[i] = Part(Larger(s.align, 1), FileSize(s))
      BY <2>3, PartsOfIs
    <3>4. i \in 1 .. n /\ i - 1 \in 0 .. n /\ i \in 0 .. n
      BY <1>3
    <3>5. e[i - 1] \in Nat /\ e[i] = AlignUp(e[i - 1], Larger(s.align, 1)) + FileSize(s)
      <4>1. e \in [0 .. n -> Nat]
        BY <1>4, <1>5 DEF Stacked
      <4>2. e[i] = AlignUp(e[i - 1], PartsOf(b, class)[i].align) + PartsOf(b, class)[i].size
        BY <1>4, <1>5, <3>4 DEF Stacked
      <4> QED
        BY <3>3, <3>4, <4>1, <4>2 DEF Part
    <3>6. Larger(s.align, 1) \in Nat \ {0}
      BY <2>1, Alignments DEF IsSec
    <3>7. At(i) \in Nat /\ At(i) >= e[i - 1] /\ (At(i) % Larger(s.align, 1)) = 0
      BY <3>2, <3>5, <3>6, AlignedUp
    <3>8. HasFields(t)
      <4>1. HasFields([s EXCEPT !.offset = At(i)])
        BY <2>1, FieldSet DEF IsSec
      <4>2. t = [[s EXCEPT !.offset = At(i)] EXCEPT !.addr = Addr(i)]
        OBVIOUS
      <4> QED
        BY <4>1, <4>2, FieldSet
    <3>9. Shifted(s, t) /\ t.offset = At(i) /\ t.addr = Addr(i)
      BY <2>1 DEF Shifted, IsSec, HasFields, Fields
    <3> HIDE DEF t, s
    <3>10. IsSec(t)
      BY <2>1, <3>7, <3>8, <3>9 DEF IsSec, Shifted
    <3>11. FileSize(t) = FileSize(s)
      BY <3>9 DEF FileSize, Shifted
    <3>12. Within(t, e[i - 1], e[i])
      BY <3>2, <3>5, <3>7, <3>9, <3>11 DEF Within, Shifted
    <3> QED
      BY <2>3, <3>1, <3>2, <3>9, <3>10, <3>12 DEF s
  <2> QED
    BY <2>2, <2>3
<1>7. x = [i \in DOMAIN b.sections |-> x[i]]
  OBVIOUS
<1> HIDE DEF x, p
<1>8. IsSeq(x) /\ Len(x) = n /\ DOMAIN x = DOMAIN b.sections
  BY <1>2, <1>7, SeqAlong
<1>9. /\ Record(p) /\ p.sections = x
      /\ p.etype = b.etype /\ p.base = b.base /\ p.phoff = b.phoff
      /\ p.segments = b.segments /\ p.symbols = b.symbols
      /\ p.relocs = b.relocs /\ p.dynamic = b.dynamic
  BY <1>2, PutRecord DEF p
<1>10. Shape(p)
  BY <1>6, <1>8, <1>9 DEF Shape
<1>11. PlacedIs(b, p, class, e)
  BY <1>6, <1>8, <1>9, <1>10 DEF PlacedIs
<1> QED
  BY <1>1, <1>11 DEF e

-----------------------------------------------------------------------------
(* Sections that are apart from one another: what keeps its place up to one *)
(* place, what is loaded as well up to a second, the others up to a third   *)
Disjoint(b, i, j) == End(b, i) <= Start(b, j) \/ End(b, j) <= Start(b, i)
Zones(b, q, start, metas) ==
    /\ start \in Nat /\ metas \in Nat /\ EHDR <= start /\ start <= metas
    /\ b.segments # <<>> => b.phoff + PHDR * Len(b.segments) <= start
    /\ Shape(q) /\ q.etype = b.etype /\ DOMAIN q.sections = DOMAIN b.sections
    /\ \A i \in DOMAIN q.sections : (Start(q, i) % Larger(q.sections[i].align, 1)) = 0
    /\ \A i \in DOMAIN q.sections : Occupies(q, i) =>
          /\ End(q, i) <= metas
          /\ i \in Fixed(b) => /\ Start(q, i) = Start(b, i) /\ End(q, i) = End(b, i)
                               /\ Occupies(b, i)
          /\ i \notin Fixed(b) => start <= Start(q, i)
          /\ \A j \in DOMAIN q.sections : j # i /\ Occupies(q, j) => Disjoint(q, i, j)

(* What is laid out is what was there; what keeps its place keeps its       *)
(* address, what is new gets that of its place, within the new segment.     *)
Laid(b, q) ==
    /\ Shape(q) /\ q.etype = b.etype /\ q.symbols = b.symbols /\ q.relocs = b.relocs
    /\ DOMAIN q.sections = DOMAIN b.sections
    /\ \A i \in DOMAIN b.sections : Shifted(b.sections[i], q.sections[i])
    /\ \A i \in Fixed(b) : /\ q.sections[i].offset = b.sections[i].offset
                           /\ q.sections[i].addr = b.sections[i].addr
InLoad(b, q, start, allocs) ==
    \A i \in DOMAIN b.sections : ClassOf(b, b.sections[i]) = "new" =>
       /\ start <= Start(q, i) /\ End(q, i) <= allocs
       /\ b.etype # "REL" => q.sections[i].addr = BaseOf(b) + q.sections[i].offset

(* Two sections between the ends of parts                                   *)
LEMMA WithinApart ==
    ASSUME NEW n \in Nat, NEW e \in [0 .. n -> Nat],
           \A j \in 0 .. n : \A i \in 0 .. j : e[i] <= e[j],
           NEW i \in 1 .. n, NEW j \in 1 .. n, i # j, NEW s, NEW t,
           s.offset \in Nat, FileSize(s) \in Nat, t.offset \in Nat, FileSize(t) \in Nat,
           Within(s, e[i - 1], e[i]), Within(t, e[j - 1], e[j])
    PROVE  s.offset + FileSize(s) <= t.offset \/ t.offset + FileSize(t) <= s.offset
<1>1. i < j \/ j < i
  OBVIOUS
<1>2. CASE i < j
  <2>1. i \in 0 .. j - 1 /\ j - 1 \in 0 .. n /\ i \in 0 .. n
    BY <1>2
  <2>2. e[i] <= e[j - 1] /\ e[i] \in Nat /\ e[j - 1] \in Nat
    BY <2>1
  <2>3. s.offset + FileSize(s) = e[i] /\ e[j - 1] <= t.offset
    BY DEF Within
  <2> QED
    BY <2>2, <2>3
<1>3. CASE j < i
  <2>1. j \in 0 .. i - 1 /\ i - 1 \in 0 .. n /\ j \in 0 .. n
    BY <1>3
  <2>2. e[j] <= e[i - 1] /\ e[j] \in Nat /\ e[i - 1] \in Nat
    BY <2>1
  <2>3. t.offset + FileSize(t) = e[j] /\ e[i - 1] <= s.offset
    BY DEF Within
  <2> QED
    BY <2>2, <2>3
<1> QED
  BY <1>1, <1>2, <1>3

(* The end of what keeps its place is behind the headers of segments.       *)
LEMMA FixedEndOK ==
    ASSUME NEW b, Shape(b)
    PROVE  /\ FixedEnd(b) \in Nat /\ EHDR <= FixedEnd(b)
           /\ b.segments # <<>> => b.phoff + PHDR * Len(b.segments) <= FixedEnd(b)
           /\ \A i \in Fixed(b) : End(b, i) <= FixedEnd(b)
<1> DEFINE phdrs == PHDR * Len(b.segments)
           h == IF phdrs = 0 THEN EHDR ELSE Larger(EHDR + phdrs, b.phoff + phdrs)
<1>1. IsSeq(b.sections) /\ IsSeq(b.segments) /\ b.phoff \in Nat
      /\ \A i \in DOMAIN b.sections : IsSec(b.sections[i])
  BY DEF Shape
<1>2. HasSizes(b)
  <2>1. Len(b.sections) \in Nat /\ DOMAIN b.sections = 1 .. Len(b.sections)
    BY <1>1, SeqPlaces
  <2>2. \A i \in DOMAIN b.sections : b.sections[i].offset \in Nat /\ b.sections[i].size \in Nat
    BY <1>1 DEF IsSec
  <2> QED
    BY <2>1, <2>2 DEF HasSizes
<1>3. Len(b.segments) \in Nat /\ (b.segments # <<>> => Len(b.segments) # 0)
  BY <1>1, SeqPlaces, NoElements
<1>4. phdrs \in Nat /\ (b.segments # <<>> => phdrs # 0)
  BY <1>3 DEF PHDR
<1>5. FixedEnd(b) = FixedEndFrom(b, h)
  BY DEF FixedEnd
<1>6. h \in Nat /\ EHDR <= h /\ (phdrs # 0 => b.phoff + phdrs <= h)
  <2> HIDE DEF phdrs
  <2> QED
    BY <1>1, <1>4 DEF EHDR, Larger
<1> HIDE DEF h
<1>7. /\ FixedEndFrom(b, h) \in Nat /\ FixedEndFrom(b, h) >= h
      /\ \A i \in Fixed(b) : End(b, i) <= FixedEndFrom(b, h)
  BY <1>2, <1>6, FixedEndBehind DEF End
<1> HIDE DEF phdrs
<1>8. FixedEnd(b) \in Nat /\ EHDR <= FixedEnd(b)
  BY <1>5, <1>6, <1>7 DEF EHDR
<1>9. b.segments # <<>> => b.phoff + phdrs <= FixedEnd(b)
  BY <1>1, <1>4, <1>5, <1>6, <1>7
<1> QED
  BY <1>5, <1>7, <1>8, <1>9 DEF phdrs

(* Placing a section changes neither its class nor its bytes.               *)
LEMMA SameClass ==
    ASSUME NEW b, NEW p, p.etype = b.etype, p.segments = b.segments, NEW s, NEW t, Shifted(s, t)
    PROVE  ClassOf(p, t) = ClassOf(b, s) /\ FileSize(t) = FileSize(s)
BY DEF ClassOf, FileSize, Shifted

(* The sections that are laid out lie in three zones: those that keep their *)
(* place, the new ones that are loaded, and the tables.                     *)
LEMMA ZonesOK ==
    ASSUME NEW b, BinOK(b), NEW start \in Nat, FixedEnd(b) <= start,
           NEW allocs, allocs = Ends(start, PartsOf(b, "new"))[Len(b.sections)],
           NEW metas, metas = Ends(AlignUp(allocs, 8), PartsOf(b, "meta"))[Len(b.sections)]
    PROVE  LET q == Placed(Placed(b, "new", start), "meta", AlignUp(allocs, 8))
           IN /\ Zones(b, q, start, metas) /\ Laid(b, q) /\ InLoad(b, q, start, allocs)
              /\ allocs \in Nat
<1> DEFINE n  == Len(b.sections)
           D  == DOMAIN b.sections
           p  == Placed(b, "new", start)
           e  == Ends(start, PartsOf(b, "new"))
           m0 == AlignUp(allocs, 8)
           f  == Ends(m0, PartsOf(b, "meta"))
           q  == Placed(p, "meta", m0)
           class(i) == ClassOf(b, b.sections[i])
<1>1. Shape(b) /\ FixedOK(b)
  BY DEF BinOK
<1>2. /\ n \in Nat /\ D = 1 .. n /\ b.phoff \in Nat
      /\ \A i \in D : IsSec(b.sections[i])
  BY <1>1, SeqPlaces DEF Shape
<1>3. /\ e \in [0 .. n -> Nat] /\ e[0] = start /\ \A j \in 0 .. n : \A i \in 0 .. j : e[i] <= e[j]
  BY <1>1, PartsOfIs, EndsStacked, StacksUp DEF Stacked
<1>4. allocs \in Nat /\ start <= allocs
  BY <1>2, <1>3
<1>5. m0 \in Nat /\ allocs <= m0
  BY <1>4, AlignedUp
<1> HIDE DEF m0
<1>6. /\ f \in [0 .. n -> Nat] /\ f[0] = m0 /\ \A j \in 0 .. n : \A i \in 0 .. j : f[i] <= f[j]
  <2>1. IsParts(PartsOf(b, "meta")) /\ Len(PartsOf(b, "meta")) = n
    BY <1>1, PartsOfIs
  <2>2. Stacked(m0, PartsOf(b, "meta"), f)
    BY <1>5, <2>1, EndsStacked
  <2>3. \A j \in 0 .. n : \A i \in 0 .. j : f[i] <= f[j]
    BY <1>5, <2>1, <2>2, StacksUp
  <2> QED
    BY <2>1, <2>2, <2>3 DEF Stacked
<1>7. metas \in Nat /\ m0 <= metas
  <2>1. metas = f[n]
    BY DEF m0
  <2> QED
    BY <1>2, <1>6, <2>1
<1>8. PlacedIs(b, p, "new", e)
  BY <1>1, PlacedOK
<1> HIDE DEF p
<1>9. Shape(p) /\ p.etype = b.etype /\ p.segments = b.segments /\ p.phoff = b.phoff
      /\ DOMAIN p.sections = D /\ Len(p.sections) = n
  BY <1>8 DEF PlacedIs
<1>10. \A i \in D : Shifted(b.sections[i], p.sections[i])
  BY <1>8 DEF PlacedIs
<1>11. \A i \in D : /\ ClassOf(p, p.sections[i]) = class(i)
                    /\ FileSize(p.sections[i]) = FileSize(b.sections[i])
  BY <1>9, <1>10, SameClass
<1>12. PartsOf(p, "meta") = PartsOf(b, "meta")
  <2>1. \A i \in D : p.sections[i].align = b.sections[i].align
    BY <1>10 DEF Shifted
  <2>2. PartsOf(p, "meta") = [i \in D |->
           IF ClassOf(p, p.sections[i]) = "meta"
           THEN Part(Larger(p.sections[i].align, 1), FileSize(p.sections[i])) ELSE Part(1, 0)]
    BY <1>9 DEF PartsOf
  <2>3. PartsOf(b, "meta") = [i \in D |->
           IF class(i) = "meta"
           THEN Part(Larger(b.sections[i].align, 1), FileSize(b.sections[i])) ELSE Part(1, 0)]
    BY DEF PartsOf
  <2> HIDE DEF class, D
  <2> QED
    BY <1>11, <2>1, <2>2, <2>3
<1>13. PlacedIs(p, q, "meta", f)
  <2>1. PlacedIs(p, q, "meta", Ends(m0, PartsOf(p, "meta")))
    BY <1>5, <1>9, PlacedOK
  <2> QED
    BY <1>12, <2>1
<1> HIDE DEF q, e, f
<1>14. Shape(q) /\ q.etype = b.etype /\ DOMAIN q.sections = D
  BY <1>9, <1>13 DEF PlacedIs
<1>15. \A i \in D : class(i) \in {"fixed", "new", "meta"}
  BY DEF ClassOf
<1>16. \A i \in D : class(i) = "fixed" <=> i \in Fixed(b)
  BY DEF Fixed
<1> HIDE DEF class
<1>17. \A i \in D : Shifted(p.sections[i], q.sections[i])
  BY <1>9, <1>13 DEF PlacedIs
<1>18. \A i \in D : /\ FileSize(q.sections[i]) = FileSize(b.sections[i])
                    /\ q.sections[i].align = b.sections[i].align
                    /\ q.sections[i].offset \in Nat /\ FileSize(q.sections[i]) \in Nat
  <2>1. \A i \in D : FileSize(q.sections[i]) = FileSize(p.sections[i])
    BY <1>17 DEF Shifted, FileSize
  <2>2. \A i \in D : q.sections[i].align = b.sections[i].align
    BY <1>10, <1>17 DEF Shifted
  <2>3. \A i \in D : q.sections[i].offset \in Nat /\ FileSize(q.sections[i]) \in Nat
    BY <1>14 DEF Shape, IsSec, FileSize
  <2> QED
    BY <1>11, <2>1, <2>2, <2>3
<1>19. \A i \in D : class(i) = "new" => Within(q.sections[i], e[i - 1], e[i])
  <2> SUFFICES ASSUME NEW i \in D, class(i) = "new" PROVE Within(q.sections[i], e[i - 1], e[i])
    OBVIOUS
  <2>1. Within(p.sections[i], e[i - 1], e[i])
    BY <1>8 DEF PlacedIs, class
  <2>2. q.sections[i].offset = p.sections[i].offset
    BY <1>9, <1>11, <1>13 DEF PlacedIs
  <2>3. Shifted(p.sections[i], q.sections[i])
    BY <1>17
  <2> QED
    BY <2>1, <2>2, <2>3 DEF Within, Shifted, FileSize
<1>20. \A i \in D : class(i) = "meta" => Within(q.sections[i], f[i - 1], f[i])
  BY <1>9, <1>11, <1>13 DEF PlacedIs
<1>21. \A i \in D : i \in Fixed(b) => Start(q, i) = Start(b, i)
  <2>1. \A i \in D : i \in Fixed(b) => p.sections[i].offset = b.sections[i].offset
    BY <1>8, <1>16 DEF PlacedIs, class
  <2>2. \A i \in D : i \in Fixed(b) => q.sections[i].offset = p.sections[i].offset
    BY <1>9, <1>11, <1>13, <1>16 DEF PlacedIs
  <2> QED
    BY <2>1, <2>2 DEF Start
<1>22. /\ FixedEnd(b) \in Nat /\ EHDR <= FixedEnd(b)
       /\ b.segments # <<>> => b.phoff + PHDR * Len(b.segments) <= FixedEnd(b)
       /\ \A i \in Fixed(b) : End(b, i) <= FixedEnd(b)
  BY <1>1, FixedEndOK
<1>23. \A i \in D : /\ Start(q, i) = q.sections[i].offset
                    /\ End(q, i) = q.sections[i].offset + FileSize(q.sections[i])
                    /\ Start(q, i) \in Nat /\ End(q, i) \in Nat
  BY <1>18 DEF Start, End
<1>24. \A i \in D : i \in Fixed(b) => End(q, i) = End(b, i) /\ (Occupies(q, i) <=> Occupies(b, i))
  BY <1>18, <1>21 DEF Start, End, Occupies
<1>25. \A i \in D : i \in Fixed(b) => End(q, i) <= start
  BY <1>22, <1>23, <1>24
<1>26. \A i \in D : i \in 1 .. n /\ i \in 0 .. n /\ i - 1 \in 0 .. n /\ n \in 0 .. n /\ 0 \in 0 .. n
                     /\ i \in 0 .. n /\ 0 \in 0 .. i - 1
  BY <1>2
<1> HIDE DEF n, D
<1>27. \A i \in D : class(i) = "new" => start <= Start(q, i) /\ End(q, i) <= allocs
  <2> SUFFICES ASSUME NEW i \in D, class(i) = "new" PROVE start <= Start(q, i) /\ End(q, i) <= allocs
    OBVIOUS
  <2>1. Within(q.sections[i], e[i - 1], e[i])
    BY <1>19
  <2>2. e[i - 1] <= Start(q, i) /\ End(q, i) = e[i]
    BY <1>23, <2>1 DEF Within
  <2>3. e[0] <= e[i - 1] /\ e[i] <= e[n] /\ e[i - 1] \in Nat /\ e[n] = allocs
    BY <1>3, <1>26 DEF n, e
  <2> QED
    BY <1>3, <1>4, <1>23, <2>2, <2>3
<1>28. \A i \in D : class(i) = "meta" => m0 <= Start(q, i) /\ End(q, i) <= metas
  <2> SUFFICES ASSUME NEW i \in D, class(i) = "meta" PROVE m0 <= Start(q, i) /\ End(q, i) <= metas
    OBVIOUS
  <2>1. Within(q.sections[i], f[i - 1], f[i])
    BY <1>20
  <2>2. f[i - 1] <= Start(q, i) /\ End(q, i) = f[i]
    BY <1>23, <2>1 DEF Within
  <2>3. f[0] <= f[i - 1] /\ f[i] <= f[n] /\ f[i - 1] \in Nat /\ f[n] = metas
    BY <1>6, <1>26 DEF n, f, m0
  <2> QED
    BY <1>5, <1>6, <1>7, <1>23, <2>2, <2>3
<1>29. \A i \in D : (Start(q, i) % Larger(q.sections[i].align, 1)) = 0
  <2> SUFFICES ASSUME NEW i \in D PROVE (Start(q, i) % Larger(q.sections[i].align, 1)) = 0
    OBVIOUS
  <2>1. CASE i \in Fixed(b)
    BY <1>1, <1>18, <1>21, <2>1 DEF FixedOK
  <2>2. CASE i \notin Fixed(b)
    BY <1>15, <1>16, <1>19, <1>20, <2>2 DEF Within, Start
  <2> QED
    BY <2>1, <2>2
<1>30. \A i \in D : End(q, i) <= metas /\ (i \notin Fixed(b) => start <= Start(q, i))
  <2> SUFFICES ASSUME NEW i \in D
               PROVE End(q, i) <= metas /\ (i \notin Fixed(b) => start <= Start(q, i))
    OBVIOUS
  <2> QED
    BY <1>4, <1>5, <1>7, <1>15, <1>16, <1>23, <1>25, <1>27, <1>28
<1>31. ASSUME NEW i \in D, NEW j \in D, j # i, Occupies(q, i), Occupies(q, j)
       PROVE  Disjoint(q, i, j)
  <2>1. CASE class(i) = class(j)
    <3>1. CASE class(i) = "fixed"
      <4>1. i \in Fixed(b) /\ j \in Fixed(b)
        BY <1>16, <2>1, <3>1
      <4>2. End(b, i) <= Start(b, j) \/ End(b, j) <= Start(b, i)
        BY <1>1, <1>24, <1>31, <4>1 DEF FixedOK
      <4> QED
        BY <1>21, <1>24, <4>1, <4>2 DEF Disjoint
    <3>2. CASE class(i) = "new"
      <4>1. Within(q.sections[i], e[i - 1], e[i]) /\ Within(q.sections[j], e[j - 1], e[j])
        BY <1>19, <2>1, <3>2
      <4>2. \/ q.sections[i].offset + FileSize(q.sections[i]) <= q.sections[j].offset
            \/ q.sections[j].offset + FileSize(q.sections[j]) <= q.sections[i].offset
        BY <1>2, <1>3, <1>18, <1>26, <1>31, <4>1, WithinApart
      <4> QED
        BY <1>23, <4>2 DEF Disjoint
    <3>3. CASE class(i) = "meta"
      <4>1. Within(q.sections[i], f[i - 1], f[i]) /\ Within(q.sections[j], f[j - 1], f[j])
        BY <1>20, <2>1, <3>3
      <4>2. \/ q.sections[i].offset + FileSize(q.sections[i]) <= q.sections[j].offset
            \/ q.sections[j].offset + FileSize(q.sections[j]) <= q.sections[i].offset
        BY <1>2, <1>6, <1>18, <1>26, <1>31, <4>1, WithinApart
      <4> QED
        BY <1>23, <4>2 DEF Disjoint
    <3> QED
      BY <1>15, <3>1, <3>2, <3>3
  <2>2. CASE class(i) # class(j)
    BY <1>4, <1>5, <1>15, <1>16, <1>23, <1>25, <1>27, <1>28, <2>2 DEF Disjoint
  <2> QED
    BY <2>1, <2>2
<1>32. EHDR <= start /\ start <= metas
       /\ (b.segments # <<>> => b.phoff + PHDR * Len(b.segments) <= start)
  <2>1. b.segments # <<>> => Len(b.segments) \in Nat
    BY <1>1, SeqPlaces DEF Shape
  <2> QED
    BY SMTT(40), <1>2, <1>4, <1>5, <1>7, <1>22, <2>1 DEF EHDR, PHDR
<1>33. Zones(b, q, start, metas)
  BY <1>7, <1>14, <1>21, <1>24, <1>29, <1>30, <1>31, <1>32 DEF Zones, D
<1>34. Laid(b, q)
  <2>1. \A i \in D : Shifted(b.sections[i], q.sections[i])
    BY <1>10, <1>17 DEF Shifted
  <2>2. \A i \in Fixed(b) : i \in D /\ q.sections[i].offset = b.sections[i].offset
    BY <1>21 DEF Start, Fixed, D
  <2>3. \A i \in Fixed(b) : q.sections[i].addr = b.sections[i].addr
    <3> SUFFICES ASSUME NEW i \in Fixed(b) PROVE q.sections[i].addr = b.sections[i].addr
      OBVIOUS
    <3>1. i \in D /\ class(i) = "fixed"
      BY <1>16, <2>2
    <3>2. p.sections[i].addr = b.sections[i].addr
      BY <1>8, <3>1 DEF PlacedIs, class, D
    <3>3. q.sections[i].addr = p.sections[i].addr
      BY <1>9, <1>11, <1>13, <3>1 DEF PlacedIs
    <3> QED
      BY <3>2, <3>3
  <2>4. q.symbols = b.symbols /\ q.relocs = b.relocs
    BY <1>8, <1>13 DEF PlacedIs
  <2> QED
    BY <1>14, <2>1, <2>2, <2>3, <2>4 DEF Laid, D
<1>35. InLoad(b, q, start, allocs)
  <2> SUFFICES ASSUME NEW i \in D, class(i) = "new"
               PROVE  /\ start <= Start(q, i) /\ End(q, i) <= allocs
                      /\ b.etype # "REL" => q.sections[i].addr = BaseOf(b) + q.sections[i].offset
    BY DEF InLoad, class, D
  <2>1. b.etype # "REL" => p.sections[i].addr = BaseOf(b) + p.sections[i].offset
    BY <1>8 DEF PlacedIs, class, D
  <2>2. q.sections[i].addr = p.sections[i].addr /\ q.sections[i].offset = p.sections[i].offset
    BY <1>9, <1>11, <1>13 DEF PlacedIs
  <2> QED
    BY <1>27, <2>1, <2>2
<1>36. allocs \in Nat
  BY <1>4
<1> QED
  BY <1>33, <1>34, <1>35, <1>36 DEF q, p, m0

(* What a file is made of is apart and aligned: its header, its sections    *)
(* and the headers of segments; and, if it was built, the headers of        *)
(* sections are last.                                                       *)
Beyond(s) == s.offset + FileSize(s)
ClearIn(list, segs, phoff) ==
    /\ segs # <<>> => EHDR <= phoff
    /\ \A i \in DOMAIN list : (list[i].offset % Larger(list[i].align, 1)) = 0
    /\ \A i \in DOMAIN list : FileSize(list[i]) > 0 =>
          /\ EHDR <= list[i].offset
          /\ segs # <<>> => \/ Beyond(list[i]) <= phoff
                            \/ phoff + PHDR * Len(segs) <= list[i].offset
          /\ \A j \in DOMAIN list : j # i /\ FileSize(list[j]) > 0 =>
                Beyond(list[i]) <= list[j].offset \/ Beyond(list[j]) <= list[i].offset
Clear(list, segs, phoff, shoff) ==
    /\ ClearIn(list, segs, phoff)
    /\ EHDR <= shoff
    /\ segs # <<>> => phoff + PHDR * Len(segs) <= shoff
    /\ \A i \in DOMAIN list : FileSize(list[i]) > 0 => Beyond(list[i]) <= shoff

(* Sections that lie in their zones are clear of one another, of the header *)
(* of the file, of the headers of segments and of those of sections.        *)
LEMMA ClearOK ==
    ASSUME NEW b, BinOK(b), NEW q, NEW start, NEW metas, Zones(b, q, start, metas),
           NEW segs, IsSeq(segs), NEW moved \in BOOLEAN,
           ~ moved => segs = b.segments /\ segs # <<>>,
           NEW phoff, segs # <<>> /\ moved => phoff = AlignUp(metas, 8),
           ~ moved => phoff = b.phoff,
           NEW end, end = IF moved /\ segs # <<>> THEN phoff + PHDR * Len(segs) ELSE metas
    PROVE  /\ AlignUp(end, 8) \in Nat
           /\ Clear(q.sections, segs, phoff, AlignUp(end, 8))
<1> DEFINE D == DOMAIN q.sections
           shoff == AlignUp(end, 8)
           size == PHDR * Len(segs)
<1>1. /\ start \in Nat /\ metas \in Nat /\ EHDR <= start /\ start <= metas
      /\ b.segments # <<>> => b.phoff + PHDR * Len(b.segments) <= start
      /\ Shape(q) /\ DOMAIN b.sections = D
      /\ \A i \in D : (Start(q, i) % Larger(q.sections[i].align, 1)) = 0
      /\ \A i \in D : Occupies(q, i) =>
          /\ End(q, i) <= metas
          /\ i \in Fixed(b) => /\ Start(q, i) = Start(b, i) /\ End(q, i) = End(b, i)
                               /\ Occupies(b, i)
          /\ i \notin Fixed(b) => start <= Start(q, i)
          /\ \A j \in D : j # i /\ Occupies(q, j) => Disjoint(q, i, j)
  BY DEF Zones
<1>2. Shape(b) /\ FixedOK(b) /\ b.phoff \in Nat
  BY DEF BinOK, Shape
<1>3. size \in Nat
  <2>1. Len(segs) \in Nat
    BY SeqPlaces
  <2> QED
    BY <2>1 DEF PHDR
<1>4. \A i \in D : Start(q, i) \in Nat /\ End(q, i) \in Nat
  BY <1>1 DEF Shape, IsSec, FileSize, Start, End
<1>5. segs # <<>> => phoff \in Nat /\ EHDR <= phoff
  <2>1. ASSUME moved, segs # <<>> PROVE phoff \in Nat /\ EHDR <= phoff
    <3>1. phoff = AlignUp(metas, 8)
      BY <2>1
    <3>2. phoff \in Nat /\ phoff >= metas
      BY <1>1, <3>1, AlignedUp
    <3> QED
      BY <1>1, <3>2 DEF EHDR
  <2>2. ASSUME ~ moved PROVE phoff \in Nat /\ EHDR <= phoff
    BY <1>2, <2>2 DEF FixedOK
  <2> QED
    BY <2>1, <2>2
<1>6. end = IF moved /\ segs # <<>> THEN phoff + size ELSE metas
  OBVIOUS
<1>7. segs # <<>> /\ moved => metas <= phoff
  <2>1. AlignUp(metas, 8) >= metas
    BY <1>1, AlignedUp
  <2> QED
    BY <2>1
<1>8. ~ moved => segs # <<>> /\ phoff + size <= start
  BY <1>1
<1> HIDE DEF size
<1>9. end \in Nat /\ metas <= end /\ (segs # <<>> => phoff + size <= end)
  <2>1. CASE moved /\ segs # <<>>
    BY <1>1, <1>3, <1>5, <1>6, <1>7, <2>1
  <2>2. CASE ~ moved
    BY <1>1, <1>3, <1>5, <1>6, <1>8, <2>2
  <2>3. CASE segs = <<>>
    BY <1>1, <1>6, <2>3
  <2> QED
    BY <2>1, <2>2, <2>3
<1>10. shoff \in Nat /\ end <= shoff
  BY <1>9, AlignedUp
<1> HIDE DEF shoff
<1>11. \A i \in D : Occupies(q, i) => EHDR <= Start(q, i) /\ End(q, i) <= shoff
  <2> SUFFICES ASSUME NEW i \in D, Occupies(q, i)
               PROVE  EHDR <= Start(q, i) /\ End(q, i) <= shoff
    OBVIOUS
  <2>1. End(q, i) <= shoff
    <3>1. End(q, i) <= metas
      BY <1>1
    <3> QED
      BY <1>1, <1>4, <1>9, <1>10, <3>1
  <2>2. CASE i \in Fixed(b)
    <3>1. EHDR <= Start(b, i) /\ Start(q, i) = Start(b, i)
      BY <1>1, <1>2, <2>2 DEF FixedOK
    <3> QED
      BY <2>1, <3>1
  <2>3. CASE i \notin Fixed(b)
    <3>1. start <= Start(q, i)
      BY <1>1, <2>3
    <3> QED
      BY <1>1, <1>4, <2>1, <3>1 DEF EHDR
  <2> QED
    BY <2>2, <2>3
<1>12. \A i \in D : Occupies(q, i) /\ segs # <<>> =>
          End(q, i) <= phoff \/ phoff + size <= Start(q, i)
  <2> SUFFICES ASSUME NEW i \in D, Occupies(q, i), segs # <<>>
               PROVE  End(q, i) <= phoff \/ phoff + size <= Start(q, i)
    OBVIOUS
  <2>1. CASE moved
    <3>1. End(q, i) <= metas /\ metas <= phoff
      BY <1>1, <1>7, <2>1
    <3> QED
      BY <1>1, <1>4, <1>5, <3>1
  <2>2. CASE ~ moved
    <3>1. CASE i \in Fixed(b)
      <4>1. End(b, i) <= b.phoff \/ b.phoff + PHDR * Len(b.segments) <= Start(b, i)
        BY <1>1, <1>2, <3>1 DEF FixedOK
      <4>2. Start(q, i) = Start(b, i) /\ End(q, i) = End(b, i)
        BY <1>1, <3>1
      <4> QED
        BY <2>2, <4>1, <4>2 DEF size
    <3>2. CASE i \notin Fixed(b)
      <4>1. start <= Start(q, i) /\ phoff + size <= start
        BY <1>1, <1>8, <2>2, <3>2
      <4> QED
        BY <1>1, <1>3, <1>4, <1>5, <4>1
    <3> QED
      BY <3>1, <3>2
  <2> QED
    BY <2>1, <2>2
<1>13. EHDR <= shoff /\ (segs # <<>> => phoff + size <= shoff)
  BY <1>1, <1>3, <1>5, <1>9, <1>10 DEF EHDR
<1>14. \A i \in D : /\ Start(q, i) = q.sections[i].offset /\ End(q, i) = Beyond(q.sections[i])
                    /\ Occupies(q, i) <=> FileSize(q.sections[i]) > 0
  BY DEF Start, End, Beyond, Occupies
<1>15. \A i, j \in D : Occupies(q, i) /\ Occupies(q, j) /\ j # i =>
          End(q, i) <= Start(q, j) \/ End(q, j) <= Start(q, i)
  BY <1>1 DEF Disjoint
<1>16. Clear(q.sections, segs, phoff, shoff)
  BY <1>1, <1>5, <1>11, <1>12, <1>13, <1>14, <1>15 DEF Clear, ClearIn, size
<1> QED
  BY <1>10, <1>16 DEF shoff

(* The segments of a program have one distance, and hold what it loads.     *)
Held(etype, list, segs) ==
    etype # "REL" =>
    /\ OneDistance(segs)
    /\ \A i \in DOMAIN list :
          "ALLOC" \in list[i].flags /\ FileSize(list[i]) > 0 => InSegment(segs, list[i])

(* What keeps its place stays in its segment, what is new is in the segment *)
(* that is added behind the others, at their distance.                      *)
LEMMA HeldOK ==
    ASSUME NEW b, BinOK(b), NEW q, Laid(b, q), NEW start \in Nat, NEW allocs \in Nat,
           InLoad(b, q, start, allocs),
           NEW load, load.offset = start, load.vaddr = BaseOf(b) + start,
           load.filesz = allocs - start,
           NEW segs, segs = IF b.etype # "REL" /\ NewAllocs(b) # {} THEN Append(b.segments, load)
                            ELSE b.segments
    PROVE  Held(b.etype, q.sections, segs)
<1> DEFINE n == Len(b.segments)
           D == DOMAIN b.sections
           added == NewAllocs(b) # {}
<1> SUFFICES ASSUME b.etype # "REL"
             PROVE  /\ OneDistance(segs)
                    /\ \A i \in D : "ALLOC" \in q.sections[i].flags /\ FileSize(q.sections[i]) > 0
                          => InSegment(segs, q.sections[i])
  BY DEF Held, Laid
<1>1. Shape(b) /\ FixedOK(b) /\ OneDistance(b.segments) /\ IsSeq(b.segments) /\ b.base \in Int
  BY DEF BinOK, FixedOK, Shape
<1>2. n \in Nat /\ DOMAIN b.segments = 1 .. n /\ (b.segments = <<>> <=> n = 0)
  BY <1>1, SeqPlaces, NoElements
<1>3. BaseOf(b) \in Int /\ (n # 0 => BaseOf(b) = Distance(b.segments[1]))
  <2>1. CASE n = 0
    BY <1>1, <1>2, <2>1 DEF BaseOf
  <2>2. CASE n # 0
    <3>1. 1 \in DOMAIN b.segments
      BY <1>2, <2>2
    <3>2. b.segments[1].vaddr \in Int /\ b.segments[1].offset \in Int
      BY <1>1, <3>1 DEF OneDistance
    <3> QED
      BY <1>2, <2>2, <3>2 DEF BaseOf, Distance
  <2> QED
    BY <2>1, <2>2
<1>4. /\ {load.vaddr, load.offset} \subseteq Int
      /\ n # 0 => Distance(load) = Distance(b.segments[1])
  <2>1. load.vaddr - load.offset = BaseOf(b)
    BY <1>3
  <2> QED
    BY <1>3, <2>1 DEF Distance
<1>5. added => /\ segs = Append(b.segments, load) /\ DOMAIN segs = 1 .. n + 1
               /\ \A i \in 1 .. n + 1 : segs[i] = IF i <= n THEN b.segments[i] ELSE load
  BY <1>1, AppendSeq
<1>6. ~ added => segs = b.segments
  OBVIOUS
<1> HIDE DEF added
<1>7. Range(b.segments) \subseteq Range(segs) /\ (added => load \in Range(segs))
  <2>1. CASE added
    <3>1. n + 1 \in DOMAIN segs /\ segs[n + 1] = load
      BY <1>2, <1>5, <2>1
    <3>2. \A i \in 1 .. n : i \in DOMAIN segs /\ segs[i] = b.segments[i]
      BY <1>2, <1>5, <2>1
    <3> QED
      BY <1>2, <3>1, <3>2 DEF Range
  <2>2. CASE ~ added
    BY <1>6, <2>2
  <2> QED
    BY <2>1, <2>2
<1>8. OneDistance(segs)
  <2>1. CASE added
    <3> SUFFICES ASSUME NEW i \in 1 .. n + 1
                 PROVE  /\ {segs[i].vaddr, segs[i].offset} \subseteq Int
                        /\ Distance(segs[i]) = Distance(segs[1])
      BY <1>5, <2>1 DEF OneDistance
    <3>1. CASE i <= n
      <4>1. i \in DOMAIN b.segments /\ segs[i] = b.segments[i] /\ segs[1] = b.segments[1]
        BY <1>2, <1>5, <2>1, <3>1
      <4> QED
        BY <1>1, <4>1 DEF OneDistance
    <3>2. CASE ~ (i <= n)
      <4>1. segs[i] = load /\ (n = 0 => i = 1) /\ (n # 0 => segs[1] = b.segments[1])
        BY <1>2, <1>5, <2>1, <3>2
      <4>2. Distance(segs[i]) = Distance(segs[1])
        BY <1>4, <4>1
      <4> QED
        BY <1>4, <4>1, <4>2
    <3> QED
      BY <3>1, <3>2
  <2>2. CASE ~ added
    BY <1>1, <1>6, <2>2
  <2> QED
    BY <2>1, <2>2
<1>9. ASSUME NEW i \in D, "ALLOC" \in q.sections[i].flags, FileSize(q.sections[i]) > 0
      PROVE  InSegment(segs, q.sections[i])
  <2> DEFINE s == b.sections[i]
             t == q.sections[i]
  <2>1. Shifted(s, t) /\ IsSec(t)
    BY DEF Laid, Shape
  <2>2. FileSize(t) = FileSize(s) /\ t.size = s.size /\ FileSize(t) = t.size /\ "ALLOC" \in s.flags
    BY <1>9, <2>1 DEF Shifted, FileSize
  <2>3. CASE ClassOf(b, s) = "fixed"
    <3>1. i \in Fixed(b) /\ Occupies(b, i)
      <4>1. FileSize(b.sections[i]) > 0
        BY <1>9, <2>2
      <4> QED
        BY <2>3, <4>1 DEF Fixed, Occupies
    <3>2. InSegment(b.segments, s)
      BY <1>1, <3>1 DEF FixedOK
    <3>3. t.offset = s.offset /\ t.addr = s.addr
      BY <3>1 DEF Laid
    <3> HIDE DEF s, t
    <3>4. InSegment(segs, t)
      BY <1>7, <2>2, <3>2, <3>3 DEF InSegment
    <3> QED
      BY <3>4 DEF t
  <2>4. CASE ClassOf(b, s) # "fixed"
    <3>1. ClassOf(b, s) = "new"
      BY <2>2, <2>4 DEF ClassOf
    <3>2. added /\ load \in Range(segs)
      BY <1>7, <3>1 DEF NewAllocs, Range, added
    <3>3. start <= t.offset /\ t.offset + t.size <= allocs /\ t.addr = BaseOf(b) + t.offset
      BY <2>2, <3>1 DEF InLoad, Start, End
    <3>4. t.offset \in Nat /\ t.size \in Nat
      BY <2>1 DEF IsSec
    <3> HIDE DEF t
    <3>5. /\ load.offset <= t.offset /\ t.offset + t.size <= load.offset + load.filesz
          /\ t.addr - load.vaddr = t.offset - load.offset
      BY <1>3, <3>3, <3>4
    <3>6. InSegment(segs, t)
      BY <3>2, <3>5 DEF InSegment
    <3> QED
      BY <3>6 DEF t
  <2> QED
    BY <2>3, <2>4
<1> QED
  BY <1>8, <1>9

(* The object after lielf_build() laid it out                               *)
LEMMA LaidOutOK ==
    ASSUME NEW b, BinOK(b)
    PROVE  LET c == LaidOut(b).bin
               shoff == LaidOut(b).shoff
           IN /\ Shape(c) /\ shoff \in Nat /\ Clear(c.sections, c.segments, c.phoff, shoff)
              /\ Laid(b, c) /\ Held(c.etype, c.sections, c.segments)
<1> DEFINE n      == Len(b.sections)
           start  == AlignUp(FixedEnd(b), IF b.etype = "REL" THEN 8 ELSE PAGE)
           allocs == Ends(start, PartsOf(b, "new"))[n]
           metas  == Ends(AlignUp(allocs, 8), PartsOf(b, "meta"))[n]
           load   == [flags |-> UNION {s.flags : s \in NewAllocs(b)} \cap {"WRITE", "EXECINSTR"},
                      offset |-> start, vaddr |-> BaseOf(b) + start,
                      filesz |-> allocs - start, memsz |-> allocs - start]
           segs   == IF b.etype # "REL" /\ NewAllocs(b) # {} THEN Append(b.segments, load)
                     ELSE b.segments
           moved  == segs # b.segments \/ b.segments = <<>>
           phoff  == IF segs = <<>> THEN 0 ELSE IF moved THEN AlignUp(metas, 8) ELSE b.phoff
           end    == IF moved /\ segs # <<>> THEN phoff + PHDR * Len(segs) ELSE metas
           q      == Placed(Placed(b, "new", start), "meta", AlignUp(allocs, 8))
           c      == [q EXCEPT !.segments = segs, !.phoff = phoff]
<1>1. LaidOut(b) = [bin |-> c, shoff |-> AlignUp(end, 8)]
  BY DEF LaidOut
<1>2. Shape(b) /\ IsSeq(b.segments) /\ b.phoff \in Nat
  BY DEF BinOK, Shape
<1>3. start \in Nat /\ FixedEnd(b) <= start
  <2> DEFINE unit == IF b.etype = "REL" THEN 8 ELSE PAGE
  <2>1. FixedEnd(b) \in Nat
    BY <1>2, FixedEndOK
  <2>2. unit \in Nat
    BY DEF PAGE
  <2>3. start = AlignUp(FixedEnd(b), unit)
    OBVIOUS
  <2> HIDE DEF start, unit
  <2> QED
    BY <2>1, <2>2, <2>3, AlignedUp
<1>17. load.offset = start /\ load.vaddr = BaseOf(b) + start /\ load.filesz = allocs - start
  OBVIOUS
<1> HIDE DEF start, load
<1>4. IsSeq(segs)
  BY <1>2, AppendSeq
<1>5. Zones(b, q, start, metas) /\ Laid(b, q) /\ InLoad(b, q, start, allocs) /\ allocs \in Nat
  BY <1>3, ZonesOK
<1> HIDE DEF metas, q, allocs
<1>18. Held(b.etype, q.sections, segs)
  BY <1>3, <1>5, <1>17, HeldOK
<1> HIDE DEF segs
<1>6. moved \in BOOLEAN /\ (~ moved => segs = b.segments /\ segs # <<>>)
  OBVIOUS
<1> HIDE DEF moved
<1>7. (segs # <<>> /\ moved => phoff = AlignUp(metas, 8)) /\ (~ moved => phoff = b.phoff)
  BY <1>6
<1>8. phoff \in Nat
  <2>1. AlignUp(metas, 8) \in Nat
    BY <1>5, AlignedUp DEF Zones
  <2> QED
    BY <1>2, <2>1
<1> HIDE DEF phoff
<1>9. AlignUp(end, 8) \in Nat /\ Clear(q.sections, segs, phoff, AlignUp(end, 8))
  BY <1>4, <1>5, <1>6, <1>7, ClearOK
<1> HIDE DEF end
<1>10. Shape(q)
  BY <1>5 DEF Zones
<1>11. c = [etype |-> q.etype, base |-> q.base, phoff |-> phoff, sections |-> q.sections,
            segments |-> segs, symbols |-> q.symbols, relocs |-> q.relocs, dynamic |-> q.dynamic]
  <2> DEFINE d == [etype |-> q.etype, base |-> q.base, phoff |-> q.phoff, sections |-> q.sections,
                   segments |-> segs, symbols |-> q.symbols, relocs |-> q.relocs,
                   dynamic |-> q.dynamic]
  <2>1. c = [[q EXCEPT !.segments = segs] EXCEPT !.phoff = phoff]
    OBVIOUS
  <2>2. Record(q)
    BY <1>10 DEF Shape
  <2>3. [q EXCEPT !.segments = segs] = d
    BY <2>2 DEF Record
  <2>4. c = [d EXCEPT !.phoff = phoff]
    BY <2>1, <2>3
  <2> HIDE DEF c
  <2> QED
    BY <2>4
<1> HIDE DEF c
<1>12. c.sections = q.sections /\ c.segments = segs /\ c.phoff = phoff
       /\ c.etype = q.etype /\ c.base = q.base
  BY <1>11
<1>13. Record(c)
  BY <1>11 DEF Record
<1>14. c.symbols = q.symbols /\ c.relocs = q.relocs /\ c.dynamic = q.dynamic
  BY <1>11
<1>15. Shape(c)
  BY <1>4, <1>8, <1>10, <1>12, <1>13, <1>14 DEF Shape
<1>16. LaidOut(b).bin = c /\ LaidOut(b).shoff = AlignUp(end, 8)
  BY <1>1
<1>19. Laid(b, c) /\ Held(c.etype, c.sections, c.segments)
  BY <1>5, <1>12, <1>14, <1>15, <1>18 DEF Laid
<1> QED
  BY <1>9, <1>12, <1>15, <1>16, <1>19

-----------------------------------------------------------------------------
(* Files                                                                    *)
TypedImage(img) ==
    /\ IsSeq(img.headers) /\ IsSeq(img.segments)
    /\ img.phoff \in Nat /\ img.shoff \in Nat /\ img.size \in Nat
    /\ \A i \in DOMAIN img.headers :
          img.headers[i].offset \in Nat /\ FileSize(img.headers[i]) \in Nat

(* The parts of a file, one by one                                          *)
LEMMA PartsAre ==
    ASSUME NEW img, TypedImage(img)
    PROVE  /\ DOMAIN Parts(img) = {0, -1} \cup (IF img.segments = <<>> THEN {} ELSE {-2})
                                  \cup {i \in DOMAIN img.headers : FileSize(img.headers[i]) > 0}
           /\ DOMAIN img.headers \subseteq Nat \ {0}
           /\ Parts(img)[0] = <<0, EHDR>>
           /\ Parts(img)[-1] = <<img.shoff, img.shoff + SHDR * (Len(img.headers) + 1)>>
           /\ img.segments # <<>> =>
                 Parts(img)[-2] = <<img.phoff, img.phoff + PHDR * Len(img.segments)>>
           /\ \A i \in DOMAIN img.headers : FileSize(img.headers[i]) > 0 =>
                 Parts(img)[i] = <<img.headers[i].offset, Beyond(img.headers[i])>>
<1> DEFINE D == {0, -1} \cup (IF img.segments = <<>> THEN {} ELSE {-2})
                \cup {i \in DOMAIN img.headers : FileSize(img.headers[i]) > 0}
           sh == <<img.shoff, img.shoff + SHDR * (Len(img.headers) + 1)>>
           ph == <<img.phoff, img.phoff + PHDR * Len(img.segments)>>
           sec(i) == <<img.headers[i].offset, Beyond(img.headers[i])>>
<1>1. Parts(img) = [p \in D |-> CASE p = 0 -> <<0, EHDR>> [] p = -1 -> sh [] p = -2 -> ph
                                  [] p > 0 -> sec(p)]
  BY DEF Parts, Beyond
<1>2. DOMAIN img.headers \subseteq Nat \ {0}
  BY SeqPlaces DEF TypedImage
<1>3. /\ 0 \in D /\ -1 \in D /\ (img.segments # <<>> => -2 \in D)
      /\ \A i \in DOMAIN img.headers : FileSize(img.headers[i]) > 0 => i \in D
  OBVIOUS
<1> HIDE DEF D, sh, ph, sec
<1>4. DOMAIN Parts(img) = D
  BY <1>1
<1>5. Parts(img)[0] = <<0, EHDR>> /\ Parts(img)[-1] = sh /\ (img.segments # <<>> => Parts(img)[-2] = ph)
  BY <1>1, <1>3
<1>6. \A i \in DOMAIN img.headers : FileSize(img.headers[i]) > 0 => Parts(img)[i] = sec(i)
  <2> SUFFICES ASSUME NEW i \in DOMAIN img.headers, FileSize(img.headers[i]) > 0
               PROVE  Parts(img)[i] = sec(i)
    OBVIOUS
  <2>1. i \in D /\ i > 0 /\ i # 0 /\ i # -1 /\ i # -2
    BY <1>2, <1>3
  <2> QED
    BY <1>1, <2>1
<1> QED
  BY <1>2, <1>4, <1>5, <1>6 DEF D, sh, ph, sec

(* A file without overlap is clear, and one that is built is without.       *)
LEMMA LoadedClear ==
    ASSUME NEW img, TypedImage(img), NoOverlap(img)
    PROVE  ClearIn(img.headers, img.segments, img.phoff)
<1> DEFINE P == Parts(img)
           H == DOMAIN img.headers
           occupied(i) == FileSize(img.headers[i]) > 0
           first(i) == img.headers[i].offset
           last(i) == Beyond(img.headers[i])
           size == PHDR * Len(img.segments)
<1>1. /\ \A p, q \in DOMAIN P : p # q => P[p][2] <= P[q][1] \/ P[q][2] <= P[p][1]
      /\ \A h \in Range(img.headers) : (h.offset % Larger(h.align, 1)) = 0
  BY DEF NoOverlap
<1>2. /\ DOMAIN P = {0, -1} \cup (IF img.segments = <<>> THEN {} ELSE {-2}) \cup {i \in H : occupied(i)}
      /\ H \subseteq Nat \ {0} /\ P[0] = <<0, EHDR>>
      /\ img.segments # <<>> => P[-2] = <<img.phoff, img.phoff + size>>
      /\ \A i \in H : occupied(i) => P[i] = <<first(i), last(i)>>
  BY PartsAre
<1>3. \A i \in H : first(i) \in Nat /\ last(i) \in Nat /\ (occupied(i) => first(i) < last(i))
  BY DEF TypedImage, Beyond
<1>4. size \in Nat /\ (img.segments # <<>> => size > 0) /\ img.phoff \in Nat
  <2>1. Len(img.segments) \in Nat /\ (img.segments # <<>> => Len(img.segments) # 0)
    BY SeqPlaces, NoElements DEF TypedImage
  <2> QED
    BY <2>1 DEF PHDR, TypedImage
<1> HIDE DEF P, H, occupied, first, last, size
<1>5. ASSUME NEW i \in H, occupied(i) PROVE i \in DOMAIN P /\ i # 0 /\ i # -2 /\ 0 \in DOMAIN P
  BY <1>2, <1>5
<1>6. ASSUME NEW i \in H, occupied(i) PROVE EHDR <= first(i)
  <2>1. P[0][2] <= P[i][1] \/ P[i][2] <= P[0][1]
    BY <1>1, <1>5, <1>6
  <2>2. EHDR <= first(i) \/ last(i) <= 0
    BY <1>2, <1>6, <2>1
  <2> QED
    BY <1>3, <1>6, <2>2
<1>7. ASSUME NEW i \in H, occupied(i), NEW j \in H, occupied(j), i # j
      PROVE last(i) <= first(j) \/ last(j) <= first(i)
  <2>1. P[i][2] <= P[j][1] \/ P[j][2] <= P[i][1]
    BY <1>1, <1>5, <1>7
  <2> QED
    BY <1>2, <1>7, <2>1
<1>8. ASSUME img.segments # <<>>
      PROVE  /\ EHDR <= img.phoff
             /\ \A i \in H : occupied(i) => last(i) <= img.phoff \/ img.phoff + size <= first(i)
  <2>1. 0 \in DOMAIN P /\ -2 \in DOMAIN P /\ P[-2] = <<img.phoff, img.phoff + size>>
    BY <1>2, <1>8
  <2>2. P[0][2] <= P[-2][1] \/ P[-2][2] <= P[0][1]
    BY <1>1, <2>1
  <2>3. EHDR <= img.phoff \/ img.phoff + size <= 0
    BY <1>2, <2>1, <2>2
  <2>4. EHDR <= img.phoff
    BY <1>4, <1>8, <2>3
  <2>5. ASSUME NEW i \in H, occupied(i) PROVE last(i) <= img.phoff \/ img.phoff + size <= first(i)
    <3>1. P[i][2] <= P[-2][1] \/ P[-2][2] <= P[i][1]
      BY <1>1, <1>5, <2>1, <2>5
    <3> QED
      BY <1>2, <2>1, <2>5, <3>1
  <2> QED
    BY <2>4, <2>5
<1>9. \A i \in H : (first(i) % Larger(img.headers[i].align, 1)) = 0
  BY <1>1 DEF H, first, Range
<1> QED
  BY <1>6, <1>7, <1>8, <1>9 DEF ClearIn, H, occupied, first, last, size

(* No two parts of a file that is built overlap.                            *)
LEMMA BuiltApart ==
    ASSUME NEW img, TypedImage(img), Clear(img.headers, img.segments, img.phoff, img.shoff),
           img.size = img.shoff + SHDR * (Len(img.headers) + 1)
    PROVE  NoOverlap(img)
<1> DEFINE P == Parts(img)
           H == {i \in DOMAIN img.headers : FileSize(img.headers[i]) > 0}
           first(i) == img.headers[i].offset
           last(i) == Beyond(img.headers[i])
           size == PHDR * Len(img.segments)
           end == img.shoff + SHDR * (Len(img.headers) + 1)
           segs == img.segments # <<>>
           Off(p, q) == P[p][2] <= P[q][1] \/ P[q][2] <= P[p][1]
<1>1. /\ DOMAIN P = {0, -1} \cup (IF img.segments = <<>> THEN {} ELSE {-2}) \cup H
      /\ P[0] = <<0, EHDR>> /\ P[-1] = <<img.shoff, end>>
      /\ segs => P[-2] = <<img.phoff, img.phoff + size>>
      /\ \A i \in H : P[i] = <<first(i), last(i)>>
  BY PartsAre
<1>2. \A i \in H : first(i) \in Nat /\ last(i) \in Nat
  BY DEF TypedImage, Beyond
<1>3. size \in Nat /\ img.phoff \in Nat /\ img.shoff \in Nat /\ end \in Nat /\ img.shoff <= end
  <2>1. Len(img.segments) \in Nat /\ Len(img.headers) \in Nat
    BY SeqPlaces DEF TypedImage
  <2> QED
    BY <2>1 DEF PHDR, SHDR, TypedImage
<1>4. /\ EHDR <= img.shoff
      /\ segs => EHDR <= img.phoff /\ img.phoff + size <= img.shoff
      /\ \A i \in H : EHDR <= first(i) /\ last(i) <= img.shoff
      /\ \A i \in H : segs => last(i) <= img.phoff \/ img.phoff + size <= first(i)
      /\ \A i, j \in H : j # i => last(i) <= first(j) \/ last(j) <= first(i)
      /\ \A i \in DOMAIN img.headers : (first(i) % Larger(img.headers[i].align, 1)) = 0
  BY DEF Clear, ClearIn
<1>5. \A i \in DOMAIN P : i = 0 \/ i = -1 \/ (i = -2 /\ segs) \/ i \in H
  BY <1>1
<1>6. img.size = end
  OBVIOUS
<1> HIDE DEF P, H, first, last, size, end, segs
<1>7. ASSUME NEW i \in H
      PROVE  /\ Off(i, 0) /\ Off(0, i) /\ Off(i, -1) /\ Off(-1, i)
             /\ segs => Off(i, -2) /\ Off(-2, i)
             /\ \A j \in H : i # j => Off(i, j)
  <2>1. Off(i, 0) /\ Off(0, i)
    BY <1>1, <1>4
  <2>2. Off(i, -1) /\ Off(-1, i)
    BY <1>1, <1>4
  <2>3. segs => Off(i, -2) /\ Off(-2, i)
    BY <1>1, <1>4
  <2>4. \A j \in H : i # j => Off(i, j)
    BY <1>1, <1>4
  <2> QED
    BY <2>1, <2>2, <2>3, <2>4
<1>8. Off(0, -1) /\ Off(-1, 0)
  BY <1>1, <1>4
<1>9. segs => Off(0, -2) /\ Off(-2, 0) /\ Off(-1, -2) /\ Off(-2, -1)
  BY <1>1, <1>4
<1> HIDE DEF Off
<1>10. \A p, q \in DOMAIN P : p # q => Off(p, q)
  <2> SUFFICES ASSUME NEW p \in DOMAIN P, NEW q \in DOMAIN P, p # q PROVE Off(p, q)
    OBVIOUS
  <2>1. CASE p \in H
    BY <1>5, <1>7, <2>1
  <2>2. CASE q \in H
    BY <1>5, <1>7, <2>2
  <2>3. CASE p \notin H /\ q \notin H
    BY <1>5, <1>8, <1>9, <2>3
  <2> QED
    BY <2>1, <2>2, <2>3
<1>11. \A p \in DOMAIN P : P[p][2] <= end
  <2> SUFFICES ASSUME NEW p \in DOMAIN P PROVE P[p][2] <= end
    OBVIOUS
  <2>1. CASE p = 0
    BY <1>1, <1>3, <1>4, <2>1 DEF EHDR
  <2>2. CASE p = -1
    BY <1>1, <1>3, <2>2
  <2>3. CASE p = -2 /\ segs
    BY <1>1, <1>3, <1>4, <2>3
  <2>4. CASE p \in H
    BY <1>1, <1>2, <1>3, <1>4, <2>4
  <2> QED
    BY <1>5, <2>1, <2>2, <2>3, <2>4
<1>12. \A h \in Range(img.headers) : (h.offset % Larger(h.align, 1)) = 0
  BY <1>4 DEF first, Range
<1> QED
  BY <1>6, <1>10, <1>11, <1>12 DEF NoOverlap, Off, P

(* Sections that are clear may keep their places.                           *)
LEMMA ClearKept ==
    ASSUME NEW c, Shape(c), ClearIn(c.sections, c.segments, c.phoff),
           Held(c.etype, c.sections, c.segments)
    PROVE  BinOK(c)
<1> DEFINE D == DOMAIN c.sections
<1>1. /\ \A i \in D : Start(c, i) = c.sections[i].offset /\ End(c, i) = Beyond(c.sections[i])
      /\ \A i \in D : Occupies(c, i) <=> FileSize(c.sections[i]) > 0
  BY DEF Start, End, Beyond, Occupies
<1>2. \A i \in Fixed(c) : i \in D /\ c.segments # <<>>
  BY DEF Fixed, ClassOf
<1>3. /\ c.segments # <<>> => EHDR <= c.phoff
      /\ \A i \in D : (Start(c, i) % Larger(c.sections[i].align, 1)) = 0
      /\ \A i \in D : Occupies(c, i) => EHDR <= Start(c, i)
  BY <1>1 DEF ClearIn
<1>4. \A i \in D : Occupies(c, i) /\ c.segments # <<>> =>
         End(c, i) <= c.phoff \/ c.phoff + PHDR * Len(c.segments) <= Start(c, i)
  BY <1>1 DEF ClearIn
<1>5. \A i, j \in D : Occupies(c, i) /\ j # i /\ Occupies(c, j) =>
         End(c, i) <= Start(c, j) \/ End(c, j) <= Start(c, i)
  BY <1>1 DEF ClearIn
<1>7. \A i \in Fixed(c) : /\ i \in D /\ c.etype # "REL" /\ "ALLOC" \in c.sections[i].flags
  BY DEF Fixed, ClassOf
<1>8. /\ c.etype # "REL" => OneDistance(c.segments)
      /\ \A i \in Fixed(c) : Occupies(c, i) => InSegment(c.segments, c.sections[i])
  BY <1>1, <1>7 DEF Held
<1> HIDE DEF D
<1>6. FixedOK(c)
  BY <1>2, <1>3, <1>4, <1>5, <1>8 DEF FixedOK
<1> QED
  BY <1>6 DEF BinOK

(* The object that was written is as if it had been loaded.                 *)
LEMMA SettledOK ==
    ASSUME NEW c, Shape(c), ClearIn(c.sections, c.segments, c.phoff),
           Held(c.etype, c.sections, c.segments)
    PROVE  BinOK(Settled(c))
<1> DEFINE one(i) == [c.sections[i] EXCEPT !.loaded = "ALLOC" \in c.sections[i].flags,
                                           !.dirty = FALSE]
           x == [i \in DOMAIN c.sections |-> one(i)]
           p == Put(c, x)
<1>1. Settled(c) = p
  BY DEF Settled, Put
<1>2. IsSeq(c.sections) /\ Record(c) /\ \A i \in DOMAIN c.sections : IsSec(c.sections[i])
  BY DEF Shape
<1>3. ASSUME NEW i \in DOMAIN c.sections
      PROVE  /\ IsSec(one(i)) /\ one(i).offset = c.sections[i].offset
             /\ FileSize(one(i)) = FileSize(c.sections[i]) /\ one(i).align = c.sections[i].align
             /\ one(i).size = c.sections[i].size /\ one(i).addr = c.sections[i].addr
             /\ one(i).flags = c.sections[i].flags
  <2> DEFINE s == c.sections[i]
             t == one(i)
             loaded == "ALLOC" \in c.sections[i].flags
  <2>1. IsSec(s)
    BY <1>2
  <2>2. t = [[s EXCEPT !.loaded = loaded] EXCEPT !.dirty = FALSE]
    OBVIOUS
  <2>3. loaded \in BOOLEAN
    OBVIOUS
  <2> HIDE DEF loaded, one, s
  <2>4. HasFields(t)
    <3>1. HasFields([s EXCEPT !.loaded = loaded])
      BY <2>1, FieldSet DEF IsSec
    <3> HIDE DEF t
    <3> QED
      BY <2>2, <3>1, FieldSet
  <2>5. /\ t.offset = s.offset /\ t.size = s.size /\ t.align = s.align /\ t.loaded = loaded
        /\ t.dirty = FALSE /\ t.data = s.data /\ t.type = s.type /\ t.kind = s.kind
        /\ t.addr = s.addr /\ t.flags = s.flags
    BY <2>1, <2>2 DEF IsSec, HasFields, Fields
  <2> HIDE DEF t
  <2>6. IsSec(t)
    BY <2>1, <2>3, <2>4, <2>5 DEF IsSec
  <2>7. FileSize(t) = FileSize(s)
    BY <2>5 DEF FileSize
  <2> QED
    BY <2>5, <2>6, <2>7 DEF t, s
<1> HIDE DEF one, p
<1>4. x = [i \in DOMAIN c.sections |-> x[i]]
  OBVIOUS
<1>5. IsSeq(x) /\ DOMAIN x = DOMAIN c.sections
  BY <1>2, <1>4, SeqAlong
<1>6. \A i \in DOMAIN c.sections : x[i] = one(i)
  OBVIOUS
<1> HIDE DEF x
<1>7. /\ Record(p) /\ p.sections = x
      /\ p.etype = c.etype /\ p.base = c.base /\ p.phoff = c.phoff
      /\ p.segments = c.segments /\ p.symbols = c.symbols
      /\ p.relocs = c.relocs /\ p.dynamic = c.dynamic
  BY <1>2, PutRecord DEF p
<1>8. Shape(p)
  BY <1>3, <1>5, <1>6, <1>7 DEF Shape
<1>9. /\ \A i \in DOMAIN x : x[i].offset = c.sections[i].offset
      /\ \A i \in DOMAIN x : x[i].align = c.sections[i].align
      /\ \A i \in DOMAIN x : FileSize(x[i]) = FileSize(c.sections[i])
  BY <1>3, <1>5, <1>6
<1>10. \A i \in DOMAIN x : Beyond(x[i]) = Beyond(c.sections[i])
  BY <1>9 DEF Beyond
<1>11. ClearIn(x, p.segments, p.phoff)
  BY <1>5, <1>7, <1>9, <1>10 DEF ClearIn
<1>13. Held(p.etype, p.sections, p.segments)
  <2>1. \A i \in DOMAIN x : /\ x[i].size = c.sections[i].size /\ x[i].addr = c.sections[i].addr
                            /\ x[i].flags = c.sections[i].flags
    BY <1>3, <1>5, <1>6
  <2> QED
    BY <1>5, <1>7, <1>9, <2>1 DEF Held, InSegment
<1>12. BinOK(p)
  BY <1>7, <1>8, <1>11, <1>13, ClearKept
<1> QED
  BY <1>1, <1>12

(* A file that may be loaded and written again                              *)
Loadable(img) == WellFormed(img) /\ Held(img.etype, img.headers, img.segments)

(* What is written, as it is laid out                                       *)
LEMMA ImageOfOK ==
    ASSUME NEW c, Shape(c), NEW shoff \in Nat, Clear(c.sections, c.segments, c.phoff, shoff),
           Held(c.etype, c.sections, c.segments)
    PROVE  Loadable(ImageOf(c, shoff))
<1> DEFINE img == ImageOf(c, shoff)
           D == DOMAIN c.sections
           header(i) ==
             LET s == c.sections[i]
             IN [name |-> OffsetOf(SectionNames(c), i + 1), type |-> s.type, flags |-> s.flags,
                 addr |-> s.addr, offset |-> s.offset, size |-> s.size, link |-> s.link,
                 info |-> s.info, align |-> s.align, entsize |-> s.entsize]
           headers == [i \in D |-> header(i)]
           contents == [i \in D |-> IF c.sections[i].type = "NOBITS" THEN NoData
                                    ELSE c.sections[i].data]
<1>1. /\ img.phoff = c.phoff /\ img.segments = c.segments /\ img.shoff = shoff
      /\ img.size = shoff + SHDR * (Len(c.sections) + 1)
      /\ img.headers = headers /\ img.contents = contents /\ img.etype = c.etype
  BY DEF ImageOf
<1>2. /\ IsSeq(c.sections) /\ IsSeq(c.segments) /\ c.phoff \in Nat
      /\ \A i \in D : IsSec(c.sections[i])
  BY DEF Shape
<1>3. \A i \in D : /\ header(i).offset = c.sections[i].offset /\ header(i).size = c.sections[i].size
                   /\ header(i).align = c.sections[i].align /\ header(i).type = c.sections[i].type
                   /\ header(i).addr = c.sections[i].addr /\ header(i).flags = c.sections[i].flags
  OBVIOUS
<1>4. \A i \in D : headers[i] = header(i)
  OBVIOUS
<1>5. headers = [i \in D |-> headers[i]]
  OBVIOUS
<1> HIDE DEF header, headers, img
<1>6. IsSeq(headers) /\ Len(headers) = Len(c.sections) /\ DOMAIN headers = D
  BY <1>2, <1>5, SeqAlong
<1>7. \A i \in D : /\ headers[i].offset = c.sections[i].offset
                   /\ headers[i].size = c.sections[i].size
                   /\ headers[i].align = c.sections[i].align
                   /\ headers[i].type = c.sections[i].type
                   /\ headers[i].addr = c.sections[i].addr
                   /\ headers[i].flags = c.sections[i].flags
                   /\ FileSize(headers[i]) = FileSize(c.sections[i])
  BY <1>3, <1>4 DEF FileSize
<1>8. \A i \in D : Beyond(headers[i]) = Beyond(c.sections[i])
  BY <1>7 DEF Beyond
<1>9. ASSUME NEW i \in D
      PROVE  /\ IsSeq(contents[i].of)
             /\ headers[i].type = "NOBITS" => contents[i] = NoData
  <2>1. NoData.of = <<>> /\ <<>> \in Seq({0})
    BY DEF NoData
  <2>2. IsSeq(NoData.of)
    BY <2>1, AnySeq
  <2> QED
    BY <1>2, <1>7, <2>2 DEF IsSec
<1> HIDE DEF contents
<1>10. \A i \in D : /\ headers[i].offset \in Nat /\ headers[i].size \in Nat
                    /\ Aligned(headers[i].align) /\ FileSize(headers[i]) \in Nat
  BY <1>2, <1>7 DEF IsSec, FileSize
<1>11. shoff + SHDR * (Len(c.sections) + 1) \in Nat
  BY <1>2, SeqPlaces DEF SHDR
<1>12. TypedImage(img)
  BY <1>1, <1>2, <1>6, <1>10, <1>11 DEF TypedImage
<1>13. Clear(headers, c.segments, c.phoff, shoff)
  <2>1. ClearIn(headers, c.segments, c.phoff)
    BY <1>6, <1>7, <1>8 DEF Clear, ClearIn
  <2> QED
    BY <1>6, <1>7, <1>8, <2>1 DEF Clear
<1>14. NoOverlap(img)
  BY <1>1, <1>6, <1>12, <1>13, BuiltApart
<1>15. {img.phoff, img.shoff, img.size} \subseteq Nat
  BY <1>12 DEF TypedImage
<1>16. WellFormed(img)
  BY <1>1, <1>2, <1>6, <1>9, <1>10, <1>14, <1>15 DEF WellFormed
<1>17. Held(img.etype, img.headers, img.segments)
  BY <1>1, <1>6, <1>7 DEF Held, InSegment
<1> QED
  BY <1>16, <1>17 DEF img, Loadable

(* lielf_build(), and what is written                                       *)
LEMMA BuiltOK ==
    ASSUME NEW b, BinOK(b)
    PROVE  BinOK(Built(b).bin) /\ Loadable(Built(b).image)
<1> DEFINE r == Regenerated(b)
           c == LaidOut(r).bin
           shoff == LaidOut(r).shoff
<1>1. BinOK(r)
  BY RegeneratedOK
<1>2. Built(b).bin = Settled(c) /\ Built(b).image = ImageOf(c, shoff)
  BY DEF Built
<1> HIDE DEF r
<1>3. /\ Shape(c) /\ shoff \in Nat /\ Clear(c.sections, c.segments, c.phoff, shoff)
      /\ Held(c.etype, c.sections, c.segments)
  BY <1>1, LaidOutOK
<1> HIDE DEF c, shoff
<1>4. BinOK(Settled(c))
  BY <1>3, SettledOK DEF Clear
<1>5. Loadable(ImageOf(c, shoff))
  BY <1>3, ImageOfOK
<1> QED
  BY <1>2, <1>4, <1>5

(* lielf_load_mem()                                                         *)
LEMMA LoadedSectionOK ==
    ASSUME NEW img, WellFormed(img), NEW i \in DOMAIN img.headers
    PROVE  LET s == LoadedSection(img, i)
               h == img.headers[i]
           IN /\ IsSec(s) /\ s.offset = h.offset /\ s.align = h.align
              /\ FileSize(s) = FileSize(h) /\ s.size = h.size /\ s.addr = h.addr
              /\ s.flags = h.flags
<1> DEFINE s == LoadedSection(img, i)
           h == img.headers[i]
           name == NameOf(img, i)
           kind == KindOf(img, i)
           isRela == h.type = "RELA" /\ h.link # 0 /\ img.headers[h.link].type = "DYNSYM"
           target == IF h.type = "RELA" THEN NameOf(img, h.info) ELSE ""
           loaded == "ALLOC" \in h.flags
<1>1. h.offset \in Nat /\ h.size \in Nat /\ Aligned(h.align) /\ IsSeq(img.contents[i].of)
      /\ (h.type = "NOBITS" => img.contents[i] = NoData)
  BY DEF WellFormed
<1>2. s = [name |-> name, type |-> h.type, flags |-> h.flags, addr |-> h.addr,
           offset |-> h.offset, size |-> h.size, link |-> h.link, info |-> h.info,
           align |-> h.align, entsize |-> h.entsize, data |-> img.contents[i],
           kind |-> kind, loaded |-> loaded, dirty |-> FALSE,
           relaDynamic |-> isRela, relaTarget |-> target]
  BY DEF LoadedSection
<1>3. loaded \in BOOLEAN
  OBVIOUS
<1>4. h.type = "NOBITS" => kind # "rela"
  <2>1. "NOBITS" \notin DOMAIN TableKind
    BY DEF TableKind
  <2> QED
    BY <2>1 DEF KindOf
<1>5. NoData.of = <<>>
  BY DEF NoData
<1> HIDE DEF s, name, kind, isRela, target, loaded, h
<1>6. HasFields(s)
  BY <1>2 DEF HasFields, Fields
<1>7. /\ s.type = h.type /\ s.offset = h.offset /\ s.size = h.size /\ s.align = h.align
      /\ s.data = img.contents[i] /\ s.kind = kind /\ s.loaded = loaded /\ s.dirty = FALSE
      /\ s.addr = h.addr /\ s.flags = h.flags
  BY <1>2
<1>8. IsSec(s)
  BY <1>1, <1>3, <1>4, <1>5, <1>6, <1>7 DEF IsSec
<1>9. FileSize(s) = FileSize(h)
  BY <1>7 DEF FileSize
<1> QED
  BY <1>7, <1>8, <1>9 DEF s, h

(* The entries of tables, from one table after the other                    *)
LEMMA EntriesSeq ==
    ASSUME NEW sections, IsSeq(sections), \A i \in DOMAIN sections : IsSec(sections[i])
    PROVE  /\ \A kind : IsSeq(LoadedSymbols(sections, kind))
           /\ IsSeq(LoadedRelocs(sections)) /\ IsSeq(LoadedDynamic(sections))
<1>1. ASSUME NEW parts, parts = [i \in DOMAIN sections |-> parts[i]],
             \A i \in DOMAIN sections : IsSeq(parts[i])
      PROVE  IsSeq(FlattenSeq(parts))
  <2>1. IsSeq(parts) /\ DOMAIN parts = DOMAIN sections
    BY <1>1, SeqAlong
  <2> QED
    BY <1>1, <2>1, Flat
<1>2. IsSeq(<<>>)
  <2>1. <<>> \in Seq({0})
    OBVIOUS
  <2> QED
    BY <2>1, AnySeq
<1>3. \A i \in DOMAIN sections : IsSeq(sections[i].data.of)
  BY DEF IsSec
<1>4. ASSUME NEW kind PROVE IsSeq(LoadedSymbols(sections, kind))
  <2> DEFINE row(s, k) == [name |-> IF s.link = 0 THEN ""
                                    ELSE StringAt(sections[s.link].data.of, s.data.of[k].name),
                           local |-> s.data.of[k].local, shndx |-> s.data.of[k].shndx,
                           value |-> s.data.of[k].value]
             entries(s) == [k \in DOMAIN s.data.of |-> row(s, k)]
             parts == [i \in DOMAIN sections |->
                         IF sections[i].kind = kind THEN entries(sections[i]) ELSE <<>>]
  <2>1. LoadedSymbols(sections, kind) = FlattenSeq(parts)
    BY DEF LoadedSymbols
  <2> HIDE DEF row
  <2>2. \A i \in DOMAIN sections : IsSeq(entries(sections[i]))
    <3> SUFFICES ASSUME NEW i \in DOMAIN sections PROVE IsSeq(entries(sections[i]))
      OBVIOUS
    <3> DEFINE y == entries(sections[i])
    <3>1. y = [k \in DOMAIN sections[i].data.of |-> y[k]]
      OBVIOUS
    <3> HIDE DEF y
    <3>2. IsSeq(y)
      BY <1>3, <3>1, SeqAlong
    <3> QED
      BY <3>2 DEF y
  <2> HIDE DEF entries
  <2>3. parts = [i \in DOMAIN sections |-> parts[i]] /\ \A i \in DOMAIN sections : IsSeq(parts[i])
    BY <1>2, <2>2
  <2> HIDE DEF parts
  <2> QED
    BY <1>1, <2>1, <2>3
<1>5. IsSeq(LoadedRelocs(sections))
  <2> DEFINE row(s, k) == [target |-> s.relaTarget, offset |-> s.data.of[k].offset,
                           sym |-> s.data.of[k].sym, dynamic |-> s.relaDynamic]
             entries(s) == [k \in DOMAIN s.data.of |-> row(s, k)]
             parts == [i \in DOMAIN sections |->
                         IF sections[i].kind = "rela" THEN entries(sections[i]) ELSE <<>>]
  <2>1. LoadedRelocs(sections) = FlattenSeq(parts)
    BY DEF LoadedRelocs
  <2> HIDE DEF row
  <2>2. \A i \in DOMAIN sections : IsSeq(entries(sections[i]))
    <3> SUFFICES ASSUME NEW i \in DOMAIN sections PROVE IsSeq(entries(sections[i]))
      OBVIOUS
    <3> DEFINE y == entries(sections[i])
    <3>1. y = [k \in DOMAIN sections[i].data.of |-> y[k]]
      OBVIOUS
    <3> HIDE DEF y
    <3>2. IsSeq(y)
      BY <1>3, <3>1, SeqAlong
    <3> QED
      BY <3>2 DEF y
  <2> HIDE DEF entries
  <2>3. parts = [i \in DOMAIN sections |-> parts[i]] /\ \A i \in DOMAIN sections : IsSeq(parts[i])
    BY <1>2, <2>2
  <2> HIDE DEF parts
  <2> QED
    BY <1>1, <2>1, <2>3
<1>6. IsSeq(LoadedDynamic(sections))
  <2> DEFINE parts == [i \in DOMAIN sections |->
                         IF sections[i].kind = "dynamic" THEN sections[i].data.of ELSE <<>>]
  <2>1. LoadedDynamic(sections) = FlattenSeq(parts)
    BY DEF LoadedDynamic
  <2>2. parts = [i \in DOMAIN sections |-> parts[i]] /\ \A i \in DOMAIN sections : IsSeq(parts[i])
    BY <1>2, <1>3
  <2> HIDE DEF parts
  <2> QED
    BY <1>1, <2>1, <2>2
<1> QED
  BY <1>4, <1>5, <1>6

(* An object that is loaded from a well-formed file can be laid out.        *)
LEMMA LoadedOK ==
    ASSUME NEW img, Loadable(img)
    PROVE  BinOK(Loaded(img))
<1> DEFINE x == [i \in DOMAIN img.headers |-> LoadedSection(img, i)]
           symbols == [d \in BOOLEAN |-> LoadedSymbols(x, SymtabName(d))]
           b == [etype |-> img.etype, base |-> DefaultBase(img.etype), phoff |-> img.phoff,
                 sections |-> x, segments |-> img.segments, symbols |-> symbols,
                 relocs |-> LoadedRelocs(x), dynamic |-> LoadedDynamic(x)]
<1>1. Loaded(img) = b
  BY DEF Loaded
<1>2. /\ IsSeq(img.headers) /\ IsSeq(img.segments) /\ img.phoff \in Nat /\ NoOverlap(img)
      /\ img.shoff \in Nat /\ img.size \in Nat
      /\ \A i \in DOMAIN img.headers : img.headers[i].offset \in Nat /\ img.headers[i].size \in Nat
      /\ WellFormed(img) /\ Held(img.etype, img.headers, img.segments)
  BY DEF Loadable, WellFormed
<1>3. TypedImage(img)
  BY <1>2 DEF TypedImage, FileSize
<1>4. ClearIn(img.headers, img.segments, img.phoff)
  BY <1>2, <1>3, LoadedClear
<1>5. x = [i \in DOMAIN img.headers |-> x[i]]
  OBVIOUS
<1>6. \A i \in DOMAIN img.headers :
         /\ IsSec(x[i]) /\ x[i].offset = img.headers[i].offset
         /\ x[i].align = img.headers[i].align /\ FileSize(x[i]) = FileSize(img.headers[i])
         /\ x[i].size = img.headers[i].size /\ x[i].addr = img.headers[i].addr
         /\ x[i].flags = img.headers[i].flags
  BY <1>2, LoadedSectionOK
<1> HIDE DEF x
<1>7. IsSeq(x) /\ DOMAIN x = DOMAIN img.headers
  BY <1>2, <1>5, SeqAlong
<1>8. \A i \in DOMAIN img.headers : Beyond(x[i]) = Beyond(img.headers[i])
  BY <1>6 DEF Beyond
<1>9. ClearIn(x, img.segments, img.phoff)
  BY <1>4, <1>6, <1>7, <1>8 DEF ClearIn
<1>10. /\ symbols = [d \in BOOLEAN |-> symbols[d]]
       /\ IsSeq(symbols[FALSE]) /\ IsSeq(symbols[TRUE])
  <2>1. \A kind : IsSeq(LoadedSymbols(x, kind))
    BY <1>6, <1>7, EntriesSeq
  <2> QED
    BY <2>1
<1>11. IsSeq(LoadedRelocs(x)) /\ IsSeq(LoadedDynamic(x))
  BY <1>6, <1>7, EntriesSeq
<1> HIDE DEF symbols
<1>12. Record(b)
  BY DEF Record
<1>16. DefaultBase(img.etype) \in Int
  BY DEF DefaultBase
<1>13. /\ b.phoff = img.phoff /\ b.sections = x /\ b.segments = img.segments
       /\ b.etype = img.etype /\ b.base = DefaultBase(img.etype)
       /\ b.symbols = symbols /\ b.relocs = LoadedRelocs(x) /\ b.dynamic = LoadedDynamic(x)
  OBVIOUS
<1> HIDE DEF b
<1>14. Shape(b)
  BY <1>2, <1>6, <1>7, <1>10, <1>11, <1>12, <1>13, <1>16 DEF Shape
<1>17. Held(b.etype, b.sections, b.segments)
  BY <1>2, <1>6, <1>7, <1>13 DEF Held, InSegment
<1>15. BinOK(b)
  BY <1>9, <1>13, <1>14, <1>17, ClearKept
<1> QED
  BY <1>1, <1>15

-----------------------------------------------------------------------------
(* How many of some places there are up to one of them: where its element   *)
(* is among those that are kept                                             *)
UpTo(S, i) == {j \in S : j <= i}
Place(S, i) == Cardinality(UpTo(S, i))

(* It goes up by one at each of them.                                       *)
LEMMA PlaceStep ==
    ASSUME NEW n \in Nat, NEW S \in SUBSET (1 .. n)
    PROVE  /\ \A k \in 0 .. n : Place(S, k) \in Nat
           /\ Place(S, 0) = 0 /\ Place(S, n) = Cardinality(S)
           /\ \A k \in 1 .. n : Place(S, k) = IF k \in S THEN Place(S, k - 1) + 1
                                              ELSE Place(S, k - 1)
<1>1. IsFiniteSet(1 .. n)
  BY FS_Interval
<1>2. \A k : IsFiniteSet(UpTo(S, k))
  <2>1. \A k : UpTo(S, k) \subseteq 1 .. n
    BY DEF UpTo
  <2> QED
    BY <1>1, <2>1, FS_Subset
<1>3. \A k : Place(S, k) \in Nat
  BY <1>2, FS_CardinalityType DEF Place
<1>7. \A j \in S : j \in Nat /\ 1 <= j /\ j <= n
  OBVIOUS
<1>4. UpTo(S, 0) = {} /\ UpTo(S, n) = S
  <2>1. \A j \in S : ~ (j <= 0)
    BY <1>7
  <2> QED
    BY <1>7, <2>1 DEF UpTo
<1>5. Place(S, 0) = 0 /\ Place(S, n) = Cardinality(S)
  BY <1>4, FS_EmptySet DEF Place
<1>6. ASSUME NEW k \in 1 .. n
      PROVE  Place(S, k) = IF k \in S THEN Place(S, k - 1) + 1 ELSE Place(S, k - 1)
  <2>1. CASE k \in S
    <3>3. \A j \in S : (j <= k <=> j <= k - 1 \/ j = k) /\ ~ (k <= k - 1)
      BY <1>7
    <3>1. UpTo(S, k) = UpTo(S, k - 1) \cup {k} /\ k \notin UpTo(S, k - 1)
      BY <2>1, <3>3, Zenon DEF UpTo
    <3>2. Cardinality(UpTo(S, k - 1) \cup {k}) = Cardinality(UpTo(S, k - 1)) + 1
      BY <1>2, <3>1, FS_AddElement
    <3> QED
      BY <2>1, <3>1, <3>2 DEF Place
  <2>2. CASE k \notin S
    <3>2. \A j \in S : j # k /\ (j <= k <=> j <= k - 1)
      BY <1>7, <2>2
    <3>1. UpTo(S, k) = UpTo(S, k - 1)
      BY <3>2 DEF UpTo
    <3> QED
      BY <2>2, <3>1 DEF Place
  <2> QED
    BY <2>1, <2>2
<1> QED
  BY <1>3, <1>5, <1>6

(* What is kept of the first places                                         *)
KeptTo(x, S, f, m) ==
    /\ Len(f[m]) = Place(S, m)
    /\ \A i \in S : i <= m => Place(S, i) \in 1 .. Place(S, m) /\ f[m][Place(S, i)] = x[i]
    /\ \A k \in 1 .. Place(S, m) : \E i \in S : i <= m /\ k = Place(S, i)

(* One place more is kept behind the others.                                *)
LEMMA KeptOne ==
    ASSUME NEW x, IsSeq(x), NEW S \in SUBSET (1 .. Len(x)), NEW f, NEW m \in 1 .. Len(x),
           KeptTo(x, S, f, m - 1), IsSeq(f[m - 1]),
           f[m] = f[m - 1] \o (IF m \in S THEN <<x[m]>> ELSE <<>>)
    PROVE  KeptTo(x, S, f, m)
<1> DEFINE c == Place(S, m - 1)
           y == f[m - 1]
           z == IF m \in S THEN <<x[m]>> ELSE <<>>
<1>1. Len(x) \in Nat /\ m - 1 \in 0 .. Len(x) /\ m \in 0 .. Len(x)
  BY SeqPlaces
<1>2. /\ c \in Nat
      /\ m \in S => Place(S, m) = c + 1
      /\ m \notin S => Place(S, m) = c
  <2>1. /\ \A k \in 0 .. Len(x) : Place(S, k) \in Nat
        /\ \A k \in 1 .. Len(x) : Place(S, k) = IF k \in S THEN Place(S, k - 1) + 1
                                              ELSE Place(S, k - 1)
    BY <1>1, PlaceStep
  <2> QED
    BY <1>1, <2>1
<1>3. /\ Len(y) = c
      /\ \A i \in S : i <= m - 1 => Place(S, i) \in 1 .. c /\ y[Place(S, i)] = x[i]
      /\ \A k \in 1 .. c : \E i \in S : i <= m - 1 /\ k = Place(S, i)
  BY DEF KeptTo
<1>4. \A i \in S : i \in Nat /\ (i <= m => i <= m - 1 \/ i = m)
  BY <1>1
<1>5. /\ IsSeq(z) /\ Len(z) \in Nat
      /\ m \in S => Len(z) = 1 /\ z[1] = x[m]
      /\ m \notin S => Len(z) = 0
  <2>1. CASE m \in S
    <3>1. z = <<x[m]>> /\ <<x[m]>> \in Seq({x[m]}) /\ Len(<<x[m]>>) = 1 /\ <<x[m]>>[1] = x[m]
      BY <2>1
    <3> HIDE DEF z
    <3> QED
      BY <2>1, <3>1, AnySeq
  <2>2. CASE m \notin S
    <3>1. z = <<>> /\ <<>> \in Seq({0}) /\ Len(<<>>) = 0
      BY <2>2
    <3> HIDE DEF z
    <3>2. IsSeq(<<>>)
      BY <3>1, AnySeq
    <3> QED
      BY <2>2, <3>1, <3>2
  <2> QED
    BY <2>1, <2>2
<1>6. f[m] = y \o z
  OBVIOUS
<1> HIDE DEF z
<1>11. Place(S, m) = c + Len(z) /\ Len(z) \in Nat
  <2>1. CASE m \in S
    BY <1>2, <1>5, <2>1
  <2>2. CASE m \notin S
    BY <1>2, <1>5, <2>2
  <2> QED
    BY <2>1, <2>2
<1>12. IsSeq(y)
  OBVIOUS
<1> HIDE DEF c, y
<1>7. /\ Len(f[m]) = c + Len(z)
      /\ \A i \in 1 .. c + Len(z) : f[m][i] = IF i <= c THEN y[i] ELSE z[i - c]
  <2>1. /\ Len(y \o z) = Len(y) + Len(z)
        /\ \A i \in 1 .. Len(y) + Len(z) : (y \o z)[i] = IF i <= Len(y) THEN y[i] ELSE z[i - Len(y)]
    BY <1>5, <1>12, BothSeq
  <2> QED
    BY <1>3, <1>6, <2>1
<1>8. Len(f[m]) = Place(S, m)
  BY <1>7, <1>11
<1>9. ASSUME NEW i \in S, i <= m
      PROVE  Place(S, i) \in 1 .. Place(S, m) /\ f[m][Place(S, i)] = x[i]
  <2>1. CASE i <= m - 1
    <3>1. Place(S, i) \in 1 .. c /\ y[Place(S, i)] = x[i]
      BY <1>3, <2>1
    <3>2. Place(S, i) \in 1 .. c + Len(z) /\ Place(S, i) <= c
      BY <1>2, <1>5, <3>1
    <3> QED
      BY <1>7, <1>11, <3>1, <3>2
  <2>2. CASE i = m
    <3>1. Place(S, m) = c + 1 /\ Len(z) = 1 /\ z[1] = x[m]
      BY <1>5, <1>11, <2>2
    <3>2. f[m][c + 1] = z[1]
      <4>1. c + 1 \in 1 .. c + Len(z) /\ ~ (c + 1 <= c) /\ (c + 1) - c = 1
        BY <1>2, <3>1
      <4> QED
        BY <1>7, <4>1
    <3>3. c + 1 \in 1 .. c + 1
      BY <1>2
    <3> QED
      BY <2>2, <3>1, <3>2, <3>3
  <2> QED
    BY <1>4, <1>9, <2>1, <2>2
<1>10. ASSUME NEW k \in 1 .. Place(S, m) PROVE \E i \in S : i <= m /\ k = Place(S, i)
  <2>1. CASE k \in 1 .. c
    <3>1. PICK i \in S : i <= m - 1 /\ k = Place(S, i)
      BY <1>3, <2>1
    <3>2. i <= m
      BY <1>4, <3>1
    <3> QED
      BY <3>1, <3>2
  <2>2. CASE k \notin 1 .. c
    <3>1. m \in S /\ k = c + 1 /\ k = Place(S, m)
      BY <1>2, <2>2
    <3> QED
      BY <3>1
  <2> QED
    BY <2>1, <2>2
<1> QED
  BY <1>8, <1>9, <1>10 DEF KeptTo

(* Kept keeps the elements in their order.                                  *)
LEMMA KeptAt ==
    ASSUME NEW x, IsSeq(x), NEW S \in SUBSET (DOMAIN x)
    PROVE  /\ IsSeq(Kept(x, S)) /\ Len(Kept(x, S)) = Cardinality(S) /\ Cardinality(S) \in Nat
           /\ \A i \in S : /\ Place(S, i) \in 1 .. Cardinality(S)
                           /\ Kept(x, S)[Place(S, i)] = x[i]
           /\ \A k \in 1 .. Cardinality(S) : \E i \in S : k = Place(S, i)
<1> DEFINE n == Len(x)
           parts == [i \in DOMAIN x |-> IF i \in S THEN <<x[i]>> ELSE <<>>]
<1>1. n \in Nat /\ DOMAIN x = 1 .. n
  BY SeqPlaces
<1>2. parts = [i \in DOMAIN x |-> parts[i]]
  OBVIOUS
<1>3. \A i \in DOMAIN x : parts[i] = IF i \in S THEN <<x[i]>> ELSE <<>>
  OBVIOUS
<1>4. Kept(x, S) = FlattenSeq(parts)
  BY DEF Kept
<1> HIDE DEF parts
<1>5. IsSeq(parts) /\ Len(parts) = n /\ DOMAIN parts = DOMAIN x
  BY <1>2, SeqAlong
<1>6. \A i \in DOMAIN x : IsSeq(parts[i])
  <2> SUFFICES ASSUME NEW i \in DOMAIN x PROVE IsSeq(parts[i])
    OBVIOUS
  <2>1. <<x[i]>> \in Seq({x[i]}) /\ <<>> \in Seq({x[i]})
    OBVIOUS
  <2> QED
    BY <1>3, <2>1, AnySeq
<1>7. PICK f : Flattens(parts, f)
  BY <1>5, <1>6, FlatSteps
<1>8. /\ f[0] = <<>> /\ FlattenSeq(parts) = f[n]
      /\ \A k \in 0 .. n : IsSeq(f[k])
      /\ \A k \in 1 .. n : f[k] = f[k - 1] \o (IF k \in S THEN <<x[k]>> ELSE <<>>)
  BY <1>1, <1>3, <1>5, <1>7 DEF Flattens
<1> HIDE DEF n
<1>9. S \in SUBSET (1 .. n)
  BY <1>1
<1>10. KeptTo(x, S, f, 0)
  <2>1. Place(S, 0) = 0 /\ Len(<<>>) = 0 /\ 1 .. 0 = {} /\ \A i \in S : ~ (i <= 0)
    BY <1>1, <1>9, PlaceStep
  <2> QED
    BY <1>8, <2>1 DEF KeptTo
<1> DEFINE Bad == {m \in 0 .. n : ~ KeptTo(x, S, f, m)}
<1>11. Bad = {}
  <2> SUFFICES ASSUME Bad # {} PROVE FALSE
    OBVIOUS
  <2>1. PICK m \in Bad : \A t \in Bad : m <= t
    <3>1. Bad \in SUBSET Nat
      OBVIOUS
    <3> QED
      BY <3>1, LeastNat
  <2>2. m # 0
    BY <1>10, <2>1
  <2>3. m \in 1 .. n /\ m - 1 \in 0 .. n /\ m - 1 \notin Bad
    BY <1>1, <2>1, <2>2
  <2>4. KeptTo(x, S, f, m - 1)
    BY <2>3
  <2>5. KeptTo(x, S, f, m)
    BY <1>8, <1>9, <2>3, <2>4, KeptOne DEF n
  <2> QED
    BY <2>1, <2>5
<1>12. KeptTo(x, S, f, n) /\ Place(S, n) = Cardinality(S) /\ Cardinality(S) \in Nat
  <2>1. n \in 0 .. n
    BY <1>1
  <2> QED
    BY <1>1, <1>9, <1>11, <2>1, PlaceStep
<1>13. IsSeq(f[n]) /\ Kept(x, S) = f[n] /\ \A i \in S : i <= n
  BY <1>1, <1>4, <1>8, <1>9
<1> QED
  BY <1>12, <1>13 DEF KeptTo

(* The local symbols come first, and Remap says where each of them went.    *)
LEMMA LocalsFirstIs ==
    ASSUME NEW x, IsSeq(x)
    PROVE  LET y == LocalsFirst(x)
               n == Cardinality(Locals(x))
           IN /\ IsSeq(y) /\ Len(y) = Len(x) /\ n \in Nat /\ Cardinality(Locals(y)) = n
              /\ \A i \in DOMAIN x : Remap(x, i) \in DOMAIN y /\ y[Remap(x, i)] = x[i]
              /\ \A k \in DOMAIN y : y[k].local <=> k < n + 1
<1> DEFINE A == Locals(x)
           B == DOMAIN x \ Locals(x)
           y == LocalsFirst(x)
           n == Cardinality(A)
           m == Cardinality(B)
           u == Kept(x, A)
           v == Kept(x, B)
<1>1. Len(x) \in Nat /\ DOMAIN x = 1 .. Len(x)
  BY SeqPlaces
<1>2. A \in SUBSET (DOMAIN x) /\ B \in SUBSET (DOMAIN x)
  BY DEF Locals
<1>3. /\ \A i \in DOMAIN x : i \in A <=> x[i].local
      /\ \A i \in DOMAIN x : i \in B <=> ~ x[i].local
  BY DEF Locals
<1>4. /\ IsSeq(u) /\ Len(u) = n /\ n \in Nat
      /\ \A i \in A : Place(A, i) \in 1 .. n /\ u[Place(A, i)] = x[i]
      /\ \A k \in 1 .. n : \E i \in A : k = Place(A, i)
  BY <1>2, KeptAt
<1>5. /\ IsSeq(v) /\ Len(v) = m /\ m \in Nat
      /\ \A i \in B : Place(B, i) \in 1 .. m /\ v[Place(B, i)] = x[i]
      /\ \A k \in 1 .. m : \E i \in B : k = Place(B, i)
  BY <1>2, KeptAt
<1>6. y = u \o v
  BY DEF LocalsFirst
<1>7. n + m = Len(x)
  <2>1. IsFiniteSet(DOMAIN x) /\ Cardinality(DOMAIN x) = Len(x)
    <3>1. IsFiniteSet(1 .. Len(x))
          /\ Cardinality(1 .. Len(x)) = IF 1 > Len(x) THEN 0 ELSE Len(x) - 1 + 1
      BY <1>1, FS_Interval
    <3> HIDE DEF n, m
    <3> QED
      BY <1>1, <3>1
  <2>2. Cardinality(B) = Cardinality(DOMAIN x) - Cardinality((DOMAIN x) \cap A)
    BY <2>1, FS_Difference
  <2>3. (DOMAIN x) \cap A = A
    BY <1>2
  <2>4. m = Len(x) - n
    BY <2>1, <2>2, <2>3
  <2> HIDE DEF n, m
  <2> QED
    BY <1>1, <1>4, <1>5, <2>4
<1>8. \A i \in DOMAIN x : Remap(x, i) = IF x[i].local THEN Place(A, i) ELSE n + Place(B, i)
  <2> SUFFICES ASSUME NEW i \in DOMAIN x
               PROVE  Remap(x, i) = IF x[i].local THEN Place(A, i) ELSE n + Place(B, i)
    OBVIOUS
  <2>1. {j \in Locals(x) : j <= i} = UpTo(A, i)
    BY DEF UpTo
  <2>2. {j \in 1 .. i : ~ x[j].local} = UpTo(B, i)
    BY <1>1, <1>3 DEF UpTo
  <2> QED
    BY <2>1, <2>2 DEF Remap, Place
<1> HIDE DEF A, B, u, v, y, n, m
<1>9. /\ IsSeq(y) /\ Len(y) = n + m
      /\ \A k \in 1 .. n + m : y[k] = IF k <= n THEN u[k] ELSE v[k - n]
  <2>1. /\ IsSeq(u \o v) /\ Len(u \o v) = Len(u) + Len(v)
        /\ \A k \in 1 .. Len(u) + Len(v) : (u \o v)[k] = IF k <= Len(u) THEN u[k] ELSE v[k - Len(u)]
    BY <1>4, <1>5, BothSeq
  <2> QED
    BY <1>4, <1>5, <1>6, <2>1
<1>10. DOMAIN y = 1 .. n + m
  BY <1>9, SeqPlaces
<1>11. ASSUME NEW i \in DOMAIN x PROVE Remap(x, i) \in DOMAIN y /\ y[Remap(x, i)] = x[i]
  <2>1. CASE i \in A
    <3>1. Remap(x, i) = Place(A, i) /\ Place(A, i) \in 1 .. n /\ u[Place(A, i)] = x[i]
      BY <1>3, <1>4, <1>8, <2>1
    <3>2. Place(A, i) \in 1 .. n + m /\ Place(A, i) <= n
      BY <1>4, <1>5, <3>1
    <3> QED
      BY <1>9, <1>10, <3>1, <3>2
  <2>2. CASE i \notin A
    <3>1. i \in B /\ Remap(x, i) = n + Place(B, i)
      BY <1>3, <1>8, <2>2
    <3>2. Place(B, i) \in 1 .. m /\ v[Place(B, i)] = x[i]
      BY <1>5, <3>1
    <3>3. /\ n + Place(B, i) \in 1 .. n + m /\ ~ (n + Place(B, i) <= n)
          /\ (n + Place(B, i)) - n = Place(B, i)
      BY <1>4, <1>5, <3>2
    <3> QED
      BY <1>9, <1>10, <3>1, <3>2, <3>3
  <2> QED
    BY <2>1, <2>2
<1>12. ASSUME NEW k \in DOMAIN y PROVE y[k].local <=> k < n + 1
  <2>1. k \in 1 .. n + m /\ (k < n + 1 <=> k <= n)
    BY <1>4, <1>5, <1>10
  <2>2. CASE k <= n
    <3>1. k \in 1 .. n
      BY <1>4, <1>5, <2>1, <2>2
    <3>2. PICK i \in A : k = Place(A, i)
      BY <1>4, <3>1
    <3>3. i \in DOMAIN x /\ x[i].local
      BY <1>2, <1>3, <3>2
    <3>4. y[k] = x[i]
      BY <1>4, <1>9, <2>1, <2>2, <3>2
    <3> QED
      BY <2>1, <2>2, <3>3, <3>4
  <2>3. CASE ~ (k <= n)
    <3>1. k - n \in 1 .. m
      BY <1>4, <1>5, <2>1, <2>3
    <3>2. PICK i \in B : k - n = Place(B, i)
      BY <1>5, <3>1
    <3>3. i \in DOMAIN x /\ ~ x[i].local
      BY <1>2, <1>3, <3>2
    <3>4. y[k] = x[i]
      BY <1>5, <1>9, <2>1, <2>3, <3>2
    <3> QED
      BY <2>1, <2>3, <3>3, <3>4
  <2> QED
    BY <2>2, <2>3
<1>13. Cardinality(Locals(y)) = n
  <2>1. \A k \in 1 .. n + m : k \in 1 .. n <=> k < n + 1
    BY <1>4, <1>5
  <2>2. 1 .. n \subseteq 1 .. n + m
    BY <1>4, <1>5
  <2>3. Locals(y) = 1 .. n
    BY <1>10, <1>12, <2>1, <2>2 DEF Locals
  <2> QED
    BY <1>4, <2>3, FS_Interval
<1>14. /\ IsSeq(y) /\ Len(y) = Len(x) /\ n \in Nat /\ Cardinality(Locals(y)) = n
       /\ \A i \in DOMAIN x : Remap(x, i) \in DOMAIN y /\ y[Remap(x, i)] = x[i]
       /\ \A k \in DOMAIN y : y[k].local <=> k < n + 1
  BY <1>4, <1>7, <1>9, <1>11, <1>12, <1>13
<1> QED
  BY <1>14 DEF y, n, A
(* Every element of what is put together is one of a part.                  *)
LEMMA FlatElements ==
    ASSUME NEW parts, IsSeq(parts), \A i \in DOMAIN parts : IsSeq(parts[i])
    PROVE  \A k \in DOMAIN FlattenSeq(parts) : \E i \in DOMAIN parts :
              \E m \in DOMAIN parts[i] : FlattenSeq(parts)[k] = parts[i][m]
<1> DEFINE n == Len(parts)
           From(x) == \A k \in DOMAIN x : \E i \in DOMAIN parts :
                         \E m \in DOMAIN parts[i] : x[k] = parts[i][m]
<1>1. n \in Nat /\ DOMAIN parts = 1 .. n
  BY SeqPlaces
<1>2. PICK f : Flattens(parts, f)
  BY FlatSteps
<1>3. /\ f[0] = <<>> /\ FlattenSeq(parts) = f[n]
      /\ \A k \in 0 .. n : IsSeq(f[k])
      /\ \A k \in 1 .. n : f[k] = f[k - 1] \o parts[k]
  BY <1>2 DEF Flattens
<1> HIDE DEF n
<1>4. From(f[0])
  BY <1>3
<1>5. ASSUME NEW m \in 1 .. n, From(f[m - 1]) PROVE From(f[m])
  <2>1. m - 1 \in 0 .. n /\ m \in DOMAIN parts
    BY <1>1
  <2> DEFINE x == f[m - 1]
             y == parts[m]
  <2>2. IsSeq(x) /\ IsSeq(y) /\ f[m] = x \o y /\ From(x)
    BY <1>3, <1>5, <2>1
  <2> HIDE DEF x
  <2>3. /\ IsSeq(x \o y) /\ Len(x \o y) = Len(x) + Len(y)
        /\ \A k \in 1 .. Len(x) + Len(y) : (x \o y)[k] = IF k <= Len(x) THEN x[k] ELSE y[k - Len(x)]
    BY <2>2, BothSeq
  <2>4. /\ DOMAIN (x \o y) = 1 .. Len(x) + Len(y) /\ Len(x) \in Nat /\ Len(y) \in Nat
        /\ DOMAIN x = 1 .. Len(x) /\ DOMAIN y = 1 .. Len(y)
    BY <2>2, <2>3, SeqPlaces
  <2> SUFFICES ASSUME NEW k \in DOMAIN (x \o y)
               PROVE  \E i \in DOMAIN parts : \E j \in DOMAIN parts[i] : (x \o y)[k] = parts[i][j]
    BY <2>2
  <2>5. CASE k <= Len(x)
    <3>1. k \in DOMAIN x /\ (x \o y)[k] = x[k]
      BY <2>3, <2>4, <2>5
    <3> QED
      BY <2>2, <3>1
  <2>6. CASE ~ (k <= Len(x))
    <3>1. k - Len(x) \in DOMAIN y /\ (x \o y)[k] = y[k - Len(x)]
      BY <2>3, <2>4, <2>6
    <3> QED
      BY <2>1, <3>1
  <2> QED
    BY <2>5, <2>6
<1> DEFINE Bad == {m \in 0 .. n : ~ From(f[m])}
<1> HIDE DEF From
<1>6. Bad = {}
  <2> SUFFICES ASSUME Bad # {} PROVE FALSE
    OBVIOUS
  <2>1. PICK m \in Bad : \A t \in Bad : m <= t
    <3>1. Bad \in SUBSET Nat
      OBVIOUS
    <3> QED
      BY <3>1, LeastNat
  <2>2. m # 0
    BY <1>4, <2>1
  <2>3. m \in 1 .. n /\ m - 1 \in 0 .. n /\ m - 1 \notin Bad
    BY <1>1, <2>1, <2>2
  <2> QED
    BY <1>5, <2>1, <2>3
<1>7. From(FlattenSeq(parts))
  BY <1>1, <1>3, <1>6
<1> QED
  BY <1>7 DEF From

(* The only part that has elements is all there is.                         *)
LEMMA FlatOnly ==
    ASSUME NEW parts, IsSeq(parts), \A i \in DOMAIN parts : IsSeq(parts[i]),
           NEW i, \A j \in DOMAIN parts : j # i => parts[j] = <<>>
    PROVE  FlattenSeq(parts) = IF i \in DOMAIN parts THEN parts[i] ELSE <<>>
<1> DEFINE n == Len(parts)
           all(m) == IF i \in 1 .. m THEN parts[i] ELSE <<>>
<1>1. n \in Nat /\ DOMAIN parts = 1 .. n
  BY SeqPlaces
<1>2. PICK f : Flattens(parts, f)
  BY FlatSteps
<1>3. /\ f[0] = <<>> /\ FlattenSeq(parts) = f[n]
      /\ \A k \in 0 .. n : IsSeq(f[k])
      /\ \A k \in 1 .. n : f[k] = f[k - 1] \o parts[k]
  BY <1>2 DEF Flattens
<1> HIDE DEF n
<1>4. \A x : IsSeq(x) => <<>> \o x = x /\ x \o <<>> = x
  <2> SUFFICES ASSUME NEW x, IsSeq(x) PROVE <<>> \o x = x /\ x \o <<>> = x
    OBVIOUS
  <2>1. PICK V : x \in Seq(V)
    BY SeqPlaces
  <2> QED
    BY <2>1
<1>5. f[0] = all(0)
  BY <1>3
<1>6. ASSUME NEW m \in 1 .. n, f[m - 1] = all(m - 1) PROVE f[m] = all(m)
  <2>4. m \in DOMAIN parts /\ m - 1 \in 0 .. n
    BY <1>1
  <2>1. m \in DOMAIN parts /\ IsSeq(parts[m]) /\ IsSeq(f[m - 1]) /\ f[m] = f[m - 1] \o parts[m]
    BY <1>3, <2>4
  <2>2. CASE m = i
    <3>1. f[m - 1] = <<>> /\ all(m) = parts[m]
      BY <1>6, <2>2
    <3> QED
      BY <1>4, <2>1, <3>1
  <2>3. CASE m # i
    <3>1. i \in 1 .. m <=> i \in 1 .. m - 1
      BY <2>3
    <3>2. all(m) = all(m - 1)
      BY <3>1
    <3>3. parts[m] = <<>>
      BY <2>1, <2>3
    <3> HIDE DEF all
    <3>4. f[m] = f[m - 1] \o <<>> /\ f[m - 1] \o <<>> = f[m - 1]
      BY <1>4, <2>1, <3>3
    <3> QED
      BY <1>6, <3>2, <3>4
  <2> QED
    BY <2>2, <2>3
<1> DEFINE Bad == {m \in 0 .. n : f[m] # all(m)}
<1>8. all(n) = IF i \in DOMAIN parts THEN parts[i] ELSE <<>>
  BY <1>1
<1> HIDE DEF all
<1>7. Bad = {}
  <2> SUFFICES ASSUME Bad # {} PROVE FALSE
    OBVIOUS
  <2>1. PICK m \in Bad : \A t \in Bad : m <= t
    <3>1. Bad \in SUBSET Nat
      OBVIOUS
    <3> QED
      BY <3>1, LeastNat
  <2>2. m # 0
    BY <1>5, <2>1
  <2>3. m \in 1 .. n /\ m - 1 \in 0 .. n /\ m - 1 \notin Bad
    BY <1>1, <2>1, <2>2
  <2> QED
    BY <1>6, <2>1, <2>3
<1> QED
  BY <1>1, <1>3, <1>7, <1>8

(* A relocation for one of the symbols of an object, or for none, and       *)
(* relocations that are for the symbols that m says by their offsets        *)
IsReloc(b, r) ==
    /\ r = [target |-> r.target, offset |-> r.offset, sym |-> r.sym, dynamic |-> r.dynamic]
    /\ r.dynamic \in BOOLEAN /\ r.sym \in 0 .. Len(b.symbols[r.dynamic])
MeantBy(b, m) ==
    \A k \in DOMAIN b.relocs : /\ IsReloc(b, b.relocs[k]) /\ b.relocs[k].offset \in DOMAIN m
                               /\ SymbolOf(b, b.relocs[k]) = m[b.relocs[k].offset]

(* A table of symbols is the first section of the name that the library     *)
(* looks for, and what is for relocations is known to be.                   *)
First(list, name, i) ==
    i \in DOMAIN list /\ list[i].name = name /\ \A j \in DOMAIN list : list[j].name = name => i <= j
TablesOK(list) ==
    \A i \in DOMAIN list :
       /\ \A d \in BOOLEAN : list[i].type = SymtabType(d) =>
             First(list, SymtabName(d), i) /\ list[i].kind = SymtabName(d)
       /\ list[i].type = "RELA" => list[i].kind = "rela"

(* The sorted symbols of a table begin with the local ones.                 *)
LocalsLead(syms) ==
    \A k \in DOMAIN syms : syms[k].local <=> k < Cardinality(Locals(syms)) + 1

(* Sorting the symbols moves the relocations with them.                     *)
LEMMA SortedMeant ==
    ASSUME NEW b, BinOK(b), NEW d \in BOOLEAN, NEW m, MeantBy(b, m)
    PROVE  LET c == Sorted(b, d)
           IN /\ c.sections = b.sections /\ LocalsLead(c.symbols[d]) /\ MeantBy(c, m)
              /\ \A e \in BOOLEAN : e # d => c.symbols[e] = b.symbols[e]
<1> DEFINE syms == b.symbols[d]
           kept == LocalsFirst(syms)
           symbols == [b.symbols EXCEPT ![d] = kept]
           Moved(r) == IF r.dynamic = d THEN [r EXCEPT !.sym = Remap(syms, r.sym)] ELSE r
           relocs == [i \in DOMAIN b.relocs |-> Moved(b.relocs[i])]
           c == Sorted(b, d)
<1>1. Shape(b) /\ Record(b)
  BY DEF BinOK, Shape
<1>2. c = [[b EXCEPT !.symbols = symbols] EXCEPT !.relocs = relocs]
  BY DEF Sorted
<1>3. IsSeq(syms)
  BY <1>1 DEF Shape
<1>4. /\ IsSeq(kept) /\ Len(kept) = Len(syms)
      /\ Cardinality(Locals(kept)) = Cardinality(Locals(syms)) /\ Cardinality(Locals(syms)) \in Nat
      /\ \A i \in DOMAIN syms : Remap(syms, i) \in DOMAIN kept /\ kept[Remap(syms, i)] = syms[i]
      /\ \A k \in DOMAIN kept : kept[k].local <=> k < Cardinality(Locals(syms)) + 1
  BY <1>3, LocalsFirstIs
<1>5. symbols[d] = kept /\ \A e \in BOOLEAN : e # d => symbols[e] = b.symbols[e]
  <2>1. b.symbols = [e \in BOOLEAN |-> b.symbols[e]]
    BY <1>1 DEF Shape
  <2> HIDE DEF kept, syms
  <2>2. symbols = [e \in BOOLEAN |-> IF e = d THEN kept ELSE b.symbols[e]]
    BY <2>1
  <2> HIDE DEF symbols
  <2> QED
    BY <2>2
<1>6. DOMAIN relocs = DOMAIN b.relocs /\ \A k \in DOMAIN b.relocs : relocs[k] = Moved(b.relocs[k])
  OBVIOUS
<1> HIDE DEF relocs, symbols
<1>7. c.sections = b.sections /\ c.symbols = symbols /\ c.relocs = relocs
  BY <1>1, <1>2 DEF Record
<1> HIDE DEF c
<1>8. LocalsLead(c.symbols[d])
  BY <1>4, <1>5, <1>7 DEF LocalsLead
<1>9. Len(syms) \in Nat /\ DOMAIN syms = 1 .. Len(syms) /\ DOMAIN kept = 1 .. Len(syms)
  BY <1>3, <1>4, SeqPlaces
<1>10. ASSUME NEW r, IsReloc(b, r)
       PROVE  /\ IsReloc(c, Moved(r)) /\ Moved(r).offset = r.offset
              /\ SymbolOf(c, Moved(r)) = SymbolOf(b, r)
  <2>1. CASE r.dynamic = d
    <3> DEFINE t == [target |-> r.target, offset |-> r.offset, sym |-> Remap(syms, r.sym),
                     dynamic |-> d]
    <3>1. r = [target |-> r.target, offset |-> r.offset, sym |-> r.sym, dynamic |-> d]
      BY <1>10, <2>1 DEF IsReloc
    <3>2. Moved(r) = t
      BY <2>1, <3>1
    <3>3. c.symbols[d] = kept /\ b.symbols[d] = syms
      BY <1>5, <1>7
    <3> HIDE DEF Moved, kept, syms
    <3>4. r.sym \in 0 .. Len(syms)
      BY <1>10, <2>1, <3>3 DEF IsReloc
    <3>5. CASE r.sym \in DOMAIN syms
      <4>1. Remap(syms, r.sym) \in DOMAIN kept /\ kept[Remap(syms, r.sym)] = syms[r.sym]
        BY <1>4, <3>5
      <4>2. Remap(syms, r.sym) \in 0 .. Len(kept)
        BY <1>4, <1>9, <4>1
      <4>3. /\ t = [target |-> t.target, offset |-> t.offset, sym |-> t.sym, dynamic |-> t.dynamic]
            /\ t.offset = r.offset /\ t.sym = Remap(syms, r.sym) /\ t.dynamic = d
        OBVIOUS
      <4> HIDE DEF t
      <4>4. IsReloc(c, t)
        BY <3>3, <4>2, <4>3 DEF IsReloc
      <4>5. SymbolOf(c, t) = SymbolOf(b, r)
        BY <2>1, <3>3, <3>5, <4>1, <4>3 DEF SymbolOf
      <4> QED
        BY <3>2, <4>3, <4>4, <4>5
    <3>6. CASE r.sym \notin DOMAIN syms
      <4>1. Remap(syms, r.sym) = r.sym
        BY <3>6 DEF Remap
      <4>2. r.sym \notin DOMAIN kept
        BY <1>9, <3>6
      <4>3. /\ t = [target |-> t.target, offset |-> t.offset, sym |-> t.sym, dynamic |-> t.dynamic]
            /\ t.offset = r.offset /\ t.sym = r.sym /\ t.dynamic = d
        BY <4>1
      <4> HIDE DEF t
      <4>4. IsReloc(c, t)
        BY <1>4, <3>3, <3>4, <4>3 DEF IsReloc
      <4>5. SymbolOf(c, t) = SymbolOf(b, r)
        BY <2>1, <3>3, <3>6, <4>2, <4>3 DEF SymbolOf
      <4> QED
        BY <3>2, <4>3, <4>4, <4>5
    <3> QED
      BY <3>5, <3>6
  <2>2. CASE r.dynamic # d
    <3>1. Moved(r) = r
      BY <2>2
    <3>2. c.symbols[r.dynamic] = b.symbols[r.dynamic]
      BY <1>5, <1>7, <1>10, <2>2 DEF IsReloc
    <3> HIDE DEF Moved
    <3> QED
      BY <1>10, <3>1, <3>2 DEF IsReloc, SymbolOf
  <2> QED
    BY <2>1, <2>2
<1> HIDE DEF Moved
<1>11. MeantBy(c, m)
  <2> SUFFICES ASSUME NEW k \in DOMAIN c.relocs
               PROVE  /\ IsReloc(c, c.relocs[k]) /\ c.relocs[k].offset \in DOMAIN m
                      /\ SymbolOf(c, c.relocs[k]) = m[c.relocs[k].offset]
    BY DEF MeantBy
  <2>1. k \in DOMAIN b.relocs /\ c.relocs[k] = Moved(b.relocs[k])
    BY <1>6, <1>7
  <2>2. /\ IsReloc(b, b.relocs[k]) /\ b.relocs[k].offset \in DOMAIN m
        /\ SymbolOf(b, b.relocs[k]) = m[b.relocs[k].offset]
    BY <2>1 DEF MeantBy
  <2> QED
    BY <1>10, <2>1, <2>2
<1>12. /\ c.sections = b.sections /\ LocalsLead(c.symbols[d]) /\ MeantBy(c, m)
       /\ \A e \in BOOLEAN : e # d => c.symbols[e] = b.symbols[e]
  BY <1>5, <1>7, <1>8, <1>11
<1> QED
  BY <1>12 DEF c

(* A section is found by its name when it is the first one of it.           *)
LEMMA FoundFirst ==
    ASSUME NEW b, IsSeq(b.sections), NEW name
    PROVE  /\ SectionIndex(b, name) = 0 => \A j \in DOMAIN b.sections : b.sections[j].name # name
           /\ SectionIndex(b, name) # 0 => First(b.sections, name, SectionIndex(b, name))
           /\ \A i : First(b.sections, name, i) => SectionIndex(b, name) = i /\ i # 0
<1> DEFINE found == {j \in DOMAIN b.sections : b.sections[j].name = name}
           c == CHOOSE i \in found : \A j \in found : i <= j
<1>1. Len(b.sections) \in Nat /\ DOMAIN b.sections = 1 .. Len(b.sections)
  BY SeqPlaces
<1>2. SectionIndex(b, name) = IF found = {} THEN 0 ELSE c
  BY DEF SectionIndex
<1>3. \A j \in DOMAIN b.sections : j \in Nat /\ j # 0
  BY <1>1
<1>4. ASSUME found # {} PROVE c \in found /\ \A j \in found : c <= j
  <2>1. found \in SUBSET Nat
    BY <1>3
  <2>2. \E i \in found : \A j \in found : i <= j
    BY <1>4, <2>1, LeastNat
  <2> QED
    BY <2>2, Zenon
<1> HIDE DEF c
<1>5. ASSUME NEW i, First(b.sections, name, i) PROVE SectionIndex(b, name) = i /\ i # 0
  <2>1. i \in found /\ \A j \in found : i <= j
    BY <1>5 DEF First
  <2>2. c \in found /\ c <= i /\ i <= c /\ i \in Nat /\ c \in Nat /\ i # 0
    BY <1>3, <1>4, <2>1
  <2>3. i = c
    BY <2>2
  <2> QED
    BY <1>2, <2>1, <2>2, <2>3
<1>6. CASE found = {}
  <2>1. SectionIndex(b, name) = 0 /\ \A j \in DOMAIN b.sections : b.sections[j].name # name
    BY <1>2, <1>6
  <2> QED
    BY <1>5, <2>1
<1>7. CASE found # {}
  <2>1. c \in found /\ \A j \in found : c <= j
    BY <1>4, <1>7
  <2>2. SectionIndex(b, name) = c /\ First(b.sections, name, c) /\ c # 0
    BY <1>2, <1>3, <1>7, <2>1 DEF First
  <2> QED
    BY <1>5, <2>2
<1> QED
  BY <1>6, <1>7

(* The list y is x but for the first section of a name, which may be new    *)
(* and then is behind the others.                                           *)
Retabled(x, y, i, name) ==
    /\ First(y, name, i) /\ DOMAIN y = DOMAIN x \cup {i}
    /\ \A j \in DOMAIN y : j # i => y[j] = x[j]
    /\ i \in DOMAIN x => x[i].name = name
    /\ i \notin DOMAIN x => \A j \in DOMAIN x : j < i

(* lielf__ensure_section() leaves the other sections alone.                 *)
LEMMA EnsuredFirst ==
    ASSUME NEW b, BinOK(b), NEW name, NEW type, NEW flags, NEW align
    PROVE  LET e == Ensured(b, name, type, flags, align)
           IN /\ Retabled(b.sections, e.sections, SectionIndex(e, name), name)
              /\ e.symbols = b.symbols /\ e.relocs = b.relocs
              /\ SectionIndex(b, name) # 0 => e = b
<1> DEFINE e == Ensured(b, name, type, flags, align)
           s == Section(name, type, flags, NoData, 0, align)
           x == b.sections
           i == SectionIndex(e, name)
<1>1. Record(b) /\ IsSeq(x)
  BY DEF BinOK, Shape
<1>2. Len(x) \in Nat /\ DOMAIN x = 1 .. Len(x)
  BY <1>1, SeqPlaces
<1>3. CASE SectionIndex(b, name) # 0
  <2>1. e = b
    BY <1>3 DEF Ensured
  <2>2. First(x, name, SectionIndex(b, name))
    BY <1>1, <1>3, FoundFirst
  <2>3. Retabled(x, x, SectionIndex(b, name), name)
    BY <2>2 DEF Retabled, First
  <2> HIDE DEF e
  <2> QED
    BY <2>1, <2>3 DEF e
<1>4. CASE SectionIndex(b, name) = 0
  <2> DEFINE y == Append(x, s)
             n == Len(x) + 1
  <2>1. e = Put(b, y)
    BY <1>4 DEF Ensured, AddedSection, Put
  <2>2. s.name = name
    BY DEF Section
  <2> HIDE DEF e, s
  <2>3. /\ IsSeq(y) /\ DOMAIN y = 1 .. n
        /\ \A k \in 1 .. n : y[k] = IF k <= Len(x) THEN x[k] ELSE s
    BY <1>1, AppendSeq
  <2> HIDE DEF y
  <2>4. e.sections = y /\ e.symbols = b.symbols /\ e.relocs = b.relocs
    BY <1>1, <2>1, PutRecord
  <2>5. \A j \in DOMAIN x : x[j].name # name
    BY <1>1, <1>4, FoundFirst
  <2>6. /\ n \in DOMAIN y /\ y[n] = s /\ n \notin DOMAIN x /\ DOMAIN y = DOMAIN x \cup {n}
        /\ \A j \in DOMAIN x : j < n /\ y[j] = x[j]
    BY <1>2, <2>3
  <2> HIDE DEF n
  <2>7. First(y, name, n)
    <3>1. \A j \in DOMAIN y : y[j].name = name => j = n
      BY <2>5, <2>6
    <3>2. n <= n
      BY <1>2 DEF n
    <3> QED
      BY <2>2, <2>6, <3>1, <3>2 DEF First
  <2>8. i = n
    BY <2>3, <2>4, <2>7, FoundFirst
  <2>9. Retabled(x, y, n, name)
    BY <2>6, <2>7 DEF Retabled
  <2> QED
    BY <1>4, <2>4, <2>8, <2>9 DEF e
<1> QED
  BY <1>3, <1>4

(* What is there may be changed too, but for its name.                      *)
LEMMA RetabledWith ==
    ASSUME NEW x, NEW y, NEW i, NEW name, Retabled(x, y, i, name), NEW v, v.name = name
    PROVE  Retabled(x, [y EXCEPT ![i] = v], i, name) /\ [y EXCEPT ![i] = v][i] = v
<1> DEFINE z == [y EXCEPT ![i] = v]
<1>1. i \in DOMAIN y
  BY DEF Retabled, First
<1>2. DOMAIN z = DOMAIN y /\ z[i] = v /\ \A j \in DOMAIN y : j # i => z[j] = y[j]
  BY <1>1
<1> HIDE DEF z
<1>3. \A j \in DOMAIN z : z[j].name = name => y[j].name = name
  BY <1>2 DEF Retabled, First
<1>4. First(z, name, i)
  BY <1>1, <1>2, <1>3 DEF Retabled, First
<1>5. Retabled(x, z, i, name)
  BY <1>2, <1>4 DEF Retabled
<1> QED
  BY <1>2, <1>5 DEF z

(* Names and types of tables                                                *)
LEMMA TableTypes ==
    /\ \A d \in BOOLEAN : SymtabType(d) \in {"SYMTAB", "DYNSYM"} /\ SymtabType(d) # "RELA"
    /\ \A d, e \in BOOLEAN : /\ SymtabType(d) = SymtabType(e) => d = e
                             /\ SymtabName(d) = SymtabName(e) => d = e
                             /\ SymtabName(d) # StrtabName(e)
    /\ \A d \in BOOLEAN : SymtabName(d) \notin {".dynamic", ".shstrtab", "rela"}
  BY DEF SymtabType, SymtabName, StrtabName

(* A section that becomes a table of symbols under its name, or another     *)
(* one, or that is what it was, makes no other table a wrong one.           *)
LEMMA RetabledOK ==
    ASSUME NEW x, TablesOK(x), NEW y, IsSeq(y), NEW i, NEW name, Retabled(x, y, i, name),
           \/ y[i].type \notin {"SYMTAB", "DYNSYM", "RELA"}
           \/ \E d \in BOOLEAN : /\ y[i].type = SymtabType(d) /\ y[i].kind = SymtabName(d)
                                 /\ name = SymtabName(d)
           \/ i \in DOMAIN x /\ y[i].type = x[i].type /\ y[i].kind = x[i].kind
    PROVE  TablesOK(y)
<1>1. \A j \in DOMAIN y : j \in Nat
  BY SeqPlaces
<1>2. DOMAIN y = DOMAIN x \cup {i} /\ First(y, name, i) /\ y[i].name = name
  BY DEF Retabled, First
<1>3. ASSUME NEW j \in DOMAIN x, NEW other, First(x, other, j) PROVE First(y, other, j)
  <2>1. y[j].name = other
    BY <1>2, <1>3 DEF Retabled, First
  <2>2. ASSUME NEW k \in DOMAIN y, y[k].name = other PROVE j <= k
    <3>1. CASE k \in DOMAIN x
      <4>1. x[k].name = other
        BY <1>2, <2>2, <3>1 DEF Retabled
      <4> QED
        BY <1>3, <3>1, <4>1 DEF First
    <3>2. CASE k \notin DOMAIN x
      <4>1. k = i /\ i \notin DOMAIN x /\ name = other
        BY <1>2, <2>2, <3>2
      <4>2. j < i
        BY <4>1 DEF Retabled
      <4>3. y[j].name = name /\ i <= j
        BY <1>2, <2>1, <4>1 DEF First
      <4>4. j # i
        BY <4>1
      <4>5. j \in Nat /\ i \in Nat
        BY <1>1, <1>2
      <4> QED
        BY <4>2, <4>3, <4>5
    <3> QED
      BY <3>1, <3>2
  <2> QED
    BY <1>2, <2>1, <2>2 DEF First
<1> SUFFICES ASSUME NEW j \in DOMAIN y
             PROVE  /\ \A d \in BOOLEAN : y[j].type = SymtabType(d) =>
                          First(y, SymtabName(d), j) /\ y[j].kind = SymtabName(d)
                    /\ y[j].type = "RELA" => y[j].kind = "rela"
  BY DEF TablesOK
<1>4. CASE j # i
  <2>1. j \in DOMAIN x /\ y[j] = x[j]
    BY <1>2, <1>4 DEF Retabled
  <2>2. /\ \A d \in BOOLEAN : x[j].type = SymtabType(d) =>
              First(x, SymtabName(d), j) /\ x[j].kind = SymtabName(d)
        /\ x[j].type = "RELA" => x[j].kind = "rela"
    BY <2>1 DEF TablesOK
  <2> QED
    BY <1>3, <2>1, <2>2
<1>5. CASE j = i
  <2>1. CASE y[i].type \notin {"SYMTAB", "DYNSYM", "RELA"}
    BY <1>5, <2>1, TableTypes
  <2>2. CASE \E d \in BOOLEAN : /\ y[i].type = SymtabType(d) /\ y[i].kind = SymtabName(d)
                                /\ name = SymtabName(d)
    BY <1>2, <1>5, <2>2, TableTypes
  <2>3. CASE i \in DOMAIN x /\ y[i].type = x[i].type /\ y[i].kind = x[i].kind
    <3>1. /\ \A d \in BOOLEAN : x[i].type = SymtabType(d) =>
                First(x, SymtabName(d), i) /\ x[i].kind = SymtabName(d)
          /\ x[i].type = "RELA" => x[i].kind = "rela"
      BY <2>3 DEF TablesOK
    <3> QED
      BY <1>3, <1>5, <2>3, <3>1
  <2> QED
    BY <2>1, <2>2, <2>3
<1> QED
  BY <1>4, <1>5

(* A section says what the symbols are, and where the local ones end; those *)
(* that are tables of them all do, and there is one if it is needed.        *)
Says(s, syms) ==
    /\ DOMAIN s.data.of = DOMAIN syms
    /\ \A k \in DOMAIN syms : /\ s.data.of[k].local = syms[k].local
                              /\ s.data.of[k].value = syms[k].value
                              /\ syms[k].local <=> k < s.info
Written(list, syms, d) ==
    /\ syms # <<>> => \E i \in DOMAIN list : list[i].type = SymtabType(d)
    /\ \A i \in DOMAIN list : list[i].type = SymtabType(d) => Says(list[i], syms)

(* A table of symbols stays when a section of another name changes.         *)
LEMMA WrittenStays ==
    ASSUME NEW x, TablesOK(x), NEW y, TablesOK(y), NEW i, NEW name, Retabled(x, y, i, name),
           NEW d \in BOOLEAN, name # SymtabName(d), NEW syms, Written(x, syms, d)
    PROVE  Written(y, syms, d)
<1>1. DOMAIN y = DOMAIN x \cup {i} /\ y[i].name = name /\ i \in DOMAIN y
  BY DEF Retabled, First
<1>2. y[i].type # SymtabType(d)
  BY <1>1 DEF TablesOK, First
<1>3. i \in DOMAIN x => x[i].type # SymtabType(d)
  BY DEF TablesOK, First, Retabled
<1>4. \A j \in DOMAIN y : j # i => j \in DOMAIN x /\ y[j] = x[j]
  BY <1>1 DEF Retabled
<1>5. \A j \in DOMAIN y : y[j].type = SymtabType(d) => Says(y[j], syms)
  BY <1>2, <1>4 DEF Written
<1>6. syms # <<>> => \E j \in DOMAIN y : y[j].type = SymtabType(d)
  <2> SUFFICES ASSUME syms # <<>> PROVE \E j \in DOMAIN y : y[j].type = SymtabType(d)
    OBVIOUS
  <2>1. PICK j \in DOMAIN x : x[j].type = SymtabType(d)
    BY DEF Written
  <2>2. j # i /\ j \in DOMAIN y
    BY <1>1, <1>3, <2>1
  <2> QED
    BY <1>4, <2>1, <2>2
<1> QED
  BY <1>5, <1>6 DEF Written

(* lielf__maybe_update_data() changes what is in a section.                 *)
LEMMA UpdatedIs ==
    ASSUME NEW s, HasFields(s), NEW data, NEW size
    PROVE  LET u == Updated(s, data, size)
           IN /\ u.data = data /\ u.name = s.name /\ u.type = s.type /\ u.kind = s.kind
              /\ u.info = s.info /\ u.link = s.link
              /\ u.relaDynamic = s.relaDynamic /\ u.relaTarget = s.relaTarget
<1> DEFINE v == [s EXCEPT !.data = data, !.size = size, !.dirty = TRUE]
<1>1. /\ v.data = data /\ v.name = s.name /\ v.type = s.type /\ v.kind = s.kind
      /\ v.info = s.info /\ v.link = s.link
      /\ v.relaDynamic = s.relaDynamic /\ v.relaTarget = s.relaTarget
  BY DEF HasFields, Fields
<1>2. \/ Updated(s, data, size) = s /\ s.data = data
      \/ Updated(s, data, size) = v
  BY DEF Updated
<1> HIDE DEF v
<1> QED
  BY <1>1, <1>2

(* Relocations are for what they were for when other things change.         *)
LEMMA MeantStays ==
    ASSUME NEW b, NEW m, MeantBy(b, m), NEW c, c.symbols = b.symbols, c.relocs = b.relocs
    PROVE  MeantBy(c, m)
  BY DEF MeantBy, IsReloc, SymbolOf

(* lielf__rebuild_symtab() writes the sorted symbols.                       *)
LEMMA RebuiltSymtabMeant ==
    ASSUME NEW a, BinOK(a), TablesOK(a.sections), NEW d \in BOOLEAN, NEW m, MeantBy(a, m)
    PROVE  LET c == RebuiltSymtab(a, d)
           IN /\ TablesOK(c.sections) /\ MeantBy(c, m) /\ Written(c.sections, c.symbols[d], d)
              /\ \A o \in BOOLEAN : o # d /\ Written(a.sections, a.symbols[o], o) =>
                    Written(c.sections, c.symbols[o], o)
<1> DEFINE b    == Sorted(a, d)
           syms == b.symbols[d]
           raw  == [i \in DOMAIN syms |->
                      [name |-> OffsetOf(NamesOf(syms), i), local |-> syms[i].local,
                       shndx |-> syms[i].shndx, value |-> syms[i].value]]
           info == Cardinality(Locals(syms)) + 1
           e    == Ensured(b, SymtabName(d), SymtabType(d), AllocIf(d), 8)
           i    == SectionIndex(e, SymtabName(d))
           size == SYM * (Len(syms) + 1)
           x    == b.sections
           y    == e.sections
           t    == [y[i] EXCEPT !.type = SymtabType(d), !.entsize = SYM, !.kind = SymtabName(d),
                                !.info = info]
           set(v) == [e EXCEPT !.sections = [e.sections EXCEPT ![i] = v]]
           c    == RebuiltSymtab(a, d)
<1> SUFFICES /\ TablesOK(c.sections) /\ MeantBy(c, m) /\ Written(c.sections, c.symbols[d], d)
             /\ \A o \in BOOLEAN : o # d /\ Written(a.sections, a.symbols[o], o) =>
                    Written(c.sections, c.symbols[o], o)
  OBVIOUS
<1>1. c = IF syms # <<>> THEN set(Updated(t, Table(raw), size))
          ELSE IF SectionIndex(b, SymtabName(d)) = 0 THEN b
          ELSE set(Updated(e.sections[i], Table(raw), size))
  BY DEF RebuiltSymtab
<1>2. /\ DOMAIN raw = DOMAIN syms
      /\ \A k \in DOMAIN syms : raw[k].local = syms[k].local /\ raw[k].value = syms[k].value
  OBVIOUS
<1> HIDE DEF raw
<1>3. Table(raw).of = raw
  BY DEF Table
<1>4. /\ x = a.sections /\ LocalsLead(syms) /\ MeantBy(b, m)
      /\ \A o \in BOOLEAN : o # d => b.symbols[o] = a.symbols[o]
  BY SortedMeant
<1>5. BinOK(b)
  BY SortedOK
<1> HIDE DEF b, c
<1>6. BinOK(e)
  BY <1>5, EnsuredOK, Alignments
<1>7. Retabled(x, y, i, SymtabName(d)) /\ e.symbols = b.symbols /\ e.relocs = b.relocs
      /\ (SectionIndex(b, SymtabName(d)) # 0 => e = b)
  BY <1>5, EnsuredFirst
<1>8. IsSeq(x) /\ IsSeq(y) /\ Record(e)
  BY <1>5, <1>6 DEF BinOK, Shape
<1> HIDE DEF e
<1>9. i \in DOMAIN y /\ y[i].name = SymtabName(d)
  BY <1>7 DEF Retabled, First
<1>10. IsSec(y[i])
  BY <1>6, <1>9 DEF BinOK, Shape
<1> HIDE DEF i, size, x, y, syms
<1>11. ASSUME NEW v, v.name = SymtabName(d), c = [e EXCEPT !.sections = [y EXCEPT ![i] = v]]
       PROVE  /\ c.symbols = b.symbols /\ c.relocs = b.relocs /\ IsSeq(c.sections)
              /\ Retabled(x, c.sections, i, SymtabName(d)) /\ c.sections[i] = v
  <2> DEFINE z == [y EXCEPT ![i] = v]
  <2>1. Retabled(x, z, i, SymtabName(d)) /\ z[i] = v
    BY <1>7, <1>11, RetabledWith
  <2>2. IsSeq(z)
    BY <1>8, SeqWith
  <2>3. c = Put(e, z)
    BY <1>11 DEF Put
  <2> HIDE DEF z
  <2>4. c.sections = z /\ c.symbols = e.symbols /\ c.relocs = e.relocs
    BY <1>8, <2>3, PutRecord
  <2> QED
    BY <1>7, <2>1, <2>2, <2>4
<1>12. TablesOK(x)
  BY <1>4
<1>13. ASSUME TablesOK(c.sections), c.symbols = b.symbols, NEW k,
              Retabled(x, c.sections, k, SymtabName(d)),
              NEW o \in BOOLEAN, o # d, Written(a.sections, a.symbols[o], o)
       PROVE  Written(c.sections, c.symbols[o], o)
  <2>1. Written(x, b.symbols[o], o)
    BY <1>4, <1>13
  <2>2. SymtabName(d) # SymtabName(o)
    BY <1>13, TableTypes
  <2> QED
    BY <1>12, <1>13, <2>1, <2>2, WrittenStays
<1>14. CASE syms # <<>>
  <2> DEFINE v == Updated(t, Table(raw), size)
  <2>1. /\ HasFields(t) /\ t.name = SymtabName(d) /\ t.type = SymtabType(d) /\ t.kind = SymtabName(d)
        /\ t.info = info
    <3> DEFINE s == y[i]
    <3>1. t = [[[[s EXCEPT !.type = SymtabType(d)] EXCEPT !.entsize = SYM] EXCEPT !.kind = SymtabName(d)]
               EXCEPT !.info = info]
      OBVIOUS
    <3>2. HasFields(s) /\ s.name = SymtabName(d)
      BY <1>9, <1>10 DEF IsSec
    <3> HIDE DEF s, info
    <3>3. HasFields([s EXCEPT !.type = SymtabType(d)])
      BY <3>2, FieldSet
    <3>4. HasFields([[s EXCEPT !.type = SymtabType(d)] EXCEPT !.entsize = SYM])
      BY <3>3, FieldSet
    <3>5. HasFields([[[s EXCEPT !.type = SymtabType(d)] EXCEPT !.entsize = SYM] EXCEPT !.kind = SymtabName(d)])
      BY <3>4, FieldSet
    <3>6. HasFields(t)
      BY <3>1, <3>5, FieldSet
    <3>7. /\ t.name = s.name /\ t.type = SymtabType(d) /\ t.kind = SymtabName(d) /\ t.info = info
      BY <3>2 DEF HasFields, Fields, s
    <3> QED
      BY <3>2, <3>6, <3>7
  <2> HIDE DEF t
  <2>2. /\ v.data = Table(raw) /\ v.name = SymtabName(d) /\ v.type = SymtabType(d)
        /\ v.kind = SymtabName(d) /\ v.info = info
    BY <2>1, UpdatedIs
  <2>3. c = [e EXCEPT !.sections = [y EXCEPT ![i] = v]]
    BY <1>1, <1>14 DEF y
  <2> HIDE DEF v
  <2>4. /\ c.symbols = b.symbols /\ c.relocs = b.relocs /\ IsSeq(c.sections)
        /\ Retabled(x, c.sections, i, SymtabName(d)) /\ c.sections[i] = v
    BY <1>11, <2>2, <2>3
  <2>5. TablesOK(c.sections)
    BY <1>12, <2>2, <2>4, RetabledOK
  <2>6. Says(v, syms)
    BY <1>2, <1>3, <1>4, <2>2 DEF Says, LocalsLead
  <2>7. ASSUME NEW j \in DOMAIN c.sections, c.sections[j].type = SymtabType(d) PROVE j = i
    <3>1. First(c.sections, SymtabName(d), j) /\ First(c.sections, SymtabName(d), i)
      BY <2>4, <2>5, <2>7 DEF TablesOK, Retabled
    <3>2. SectionIndex(c, SymtabName(d)) = j /\ SectionIndex(c, SymtabName(d)) = i
      BY <2>4, <3>1, FoundFirst
    <3> QED
      BY <3>2
  <2>8. i \in DOMAIN c.sections
    BY <2>4 DEF Retabled, First
  <2>9. Written(c.sections, syms, d)
    BY <2>2, <2>4, <2>6, <2>7, <2>8 DEF Written
  <2>10. c.symbols[d] = syms
    BY <2>4 DEF syms
  <2> QED
    BY <1>4, <1>13, <2>4, <2>5, <2>9, <2>10, MeantStays
<1>15. CASE syms = <<>> /\ SectionIndex(b, SymtabName(d)) = 0
  <2>1. c = b
    BY <1>1, <1>15
  <2>2. \A j \in DOMAIN x : x[j].name # SymtabName(d)
    BY <1>8, <1>15, FoundFirst DEF x
  <2>3. \A j \in DOMAIN x : x[j].type # SymtabType(d)
    BY <1>12, <2>2 DEF TablesOK, First
  <2>4. Written(x, syms, d)
    BY <1>15, <2>3 DEF Written
  <2> QED
    BY <1>4, <2>1, <2>4 DEF x, syms
<1>16. CASE syms = <<>> /\ SectionIndex(b, SymtabName(d)) # 0
  <2> DEFINE v == Updated(y[i], Table(raw), size)
  <2>1. e = b /\ x = y
    BY <1>7, <1>16 DEF x, y
  <2>2. /\ v.data = Table(raw) /\ v.name = SymtabName(d) /\ v.type = y[i].type
        /\ v.kind = y[i].kind
    BY <1>9, <1>10, UpdatedIs DEF IsSec
  <2>3. c = [e EXCEPT !.sections = [y EXCEPT ![i] = v]]
    BY <1>1, <1>16 DEF y
  <2> HIDE DEF v
  <2>4. /\ c.symbols = b.symbols /\ c.relocs = b.relocs /\ IsSeq(c.sections)
        /\ Retabled(x, c.sections, i, SymtabName(d)) /\ c.sections[i] = v
    BY <1>11, <2>2, <2>3
  <2>5. TablesOK(c.sections)
    BY <1>9, <1>12, <2>1, <2>2, <2>4, RetabledOK
  <2>6. Says(v, syms)
    BY <1>2, <1>3, <1>16, <2>2 DEF Says
  <2>7. ASSUME NEW j \in DOMAIN c.sections, c.sections[j].type = SymtabType(d) PROVE j = i
    <3>1. First(c.sections, SymtabName(d), j) /\ First(c.sections, SymtabName(d), i)
      BY <2>4, <2>5, <2>7 DEF TablesOK, Retabled
    <3>2. SectionIndex(c, SymtabName(d)) = j /\ SectionIndex(c, SymtabName(d)) = i
      BY <2>4, <3>1, FoundFirst
    <3> QED
      BY <3>2
  <2>8. Written(c.sections, syms, d)
    BY <1>16, <2>4, <2>6, <2>7 DEF Written
  <2>9. c.symbols[d] = syms
    BY <2>4 DEF syms
  <2> QED
    BY <1>4, <1>13, <2>4, <2>5, <2>8, <2>9, MeantStays
<1> QED
  BY <1>14, <1>15, <1>16

(* A step of lielf_build() that leaves the symbols and their tables alone   *)
Onward(b, c) ==
    /\ c.symbols = b.symbols /\ c.relocs = b.relocs /\ TablesOK(c.sections)
    /\ \A d \in BOOLEAN : Written(b.sections, b.symbols[d], d) => Written(c.sections, c.symbols[d], d)

(* One section of an object put in the place of another, and what makes it  *)
(* a table                                                                  *)
PutAt(b, i, v) == Put(b, [b.sections EXCEPT ![i] = v])
Made(s, type, entsize, kind) == [s EXCEPT !.type = type, !.entsize = entsize, !.kind = kind]

(* A table of something else is made, under a name of its own, or changed.  *)
LEMMA OtherTable ==
    ASSUME NEW b, BinOK(b), TablesOK(b.sections), NEW name, name \notin {".symtab", ".dynsym"},
           NEW e, BinOK(e), e.symbols = b.symbols, e.relocs = b.relocs,
           NEW i, Retabled(b.sections, e.sections, i, name), NEW v, v.name = name,
           \/ v.type \notin {"SYMTAB", "DYNSYM", "RELA"}
           \/ i \in DOMAIN b.sections /\ v.type = b.sections[i].type /\ v.kind = b.sections[i].kind,
           NEW c, c = PutAt(e, i, v)
    PROVE  Onward(b, c) /\ Retabled(b.sections, c.sections, i, name) /\ c.sections[i] = v
<1> DEFINE x == b.sections
           z == [e.sections EXCEPT ![i] = v]
<1>1. Record(e) /\ IsSeq(e.sections) /\ IsSeq(x)
  BY DEF BinOK, Shape
<1>2. Retabled(x, z, i, name) /\ z[i] = v
  BY RetabledWith
<1>3. IsSeq(z)
  BY <1>1, SeqWith
<1>4. c = Put(e, z)
  BY DEF PutAt
<1> HIDE DEF z
<1>5. c.sections = z /\ c.symbols = e.symbols /\ c.relocs = e.relocs
  BY <1>1, <1>4, PutRecord
<1>6. TablesOK(z)
  BY <1>1, <1>2, <1>3, RetabledOK
<1>7. ASSUME NEW d \in BOOLEAN, Written(x, b.symbols[d], d) PROVE Written(z, b.symbols[d], d)
  <2>1. name # SymtabName(d)
    BY DEF SymtabName
  <2> QED
    BY <1>2, <1>6, <1>7, <2>1, WrittenStays
<1> QED
  BY <1>2, <1>5, <1>6, <1>7 DEF Onward

(* A section that lielf_build() makes a table of strings or of dynamic      *)
(* entries                                                                  *)
MadeIn(b, name, type, flags, align, entsize, kind, data, size) ==
    LET e == Ensured(b, name, type, flags, align)
        i == SectionIndex(e, name)
    IN PutAt(e, i, Updated(Made(e.sections[i], type, entsize, kind), data, size))
IsMade(b, c, name, type, data) ==
    /\ Onward(b, c)
    /\ \E i : /\ Retabled(b.sections, c.sections, i, name)
              /\ c.sections[i].data = data /\ c.sections[i].type = type

(* It makes no other table a wrong one.                                     *)
LEMMA MadeTable ==
    ASSUME NEW b, BinOK(b), TablesOK(b.sections), NEW name, name \notin {".symtab", ".dynsym"},
           NEW type, type \notin {"SYMTAB", "DYNSYM", "RELA"}, NEW flags, NEW align, Aligned(align),
           NEW entsize, NEW kind, NEW data, NEW size
    PROVE  LET c == MadeIn(b, name, type, flags, align, entsize, kind, data, size)
           IN /\ IsMade(b, c, name, type, data)
              /\ NamesOf(c.sections) = NamesOf(Ensured(b, name, type, flags, align).sections)
<1> DEFINE e == Ensured(b, name, type, flags, align)
           i == SectionIndex(e, name)
           s == e.sections[i]
           t == Made(s, type, entsize, kind)
           v == Updated(t, data, size)
           c == MadeIn(b, name, type, flags, align, entsize, kind, data, size)
<1>5. c = PutAt(e, i, v)
  BY DEF MadeIn
<1> HIDE DEF c
<1>1. BinOK(e)
  BY EnsuredOK
<1>2. e.symbols = b.symbols /\ e.relocs = b.relocs /\ Retabled(b.sections, e.sections, i, name)
  BY EnsuredFirst
<1> HIDE DEF e, i
<1>3. i \in DOMAIN e.sections /\ s.name = name
  BY <1>2 DEF Retabled, First
<1>4. IsSec(s)
  BY <1>1, <1>3 DEF BinOK, Shape
<1>6. t = [[[s EXCEPT !.type = type] EXCEPT !.entsize = entsize] EXCEPT !.kind = kind]
  BY DEF Made
<1> HIDE DEF s
<1>7. HasFields([s EXCEPT !.type = type])
  BY <1>4, FieldSet DEF IsSec
<1>8. HasFields([[s EXCEPT !.type = type] EXCEPT !.entsize = entsize])
  BY <1>7, FieldSet
<1> HIDE DEF t
<1>9. HasFields(t)
  BY <1>6, <1>8, FieldSet
<1>10. t.name = name /\ t.type = type
  BY <1>3, <1>4 DEF IsSec, HasFields, Fields, Made, t
<1>11. v.data = data /\ v.name = name /\ v.type = type
  BY <1>9, <1>10, UpdatedIs
<1> HIDE DEF v
<1>12. Onward(b, c) /\ Retabled(b.sections, c.sections, i, name) /\ c.sections[i] = v
  BY <1>1, <1>2, <1>5, <1>11, OtherTable
<1>13. NamesOf(c.sections) = NamesOf(e.sections)
  <2>1. c.sections = [e.sections EXCEPT ![i] = v]
    <3>1. Record(e)
      BY <1>1 DEF BinOK, Shape
    <3> QED
      BY <1>5, <3>1, PutRecord DEF PutAt
  <2>2. /\ DOMAIN c.sections = DOMAIN e.sections
        /\ \A k \in DOMAIN e.sections : c.sections[k].name = e.sections[k].name
    BY <1>3, <1>11, <2>1 DEF s
  <2> QED
    BY <2>2 DEF NamesOf
<1> QED
  BY <1>11, <1>12, <1>13 DEF IsMade, c, e

(* lielf__rebuild_strtab()                                                  *)
LEMMA RebuiltStrtabOnward ==
    ASSUME NEW b, BinOK(b), TablesOK(b.sections), NEW d \in BOOLEAN
    PROVE  Onward(b, RebuiltStrtab(b, d))
<1> DEFINE names == NamesOf(b.symbols[d])
           e    == Ensured(b, StrtabName(d), "STRTAB", AllocIf(d), 1)
           i    == SectionIndex(e, StrtabName(d))
           size == 1 + SpaceOf(names)
           c    == RebuiltStrtab(b, d)
<1>1. c = IF names # <<>> THEN MadeIn(b, StrtabName(d), "STRTAB", AllocIf(d), 1, 0, StrtabName(d),
                                       Table(names), size)
          ELSE IF SectionIndex(b, StrtabName(d)) = 0 THEN b
          ELSE PutAt(e, i, Updated(e.sections[i], Table(names), 1))
  BY DEF RebuiltStrtab, MadeIn, PutAt, Put, Made
<1> HIDE DEF names, size, c
<1>2. StrtabName(d) \notin {".symtab", ".dynsym"}
  BY DEF StrtabName
<1>3. CASE names # <<>>
  <2>1. c = MadeIn(b, StrtabName(d), "STRTAB", AllocIf(d), 1, 0, StrtabName(d), Table(names), size)
    BY <1>1, <1>3
  <2>2. IsMade(b, c, StrtabName(d), "STRTAB", Table(names))
    BY <1>2, <2>1, MadeTable, Alignments
  <2>3. Onward(b, c)
    BY <2>2 DEF IsMade
  <2> QED
    BY <2>3 DEF c
<1>4. CASE names = <<>> /\ SectionIndex(b, StrtabName(d)) = 0
  <2>1. c = b
    BY <1>1, <1>4
  <2>2. Onward(b, c)
    BY <2>1 DEF Onward
  <2> QED
    BY <2>2 DEF c
<1>5. CASE names = <<>> /\ SectionIndex(b, StrtabName(d)) # 0
  <2> DEFINE v == Updated(e.sections[i], Table(names), 1)
  <2>1. c = PutAt(e, i, v)
    BY <1>1, <1>5
  <2>2. e = b /\ Retabled(b.sections, e.sections, i, StrtabName(d))
    BY <1>5, EnsuredFirst
  <2> HIDE DEF e, i
  <2>3. i \in DOMAIN e.sections /\ e.sections[i].name = StrtabName(d)
    BY <2>2 DEF Retabled, First
  <2>4. IsSec(e.sections[i])
    BY <2>2, <2>3 DEF BinOK, Shape
  <2>5. v.name = StrtabName(d) /\ v.type = b.sections[i].type /\ v.kind = b.sections[i].kind
    BY <2>2, <2>3, <2>4, UpdatedIs DEF IsSec
  <2> HIDE DEF v
  <2>6. Onward(b, c)
    BY <1>2, <2>1, <2>2, <2>3, <2>5, OtherTable
  <2> QED
    BY <2>6 DEF c
<1> QED
  BY <1>3, <1>4, <1>5

(* What is in sections for relocations comes from relocations.              *)
RelasWritten(list, relocs) ==
    \A i \in DOMAIN list : list[i].type = "RELA" =>
       \A k \in DOMAIN list[i].data.of : \E j \in DOMAIN relocs :
          /\ relocs[j].dynamic = list[i].relaDynamic
          /\ relocs[j].offset = list[i].data.of[k].offset /\ relocs[j].sym = list[i].data.of[k].sym

(* It does when another table is made.                                      *)
LEMMA RelasStay ==
    ASSUME NEW b, RelasWritten(b.sections, b.relocs), NEW c, NEW name, NEW type, type # "RELA",
           NEW data, IsMade(b, c, name, type, data)
    PROVE  RelasWritten(c.sections, c.relocs)
<1>1. PICK i : Retabled(b.sections, c.sections, i, name) /\ c.sections[i].type = type
  BY DEF IsMade
<1>2. \A j \in DOMAIN c.sections : c.sections[j].type = "RELA" =>
         j \in DOMAIN b.sections /\ c.sections[j] = b.sections[j]
  BY <1>1 DEF Retabled
<1>3. c.relocs = b.relocs
  BY DEF IsMade, Onward
<1> QED
  BY <1>2, <1>3 DEF RelasWritten

(* lielf__rebuild_dynamic()                                                 *)
LEMMA RebuiltDynamicOnward ==
    ASSUME NEW b, BinOK(b), TablesOK(b.sections), RelasWritten(b.sections, b.relocs)
    PROVE  LET c == RebuiltDynamic(b)
           IN Onward(b, c) /\ RelasWritten(c.sections, c.relocs)
<1> DEFINE rows == b.dynamic
           size == DYN * (Len(rows) + 1)
           c    == RebuiltDynamic(b)
<1>1. c = IF rows = <<>> THEN b
          ELSE MadeIn(b, ".dynamic", "DYNAMIC", {"ALLOC", "WRITE"}, 8, DYN, "dynamic", Table(rows), size)
  BY DEF RebuiltDynamic, MadeIn, PutAt, Put, Made
<1> HIDE DEF rows, size, c
<1>2. CASE rows = <<>>
  <2>1. c = b
    BY <1>1, <1>2
  <2>2. Onward(b, c) /\ RelasWritten(c.sections, c.relocs)
    BY <2>1 DEF Onward
  <2> QED
    BY <2>2 DEF c
<1>3. CASE rows # <<>>
  <2>1. IsMade(b, c, ".dynamic", "DYNAMIC", Table(rows))
    BY <1>1, <1>3, MadeTable, Alignments
  <2>2. RelasWritten(c.sections, c.relocs)
    BY <2>1, RelasStay
  <2>3. Onward(b, c)
    BY <2>1 DEF IsMade
  <2> QED
    BY <2>2, <2>3 DEF c
<1> QED
  BY <1>2, <1>3

(* The names of all sections are in one of them.                            *)
Named(c) ==
    LET i == SectionIndex(c, ".shstrtab")
    IN /\ i # 0 /\ c.sections[i].data.of = SectionNames(c) /\ c.sections[i].type = "STRTAB"

(* lielf__rebuild_shstrtab()                                                *)
LEMMA RebuiltShstrtabOnward ==
    ASSUME NEW b, BinOK(b), TablesOK(b.sections), RelasWritten(b.sections, b.relocs)
    PROVE  LET c == RebuiltShstrtab(b)
           IN Onward(b, c) /\ RelasWritten(c.sections, c.relocs) /\ Named(c)
<1> DEFINE e     == Ensured(b, ".shstrtab", "STRTAB", {}, 1)
           names == SectionNames(e)
           size  == 1 + SpaceOf(names)
           c     == RebuiltShstrtab(b)
<1>1. c = MadeIn(b, ".shstrtab", "STRTAB", {}, 1, 0, "shstrtab", Table(names), size)
  BY DEF RebuiltShstrtab, MadeIn, PutAt, Put, Made
<1>2. BinOK(c)
  BY RebuiltShstrtabOK
<1>3. Table(names).of = names
  BY DEF Table
<1>4. names = <<"">> \o NamesOf(e.sections)
  BY DEF SectionNames
<1> HIDE DEF names, size, c
<1>5. IsMade(b, c, ".shstrtab", "STRTAB", Table(names)) /\ NamesOf(c.sections) = NamesOf(e.sections)
  BY <1>1, MadeTable, Alignments
<1>6. RelasWritten(c.sections, c.relocs)
  BY <1>5, RelasStay
<1>7. PICK i : /\ Retabled(b.sections, c.sections, i, ".shstrtab")
               /\ c.sections[i].type = "STRTAB" /\ c.sections[i].data = Table(names)
  BY <1>5 DEF IsMade
<1>8. SectionIndex(c, ".shstrtab") = i /\ i # 0
  <2>1. IsSeq(c.sections)
    BY <1>2 DEF BinOK, Shape
  <2> QED
    BY <1>7, <2>1, FoundFirst DEF Retabled
<1>9. names = SectionNames(c)
  BY <1>4, <1>5 DEF SectionNames
<1>10. Named(c)
  BY <1>3, <1>7, <1>8, <1>9 DEF Named
<1> QED
  BY <1>5, <1>6, <1>10 DEF IsMade, c

(* Lists whose sections have the same names and are the same tables         *)
Heads(x, y) ==
    /\ DOMAIN y = DOMAIN x
    /\ \A i \in DOMAIN x : y[i].name = x[i].name /\ y[i].type = x[i].type /\ y[i].kind = x[i].kind

(* No table becomes a wrong one when other things change.                   *)
LEMMA HeadsOK ==
    ASSUME NEW x, TablesOK(x), NEW y, Heads(x, y)
    PROVE  TablesOK(y)
BY DEF TablesOK, First, Heads

(* A table of symbols stays when its bytes and its info do.                 *)
LEMMA HeadsWritten ==
    ASSUME NEW x, NEW y, Heads(x, y), NEW d, NEW syms, Written(x, syms, d),
           \A i \in DOMAIN x : x[i].type = SymtabType(d) =>
              y[i].data = x[i].data /\ y[i].info = x[i].info
    PROVE  Written(y, syms, d)
BY DEF Written, Says, Heads

(* The sections that are added for relocations are behind all others.       *)
LEMMA WithRelasOnward ==
    ASSUME NEW b, BinOK(b), TablesOK(b.sections)
    PROVE  Onward(b, WithRelas(b))
<1> DEFINE homeless == {i \in DOMAIN b.relocs :
                          /\ \A k \in DOMAIN b.sections : ~ Relocates(b.sections[k], b.relocs[i])
                          /\ \A k \in 1 .. i - 1 : ~ Relocates(RelaFor(b.relocs[k]), b.relocs[i])}
           first == Kept(b.relocs, homeless)
           new   == [i \in DOMAIN first |-> RelaFor(first[i])]
           x     == b.sections
           y     == b.sections \o new
           c     == WithRelas(b)
<1>1. c = Put(b, y)
  BY DEF WithRelas, Put
<1>2. IsSeq(b.relocs) /\ IsSeq(x) /\ Record(b)
  BY DEF BinOK, Shape
<1> HIDE DEF homeless, c
<1>3. IsSeq(first)
  BY <1>2, KeptSeq
<1> HIDE DEF first
<1>4. new = [i \in DOMAIN first |-> new[i]]
  OBVIOUS
<1>5. \A i \in DOMAIN first : new[i].type = "RELA" /\ new[i].kind = "rela"
  BY DEF RelaFor, Section
<1> HIDE DEF new
<1>6. IsSeq(new) /\ DOMAIN new = DOMAIN first
  BY <1>3, <1>4, SeqAlong
<1> DEFINE n == Len(x)
           k == Len(new)
<1>7. n \in Nat /\ DOMAIN x = 1 .. n /\ k \in Nat /\ DOMAIN new = 1 .. k
  BY <1>2, <1>6, SeqPlaces
<1>8. /\ IsSeq(y) /\ Len(y) = n + k
      /\ \A i \in 1 .. n + k : y[i] = IF i <= n THEN x[i] ELSE new[i - n]
  BY <1>2, <1>6, BothSeq
<1> HIDE DEF n, k, y
<1>9. DOMAIN y = 1 .. n + k
  BY <1>8, SeqPlaces
<1>10. \A i \in DOMAIN x : i \in DOMAIN y /\ y[i] = x[i] /\ i \in Nat
  BY <1>7, <1>8, <1>9
<1>11. \A i \in DOMAIN y : i \notin DOMAIN x =>
          y[i].type = "RELA" /\ y[i].kind = "rela" /\ \A j \in DOMAIN x : j <= i
  <2> SUFFICES ASSUME NEW i \in DOMAIN y, i \notin DOMAIN x
               PROVE  y[i].type = "RELA" /\ y[i].kind = "rela" /\ \A j \in DOMAIN x : j <= i
    OBVIOUS
  <2>1. ~ (i <= n) /\ i - n \in DOMAIN new /\ \A j \in DOMAIN x : j <= i
    BY <1>7, <1>9
  <2>2. y[i] = new[i - n]
    BY <1>8, <1>9, <2>1
  <2> QED
    BY <1>5, <1>6, <2>1, <2>2
<1>12. c.sections = y /\ c.symbols = b.symbols /\ c.relocs = b.relocs
  BY <1>1, <1>2, PutRecord
<1>13. ASSUME NEW i \in DOMAIN x, NEW name, First(x, name, i) PROVE First(y, name, i)
  <2>1. y[i].name = name /\ i \in DOMAIN y
    BY <1>10, <1>13 DEF First
  <2>2. \A j \in DOMAIN y : y[j].name = name => i <= j
    BY <1>10, <1>11, <1>13 DEF First
  <2> QED
    BY <2>1, <2>2 DEF First
<1>14. TablesOK(y)
  <2> SUFFICES ASSUME NEW i \in DOMAIN y
               PROVE  /\ \A d \in BOOLEAN : y[i].type = SymtabType(d) =>
                            First(y, SymtabName(d), i) /\ y[i].kind = SymtabName(d)
                      /\ y[i].type = "RELA" => y[i].kind = "rela"
    BY DEF TablesOK
  <2>1. CASE i \in DOMAIN x
    <3>1. /\ \A d \in BOOLEAN : x[i].type = SymtabType(d) =>
                First(x, SymtabName(d), i) /\ x[i].kind = SymtabName(d)
          /\ x[i].type = "RELA" => x[i].kind = "rela"
      BY <2>1 DEF TablesOK
    <3> QED
      BY <1>10, <1>13, <2>1, <3>1
  <2>2. CASE i \notin DOMAIN x
    BY <1>11, <2>2, TableTypes
  <2> QED
    BY <2>1, <2>2
<1>15. ASSUME NEW d \in BOOLEAN, Written(x, b.symbols[d], d) PROVE Written(y, b.symbols[d], d)
  <2>1. \A i \in DOMAIN y : y[i].type = SymtabType(d) => i \in DOMAIN x /\ y[i] = x[i]
    BY <1>10, <1>11, TableTypes
  <2> QED
    BY <1>10, <1>15, <2>1 DEF Written
<1>16. Onward(b, c)
  BY <1>12, <1>14, <1>15 DEF Onward
<1> QED
  BY <1>16 DEF c

(* lielf__rebuild_one_rela(): the entries are of relocations.               *)
LEMMA OneRelaIs ==
    ASSUME NEW b, IsSeq(b.relocs), NEW s, IsSec(s)
    PROVE  LET t == RebuiltOneRela(b, s)
           IN /\ t.name = s.name /\ t.type = s.type /\ t.kind = s.kind
              /\ t.relaDynamic = s.relaDynamic
              /\ \A k \in DOMAIN t.data.of : \E j \in DOMAIN b.relocs :
                    /\ b.relocs[j].dynamic = s.relaDynamic
                    /\ b.relocs[j].offset = t.data.of[k].offset
                    /\ b.relocs[j].sym = t.data.of[k].sym
<1> DEFINE S    == {i \in DOMAIN b.relocs : Relocates(s, b.relocs[i])}
           mine == Kept(b.relocs, S)
           raw  == [i \in DOMAIN mine |-> [offset |-> mine[i].offset, sym |-> mine[i].sym]]
           u    == [s EXCEPT !.entsize = RELA]
           data == IF mine = <<>> THEN NoData ELSE Table(raw)
           size == RELA * Len(mine)
           t    == RebuiltOneRela(b, s)
<1>1. t = Updated(u, data, size)
  BY DEF RebuiltOneRela
<1>2. S \in SUBSET (DOMAIN b.relocs) /\ \A i \in S : b.relocs[i].dynamic = s.relaDynamic
  BY DEF Relocates
<1> HIDE DEF S, t
<1>3. /\ IsSeq(mine) /\ Len(mine) = Cardinality(S)
      /\ \A i \in S : mine[Place(S, i)] = b.relocs[i]
      /\ \A k \in 1 .. Cardinality(S) : \E i \in S : k = Place(S, i)
  BY <1>2, KeptAt
<1> HIDE DEF mine
<1>4. DOMAIN mine = 1 .. Cardinality(S)
  BY <1>3, SeqPlaces
<1>5. DOMAIN data.of \subseteq DOMAIN mine
      /\ \A k \in DOMAIN data.of : data.of[k] = [offset |-> mine[k].offset, sym |-> mine[k].sym]
  <2>1. CASE mine = <<>>
    <3>1. data.of = <<>> /\ DOMAIN <<>> = {}
      BY <2>1 DEF NoData
    <3> HIDE DEF data
    <3> QED
      BY <3>1
  <2>2. CASE mine # <<>>
    <3>1. data.of = raw
      BY <2>2 DEF Table
    <3> HIDE DEF data
    <3> QED
      BY <3>1
  <2> QED
    BY <2>1, <2>2
<1> HIDE DEF data, raw, size
<1>6. HasFields(u)
  BY FieldSet DEF IsSec
<1>7. /\ u.name = s.name /\ u.type = s.type /\ u.kind = s.kind /\ u.relaDynamic = s.relaDynamic
  BY DEF IsSec, HasFields, Fields
<1> HIDE DEF u
<1>8. /\ t.name = s.name /\ t.type = s.type /\ t.kind = s.kind /\ t.relaDynamic = s.relaDynamic
      /\ t.data = data
  BY <1>1, <1>6, <1>7, UpdatedIs
<1>9. ASSUME NEW k \in DOMAIN data.of
      PROVE  \E j \in DOMAIN b.relocs : /\ b.relocs[j].dynamic = s.relaDynamic
                                        /\ b.relocs[j].offset = data.of[k].offset
                                        /\ b.relocs[j].sym = data.of[k].sym
  <2>1. PICK i \in S : k = Place(S, i)
    BY <1>3, <1>4, <1>5
  <2>2. mine[k] = b.relocs[i] /\ i \in DOMAIN b.relocs /\ b.relocs[i].dynamic = s.relaDynamic
    BY <1>2, <1>3, <2>1
  <2>3. data.of[k].offset = mine[k].offset /\ data.of[k].sym = mine[k].sym
    <3>1. data.of[k] = [offset |-> mine[k].offset, sym |-> mine[k].sym]
      BY <1>5, Zenon
    <3> QED
      BY <3>1
  <2> QED
    BY <2>2, <2>3
<1> QED
  BY <1>8, <1>9 DEF t

(* lielf__rebuild_relas()                                                   *)
LEMMA RebuiltRelasOnward ==
    ASSUME NEW b, BinOK(b), TablesOK(b.sections)
    PROVE  LET c == RebuiltRelas(b)
           IN Onward(b, c) /\ RelasWritten(c.sections, c.relocs)
<1> DEFINE e == WithRelas(b)
           one(s) == IF s.kind = "rela" THEN RebuiltOneRela(e, s) ELSE s
           y == e.sections
           z == [i \in DOMAIN y |-> one(y[i])]
           c == RebuiltRelas(b)
<1>1. c = Put(e, z)
  BY DEF RebuiltRelas, Put
<1>2. BinOK(e) /\ Onward(b, e)
  BY WithRelasOK, WithRelasOnward
<1> HIDE DEF e, c
<1>3. Record(e) /\ IsSeq(e.relocs) /\ \A i \in DOMAIN y : IsSec(y[i])
  BY <1>2 DEF BinOK, Shape
<1>4. DOMAIN z = DOMAIN y /\ \A i \in DOMAIN y : z[i] = one(y[i])
  OBVIOUS
<1> HIDE DEF z
<1>5. c.sections = z /\ c.symbols = e.symbols /\ c.relocs = e.relocs
  BY <1>1, <1>3, PutRecord
<1>6. \A i \in DOMAIN y : /\ z[i].name = y[i].name /\ z[i].type = y[i].type /\ z[i].kind = y[i].kind
                          /\ y[i].kind # "rela" => z[i] = y[i]
  BY <1>3, <1>4, OneRelaIs
<1>7. Heads(y, z)
  BY <1>4, <1>6 DEF Heads
<1>8. TablesOK(y)
  BY <1>2 DEF Onward
<1>9. TablesOK(z)
  BY <1>7, <1>8, HeadsOK
<1>10. ASSUME NEW d \in BOOLEAN, Written(y, e.symbols[d], d) PROVE Written(z, e.symbols[d], d)
  <2>1. \A i \in DOMAIN y : y[i].type = SymtabType(d) => z[i] = y[i]
    BY <1>6, <1>8, TableTypes DEF TablesOK
  <2> QED
    BY <1>7, <1>10, <2>1, HeadsWritten
<1>11. RelasWritten(z, e.relocs)
  <2> SUFFICES ASSUME NEW i \in DOMAIN z, z[i].type = "RELA", NEW k \in DOMAIN z[i].data.of
               PROVE  \E j \in DOMAIN e.relocs : /\ e.relocs[j].dynamic = z[i].relaDynamic
                                                 /\ e.relocs[j].offset = z[i].data.of[k].offset
                                                 /\ e.relocs[j].sym = z[i].data.of[k].sym
    BY DEF RelasWritten
  <2>1. i \in DOMAIN y /\ y[i].kind = "rela"
    BY <1>4, <1>6, <1>8 DEF TablesOK
  <2> DEFINE s == y[i]
             t == RebuiltOneRela(e, s)
  <2>2. z[i] = t /\ IsSec(s)
    BY <1>3, <1>4, <2>1
  <2> HIDE DEF s
  <2>3. /\ t.relaDynamic = s.relaDynamic
        /\ \A m \in DOMAIN t.data.of : \E j \in DOMAIN e.relocs :
                    /\ e.relocs[j].dynamic = s.relaDynamic
                    /\ e.relocs[j].offset = t.data.of[m].offset
                    /\ e.relocs[j].sym = t.data.of[m].sym
    BY <1>3, <2>2, OneRelaIs
  <2> HIDE DEF t
  <2> QED
    BY <2>2, <2>3
<1>12. Onward(b, c) /\ RelasWritten(c.sections, c.relocs)
  BY <1>2, <1>5, <1>9, <1>10, <1>11 DEF Onward
<1> QED
  BY <1>12 DEF c

(* A section is found at the same place in lists with the same names.       *)
LEMMA SameIndex ==
    ASSUME NEW b, NEW c, Heads(b.sections, c.sections)
    PROVE  /\ \A name : SectionIndex(c, name) = SectionIndex(b, name)
           /\ SectionNames(c) = SectionNames(b)
<1>1. \A name : {i \in DOMAIN c.sections : c.sections[i].name = name}
                = {i \in DOMAIN b.sections : b.sections[i].name = name}
  BY DEF Heads
<1>2. NamesOf(c.sections) = NamesOf(b.sections)
  BY DEF Heads, NamesOf
<1>3. \A name : SectionIndex(c, name) = SectionIndex(b, name)
  <2> SUFFICES ASSUME NEW name PROVE SectionIndex(c, name) = SectionIndex(b, name)
    OBVIOUS
  <2> DEFINE f == {i \in DOMAIN c.sections : c.sections[i].name = name}
             g == {i \in DOMAIN b.sections : b.sections[i].name = name}
  <2>1. f = g
    BY <1>1
  <2>2. /\ SectionIndex(c, name) = IF f = {} THEN 0 ELSE CHOOSE i \in f : \A j \in f : i <= j
        /\ SectionIndex(b, name) = IF g = {} THEN 0 ELSE CHOOSE i \in g : \A j \in g : i <= j
    BY DEF SectionIndex
  <2> HIDE DEF f, g
  <2> QED
    BY <2>1, <2>2
<1> QED
  BY <1>2, <1>3 DEF SectionNames

(* Sections for relocations refer to the table of their symbols.            *)
Linked(c) ==
    \A i \in DOMAIN c.sections : c.sections[i].type = "RELA" =>
       c.sections[i].link = SectionIndex(c, SymtabName(c.sections[i].relaDynamic))

(* An object whose tables say what it is, relocations m included            *)
Ready(c, m) ==
    /\ TablesOK(c.sections) /\ MeantBy(c, m)
    /\ \A d \in BOOLEAN : Written(c.sections, c.symbols[d], d)
    /\ RelasWritten(c.sections, c.relocs) /\ Named(c)

(* lielf__resolve_links() changes the links of tables.                      *)
LEMMA ResolvedReady ==
    ASSUME NEW b, BinOK(b), NEW m, Ready(b, m)
    PROVE  Ready(Resolved(b), m) /\ Linked(Resolved(b))
<1> DEFINE one(s) ==
             CASE s.kind = ".symtab" -> [s EXCEPT !.link = SectionIndex(b, ".strtab")]
               [] s.kind = ".dynsym" -> [s EXCEPT !.link = SectionIndex(b, ".dynstr")]
               [] s.kind = "rela" ->
                    [s EXCEPT !.link = SectionIndex(b, SymtabName(s.relaDynamic)),
                              !.info = IF s.relaTarget = "" THEN 0
                                       ELSE SectionIndex(b, s.relaTarget)]
               [] OTHER -> s
           x == b.sections
           y == [i \in DOMAIN x |-> one(x[i])]
           c == Resolved(b)
<1>1. c = Put(b, y)
  BY DEF Resolved, Put
<1>2. Record(b) /\ IsSeq(x) /\ \A i \in DOMAIN x : IsSec(x[i])
  BY DEF BinOK, Shape
<1>3. ASSUME NEW s, IsSec(s)
      PROVE  /\ one(s).name = s.name /\ one(s).type = s.type /\ one(s).kind = s.kind
             /\ one(s).data = s.data /\ one(s).relaDynamic = s.relaDynamic
             /\ s.kind # "rela" => one(s).info = s.info
             /\ s.kind = "rela" => one(s).link = SectionIndex(b, SymtabName(s.relaDynamic))
  <2>1. CASE s.kind = ".symtab"
    <3>1. one(s) = [s EXCEPT !.link = SectionIndex(b, ".strtab")]
      BY <2>1
    <3> HIDE DEF one
    <3> QED
      BY <1>3, <2>1, <3>1 DEF IsSec, HasFields, Fields
  <2>2. CASE s.kind = ".dynsym"
    <3>1. one(s) = [s EXCEPT !.link = SectionIndex(b, ".dynstr")]
      BY <2>2
    <3> HIDE DEF one
    <3> QED
      BY <1>3, <2>2, <3>1 DEF IsSec, HasFields, Fields
  <2>3. CASE s.kind = "rela"
    <3> DEFINE l == SectionIndex(b, SymtabName(s.relaDynamic))
               j == IF s.relaTarget = "" THEN 0 ELSE SectionIndex(b, s.relaTarget)
    <3>1. one(s) = [s EXCEPT !.link = l, !.info = j]
      BY <2>3
    <3> HIDE DEF one, j
    <3>2. /\ one(s).name = s.name /\ one(s).type = s.type /\ one(s).kind = s.kind
          /\ one(s).data = s.data /\ one(s).relaDynamic = s.relaDynamic
          /\ one(s).link = l
      <4> HIDE DEF l
      <4> QED
        BY <1>3, <3>1 DEF IsSec, HasFields, Fields
    <3> QED
      BY <2>3, <3>2
  <2>4. CASE s.kind \notin {".symtab", ".dynsym", "rela"}
    <3>1. one(s) = s
      BY <2>4
    <3> HIDE DEF one
    <3> QED
      BY <2>4, <3>1
  <2> QED
    BY <2>1, <2>2, <2>3, <2>4
<1> HIDE DEF one, c
<1>4. DOMAIN y = DOMAIN x /\ \A i \in DOMAIN x : y[i] = one(x[i])
  OBVIOUS
<1> HIDE DEF y
<1>5. c.sections = y /\ c.symbols = b.symbols /\ c.relocs = b.relocs
  BY <1>1, <1>2, PutRecord
<1>6. \A i \in DOMAIN x :
         /\ y[i].name = x[i].name /\ y[i].type = x[i].type /\ y[i].kind = x[i].kind
         /\ y[i].data = x[i].data /\ y[i].relaDynamic = x[i].relaDynamic
         /\ x[i].kind # "rela" => y[i].info = x[i].info
         /\ x[i].kind = "rela" => y[i].link = SectionIndex(b, SymtabName(x[i].relaDynamic))
  BY <1>2, <1>3, <1>4
<1>7. Heads(x, y)
  BY <1>4, <1>6 DEF Heads
<1>8. TablesOK(x) /\ RelasWritten(x, b.relocs)
  BY DEF Ready
<1>9. TablesOK(y)
  BY <1>7, <1>8, HeadsOK
<1>10. \A i \in DOMAIN x : x[i].type = "RELA" => x[i].kind = "rela"
  BY <1>8 DEF TablesOK
<1>11. ASSUME NEW d \in BOOLEAN PROVE Written(y, b.symbols[d], d)
  <2>1. Written(x, b.symbols[d], d)
    BY DEF Ready
  <2>2. \A i \in DOMAIN x : x[i].type = SymtabType(d) => x[i].kind # "rela"
    BY <1>8, TableTypes DEF TablesOK
  <2>3. \A i \in DOMAIN x : x[i].type = SymtabType(d) => y[i].data = x[i].data /\ y[i].info = x[i].info
    BY <1>6, <2>2
  <2> QED
    BY <1>7, <2>1, <2>3, HeadsWritten
<1>12. RelasWritten(y, b.relocs)
  BY <1>4, <1>6, <1>8 DEF RelasWritten
<1>13. /\ \A name : SectionIndex(c, name) = SectionIndex(b, name)
       /\ SectionNames(c) = SectionNames(b)
  BY <1>5, <1>7, SameIndex
<1>14. Named(c)
  <2> DEFINE i == SectionIndex(b, ".shstrtab")
  <2>1. i # 0 /\ x[i].data.of = SectionNames(b) /\ x[i].type = "STRTAB"
    BY DEF Ready, Named
  <2>2. i \in DOMAIN x
    BY <1>2, <2>1, FoundFirst DEF First
  <2> HIDE DEF i
  <2>3. y[i].data.of = SectionNames(b) /\ y[i].type = "STRTAB"
    BY <1>6, <2>1, <2>2
  <2> QED
    BY <1>5, <1>13, <2>1, <2>3 DEF Named, i
<1>15. Linked(c)
  <2> SUFFICES ASSUME NEW i \in DOMAIN y, y[i].type = "RELA"
               PROVE  y[i].link = SectionIndex(c, SymtabName(y[i].relaDynamic))
    BY <1>5 DEF Linked
  <2>1. i \in DOMAIN x /\ x[i].kind = "rela"
    BY <1>4, <1>6, <1>10
  <2>2. y[i].link = SectionIndex(b, SymtabName(x[i].relaDynamic)) /\ y[i].relaDynamic = x[i].relaDynamic
    BY <1>6, <2>1
  <2> QED
    BY <1>13, <2>2
<1>16. MeantBy(c, m)
  BY <1>5, MeantStays DEF Ready
<1>17. Ready(c, m)
  BY <1>5, <1>9, <1>11, <1>12, <1>14, <1>16 DEF Ready
<1> QED
  BY <1>15, <1>17 DEF c

(* lielf_build() makes the tables say what the object is.                   *)
LEMMA RegeneratedReady ==
    ASSUME NEW b, BinOK(b), TablesOK(b.sections), NEW m, MeantBy(b, m)
    PROVE  Ready(Regenerated(b), m) /\ Linked(Regenerated(b))
<1> DEFINE b1 == RebuiltSymtab(b, FALSE)
           b2 == RebuiltStrtab(b1, FALSE)
           b3 == RebuiltSymtab(b2, TRUE)
           b4 == RebuiltStrtab(b3, TRUE)
           b5 == RebuiltRelas(b4)
           b6 == RebuiltDynamic(b5)
           b7 == RebuiltShstrtab(b6)
<1>1. Regenerated(b) = Resolved(b7)
  BY DEF Regenerated
<1>2. BinOK(b1)
  BY RebuiltSymtabOK
<1>3. /\ TablesOK(b1.sections) /\ MeantBy(b1, m)
      /\ Written(b1.sections, b1.symbols[FALSE], FALSE)
  BY RebuiltSymtabMeant
<1> HIDE DEF b1
<1>4. BinOK(b2) /\ Onward(b1, b2)
  BY <1>2, <1>3, RebuiltStrtabOK, RebuiltStrtabOnward
<1> HIDE DEF b2
<1>5. /\ TablesOK(b2.sections) /\ MeantBy(b2, m)
      /\ Written(b2.sections, b2.symbols[FALSE], FALSE)
  BY <1>3, <1>4, MeantStays DEF Onward
<1>6. BinOK(b3)
  BY <1>4, RebuiltSymtabOK
<1>7. /\ TablesOK(b3.sections) /\ MeantBy(b3, m)
      /\ Written(b3.sections, b3.symbols[FALSE], FALSE)
      /\ Written(b3.sections, b3.symbols[TRUE], TRUE)
  <2>1. FALSE \in BOOLEAN /\ TRUE \in BOOLEAN /\ FALSE # TRUE
    OBVIOUS
  <2>2. /\ TablesOK(b3.sections) /\ MeantBy(b3, m)
        /\ Written(b3.sections, b3.symbols[TRUE], TRUE)
        /\ \A o \in BOOLEAN : o # TRUE /\ Written(b2.sections, b2.symbols[o], o) =>
                    Written(b3.sections, b3.symbols[o], o)
    BY <1>4, <1>5, <2>1, RebuiltSymtabMeant
  <2> QED
    BY <1>5, <2>1, <2>2
<1> HIDE DEF b3
<1>8. BinOK(b4) /\ Onward(b3, b4)
  BY <1>6, <1>7, RebuiltStrtabOK, RebuiltStrtabOnward
<1> HIDE DEF b4
<1>9. /\ TablesOK(b4.sections) /\ MeantBy(b4, m)
      /\ \A d \in BOOLEAN : Written(b4.sections, b4.symbols[d], d)
  BY <1>7, <1>8, MeantStays DEF Onward
<1>10. BinOK(b5) /\ Onward(b4, b5) /\ RelasWritten(b5.sections, b5.relocs)
  BY <1>8, <1>9, RebuiltRelasOK, RebuiltRelasOnward
<1> HIDE DEF b5
<1>11. /\ TablesOK(b5.sections) /\ MeantBy(b5, m)
       /\ \A d \in BOOLEAN : Written(b5.sections, b5.symbols[d], d)
  BY <1>9, <1>10, MeantStays DEF Onward
<1>12. BinOK(b6) /\ Onward(b5, b6) /\ RelasWritten(b6.sections, b6.relocs)
  BY <1>10, <1>11, RebuiltDynamicOK, RebuiltDynamicOnward
<1> HIDE DEF b6
<1>13. /\ TablesOK(b6.sections) /\ MeantBy(b6, m)
       /\ \A d \in BOOLEAN : Written(b6.sections, b6.symbols[d], d)
  BY <1>11, <1>12, MeantStays DEF Onward
<1>14. BinOK(b7) /\ Onward(b6, b7) /\ RelasWritten(b7.sections, b7.relocs) /\ Named(b7)
  BY <1>12, <1>13, RebuiltShstrtabOK, RebuiltShstrtabOnward
<1> HIDE DEF b7
<1>15. /\ TablesOK(b7.sections) /\ MeantBy(b7, m)
       /\ \A d \in BOOLEAN : Written(b7.sections, b7.symbols[d], d)
  BY <1>13, <1>14, MeantStays DEF Onward
<1>16. Ready(b7, m)
  BY <1>14, <1>15 DEF Ready
<1> QED
  BY <1>1, <1>14, <1>16, ResolvedReady

(* Laying out and settling leave the tables as they are.                    *)
LEMMA LaidReady ==
    ASSUME NEW b, NEW m, Ready(b, m), Linked(b), IsSeq(b.sections), NEW c, Laid(b, c)
    PROVE  Ready(c, m) /\ Linked(c)
<1> DEFINE x == b.sections
           y == c.sections
<1>1. /\ DOMAIN y = DOMAIN x /\ c.symbols = b.symbols /\ c.relocs = b.relocs
      /\ \A i \in DOMAIN x :
            /\ y[i].name = x[i].name /\ y[i].type = x[i].type /\ y[i].kind = x[i].kind
            /\ y[i].data = x[i].data /\ y[i].relaDynamic = x[i].relaDynamic
            /\ y[i].info = x[i].info /\ y[i].link = x[i].link
  BY DEF Laid, Shifted
<1>2. Heads(x, y)
  BY <1>1 DEF Heads
<1>3. TablesOK(y)
  BY <1>2, HeadsOK DEF Ready
<1>4. \A d \in BOOLEAN : Written(y, b.symbols[d], d)
  BY <1>1, <1>2, HeadsWritten DEF Ready
<1>5. RelasWritten(y, b.relocs)
  BY <1>1 DEF Ready, RelasWritten
<1>6. /\ \A name : SectionIndex(c, name) = SectionIndex(b, name)
      /\ SectionNames(c) = SectionNames(b)
  BY <1>2, SameIndex
<1>7. Named(c)
  <2> DEFINE i == SectionIndex(b, ".shstrtab")
  <2>1. i # 0 /\ x[i].data.of = SectionNames(b) /\ x[i].type = "STRTAB"
    BY DEF Ready, Named
  <2>2. i \in DOMAIN x
    BY <2>1, FoundFirst DEF First
  <2> HIDE DEF i
  <2>3. y[i].data.of = SectionNames(b) /\ y[i].type = "STRTAB"
    BY <1>1, <2>1, <2>2
  <2> QED
    BY <1>6, <2>1, <2>3 DEF Named, i
<1>8. Linked(c)
  BY <1>1, <1>6 DEF Linked
<1>9. MeantBy(c, m)
  BY <1>1, MeantStays DEF Ready
<1> QED
  BY <1>1, <1>3, <1>4, <1>5, <1>7, <1>8, <1>9 DEF Ready

-----------------------------------------------------------------------------
(* The strings of a table, as parts of it                                   *)
StringParts(x) == [i \in DOMAIN x |-> Part(1, StringLength(x[i]) + 1)]

(* A string begins where those before it end.                               *)
LEMMA StringsStacked ==
    ASSUME NEW x, IsSeq(x)
    PROVE  LET e == Ends(0, StringParts(x))
           IN /\ e \in [0 .. Len(x) -> Nat] /\ e[0] = 0
              /\ \A k \in 1 .. Len(x) : e[k] = e[k - 1] + (StringLength(x[k]) + 1)
              /\ SpaceOf(x) = e[Len(x)]
<1> DEFINE parts == StringParts(x)
           e == Ends(0, parts)
<1>1. parts = [i \in DOMAIN x |-> parts[i]]
  BY DEF StringParts
<1>2. \A i \in DOMAIN x : /\ parts[i].align = 1 /\ parts[i].size = StringLength(x[i]) + 1
                          /\ StringLength(x[i]) \in Nat
  BY DEF StringParts, Part, StringLength
<1>3. SpaceOf(x) = e[Len(x)]
  BY DEF SpaceOf, StringParts
<1> HIDE DEF parts
<1>4. Len(parts) = Len(x) /\ DOMAIN parts = DOMAIN x /\ Len(x) \in Nat /\ DOMAIN x = 1 .. Len(x)
  BY <1>1, SeqAlong, SeqPlaces
<1>5. IsParts(parts)
  BY <1>2, <1>4 DEF IsParts
<1>6. Stacked(0, parts, e)
  BY <1>5, EndsStacked
<1> HIDE DEF e
<1>7. /\ e \in [0 .. Len(x) -> Nat] /\ e[0] = 0
      /\ \A k \in 1 .. Len(x) : e[k] = AlignUp(e[k - 1], parts[k].align) + parts[k].size
  BY <1>4, <1>6 DEF Stacked
<1>8. \A v : AlignUp(v, 1) = v
  BY DEF AlignUp
<1>9. \A k \in 1 .. Len(x) : e[k] = e[k - 1] + (StringLength(x[k]) + 1)
  BY <1>2, <1>4, <1>7, <1>8
<1> QED
  BY <1>3, <1>7, <1>9 DEF e, parts

(* Where a string begins, by the ends of all of them                        *)
LEMMA OffsetIs ==
    ASSUME NEW x, IsSeq(x), NEW i \in DOMAIN x
    PROVE  OffsetOf(x, i) = 1 + Ends(0, StringParts(x))[i - 1]
<1> DEFINE n == i - 1
           y == SubSeq(x, 1, n)
           e == Ends(0, StringParts(x))
           f == Ends(0, StringParts(y))
<1>1. Len(x) \in Nat /\ DOMAIN x = 1 .. Len(x)
  BY SeqPlaces
<1>2. n \in Nat /\ n \in 0 .. Len(x)
  BY <1>1
<1>3. PICK V : x \in Seq(V)
  BY SeqPlaces
<1>7. OffsetOf(x, i) = 1 + SpaceOf(y)
  BY DEF OffsetOf
<1>4. y \in Seq(V) /\ Len(y) = n /\ \A k \in 1 .. n : y[k] = x[k]
  BY <1>1, <1>2, <1>3, SubSeqProperties
<1> HIDE DEF y, n
<1>5. IsSeq(y)
  BY <1>4, AnySeq
<1>6. /\ e[0] = 0 /\ f[0] = 0 /\ SpaceOf(y) = f[n]
      /\ \A k \in 1 .. Len(x) : e[k] = e[k - 1] + (StringLength(x[k]) + 1)
      /\ \A k \in 1 .. n : f[k] = f[k - 1] + (StringLength(y[k]) + 1)
  BY <1>4, <1>5, StringsStacked
<1> HIDE DEF e, f
<1>8. \A k \in 1 .. n : k \in 1 .. Len(x)
  BY <1>1, <1>2
<1>9. Same(f, e, n)
  BY <1>4, <1>6, <1>8 DEF Same
<1>10. f[n] = e[n]
  <2>1. n \in 0 .. n
    BY <1>2
  <2> QED
    BY <1>2, <1>9, <2>1, SameRecursion
<1> QED
  BY <1>6, <1>7, <1>10 DEF e, n

(* No two strings of a table begin at one place.                            *)
LEMMA NameFound ==
    ASSUME NEW x, IsSeq(x), NEW i \in DOMAIN x
    PROVE  StringAt(x, OffsetOf(x, i)) = x[i]
<1> DEFINE n == Len(x)
           e == Ends(0, StringParts(x))
<1>1. n \in Nat /\ DOMAIN x = 1 .. n
  BY SeqPlaces
<1>2. /\ e \in [0 .. n -> Nat]
      /\ \A k \in 1 .. n : e[k] = e[k - 1] + (StringLength(x[k]) + 1)
  BY StringsStacked
<1>3. \A k \in DOMAIN x : OffsetOf(x, k) = 1 + e[k - 1]
  BY OffsetIs
<1> HIDE DEF e, n
<1>4. \A k \in 1 .. n : e[k - 1] \in Nat /\ e[k] \in Nat /\ e[k - 1] < e[k]
  <2> SUFFICES ASSUME NEW k \in 1 .. n PROVE e[k - 1] \in Nat /\ e[k] \in Nat /\ e[k - 1] < e[k]
    OBVIOUS
  <2>1. k - 1 \in 0 .. n /\ k \in 0 .. n
    BY <1>1
  <2>2. e[k - 1] \in Nat /\ e[k] \in Nat /\ StringLength(x[k]) \in Nat
    BY <1>2, <2>1 DEF StringLength
  <2> QED
    BY <1>2, <2>2
<1>5. \A j \in 0 .. n : \A k \in 0 .. j : e[k] <= e[j]
  <2>1. \A k \in 1 .. n : e[k - 1] <= e[k]
    BY <1>4
  <2> QED
    BY <1>1, <1>2, <2>1, Rising
<1>6. ASSUME NEW j \in 1 .. n, NEW k \in 1 .. n, j < k PROVE e[j - 1] < e[k - 1]
  <2>1. k - 1 \in 0 .. n /\ j \in 0 .. k - 1
    BY <1>1, <1>6
  <2>2. e[j] <= e[k - 1]
    BY <1>5, <2>1
  <2> QED
    BY <1>4, <2>2
<1>7. \A j, k \in DOMAIN x : OffsetOf(x, j) = OffsetOf(x, k) => j = k
  <2> SUFFICES ASSUME NEW j \in DOMAIN x, NEW k \in DOMAIN x, OffsetOf(x, j) = OffsetOf(x, k)
               PROVE  j = k
    OBVIOUS
  <2>1. e[j - 1] = e[k - 1] /\ e[j - 1] \in Nat
    <3>1. 1 + e[j - 1] = 1 + e[k - 1] /\ e[j - 1] \in Nat /\ e[k - 1] \in Nat
      BY <1>1, <1>3, <1>4
    <3> QED
      BY <3>1
  <2>2. ~ (j < k) /\ ~ (k < j)
    BY <1>1, <1>6, <2>1
  <2> QED
    BY <1>1, <2>2
<1> DEFINE found == {k \in DOMAIN x : OffsetOf(x, k) = OffsetOf(x, i)}
<1>8. found = {i}
  BY <1>7
<1>9. (CHOOSE k \in found : TRUE) = i
  BY <1>8
<1>10. StringAt(x, OffsetOf(x, i)) = IF found = {} THEN "" ELSE x[CHOOSE k \in found : TRUE]
  BY DEF StringAt
<1> HIDE DEF found
<1> QED
  BY <1>8, <1>9, <1>10

(* The names of the sections, behind that of section 0                      *)
LEMMA SectionNamesAt ==
    ASSUME NEW c, IsSeq(c.sections)
    PROVE  /\ IsSeq(SectionNames(c))
           /\ \A i \in DOMAIN c.sections : /\ i + 1 \in DOMAIN SectionNames(c)
                                           /\ SectionNames(c)[i + 1] = c.sections[i].name
<1> DEFINE x == c.sections
           y == NamesOf(x)
           z == SectionNames(c)
           e == <<"">>
<1>1. Len(x) \in Nat /\ DOMAIN x = 1 .. Len(x)
  BY SeqPlaces
<1>2. IsSeq(y) /\ Len(y) = Len(x)
  BY NamesSeq
<1>3. \A i \in DOMAIN x : y[i] = x[i].name
  BY DEF NamesOf
<1>4. IsSeq(e) /\ Len(e) = 1
  <2>1. e \in Seq({""}) /\ Len(e) = 1
    OBVIOUS
  <2> QED
    BY <2>1, AnySeq
<1>5. z = e \o y
  BY DEF SectionNames
<1> HIDE DEF y, z, e
<1>6. /\ IsSeq(z) /\ Len(z) = 1 + Len(x)
      /\ \A i \in 1 .. 1 + Len(x) : z[i] = IF i <= 1 THEN e[i] ELSE y[i - 1]
  <2>1. /\ IsSeq(e \o y) /\ Len(e \o y) = Len(e) + Len(y)
        /\ \A i \in 1 .. Len(e) + Len(y) :
              (e \o y)[i] = IF i <= Len(e) THEN e[i] ELSE y[i - Len(e)]
    BY <1>2, <1>4, BothSeq
  <2> QED
    BY <1>2, <1>4, <1>5, <2>1
<1>7. DOMAIN z = 1 .. 1 + Len(x)
  BY <1>6, SeqPlaces
<1>9. ASSUME NEW i \in DOMAIN x PROVE i + 1 \in DOMAIN z /\ z[i + 1] = x[i].name
  <2>1. i \in Nat /\ i + 1 \in 1 .. 1 + Len(x) /\ ~ (i + 1 <= 1) /\ (i + 1) - 1 = i
    BY <1>1
  <2>2. z[i + 1] = y[(i + 1) - 1]
    BY <1>6, <2>1
  <2> QED
    BY <1>3, <1>7, <2>1, <2>2
<1> QED
  BY <1>6, <1>9 DEF z

(* What is written says of each section what it is, its name included.      *)
LEMMA ImageSays ==
    ASSUME NEW c, IsSeq(c.sections), Named(c), NEW shoff
    PROVE  LET img == ImageOf(c, shoff)
           IN /\ DOMAIN img.headers = DOMAIN c.sections
              /\ \A i \in DOMAIN c.sections :
                    /\ img.headers[i].type = c.sections[i].type
                    /\ img.headers[i].link = c.sections[i].link
                    /\ img.headers[i].info = c.sections[i].info
                    /\ c.sections[i].type # "NOBITS" => img.contents[i] = c.sections[i].data
                    /\ NameOf(img, i) = c.sections[i].name
<1> DEFINE img == ImageOf(c, shoff)
           j == SectionIndex(c, ".shstrtab")
           header(i) ==
             LET s == c.sections[i]
             IN [name |-> OffsetOf(SectionNames(c), i + 1), type |-> s.type, flags |-> s.flags,
                 addr |-> s.addr, offset |-> s.offset, size |-> s.size, link |-> s.link,
                 info |-> s.info, align |-> s.align, entsize |-> s.entsize]
<1>1. /\ img.headers = [i \in DOMAIN c.sections |-> header(i)] /\ img.shstrndx = j
      /\ img.contents = [i \in DOMAIN c.sections |->
                           IF c.sections[i].type = "NOBITS" THEN NoData ELSE c.sections[i].data]
  BY DEF ImageOf
<1>2. \A i \in DOMAIN c.sections :
         /\ header(i).type = c.sections[i].type /\ header(i).link = c.sections[i].link
         /\ header(i).info = c.sections[i].info
         /\ header(i).name = OffsetOf(SectionNames(c), i + 1)
  OBVIOUS
<1> HIDE DEF header, img
<1>3. /\ DOMAIN img.headers = DOMAIN c.sections
      /\ \A i \in DOMAIN c.sections :
            /\ img.headers[i] = header(i)
            /\ c.sections[i].type # "NOBITS" => img.contents[i] = c.sections[i].data
  BY <1>1
<1>4. j # 0 /\ j \in DOMAIN c.sections /\ img.contents[j].of = SectionNames(c)
  <2>1. j # 0 /\ c.sections[j].data.of = SectionNames(c) /\ c.sections[j].type = "STRTAB"
    BY DEF Named
  <2>2. j \in DOMAIN c.sections
    BY <2>1, FoundFirst DEF First
  <2> HIDE DEF j
  <2> QED
    BY <1>3, <2>1, <2>2
<1> HIDE DEF j
<1>5. ASSUME NEW i \in DOMAIN c.sections PROVE NameOf(img, i) = c.sections[i].name
  <2>1. NameOf(img, i) = StringAt(SectionNames(c), OffsetOf(SectionNames(c), i + 1))
    BY <1>1, <1>2, <1>3, <1>4 DEF NameOf
  <2> QED
    BY <2>1, SectionNamesAt, NameFound
<1>6. \A i \in DOMAIN c.sections :
         /\ img.headers[i].type = c.sections[i].type /\ img.headers[i].link = c.sections[i].link
         /\ img.headers[i].info = c.sections[i].info
  BY <1>2, <1>3
<1> QED
  BY <1>3, <1>5, <1>6 DEF img

(* A section that is loaded is a table of symbols or of relocations by its  *)
(* type.                                                                    *)
LEMMA LoadedKind ==
    ASSUME NEW img, NEW i
    PROVE  LET s == LoadedSection(img, i)
               h == img.headers[i]
           IN /\ s.name = NameOf(img, i) /\ s.type = h.type /\ s.link = h.link /\ s.info = h.info
              /\ s.data = img.contents[i]
              /\ \A d \in BOOLEAN : s.kind = SymtabName(d) <=> s.type = SymtabType(d)
              /\ s.kind = "rela" <=> s.type = "RELA"
              /\ s.type = "RELA" =>
                    (s.relaDynamic <=> h.link # 0 /\ img.headers[h.link].type = "DYNSYM")
              /\ s.relaDynamic \in BOOLEAN
<1> DEFINE s == LoadedSection(img, i)
           h == img.headers[i]
<1>1. /\ s.name = NameOf(img, i) /\ s.type = h.type /\ s.link = h.link /\ s.info = h.info
      /\ s.data = img.contents[i] /\ s.kind = KindOf(img, i)
      /\ s.relaDynamic = (h.type = "RELA" /\ h.link # 0 /\ img.headers[h.link].type = "DYNSYM")
  BY DEF LoadedSection
<1> HIDE DEF s
<1>2. /\ TableKind["SYMTAB"] = ".symtab" /\ TableKind["DYNSYM"] = ".dynsym"
      /\ TableKind["DYNAMIC"] = "dynamic" /\ TableKind["RELA"] = "rela"
      /\ DOMAIN TableKind = {"SYMTAB", "DYNSYM", "DYNAMIC", "RELA"}
  BY DEF TableKind
<1>3. KindOf(img, i) = IF h.type \in DOMAIN TableKind THEN TableKind[h.type] ELSE KindOf(img, i)
  BY DEF KindOf
<1>4. h.type \notin DOMAIN TableKind =>
         KindOf(img, i) \in {".dynstr", ".strtab", "shstrtab", "normal"}
  BY DEF KindOf
<1>5. /\ KindOf(img, i) = ".symtab" <=> h.type = "SYMTAB"
      /\ KindOf(img, i) = ".dynsym" <=> h.type = "DYNSYM"
      /\ KindOf(img, i) = "rela" <=> h.type = "RELA"
  BY <1>2, <1>3, <1>4
<1>6. \A d \in BOOLEAN : s.kind = SymtabName(d) <=> s.type = SymtabType(d)
  BY <1>1, <1>5 DEF SymtabName, SymtabType
<1>7. /\ s.kind = "rela" <=> s.type = "RELA"
      /\ s.type = "RELA" => (s.relaDynamic <=> h.link # 0 /\ img.headers[h.link].type = "DYNSYM")
      /\ s.relaDynamic \in BOOLEAN
  BY <1>1, <1>5
<1> QED
  BY <1>1, <1>6, <1>7 DEF s

(* What has the kind of a table has its type.                               *)
KindsOK(list) ==
    \A i \in DOMAIN list :
       /\ \A d \in BOOLEAN : list[i].kind = SymtabName(d) <=> list[i].type = SymtabType(d)
       /\ list[i].kind = "rela" <=> list[i].type = "RELA"

(* Symbols in the same places, with what they say of themselves             *)
SymbolsLike(syms, others) ==
    /\ DOMAIN syms = DOMAIN others
    /\ \A k \in DOMAIN others : syms[k].local = others[k].local /\ syms[k].value = others[k].value

(* The symbols that are loaded are those of the only table of them.         *)
LEMMA LoadedSymbolsAre ==
    ASSUME NEW list, IsSeq(list), \A i \in DOMAIN list : IsSec(list[i]),
           TablesOK(list), KindsOK(list), NEW d \in BOOLEAN
    PROVE  LET syms == LoadedSymbols(list, SymtabName(d))
           IN /\ \/ syms = <<>>
                 \/ \E i \in DOMAIN list : list[i].type = SymtabType(d)
              /\ \A i \in DOMAIN list : list[i].type = SymtabType(d) =>
                    SymbolsLike(syms, list[i].data.of)
<1> DEFINE kind == SymtabName(d)
           syms == LoadedSymbols(list, kind)
           row(s, k) == [name |-> IF s.link = 0 THEN ""
                                  ELSE StringAt(list[s.link].data.of, s.data.of[k].name),
                         local |-> s.data.of[k].local, shndx |-> s.data.of[k].shndx,
                         value |-> s.data.of[k].value]
           entries(s) == [k \in DOMAIN s.data.of |-> row(s, k)]
           parts == [i \in DOMAIN list |-> IF list[i].kind = kind THEN entries(list[i]) ELSE <<>>]
<1>1. syms = FlattenSeq(parts)
  BY DEF LoadedSymbols
<1> HIDE DEF syms
<1>2. \A s, k : row(s, k).local = s.data.of[k].local /\ row(s, k).value = s.data.of[k].value
  OBVIOUS
<1> HIDE DEF row
<1>3. \A s : /\ DOMAIN entries(s) = DOMAIN s.data.of
             /\ \A k \in DOMAIN s.data.of : entries(s)[k] = row(s, k)
  OBVIOUS
<1>4. ASSUME NEW i \in DOMAIN list PROVE IsSeq(entries(list[i]))
  <2> DEFINE y == entries(list[i])
  <2>1. y = [k \in DOMAIN list[i].data.of |-> y[k]]
    OBVIOUS
  <2> HIDE DEF y
  <2>2. IsSeq(list[i].data.of)
    BY DEF IsSec
  <2>3. IsSeq(y)
    BY <2>1, <2>2, SeqAlong
  <2> QED
    BY <2>3 DEF y
<1> HIDE DEF entries
<1>5. IsSeq(<<>>)
  <2>1. <<>> \in Seq({0})
    OBVIOUS
  <2> QED
    BY <2>1, AnySeq
<1>6. /\ parts = [i \in DOMAIN list |-> parts[i]]
      /\ \A i \in DOMAIN list :
            parts[i] = IF list[i].type = SymtabType(d) THEN entries(list[i]) ELSE <<>>
  BY DEF KindsOK
<1> HIDE DEF parts
<1>7. IsSeq(parts) /\ DOMAIN parts = DOMAIN list /\ \A i \in DOMAIN parts : IsSeq(parts[i])
  <2>1. IsSeq(parts) /\ DOMAIN parts = DOMAIN list
    BY <1>6, SeqAlong
  <2> QED
    BY <1>4, <1>5, <1>6, <2>1
<1>8. ASSUME NEW i \in DOMAIN list, list[i].type = SymtabType(d)
      PROVE  SymbolsLike(syms, list[i].data.of)
  <2>1. \A j \in DOMAIN list : list[j].type = SymtabType(d) => j = i
    <3> SUFFICES ASSUME NEW j \in DOMAIN list, list[j].type = SymtabType(d) PROVE j = i
      OBVIOUS
    <3>1. First(list, kind, i) /\ First(list, kind, j)
      BY <1>8 DEF TablesOK
    <3>2. i <= j /\ j <= i
      BY <3>1 DEF First
    <3>3. i \in Nat /\ j \in Nat
      BY SeqPlaces
    <3> QED
      BY <3>2, <3>3
  <2>2. \A j \in DOMAIN parts : j # i => parts[j] = <<>>
    BY <1>6, <1>7, <2>1
  <2>3. syms = parts[i]
    BY <1>1, <1>7, <2>2, FlatOnly
  <2>4. syms = entries(list[i])
    BY <1>6, <1>8, <2>3
  <2> QED
    BY <1>2, <1>3, <2>4 DEF SymbolsLike
<1>9. ASSUME \A i \in DOMAIN list : list[i].type # SymtabType(d) PROVE syms = <<>>
  <2>1. \A j \in DOMAIN parts : j # 0 => parts[j] = <<>>
    BY <1>6, <1>7, <1>9
  <2>2. 0 \notin DOMAIN parts
    BY <1>7, SeqPlaces
  <2> QED
    BY <1>1, <1>7, <2>1, <2>2, FlatOnly
<1> QED
  BY <1>8, <1>9 DEF syms

(* A relocation that is loaded is in a section for relocations.             *)
LEMMA LoadedRelocsAre ==
    ASSUME NEW list, IsSeq(list), \A i \in DOMAIN list : IsSec(list[i]), KindsOK(list)
    PROVE  \A k \in DOMAIN LoadedRelocs(list) :
              \E i \in DOMAIN list : \E m \in DOMAIN list[i].data.of :
                 /\ list[i].type = "RELA"
                 /\ LoadedRelocs(list)[k] =
                      [target |-> list[i].relaTarget, offset |-> list[i].data.of[m].offset,
                       sym |-> list[i].data.of[m].sym, dynamic |-> list[i].relaDynamic]
<1> DEFINE relocs == LoadedRelocs(list)
           row(s, k) == [target |-> s.relaTarget, offset |-> s.data.of[k].offset,
                         sym |-> s.data.of[k].sym, dynamic |-> s.relaDynamic]
           entries(s) == [k \in DOMAIN s.data.of |-> row(s, k)]
           parts == [i \in DOMAIN list |-> IF list[i].kind = "rela" THEN entries(list[i]) ELSE <<>>]
<1> SUFFICES \A k \in DOMAIN relocs : \E i \in DOMAIN list : \E m \in DOMAIN list[i].data.of :
                list[i].type = "RELA" /\ relocs[k] = row(list[i], m)
  OBVIOUS
<1>1. relocs = FlattenSeq(parts)
  BY DEF LoadedRelocs
<1> HIDE DEF relocs, row
<1>3. \A s : /\ DOMAIN entries(s) = DOMAIN s.data.of
             /\ \A k \in DOMAIN s.data.of : entries(s)[k] = row(s, k)
  OBVIOUS
<1>4. ASSUME NEW i \in DOMAIN list PROVE IsSeq(entries(list[i]))
  <2> DEFINE y == entries(list[i])
  <2>1. y = [k \in DOMAIN list[i].data.of |-> y[k]]
    OBVIOUS
  <2> HIDE DEF y
  <2>2. IsSeq(list[i].data.of)
    BY DEF IsSec
  <2>3. IsSeq(y)
    BY <2>1, <2>2, SeqAlong
  <2> QED
    BY <2>3 DEF y
<1> HIDE DEF entries
<1>5. IsSeq(<<>>) /\ DOMAIN <<>> = {}
  <2>1. <<>> \in Seq({0}) /\ DOMAIN <<>> = {}
    OBVIOUS
  <2> QED
    BY <2>1, AnySeq
<1>6. /\ parts = [i \in DOMAIN list |-> parts[i]]
      /\ \A i \in DOMAIN list :
            parts[i] = IF list[i].type = "RELA" THEN entries(list[i]) ELSE <<>>
  BY DEF KindsOK
<1> HIDE DEF parts
<1>7. IsSeq(parts) /\ DOMAIN parts = DOMAIN list /\ \A i \in DOMAIN parts : IsSeq(parts[i])
  <2>1. IsSeq(parts) /\ DOMAIN parts = DOMAIN list
    BY <1>6, SeqAlong
  <2> QED
    BY <1>4, <1>5, <1>6, <2>1
<1> SUFFICES ASSUME NEW k \in DOMAIN relocs
             PROVE  \E i \in DOMAIN list : \E m \in DOMAIN list[i].data.of :
                       list[i].type = "RELA" /\ relocs[k] = row(list[i], m)
  OBVIOUS
<1>8. PICK i \in DOMAIN parts : \E m \in DOMAIN parts[i] : relocs[k] = parts[i][m]
  BY <1>1, <1>7, FlatElements
<1>10. PICK m \in DOMAIN parts[i] : relocs[k] = parts[i][m]
  BY <1>8
<1>9. i \in DOMAIN list /\ list[i].type = "RELA" /\ parts[i] = entries(list[i])
  <2>1. i \in DOMAIN list /\ DOMAIN parts[i] # {}
    BY <1>7, <1>10
  <2>2. list[i].type # "RELA" => parts[i] = <<>>
    BY <1>6, <2>1
  <2>3. list[i].type = "RELA"
    BY <1>5, <2>1, <2>2, Zenon
  <2> QED
    BY <1>6, <2>1, <2>3
<1>11. m \in DOMAIN list[i].data.of /\ relocs[k] = row(list[i], m)
  <2> DEFINE s == list[i]
  <2>1. m \in DOMAIN entries(s) /\ relocs[k] = entries(s)[m]
    BY <1>9, <1>10
  <2> HIDE DEF s
  <2>2. m \in DOMAIN s.data.of /\ relocs[k] = row(s, m)
    BY <1>3, <2>1
  <2> QED
    BY <2>2 DEF s
<1> QED
  BY <1>9, <1>11

(* What is loaded of the object c that was written.                         *)
LoadedAs(c, L) ==
    /\ DOMAIN L.sections = DOMAIN c.sections /\ IsSeq(L.sections)
    /\ \A i \in DOMAIN c.sections :
          /\ IsSec(L.sections[i])
          /\ L.sections[i].name = c.sections[i].name /\ L.sections[i].type = c.sections[i].type
          /\ L.sections[i].info = c.sections[i].info
          /\ c.sections[i].type # "NOBITS" => L.sections[i].data = c.sections[i].data
    /\ KindsOK(L.sections)
    /\ \A d \in BOOLEAN : L.symbols[d] = LoadedSymbols(L.sections, SymtabName(d))
    /\ L.relocs = LoadedRelocs(L.sections)

(* The tables that are loaded are those that were written.                  *)
LEMMA LoadedSections ==
    ASSUME NEW c, IsSeq(c.sections), Named(c), NEW shoff, WellFormed(ImageOf(c, shoff))
    PROVE  LET L == Loaded(ImageOf(c, shoff))
           IN /\ LoadedAs(c, L)
              /\ \A i \in DOMAIN c.sections :
                    /\ L.sections[i].relaDynamic \in BOOLEAN
                    /\ c.sections[i].type = "RELA" /\ c.sections[i].link \in {0} \cup DOMAIN c.sections =>
                          (L.sections[i].relaDynamic <=>
                             /\ c.sections[i].link # 0
                             /\ c.sections[c.sections[i].link].type = "DYNSYM")
<1> DEFINE img == ImageOf(c, shoff)
           L == Loaded(img)
           list == [i \in DOMAIN img.headers |-> LoadedSection(img, i)]
<1>1. /\ DOMAIN img.headers = DOMAIN c.sections
      /\ \A i \in DOMAIN c.sections :
            /\ img.headers[i].type = c.sections[i].type /\ img.headers[i].link = c.sections[i].link
            /\ img.headers[i].info = c.sections[i].info
            /\ c.sections[i].type # "NOBITS" => img.contents[i] = c.sections[i].data
            /\ NameOf(img, i) = c.sections[i].name
  BY ImageSays
<1>2. WellFormed(img)
  OBVIOUS
<1> HIDE DEF img
<1>3. /\ L.sections = list /\ L.relocs = LoadedRelocs(list)
      /\ \A d \in BOOLEAN : L.symbols[d] = LoadedSymbols(list, SymtabName(d))
  BY DEF Loaded
<1>4. DOMAIN list = DOMAIN c.sections /\ \A i \in DOMAIN c.sections : list[i] = LoadedSection(img, i)
  BY <1>1
<1>5. list = [i \in DOMAIN c.sections |-> list[i]]
  BY <1>1
<1> HIDE DEF list, L
<1>6. IsSeq(list)
  BY <1>5, SeqAlong
<1>7. ASSUME NEW i \in DOMAIN c.sections
      PROVE  /\ IsSec(list[i]) /\ list[i].name = c.sections[i].name
             /\ list[i].type = c.sections[i].type /\ list[i].info = c.sections[i].info
             /\ c.sections[i].type # "NOBITS" => list[i].data = c.sections[i].data
             /\ \A d \in BOOLEAN : list[i].kind = SymtabName(d) <=> list[i].type = SymtabType(d)
             /\ list[i].kind = "rela" <=> list[i].type = "RELA"
             /\ list[i].type = "RELA" =>
                   (list[i].relaDynamic <=>
                      /\ c.sections[i].link # 0
                      /\ img.headers[c.sections[i].link].type = "DYNSYM")
             /\ list[i].relaDynamic \in BOOLEAN
  <2> DEFINE s == LoadedSection(img, i)
             h == img.headers[i]
  <2>1. /\ s.name = NameOf(img, i) /\ s.type = h.type /\ s.link = h.link /\ s.info = h.info
        /\ s.data = img.contents[i]
        /\ \A d \in BOOLEAN : s.kind = SymtabName(d) <=> s.type = SymtabType(d)
        /\ s.kind = "rela" <=> s.type = "RELA"
        /\ s.type = "RELA" => (s.relaDynamic <=> h.link # 0 /\ img.headers[h.link].type = "DYNSYM")
        /\ s.relaDynamic \in BOOLEAN
    BY LoadedKind
  <2>2. IsSec(s)
    BY <1>1, <1>2, LoadedSectionOK
  <2>3. list[i] = s
    BY <1>4
  <2>4. /\ h.type = c.sections[i].type /\ h.link = c.sections[i].link /\ h.info = c.sections[i].info
        /\ c.sections[i].type # "NOBITS" => img.contents[i] = c.sections[i].data
        /\ NameOf(img, i) = c.sections[i].name
    BY <1>1
  <2> HIDE DEF s, h
  <2> QED
    BY <2>1, <2>2, <2>3, <2>4
<1>8. KindsOK(list)
  BY <1>4, <1>7 DEF KindsOK
<1>9. LoadedAs(c, L)
  BY <1>3, <1>4, <1>6, <1>7, <1>8 DEF LoadedAs
<1>10. ASSUME NEW i \in DOMAIN c.sections, c.sections[i].type = "RELA",
              c.sections[i].link \in {0} \cup DOMAIN c.sections
       PROVE  list[i].relaDynamic <=> /\ c.sections[i].link # 0
                                      /\ c.sections[c.sections[i].link].type = "DYNSYM"
  <2>1. list[i].relaDynamic <=> /\ c.sections[i].link # 0
                                /\ img.headers[c.sections[i].link].type = "DYNSYM"
    BY <1>7, <1>10
  <2> DEFINE k == c.sections[i].link
  <2>2. k # 0 => img.headers[k].type = c.sections[k].type
    BY <1>1, <1>10
  <2> QED
    BY <2>1, <2>2
<1> QED
  BY <1>3, <1>7, <1>9, <1>10 DEF L, img

(* The symbols that are loaded are those that were written.                 *)
LEMMA SymbolsBack ==
    ASSUME NEW c, NEW L, LoadedAs(c, L), TablesOK(L.sections), NEW d \in BOOLEAN,
           Written(c.sections, c.symbols[d], d)
    PROVE  /\ SymbolsLike(L.symbols[d], c.symbols[d]) /\ IsSeq(L.symbols[d])
           /\ \A i \in DOMAIN L.sections : L.sections[i].type = SymtabType(d) =>
                 \A k \in DOMAIN L.symbols[d] : L.symbols[d][k].local <=> k < L.sections[i].info
<1> DEFINE list == L.sections
           syms == L.symbols[d]
           old == c.symbols[d]
<1>1. /\ IsSeq(list) /\ KindsOK(list) /\ syms = LoadedSymbols(list, SymtabName(d))
      /\ DOMAIN list = DOMAIN c.sections
      /\ \A i \in DOMAIN c.sections :
            /\ IsSec(list[i]) /\ list[i].type = c.sections[i].type
            /\ list[i].info = c.sections[i].info
            /\ c.sections[i].type # "NOBITS" => list[i].data = c.sections[i].data
  BY DEF LoadedAs
<1>2. /\ \/ syms = <<>>
         \/ \E i \in DOMAIN list : list[i].type = SymtabType(d)
      /\ \A i \in DOMAIN list : list[i].type = SymtabType(d) => SymbolsLike(syms, list[i].data.of)
  BY <1>1, LoadedSymbolsAre
<1>3. IsSeq(syms)
  BY <1>1, EntriesSeq
<1>4. /\ old # <<>> => \E i \in DOMAIN c.sections : c.sections[i].type = SymtabType(d)
      /\ \A i \in DOMAIN c.sections : c.sections[i].type = SymtabType(d) => Says(c.sections[i], old)
  BY DEF Written
<1> HIDE DEF list, syms, old
<1>5. ASSUME NEW i \in DOMAIN list, list[i].type = SymtabType(d)
      PROVE  /\ SymbolsLike(syms, old)
             /\ \A k \in DOMAIN syms : syms[k].local <=> k < list[i].info
  <2>1. /\ c.sections[i].type = SymtabType(d) /\ i \in DOMAIN c.sections
        /\ list[i].info = c.sections[i].info /\ list[i].data = c.sections[i].data
    BY <1>1, <1>5, TableTypes
  <2>2. Says(c.sections[i], old)
    BY <1>4, <2>1
  <2>3. SymbolsLike(syms, list[i].data.of)
    BY <1>2, <1>5
  <2> QED
    BY <2>1, <2>2, <2>3 DEF Says, SymbolsLike
<1>6. CASE \E i \in DOMAIN list : list[i].type = SymtabType(d)
  BY <1>3, <1>5, <1>6 DEF list, syms, old
<1>7. CASE ~ \E i \in DOMAIN list : list[i].type = SymtabType(d)
  <2>1. syms = <<>> /\ old = <<>>
    BY <1>1, <1>2, <1>4, <1>7
  <2>2. SymbolsLike(syms, old)
    BY <2>1 DEF SymbolsLike
  <2> QED
    BY <1>3, <1>7, <2>2 DEF list, syms, old
<1> QED
  BY <1>6, <1>7

(* A relocation that is written for a symbol and read again is for it.      *)
LEMMA RelocBack ==
    ASSUME NEW c, NEW L, NEW r, NEW t, IsReloc(c, r),
           t = [target |-> t.target, offset |-> t.offset, sym |-> t.sym, dynamic |-> t.dynamic],
           t.sym = r.sym, t.dynamic \in BOOLEAN, t.dynamic = r.dynamic \/ r.sym = 0,
           \A d \in BOOLEAN : /\ SymbolsLike(L.symbols[d], c.symbols[d])
                              /\ IsSeq(L.symbols[d]) /\ IsSeq(c.symbols[d])
    PROVE  IsReloc(L, t) /\ SymbolOf(L, t) = SymbolOf(c, r)
<1> DEFINE d == t.dynamic
           x == L.symbols[d]
<1>1. r.dynamic \in BOOLEAN /\ r.sym \in 0 .. Len(c.symbols[r.dynamic])
  BY DEF IsReloc
<1>2. IsSeq(x) /\ Len(x) \in Nat /\ DOMAIN x = 1 .. Len(x)
  BY SeqPlaces
<1>3. CASE t.dynamic = r.dynamic
  <2> DEFINE y == c.symbols[d]
  <2>1. /\ Len(y) \in Nat /\ DOMAIN y = 1 .. Len(y) /\ DOMAIN x = DOMAIN y
        /\ \A k \in DOMAIN y : x[k].value = y[k].value
    BY SeqPlaces DEF SymbolsLike
  <2>2. r.sym \in 0 .. Len(y)
    BY <1>1, <1>3
  <2> HIDE DEF x, y
  <2>3. t.sym \in 0 .. Len(x)
    <3>1. CASE r.sym = 0
      BY <1>2, <3>1
    <3>2. CASE r.sym # 0
      <4>1. r.sym \in DOMAIN x
        BY <2>1, <2>2, <3>2
      <4> QED
        BY <1>2, <4>1
    <3> QED
      BY <3>1, <3>2
  <2>4. IsReloc(L, t)
    BY <2>3 DEF IsReloc, x
  <2>5. SymbolOf(L, t) = SymbolOf(c, r)
    BY <1>3, <2>1 DEF SymbolOf, x, y
  <2> QED
    BY <2>4, <2>5
<1>4. CASE r.sym = 0
  <2>1. 0 \notin DOMAIN x /\ t.sym \in 0 .. Len(x)
    BY <1>2, <1>4
  <2>2. 0 \notin DOMAIN c.symbols[r.dynamic]
    BY <1>1, SeqPlaces
  <2>3. IsReloc(L, t)
    BY <2>1 DEF IsReloc
  <2> QED
    BY <1>4, <2>1, <2>2, <2>3 DEF SymbolOf
<1> QED
  BY <1>3, <1>4

(* What is written from an object whose tables say what it is, and then     *)
(* loaded, has tables and relocations that say the same.                    *)
LEMMA LoadedMeant ==
    ASSUME NEW c, Shape(c), NEW m, Ready(c, m), Linked(c), NEW shoff, WellFormed(ImageOf(c, shoff))
    PROVE  LET L == Loaded(ImageOf(c, shoff))
           IN TablesOK(L.sections) /\ MeantBy(L, m) /\ LocalsBefore(L)
<1> DEFINE L == Loaded(ImageOf(c, shoff))
           x == c.sections
           list == L.sections
<1>1. /\ IsSeq(x) /\ TablesOK(x) /\ MeantBy(c, m) /\ RelasWritten(x, c.relocs) /\ Named(c)
      /\ \A d \in BOOLEAN : Written(x, c.symbols[d], d)
      /\ \A d \in BOOLEAN : IsSeq(c.symbols[d])
  BY DEF Shape, Ready
<1>2. /\ LoadedAs(c, L)
      /\ \A i \in DOMAIN x :
            /\ list[i].relaDynamic \in BOOLEAN
            /\ x[i].type = "RELA" /\ x[i].link \in {0} \cup DOMAIN x =>
                  (list[i].relaDynamic <=> x[i].link # 0 /\ x[x[i].link].type = "DYNSYM")
  BY <1>1, LoadedSections
<1> HIDE DEF L
<1>3. /\ DOMAIN list = DOMAIN x /\ IsSeq(list) /\ KindsOK(list) /\ L.relocs = LoadedRelocs(list)
      /\ \A i \in DOMAIN x : /\ IsSec(list[i]) /\ list[i].name = x[i].name
                             /\ list[i].type = x[i].type
                             /\ x[i].type # "NOBITS" => list[i].data = x[i].data
  BY <1>2 DEF LoadedAs
<1>4. TablesOK(list)
  <2>1. \A i \in DOMAIN x : \A name : First(x, name, i) => First(list, name, i)
    BY <1>3 DEF First
  <2> SUFFICES ASSUME NEW i \in DOMAIN list
               PROVE  /\ \A d \in BOOLEAN : list[i].type = SymtabType(d) =>
                            First(list, SymtabName(d), i) /\ list[i].kind = SymtabName(d)
                      /\ list[i].type = "RELA" => list[i].kind = "rela"
    BY DEF TablesOK
  <2>2. \A d \in BOOLEAN : x[i].type = SymtabType(d) => First(x, SymtabName(d), i)
    BY <1>1, <1>3 DEF TablesOK
  <2> QED
    BY <1>3, <2>1, <2>2 DEF KindsOK
<1>5. \A d \in BOOLEAN :
         /\ SymbolsLike(L.symbols[d], c.symbols[d]) /\ IsSeq(L.symbols[d])
         /\ \A i \in DOMAIN list : list[i].type = SymtabType(d) =>
               \A k \in DOMAIN L.symbols[d] : L.symbols[d][k].local <=> k < list[i].info
  BY <1>1, <1>2, <1>4, SymbolsBack
<1>6. LocalsBefore(L)
  BY <1>5 DEF LocalsBefore
<1>7. ASSUME NEW i \in DOMAIN x, x[i].type = "RELA", NEW r, IsReloc(c, r),
             r.dynamic = x[i].relaDynamic
      PROVE  list[i].relaDynamic = r.dynamic \/ r.sym = 0
  <2> DEFINE l == SectionIndex(c, SymtabName(r.dynamic))
  <2>1. x[i].link = l
    BY <1>7 DEF Ready, Linked
  <2>2. /\ l # 0 => First(x, SymtabName(r.dynamic), l)
        /\ \A j : First(x, SymtabName(r.dynamic), j) => l = j /\ j # 0
    BY <1>1, FoundFirst
  <2>3. r.dynamic \in BOOLEAN /\ r.sym \in 0 .. Len(c.symbols[r.dynamic])
    BY <1>7 DEF IsReloc
  <2> HIDE DEF l
  <2>4. l \in {0} \cup DOMAIN x
    BY <2>2 DEF First
  <2>5. list[i].relaDynamic <=> l # 0 /\ x[l].type = "DYNSYM"
    BY <1>2, <1>7, <2>1, <2>4
  <2>6. list[i].relaDynamic \in BOOLEAN
    BY <1>2
  <2>7. SymtabType(TRUE) = "DYNSYM" /\ SymtabName(FALSE) # SymtabName(TRUE)
    BY DEF SymtabType, SymtabName
  <2>8. CASE r.dynamic = TRUE
    <3>1. CASE c.symbols[TRUE] = <<>>
      <4>1. Len(c.symbols[TRUE]) = 0
        BY <1>1, <3>1, NoElements
      <4>2. Len(c.symbols[r.dynamic]) = 0
        BY <2>8, <4>1, Zenon
      <4> QED
        BY <2>3, <4>2
    <3>2. CASE c.symbols[TRUE] # <<>>
      <4>1. PICK j \in DOMAIN x : x[j].type = SymtabType(TRUE)
        BY <1>1, <3>2 DEF Written
      <4>2. First(x, SymtabName(TRUE), j)
        BY <1>1, <4>1 DEF TablesOK
      <4>3. l = j /\ j # 0
        BY <2>2, <2>8, <4>2
      <4> QED
        BY <2>5, <2>6, <2>7, <2>8, <4>1, <4>3
    <3> QED
      BY <3>1, <3>2
  <2>9. CASE r.dynamic = FALSE
    <3>1. ~ (l # 0 /\ x[l].type = "DYNSYM")
      <4> SUFFICES ASSUME l # 0, x[l].type = "DYNSYM" PROVE FALSE
        OBVIOUS
      <4>1. l \in DOMAIN x /\ x[l].name = SymtabName(FALSE)
        BY <2>2, <2>9 DEF First
      <4>2. First(x, SymtabName(TRUE), l)
        BY <1>1, <2>7, <4>1 DEF TablesOK
      <4> QED
        BY <2>7, <4>1, <4>2 DEF First
    <3> QED
      BY <2>5, <2>6, <2>9, <3>1
  <2> QED
    BY <2>3, <2>8, <2>9
<1>8. MeantBy(L, m)
  <2> SUFFICES ASSUME NEW k \in DOMAIN L.relocs
               PROVE  /\ IsReloc(L, L.relocs[k]) /\ L.relocs[k].offset \in DOMAIN m
                      /\ SymbolOf(L, L.relocs[k]) = m[L.relocs[k].offset]
    BY DEF MeantBy
  <2>1. \E i \in DOMAIN list : \E n \in DOMAIN list[i].data.of :
           /\ list[i].type = "RELA"
           /\ L.relocs[k] = [target |-> list[i].relaTarget, offset |-> list[i].data.of[n].offset,
                             sym |-> list[i].data.of[n].sym, dynamic |-> list[i].relaDynamic]
    BY <1>3, LoadedRelocsAre
  <2>2. PICK i \in DOMAIN list : \E n \in DOMAIN list[i].data.of :
           /\ list[i].type = "RELA"
           /\ L.relocs[k] = [target |-> list[i].relaTarget, offset |-> list[i].data.of[n].offset,
                             sym |-> list[i].data.of[n].sym, dynamic |-> list[i].relaDynamic]
    BY <2>1
  <2>3. PICK n \in DOMAIN list[i].data.of :
           /\ list[i].type = "RELA"
           /\ L.relocs[k] = [target |-> list[i].relaTarget, offset |-> list[i].data.of[n].offset,
                             sym |-> list[i].data.of[n].sym, dynamic |-> list[i].relaDynamic]
    BY <2>2
  <2> DEFINE t == L.relocs[k]
  <2>4. /\ t = [target |-> t.target, offset |-> t.offset, sym |-> t.sym, dynamic |-> t.dynamic]
        /\ t.offset = list[i].data.of[n].offset /\ t.sym = list[i].data.of[n].sym
        /\ t.dynamic = list[i].relaDynamic
    BY <2>3
  <2>5. i \in DOMAIN x /\ x[i].type = "RELA" /\ list[i].data = x[i].data
    BY <1>3, <2>3
  <2>6. PICK j \in DOMAIN c.relocs : /\ c.relocs[j].dynamic = x[i].relaDynamic
                                     /\ c.relocs[j].offset = t.offset /\ c.relocs[j].sym = t.sym
    BY <1>1, <2>3, <2>4, <2>5 DEF RelasWritten
  <2> DEFINE r == c.relocs[j]
  <2>7. IsReloc(c, r) /\ r.offset \in DOMAIN m /\ SymbolOf(c, r) = m[r.offset]
    BY <1>1 DEF MeantBy
  <2>8. t.dynamic = r.dynamic \/ r.sym = 0
    BY <1>7, <2>4, <2>5, <2>6, <2>7
  <2>9. t.dynamic \in BOOLEAN
    BY <1>2, <2>4, <2>5
  <2>10. r.offset = t.offset /\ r.sym = t.sym
    BY <2>6
  <2> HIDE DEF t, r
  <2>11. IsReloc(L, t) /\ SymbolOf(L, t) = SymbolOf(c, r)
    BY <1>1, <1>5, <2>4, <2>7, <2>8, <2>9, <2>10, RelocBack
  <2>12. IsReloc(L, t) /\ t.offset \in DOMAIN m /\ SymbolOf(L, t) = m[t.offset]
    BY <2>7, <2>10, <2>11
  <2> QED
    BY <2>12 DEF t
<1> QED
  BY <1>4, <1>6, <1>8 DEF L

(* Tables and relocations that say what is meant: of an object, and of a    *)
(* file, by what is loaded from it                                          *)
SaysMeant(b, m) == TablesOK(b.sections) /\ MeantBy(b, m)
FileSaysMeant(img, m) == SaysMeant(Loaded(img), m) /\ LocalsBefore(Loaded(img))

(* The object that was written is what it was laid out as.                  *)
LEMMA SettledMeant ==
    ASSUME NEW c, Shape(c), NEW m, SaysMeant(c, m)
    PROVE  SaysMeant(Settled(c), m)
<1> DEFINE one(i) == [c.sections[i] EXCEPT !.loaded = "ALLOC" \in c.sections[i].flags,
                                           !.dirty = FALSE]
           y == [i \in DOMAIN c.sections |-> one(i)]
<1>1. Settled(c) = Put(c, y)
  BY DEF Settled, Put
<1>2. Record(c) /\ \A i \in DOMAIN c.sections : IsSec(c.sections[i])
  BY DEF Shape
<1>3. \A i \in DOMAIN c.sections :
         /\ one(i).name = c.sections[i].name /\ one(i).type = c.sections[i].type
         /\ one(i).kind = c.sections[i].kind
  BY <1>2 DEF IsSec, HasFields, Fields
<1> HIDE DEF one
<1>4. Heads(c.sections, y)
  BY <1>3 DEF Heads
<1> HIDE DEF y
<1>5. TablesOK(y)
  BY <1>4, HeadsOK DEF SaysMeant
<1>6. Put(c, y).sections = y /\ Put(c, y).symbols = c.symbols /\ Put(c, y).relocs = c.relocs
  BY <1>2, PutRecord
<1>7. MeantBy(Put(c, y), m)
  BY <1>6, MeantStays DEF SaysMeant
<1> QED
  BY <1>1, <1>5, <1>6, <1>7 DEF SaysMeant

(* lielf_build(): relocations are for the symbols they were for, in the     *)
(* object that was written and in what is loaded from its file.             *)
LEMMA BuiltMeant ==
    ASSUME NEW b, BinOK(b), NEW m, SaysMeant(b, m)
    PROVE  SaysMeant(Built(b).bin, m) /\ FileSaysMeant(Built(b).image, m)
<1> DEFINE r == Regenerated(b)
           c == LaidOut(r).bin
           shoff == LaidOut(r).shoff
<1>1. BinOK(r) /\ Ready(r, m) /\ Linked(r)
  BY RegeneratedOK, RegeneratedReady DEF SaysMeant
<1>2. Built(b).bin = Settled(c) /\ Built(b).image = ImageOf(c, shoff)
  BY DEF Built
<1> HIDE DEF r
<1>3. /\ Shape(c) /\ shoff \in Nat /\ Clear(c.sections, c.segments, c.phoff, shoff)
      /\ Laid(r, c) /\ Held(c.etype, c.sections, c.segments)
  BY <1>1, LaidOutOK
<1>4. IsSeq(r.sections)
  BY <1>1 DEF BinOK, Shape
<1> HIDE DEF c, shoff
<1>5. Ready(c, m) /\ Linked(c)
  BY <1>1, <1>3, <1>4, LaidReady
<1>6. WellFormed(ImageOf(c, shoff))
  BY <1>3, ImageOfOK DEF Loadable
<1>7. SaysMeant(Settled(c), m)
  BY <1>3, <1>5, SettledMeant DEF SaysMeant, Ready
<1>8. FileSaysMeant(ImageOf(c, shoff), m)
  BY <1>3, <1>5, <1>6, LoadedMeant DEF FileSaysMeant, SaysMeant
<1> QED
  BY <1>2, <1>7, <1>8

-----------------------------------------------------------------------------
(* The calls.  The object of the caller can be laid out, and the file that  *)
(* was written or loaded last can be loaded again.                          *)
Inv == BinOK(bin) /\ (image # None => Loadable(image))

(* lielf_new(): an object without sections can be laid out.                 *)
LEMMA NewBinaryOK ==
    ASSUME NEW etype
    PROVE  BinOK(NewBinary(etype))
<1> DEFINE b == NewBinary(etype)
<1>1. IsSeq(<<>>)
  <2>1. <<>> \in Seq({0})
    OBVIOUS
  <2> QED
    BY <2>1, AnySeq
<1>2. b = [etype |-> etype, base |-> DefaultBase(etype), phoff |-> 0,
           sections |-> <<>>, segments |-> <<>>, symbols |-> [d \in BOOLEAN |-> <<>>],
           relocs |-> <<>>, dynamic |-> <<>>]
  BY DEF NewBinary
<1> HIDE DEF b
<1>3. /\ b.phoff = 0 /\ b.sections = <<>> /\ b.segments = <<>> /\ b.relocs = <<>>
      /\ b.dynamic = <<>> /\ b.symbols = [d \in BOOLEAN |-> <<>>] /\ b.base \in Int
  BY <1>2 DEF DefaultBase
<1>4. Record(b)
  BY <1>2 DEF Record
<1>5. DOMAIN b.sections = {}
  BY <1>3
<1>6. Shape(b)
  BY <1>1, <1>3, <1>4, <1>5 DEF Shape
<1>7. FixedOK(b)
  BY <1>3, <1>5 DEF FixedOK, Fixed, OneDistance
<1> QED
  BY <1>6, <1>7 DEF BinOK, b

(* The bytes of a section are a sequence.                                   *)
LEMMA BytesSeq ==
    ASSUME NEW n
    PROVE  IsSeq(Bytes(n).of) /\ Bytes(n).of = <<>> /\ IsSeq(NoData.of) /\ NoData.of = <<>>
<1>1. Bytes(n).of = <<>> /\ NoData.of = <<>> /\ <<>> \in Seq({0})
  BY DEF Bytes, NoData
<1> QED
  BY <1>1, AnySeq

(* cup_output_object()                                                      *)
LEMMA OutputOK ==
    ASSUME NEW code \in Nat, NEW strings \in Nat
    PROVE  Loadable(cup_output_object(code, strings))
<1> DEFINE sec1 == Section(".text", "PROGBITS", {"ALLOC", "EXECINSTR"}, Bytes(-1), code, 16)
           text == AddedSection(NewBinary("REL"), sec1)
           sec2 == Section(".rodata", "PROGBITS", {"ALLOC"}, Bytes(-2), strings, 8)
           both == IF strings = 0 THEN text ELSE AddedSection(text, sec2)
<1>1. Aligned(16)
  <2>1. 16 = 2 ^ 4 /\ 4 \in 0 .. 30 /\ 16 \in Nat
    BY Z3
  <2> QED
    BY <2>1 DEF Aligned
<1>2. IsSec(sec1) /\ sec1.dirty
  BY <1>1, BytesSeq, NewSection
<1>3. IsSec(sec2) /\ sec2.dirty
  BY Alignments, BytesSeq, NewSection
<1>4. cup_output_object(code, strings) = Built(both).image
  BY DEF cup_output_object
<1> HIDE DEF sec1, sec2
<1>5. BinOK(text)
  BY <1>2, NewBinaryOK, AddedOK
<1> HIDE DEF text
<1>6. BinOK(both)
  BY <1>3, <1>5, AddedOK
<1> HIDE DEF both
<1> QED
  BY <1>4, <1>6, BuiltOK

(* lielf_add_section(): the section that is added is dirty.                 *)
LEMMA AddSection ==
    ASSUME Inv, NEW k \in SectionKinds, NEW size \in Sizes, lielf_add_section(k, size)
    PROVE  Inv'
<1> DEFINE sec == Section(k.name, k.type, k.flags, Bytes(calls), size, k.align)
<1>1. Aligned(k.align) /\ size \in Nat
  BY ElfAssumption
<1>2. IsSec(sec) /\ sec.dirty
  BY <1>1, BytesSeq, NewSection
<1>3. bin' = AddedSection(bin, sec) /\ image' = image
  BY DEF lielf_add_section, Changed
<1> HIDE DEF sec
<1>4. BinOK(bin')
  BY <1>2, <1>3, AddedOK DEF Inv
<1> QED
  BY <1>3, <1>4 DEF Inv

(* The sections behind the one that is removed move up.                     *)
LEMMA RemoveSection ==
    ASSUME Inv, NEW i \in DOMAIN bin.sections, lielf_remove_section(i)
    PROVE  Inv'
<1> DEFINE x == RemoveAt(bin.sections, i)
           n == Len(bin.sections)
           f == [j \in 1 .. n - 1 |-> IF j < i THEN j ELSE j + 1]
<1>1. bin' = Put(bin, x) /\ image' = image
  BY DEF lielf_remove_section, Changed, Put
<1>2. Shape(bin) /\ IsSeq(bin.sections) /\ \A j \in DOMAIN bin.sections : IsSec(bin.sections[j])
  BY DEF Inv, BinOK, Shape
<1>3. n \in Nat /\ DOMAIN bin.sections = 1 .. n /\ i \in 1 .. n
  BY <1>2, SeqPlaces
<1>4. /\ IsSeq(x) /\ DOMAIN x = 1 .. n - 1
      /\ \A j \in 1 .. n - 1 : x[j] = bin.sections[f[j]]
  <2>1. PICK V : bin.sections \in Seq(V)
    BY <1>2, SeqPlaces
  <2> DEFINE front == SubSeq(bin.sections, 1, i - 1)
             back  == SubSeq(bin.sections, i + 1, n)
  <2>2. x = front \o back
    BY DEF RemoveAt
  <2>3. /\ front \in Seq(V) /\ Len(front) = i - 1
        /\ \A j \in 1 .. i - 1 : front[j] = bin.sections[j]
    BY <1>3, <2>1
  <2>4. /\ back \in Seq(V) /\ Len(back) = n - i
        /\ \A j \in 1 .. n - i : back[j] = bin.sections[i + j]
    BY <1>3, <2>1
  <2> HIDE DEF x, front, back
  <2>7. /\ x \in Seq(V) /\ Len(x) = Len(front) + Len(back)
        /\ \A j \in 1 .. Len(front) + Len(back) :
              x[j] = IF j <= Len(front) THEN front[j] ELSE back[j - Len(front)]
    BY <2>2, <2>3, <2>4, ConcatProperties
  <2>5. x \in Seq(V) /\ Len(x) = n - 1 /\ DOMAIN x = 1 .. n - 1
    BY <1>3, <2>3, <2>4, <2>7
  <2>6. \A j \in 1 .. n - 1 : x[j] = bin.sections[f[j]]
    <3> SUFFICES ASSUME NEW j \in 1 .. n - 1 PROVE x[j] = bin.sections[f[j]]
      OBVIOUS
    <3>1. CASE j < i
      <4>1. j \in 1 .. i - 1 /\ f[j] = j
        BY <1>3, <3>1
      <4> QED
        BY <1>3, <2>3, <2>4, <2>7, <4>1
    <3>2. CASE ~ (j < i)
      <4>1. j - (i - 1) \in 1 .. n - i /\ f[j] = j + 1 /\ i + (j - (i - 1)) = j + 1
        BY <1>3, <3>2
      <4>2. x[j] = back[j - (i - 1)]
        BY SMTT(40), <1>3, <2>3, <2>4, <2>7, <3>2
      <4> QED
        BY <2>4, <4>1, <4>2
    <3> QED
      BY <3>1, <3>2
  <2> QED
    BY <2>5, <2>6, AnySeq
<1>5. /\ \A j \in 1 .. n - 1 : f[j] \in DOMAIN bin.sections
      /\ \A j, k \in 1 .. n - 1 : f[j] = f[k] => j = k
  BY <1>3
<1> HIDE DEF x, f
<1> DEFINE c == Put(bin, x)
<1>6. /\ Record(c) /\ c.sections = x
      /\ c.etype = bin.etype /\ c.base = bin.base /\ c.phoff = bin.phoff
      /\ c.segments = bin.segments /\ c.symbols = bin.symbols
      /\ c.relocs = bin.relocs /\ c.dynamic = bin.dynamic
  BY <1>2, PutRecord DEF Shape
<1> HIDE DEF c
<1>7. Shape(c)
  <2>1. \A j \in DOMAIN x : IsSec(x[j])
    BY <1>2, <1>4, <1>5
  <2> HIDE DEF n
  <2> QED
    BY <1>2, <1>4, <1>6, <2>1 DEF Shape
<1>8. ComesFrom(bin, c, f)
  BY <1>4, <1>5, <1>6, ItselfUnmoved DEF ComesFrom
<1>9. BinOK(c)
  BY <1>7, <1>8, StillFixed DEF Inv
<1> QED
  BY <1>1, <1>9 DEF Inv, c

(* lielf_set_section_data(): the section that gets bytes becomes dirty.     *)
LEMMA SetSectionData ==
    ASSUME Inv, NEW i \in DOMAIN bin.sections, NEW size \in Sizes, lielf_set_section_data(i, size)
    PROVE  Inv'
<1> DEFINE s == bin.sections[i]
           data == IF size = 0 THEN NoData ELSE Bytes(calls)
           t == [s EXCEPT !.data = data, !.size = size, !.dirty = TRUE]
           c == [bin EXCEPT !.sections = [bin.sections EXCEPT ![i] = t]]
<1>1. bin' = c /\ image' = image /\ s.kind = "normal"
  BY DEF lielf_set_section_data, Changed
<1>2. IsSec(s)
  BY DEF Inv, BinOK, Shape
<1>3. IsSeq(data.of) /\ data.of = <<>> /\ size \in Nat
  BY BytesSeq, ElfAssumption
<1> HIDE DEF data, s
<1>4. HasFields(t)
  <2>1. t = [[[s EXCEPT !.data = data] EXCEPT !.size = size] EXCEPT !.dirty = TRUE]
    OBVIOUS
  <2>2. HasFields([s EXCEPT !.data = data])
    BY <1>2, FieldSet DEF IsSec
  <2>3. HasFields([[s EXCEPT !.data = data] EXCEPT !.size = size])
    BY <2>2, FieldSet
  <2> HIDE DEF t
  <2> QED
    BY <2>1, <2>3, FieldSet
<1>5. /\ t.offset = s.offset /\ t.size = size /\ t.align = s.align /\ t.loaded = s.loaded
      /\ t.dirty = TRUE /\ t.data = data /\ t.kind = s.kind
  BY <1>2 DEF IsSec, HasFields, Fields
<1> HIDE DEF t
<1>6. IsSec(t) /\ Unmoved(s, t)
  BY <1>1, <1>2, <1>3, <1>4, <1>5 DEF IsSec, Unmoved
<1>7. BinOK(c)
  BY <1>6, ChangedOK DEF Inv, s
<1> HIDE DEF c
<1> QED
  BY <1>1, <1>7 DEF Inv

(* lielf_add_symbol() leaves the sections alone.                            *)
LEMMA AddSymbol ==
    ASSUME Inv, NEW name, NEW local, NEW shndx, NEW d, lielf_add_symbol(name, local, shndx, d)
    PROVE  Inv'
<1> DEFINE r == [name |-> name, local |-> local, shndx |-> shndx,
                 value |-> Cardinality(DOMAIN home) + 1]
           symbols == [bin.symbols EXCEPT ![d] = Append(bin.symbols[d], r)]
           c == [etype |-> bin.etype, base |-> bin.base, phoff |-> bin.phoff,
                 sections |-> bin.sections, segments |-> bin.segments, symbols |-> symbols,
                 relocs |-> bin.relocs, dynamic |-> bin.dynamic]
<1>1. bin' = [bin EXCEPT !.symbols = symbols] /\ image' = image
  BY DEF lielf_add_symbol, Changed
<1>2. /\ Record(bin) /\ IsSeq(bin.relocs) /\ IsSeq(bin.dynamic)
      /\ bin.symbols = [e \in BOOLEAN |-> bin.symbols[e]]
      /\ IsSeq(bin.symbols[FALSE]) /\ IsSeq(bin.symbols[TRUE])
  BY DEF Inv, BinOK, Shape
<1> HIDE DEF r
<1>3. ASSUME NEW e \in BOOLEAN PROVE IsSeq(bin.symbols[e]) /\ IsSeq(Append(bin.symbols[e], r))
  <2>1. IsSeq(bin.symbols[e])
    BY <1>2
  <2> QED
    BY <2>1, AppendSeq
<1>4. symbols = [e \in BOOLEAN |-> IF e = d THEN Append(bin.symbols[e], r) ELSE bin.symbols[e]]
  BY <1>2
<1> HIDE DEF symbols
<1>5. /\ symbols = [e \in BOOLEAN |-> symbols[e]]
      /\ IsSeq(symbols[FALSE]) /\ IsSeq(symbols[TRUE])
  BY <1>3, <1>4
<1>6. bin' = c
  BY <1>1, <1>2 DEF Record
<1>7. Record(c)
  BY DEF Record
<1>8. /\ c.sections = bin.sections /\ c.segments = bin.segments /\ c.etype = bin.etype
      /\ c.base = bin.base /\ c.phoff = bin.phoff /\ c.relocs = bin.relocs /\ c.dynamic = bin.dynamic
      /\ c.symbols = symbols
  OBVIOUS
<1> HIDE DEF c
<1>9. BinOK(c)
  BY <1>2, <1>5, <1>7, <1>8, OthersOK DEF Inv
<1> QED
  BY <1>1, <1>6, <1>9 DEF Inv

(* lielf_add_reloc() leaves the sections alone.                             *)
LEMMA AddReloc ==
    ASSUME Inv, NEW target, NEW name, NEW d, lielf_add_reloc(target, name, d)
    PROVE  Inv'
<1> DEFINE r == [target |-> target, offset |-> Cardinality(DOMAIN meant) + 1,
                 sym |-> Find(name, d), dynamic |-> d]
           c == [etype |-> bin.etype, base |-> bin.base, phoff |-> bin.phoff,
                 sections |-> bin.sections, segments |-> bin.segments, symbols |-> bin.symbols,
                 relocs |-> Append(bin.relocs, r), dynamic |-> bin.dynamic]
<1>1. bin' = [bin EXCEPT !.relocs = Append(bin.relocs, r)] /\ image' = image
  BY DEF lielf_add_reloc, Changed
<1>2. /\ Record(bin) /\ IsSeq(bin.relocs) /\ IsSeq(bin.dynamic)
      /\ bin.symbols = [e \in BOOLEAN |-> bin.symbols[e]]
      /\ IsSeq(bin.symbols[FALSE]) /\ IsSeq(bin.symbols[TRUE])
  BY DEF Inv, BinOK, Shape
<1> HIDE DEF r
<1>3. IsSeq(Append(bin.relocs, r))
  BY <1>2, AppendSeq
<1>4. bin' = c
  BY <1>1, <1>2 DEF Record
<1>5. Record(c)
  BY DEF Record
<1>6. /\ c.sections = bin.sections /\ c.segments = bin.segments /\ c.etype = bin.etype
      /\ c.base = bin.base /\ c.phoff = bin.phoff /\ c.relocs = Append(bin.relocs, r) /\ c.dynamic = bin.dynamic
      /\ c.symbols = bin.symbols
  OBVIOUS
<1> HIDE DEF c
<1>7. BinOK(c)
  BY <1>2, <1>3, <1>5, <1>6, OthersOK DEF Inv
<1> QED
  BY <1>1, <1>4, <1>7 DEF Inv

(* lielf_add_dynamic() leaves the sections alone.                           *)
LEMMA AddDynamic ==
    ASSUME Inv, NEW tag, lielf_add_dynamic(tag)
    PROVE  Inv'
<1> DEFINE c == [etype |-> bin.etype, base |-> bin.base, phoff |-> bin.phoff,
                 sections |-> bin.sections, segments |-> bin.segments, symbols |-> bin.symbols,
                 relocs |-> bin.relocs, dynamic |-> Append(bin.dynamic, tag)]
<1>1. bin' = [bin EXCEPT !.dynamic = Append(bin.dynamic, tag)] /\ image' = image
  BY DEF lielf_add_dynamic, Changed
<1>2. /\ Record(bin) /\ IsSeq(bin.relocs) /\ IsSeq(bin.dynamic)
      /\ bin.symbols = [e \in BOOLEAN |-> bin.symbols[e]]
      /\ IsSeq(bin.symbols[FALSE]) /\ IsSeq(bin.symbols[TRUE])
  BY DEF Inv, BinOK, Shape
<1>3. IsSeq(Append(bin.dynamic, tag))
  BY <1>2, AppendSeq
<1>4. bin' = c
  BY <1>1, <1>2 DEF Record
<1>5. Record(c)
  BY DEF Record
<1>6. /\ c.sections = bin.sections /\ c.segments = bin.segments /\ c.etype = bin.etype
      /\ c.base = bin.base /\ c.phoff = bin.phoff /\ c.relocs = bin.relocs /\ c.dynamic = Append(bin.dynamic, tag)
      /\ c.symbols = bin.symbols
  OBVIOUS
<1> HIDE DEF c
<1>7. BinOK(c)
  BY <1>2, <1>3, <1>5, <1>6, OthersOK DEF Inv
<1> QED
  BY <1>1, <1>4, <1>7 DEF Inv

(* lielf_write(): the file is well formed, and its object can be laid out   *)
(* once more.                                                               *)
LEMMA Write ==
    ASSUME Inv, lielf_write
    PROVE  Inv'
<1>1. bin' = Built(bin).bin /\ image' = Built(bin).image
  BY DEF lielf_write
<1>2. BinOK(Built(bin).bin) /\ Loadable(Built(bin).image)
  BY BuiltOK DEF Inv
<1> QED
  BY <1>1, <1>2 DEF Inv

(* lielf_load_file(): the file that was written is loaded.                  *)
LEMMA LoadFile ==
    ASSUME Inv, lielf_load_file
    PROVE  Inv'
<1>1. bin' = Loaded(image) /\ image' = image /\ image # None
  BY DEF lielf_load_file
<1>2. BinOK(Loaded(image))
  BY <1>1, LoadedOK DEF Inv
<1> QED
  BY <1>1, <1>2 DEF Inv

(* A file as other tools write it holds what it loads.                      *)
LEMMA GivenHeld ==
    ASSUME NEW img, Conventional(img)
    PROVE  Held(img.etype, img.headers, img.segments)
BY DEF Conventional, Held

(* An object that is begun is empty, one that is loaded is from a file that *)
(* another tool or this one made.                                           *)
LEMMA Initially == Init => Inv
<1> SUFFICES ASSUME Init PROVE Inv
  OBVIOUS
<1>1. CASE \E t \in Types : Taken(NewBinary(t)) /\ image = None /\ current = FALSE
  <2>1. PICK t \in Types : bin = NewBinary(t) /\ image = None
    BY <1>1 DEF Taken
  <2> QED
    BY <2>1, NewBinaryOK DEF Inv
<1>2. CASE \E g \in Given \cup Output : Taken(Loaded(g)) /\ image = g /\ current = TRUE
  <2>1. PICK g \in Given \cup Output : bin = Loaded(g) /\ image = g
    BY <1>2 DEF Taken
  <2>2. Loadable(g)
    <3>1. CASE g \in Given
      BY <3>1, ElfAssumption, GivenHeld DEF Loadable
    <3>2. CASE g \in Output
      <4>1. PICK code \in Sizes \ {0}, strings \in Sizes : g = cup_output_object(code, strings)
        BY <3>2 DEF Output
      <4>2. code \in Nat /\ strings \in Nat
        BY ElfAssumption
      <4> QED
        BY <4>1, <4>2, OutputOK
    <3> QED
      BY <3>1, <3>2
  <2> QED
    BY <2>1, <2>2, LoadedOK DEF Inv
<1> QED
  BY <1>1, <1>2 DEF Init

(* The invariant: what an object keeps at its place is apart, and so is     *)
(* all of a file, whatever calls there were.                                *)
THEOREM Layout == Spec => []Inv
<1>1. Inv /\ [Next]_evars => Inv'
  <2> SUFFICES ASSUME Inv, [Next]_evars PROVE Inv'
    OBVIOUS
  <2>1. ASSUME NEW k \in SectionKinds, NEW size \in Sizes, lielf_add_section(k, size) PROVE Inv'
    BY <2>1, AddSection
  <2>2. ASSUME NEW i \in DOMAIN bin.sections, lielf_remove_section(i) PROVE Inv'
    BY <2>2, RemoveSection
  <2>3. ASSUME NEW i \in DOMAIN bin.sections, NEW size \in Sizes, lielf_set_section_data(i, size)
        PROVE  Inv'
    BY <2>3, SetSectionData
  <2>4. ASSUME NEW name \in SymbolNames, NEW local \in BOOLEAN, NEW d \in Dynamic,
               NEW shndx \in 0 .. Len(bin.sections), lielf_add_symbol(name, local, shndx, d)
        PROVE  Inv'
    BY <2>4, AddSymbol
  <2>5. ASSUME NEW k \in SectionKinds, NEW name \in SymbolNames, NEW d \in Dynamic,
               lielf_add_reloc(k.name, name, d)
        PROVE  Inv'
    BY <2>5, AddReloc
  <2>6. ASSUME NEW tag \in {"DT_DEBUG"}, lielf_add_dynamic(tag) PROVE Inv'
    BY <2>6, AddDynamic
  <2>7. ASSUME lielf_write PROVE Inv'
    BY <2>7, Write
  <2>8. ASSUME lielf_load_file PROVE Inv'
    BY <2>8, LoadFile
  <2>9. ASSUME UNCHANGED evars PROVE Inv'
    BY <2>9 DEF evars, Inv
  <2> QED
    BY <2>1, <2>2, <2>3, <2>4, <2>5, <2>6, <2>7, <2>8, <2>9 DEF Next
<1> QED
  BY <1>1, Initially, PTL DEF Spec

(* No part of a file that is written or loaded lies over another one or     *)
(* beyond its end, and its sections are aligned.                            *)
THEOREM ApartAlways == Spec => []Apart
<1>1. Inv => Apart
  BY DEF Inv, Apart, Loadable, WellFormed
<1> QED
  BY <1>1, Layout, PTL

(* What a program loads is in a segment, at the address that its section    *)
(* has, and segments that share an address have it at one place of the      *)
(* file: every file that is written or loaded, whatever calls there were.   *)
THEOREM MappedAlways == Spec => []Mapped
<1>1. Inv => Mapped
  <2> SUFFICES ASSUME Inv, image # None, image.etype # "REL"
               PROVE  /\ \A h \in Occupied(image) : "ALLOC" \in h.flags =>
                            InSegment(image.segments, h)
                      /\ \A s, t \in Range(image.segments) : Distance(s) = Distance(t)
    BY DEF Mapped
  <2>1. Held(image.etype, image.headers, image.segments)
    BY DEF Inv, Loadable
  <2>2. \A h \in Occupied(image) : "ALLOC" \in h.flags => InSegment(image.segments, h)
    BY <2>1 DEF Held, Occupied, Range
  <2>3. \A s, t \in Range(image.segments) : Distance(s) = Distance(t)
    BY <2>1 DEF Held, OneDistance, Range
  <2> QED
    BY <2>2, <2>3
<1> QED
  BY <1>1, Layout, PTL

-----------------------------------------------------------------------------
(* Relocations are numbered, the next one behind the others, and the object *)
(* and the file that there is say what they are for.                        *)
Numbered(m) == \E n \in Nat : DOMAIN m = 1 .. n
InvMeant ==
    /\ Numbered(meant) /\ SaysMeant(bin, meant)
    /\ image # None => FileSaysMeant(image, meant)

(* What is said of relocations stays when there are more of them.           *)
LEMMA MeantMore ==
    ASSUME NEW b, NEW m, MeantBy(b, m), NEW w, DOMAIN m \subseteq DOMAIN w,
           \A k \in DOMAIN m : w[k] = m[k]
    PROVE  MeantBy(b, w)
BY DEF MeantBy

(* A section that is no table may be added behind the others.               *)
LEMMA AddedBehind ==
    ASSUME NEW x, IsSeq(x), TablesOK(x), NEW s, s.type \notin DOMAIN TableKind
    PROVE  TablesOK(Append(x, s))
<1> DEFINE y == Append(x, s)
           n == Len(x)
<1>1. n \in Nat /\ DOMAIN x = 1 .. n
  BY SeqPlaces
<1>2. DOMAIN y = 1 .. n + 1 /\ \A i \in 1 .. n + 1 : y[i] = IF i <= n THEN x[i] ELSE s
  BY AppendSeq
<1>3. s.type \notin {"SYMTAB", "DYNSYM", "RELA"}
  BY DEF TableKind
<1> HIDE DEF y, n
<1>4. \A i \in DOMAIN y : i # n + 1 => i \in DOMAIN x /\ y[i] = x[i]
  BY <1>1, <1>2
<1>5. y[n + 1] = s
  BY <1>1, <1>2
<1>6. ASSUME NEW i \in DOMAIN x, NEW name, First(x, name, i) PROVE First(y, name, i)
  <2>1. i \in DOMAIN y /\ i # n + 1 /\ i <= n + 1 /\ y[i].name = name
    BY <1>1, <1>2, <1>6 DEF First
  <2>2. \A j \in DOMAIN y : y[j].name = name => i <= j
    BY <1>4, <1>6, <2>1 DEF First
  <2> QED
    BY <2>1, <2>2 DEF First
<1>7. ASSUME NEW i \in DOMAIN y
      PROVE  /\ \A d \in BOOLEAN : y[i].type = SymtabType(d) =>
                   First(y, SymtabName(d), i) /\ y[i].kind = SymtabName(d)
             /\ y[i].type = "RELA" => y[i].kind = "rela"
  <2>1. CASE i = n + 1
    BY <1>3, <1>5, <2>1, TableTypes
  <2>2. CASE i # n + 1
    <3>1. i \in DOMAIN x /\ y[i] = x[i]
      BY <1>4, <2>2
    <3>2. /\ \A d \in BOOLEAN : x[i].type = SymtabType(d) =>
                First(x, SymtabName(d), i) /\ x[i].kind = SymtabName(d)
          /\ x[i].type = "RELA" => x[i].kind = "rela"
      BY <3>1 DEF TablesOK
    <3> QED
      BY <1>6, <3>1, <3>2
  <2> QED
    BY <2>1, <2>2
<1>8. TablesOK(y)
  BY <1>7 DEF TablesOK
<1> QED
  BY <1>8 DEF y

(* lielf_add_section(): no relocation is for another symbol.                *)
LEMMA AddSectionMeant ==
    ASSUME Inv, InvMeant, NEW k \in SectionKinds, NEW size \in Sizes, lielf_add_section(k, size)
    PROVE  InvMeant'
<1> DEFINE sec == Section(k.name, k.type, k.flags, Bytes(calls), size, k.align)
           y == Append(bin.sections, sec)
<1>1. bin' = Put(bin, y) /\ image' = image /\ meant' = meant
  BY DEF lielf_add_section, Changed, AddedSection, Put
<1>2. sec.type \notin DOMAIN TableKind
  BY ElfAssumption DEF Section
<1> HIDE DEF sec
<1>3. Record(bin) /\ IsSeq(bin.sections)
  BY DEF Inv, BinOK, Shape
<1>4. TablesOK(y)
  BY <1>2, <1>3, AddedBehind DEF InvMeant, SaysMeant
<1> HIDE DEF y
<1>5. bin'.sections = y /\ bin'.symbols = bin.symbols /\ bin'.relocs = bin.relocs
  BY <1>1, <1>3, PutRecord
<1>6. MeantBy(bin', meant)
  BY <1>5, MeantStays DEF InvMeant, SaysMeant
<1> QED
  BY <1>1, <1>4, <1>5, <1>6 DEF InvMeant, SaysMeant

(* lielf_set_section_data() leaves tables alone.                            *)
LEMMA SetSectionDataMeant ==
    ASSUME Inv, InvMeant, NEW i \in DOMAIN bin.sections, NEW size \in Sizes,
           lielf_set_section_data(i, size)
    PROVE  InvMeant'
<1> DEFINE s == bin.sections[i]
           data == IF size = 0 THEN NoData ELSE Bytes(calls)
           t == [s EXCEPT !.data = data, !.size = size, !.dirty = TRUE]
           y == [bin.sections EXCEPT ![i] = t]
<1>1. bin' = Put(bin, y) /\ image' = image /\ meant' = meant
  BY DEF lielf_set_section_data, Changed, Put
<1>2. Record(bin) /\ IsSeq(bin.sections) /\ IsSec(s)
  BY DEF Inv, BinOK, Shape
<1> HIDE DEF data
<1>3. t.name = s.name /\ t.type = s.type /\ t.kind = s.kind
  BY <1>2 DEF IsSec, HasFields, Fields
<1> HIDE DEF t
<1>4. DOMAIN y = DOMAIN bin.sections
      /\ \A j \in DOMAIN bin.sections : y[j] = IF j = i THEN t ELSE bin.sections[j]
  BY <1>2, SeqWith
<1> HIDE DEF y
<1>5. Heads(bin.sections, y)
  BY <1>3, <1>4 DEF Heads
<1>6. TablesOK(y)
  BY <1>5, HeadsOK DEF InvMeant, SaysMeant
<1>7. bin'.sections = y /\ bin'.symbols = bin.symbols /\ bin'.relocs = bin.relocs
  BY <1>1, <1>2, PutRecord
<1>8. MeantBy(bin', meant)
  BY <1>7, MeantStays DEF InvMeant, SaysMeant
<1> QED
  BY <1>1, <1>6, <1>7, <1>8 DEF InvMeant, SaysMeant

(* Where an element was before the one at i was removed                     *)
Before(i, j) == IF j < i THEN j ELSE j + 1
(* RemoveAt() leaves the other elements, in their order.                    *)
LEMMA RemovedAt ==
    ASSUME NEW y, IsSeq(y), NEW i \in DOMAIN y
    PROVE  LET x == RemoveAt(y, i)
               n == Len(y)
           IN /\ n \in Nat /\ DOMAIN y = 1 .. n /\ IsSeq(x) /\ DOMAIN x = 1 .. n - 1
              /\ \A j \in 1 .. n - 1 : Before(i, j) \in DOMAIN y /\ x[j] = y[Before(i, j)]
<1> DEFINE x == RemoveAt(y, i)
           n == Len(y)
<1>3. n \in Nat /\ DOMAIN y = 1 .. n /\ i \in 1 .. n
  BY SeqPlaces
<1>4. /\ IsSeq(x) /\ DOMAIN x = 1 .. n - 1
      /\ \A j \in 1 .. n - 1 : x[j] = y[Before(i, j)]
  <2>1. PICK V : y \in Seq(V)
    BY SeqPlaces
  <2> DEFINE front == SubSeq(y, 1, i - 1)
             back  == SubSeq(y, i + 1, n)
  <2>2. x = front \o back
    BY DEF RemoveAt
  <2>3. /\ front \in Seq(V) /\ Len(front) = i - 1
        /\ \A j \in 1 .. i - 1 : front[j] = y[j]
    BY <1>3, <2>1
  <2>4. /\ back \in Seq(V) /\ Len(back) = n - i
        /\ \A j \in 1 .. n - i : back[j] = y[i + j]
    BY <1>3, <2>1
  <2> HIDE DEF x, front, back
  <2>7. /\ x \in Seq(V) /\ Len(x) = Len(front) + Len(back)
        /\ \A j \in 1 .. Len(front) + Len(back) :
              x[j] = IF j <= Len(front) THEN front[j] ELSE back[j - Len(front)]
    BY <2>2, <2>3, <2>4, ConcatProperties
  <2>5. x \in Seq(V) /\ Len(x) = n - 1 /\ DOMAIN x = 1 .. n - 1
    BY <1>3, <2>3, <2>4, <2>7
  <2>6. ASSUME NEW j \in 1 .. n - 1 PROVE x[j] = y[Before(i, j)]
    <3>1. CASE j < i
      <4>1. j \in 1 .. i - 1 /\ Before(i, j) = j
        BY <1>3, <3>1 DEF Before
      <4> QED
        BY <1>3, <2>3, <2>4, <2>7, <4>1
    <3>2. CASE ~ (j < i)
      <4>1. j - (i - 1) \in 1 .. n - i /\ Before(i, j) = j + 1 /\ i + (j - (i - 1)) = j + 1
        BY <1>3, <3>2 DEF Before
      <4>2. x[j] = back[j - (i - 1)]
        BY SMTT(40), <1>3, <2>3, <2>4, <2>7, <3>2
      <4> QED
        BY <2>4, <4>1, <4>2
    <3> QED
      BY <3>1, <3>2
  <2> QED
    BY <2>5, <2>6, AnySeq
<1>5. \A j \in 1 .. n - 1 : Before(i, j) \in DOMAIN y
  BY <1>3 DEF Before
<1> QED
  BY <1>3, <1>4, <1>5 DEF x

(* lielf_remove_section(): the sections that are left keep their order.     *)
LEMMA RemoveSectionMeant ==
    ASSUME Inv, InvMeant, NEW i \in DOMAIN bin.sections, lielf_remove_section(i)
    PROVE  InvMeant'
<1> DEFINE y == bin.sections
           x == RemoveAt(y, i)
           n == Len(y)
<1>1. bin' = Put(bin, x) /\ image' = image /\ meant' = meant
  BY DEF lielf_remove_section, Changed, Put
<1>2. Record(bin) /\ IsSeq(y)
  BY DEF Inv, BinOK, Shape
<1>3. /\ n \in Nat /\ DOMAIN y = 1 .. n /\ DOMAIN x = 1 .. n - 1
      /\ \A j \in 1 .. n - 1 : Before(i, j) \in DOMAIN y /\ x[j] = y[Before(i, j)]
  BY <1>2, RemovedAt
<1> HIDE DEF x
<1>4. \A j, k \in 1 .. n - 1 : Before(i, j) <= Before(i, k) => j <= k
  BY <1>3 DEF Before
<1> HIDE DEF n
<1>5. TablesOK(y)
  BY DEF InvMeant, SaysMeant
<1>6. ASSUME NEW j \in DOMAIN x, NEW name, First(y, name, Before(i, j)) PROVE First(x, name, j)
  <2>1. x[j].name = name
    BY <1>3, <1>6 DEF First
  <2>2. \A k \in DOMAIN x : x[k].name = name => j <= k
    BY <1>3, <1>4, <1>6 DEF First
  <2> QED
    BY <2>1, <2>2 DEF First
<1>7. ASSUME NEW j \in DOMAIN x
      PROVE  /\ \A d \in BOOLEAN : x[j].type = SymtabType(d) =>
                   First(x, SymtabName(d), j) /\ x[j].kind = SymtabName(d)
             /\ x[j].type = "RELA" => x[j].kind = "rela"
  <2> DEFINE l == Before(i, j)
  <2>1. l \in DOMAIN y /\ x[j] = y[l]
    BY <1>3
  <2> HIDE DEF l
  <2>2. /\ \A d \in BOOLEAN : y[l].type = SymtabType(d) =>
              First(y, SymtabName(d), l) /\ y[l].kind = SymtabName(d)
        /\ y[l].type = "RELA" => y[l].kind = "rela"
    BY <1>5, <2>1 DEF TablesOK
  <2> QED
    BY <1>6, <2>1, <2>2 DEF l
<1>8. TablesOK(x)
  BY <1>7 DEF TablesOK
<1>9. bin'.sections = x /\ bin'.symbols = bin.symbols /\ bin'.relocs = bin.relocs
  BY <1>1, <1>2, PutRecord
<1>10. MeantBy(bin', meant)
  BY <1>9, MeantStays DEF InvMeant, SaysMeant
<1> QED
  BY <1>1, <1>8, <1>9, <1>10 DEF InvMeant, SaysMeant

(* lielf_add_symbol(): the symbol is behind those that there are.           *)
LEMMA AddSymbolMeant ==
    ASSUME Inv, InvMeant, NEW name, NEW local, NEW shndx, NEW d \in BOOLEAN,
           lielf_add_symbol(name, local, shndx, d)
    PROVE  InvMeant'
<1> DEFINE r == [name |-> name, local |-> local, shndx |-> shndx,
                 value |-> Cardinality(DOMAIN home) + 1]
           new == Append(bin.symbols[d], r)
           symbols == [bin.symbols EXCEPT ![d] = new]
<1>1. bin' = [bin EXCEPT !.symbols = symbols] /\ image' = image /\ meant' = meant
  BY DEF lielf_add_symbol, Changed
<1>2. /\ Record(bin) /\ bin.symbols = [e \in BOOLEAN |-> bin.symbols[e]]
      /\ \A e \in BOOLEAN : IsSeq(bin.symbols[e])
  BY DEF Inv, BinOK, Shape
<1> HIDE DEF r
<1>3. /\ IsSeq(new) /\ DOMAIN new = 1 .. Len(bin.symbols[d]) + 1
      /\ Len(new) = Len(bin.symbols[d]) + 1
      /\ \A k \in 1 .. Len(bin.symbols[d]) + 1 :
            new[k] = IF k <= Len(bin.symbols[d]) THEN bin.symbols[d][k] ELSE r
  BY <1>2, AppendSeq
<1> HIDE DEF new
<1>4. symbols[d] = new /\ \A e \in BOOLEAN : e # d => symbols[e] = bin.symbols[e]
  <2>1. symbols = [e \in BOOLEAN |-> IF e = d THEN new ELSE bin.symbols[e]]
    BY <1>2
  <2> HIDE DEF symbols
  <2> QED
    BY <2>1
<1> HIDE DEF symbols
<1>5. bin'.sections = bin.sections /\ bin'.symbols = symbols /\ bin'.relocs = bin.relocs
  BY <1>1, <1>2 DEF Record
<1>6. ASSUME NEW t, IsReloc(bin, t) PROVE IsReloc(bin', t) /\ SymbolOf(bin', t) = SymbolOf(bin, t)
  <2>1. t.dynamic \in BOOLEAN /\ t.sym \in 0 .. Len(bin.symbols[t.dynamic])
    BY <1>6 DEF IsReloc
  <2>2. CASE t.dynamic = d
    <3> DEFINE old == bin.symbols[d]
    <3>1. t.sym \in 0 .. Len(old) /\ Len(old) \in Nat /\ DOMAIN old = 1 .. Len(old)
      BY <1>2, <2>1, <2>2, SeqPlaces
    <3>2. bin'.symbols[d] = new
      BY <1>4, <1>5
    <3> HIDE DEF old
    <3>5. /\ DOMAIN new = 1 .. Len(old) + 1 /\ Len(new) = Len(old) + 1
          /\ \A k \in 1 .. Len(old) + 1 : k <= Len(old) => new[k] = old[k]
      BY <1>3 DEF old
    <3>3. t.sym \in 0 .. Len(new)
      BY <3>1, <3>5
    <3>4. t.sym \in DOMAIN new <=> t.sym \in DOMAIN old
      BY <3>1, <3>5
    <3>6. t.sym \in DOMAIN old => new[t.sym] = old[t.sym]
      BY <3>1, <3>5
    <3>7. IsReloc(bin', t)
      BY <1>6, <2>2, <3>2, <3>3 DEF IsReloc
    <3>8. SymbolOf(bin', t) = SymbolOf(bin, t)
      BY <2>2, <3>2, <3>4, <3>6 DEF SymbolOf, old
    <3> QED
      BY <3>7, <3>8
  <2>3. CASE t.dynamic # d
    <3>1. bin'.symbols[t.dynamic] = bin.symbols[t.dynamic]
      BY <1>4, <1>5, <2>1, <2>3
    <3> QED
      BY <1>6, <3>1 DEF IsReloc, SymbolOf
  <2> QED
    BY <2>2, <2>3
<1>7. MeantBy(bin', meant)
  BY <1>5, <1>6 DEF InvMeant, SaysMeant, MeantBy
<1> QED
  BY <1>1, <1>5, <1>7 DEF InvMeant, SaysMeant

(* lielf_add_reloc(): a new relocation has an offset that no other one has. *)
LEMMA AddRelocMeant ==
    ASSUME Inv, InvMeant, NEW target, NEW name, NEW d \in BOOLEAN, lielf_add_reloc(target, name, d)
    PROVE  InvMeant'
<1> DEFINE n == Cardinality(DOMAIN meant)
           f == Find(name, d)
           r == [target |-> target, offset |-> n + 1, sym |-> f, dynamic |-> d]
           y == Append(bin.relocs, r)
           w == [k \in DOMAIN meant \cup {n + 1} |->
                   IF k = n + 1 THEN SymbolOf(bin, r) ELSE meant[k]]
<1>1. bin' = [bin EXCEPT !.relocs = y] /\ image' = image /\ meant' = w /\ f # 0
  BY DEF lielf_add_reloc, Changed
<1>2. /\ Record(bin) /\ IsSeq(bin.relocs) /\ IsSeq(bin.symbols[d])
      /\ Len(bin.relocs) \in Nat /\ DOMAIN bin.relocs = 1 .. Len(bin.relocs)
  BY SeqPlaces DEF Inv, BinOK, Shape
<1>3. n \in Nat /\ DOMAIN meant = 1 .. n
  <2>1. PICK m \in Nat : DOMAIN meant = 1 .. m
    BY DEF InvMeant, Numbered
  <2>2. Cardinality(1 .. m) = m
    BY <2>1, FS_Interval
  <2> QED
    BY <2>1, <2>2
<1>4. f \in 1 .. Len(bin.symbols[d])
  <2> DEFINE found == {i \in DOMAIN bin.symbols[d] : bin.symbols[d][i].name = name}
             c == CHOOSE i \in found : \A j \in found : i <= j
  <2>1. f = IF found = {} THEN 0 ELSE c
    BY DEF Find
  <2>2. DOMAIN bin.symbols[d] = 1 .. Len(bin.symbols[d]) /\ Len(bin.symbols[d]) \in Nat
    BY <1>2, SeqPlaces
  <2>3. found # {} => c \in found
    <3>1. found \in SUBSET Nat
      BY <2>2
    <3>2. found # {} => \E i \in found : \A j \in found : i <= j
      BY <3>1, LeastNat
    <3> QED
      BY <3>2, Zenon
  <2> HIDE DEF c, f
  <2> QED
    BY <1>1, <2>1, <2>2, <2>3
<1> HIDE DEF f, n
<1>5. /\ r = [target |-> r.target, offset |-> r.offset, sym |-> r.sym, dynamic |-> r.dynamic]
      /\ r.offset = n + 1 /\ r.sym = f /\ r.dynamic = d
  OBVIOUS
<1> HIDE DEF r
<1>6. IsReloc(bin, r)
  <2>1. f \in 0 .. Len(bin.symbols[d])
    BY <1>4
  <2> QED
    BY <1>5, <2>1 DEF IsReloc
<1>7. /\ DOMAIN y = 1 .. Len(bin.relocs) + 1
      /\ \A k \in 1 .. Len(bin.relocs) + 1 : y[k] = IF k <= Len(bin.relocs) THEN bin.relocs[k] ELSE r
  BY <1>2, AppendSeq
<1> HIDE DEF y
<1>8. \A k \in DOMAIN y : y[k] = r \/ (k \in DOMAIN bin.relocs /\ y[k] = bin.relocs[k])
  BY <1>2, <1>7
<1>9. /\ DOMAIN w = DOMAIN meant \cup {n + 1} /\ w[n + 1] = SymbolOf(bin, r)
      /\ \A k \in DOMAIN meant : w[k] = meant[k]
  BY <1>3
<1> HIDE DEF w
<1>10. Numbered(w)
  <2>1. (1 .. n) \cup {n + 1} = 1 .. n + 1 /\ n + 1 \in Nat
    BY <1>3
  <2> QED
    BY <1>3, <1>9, <2>1 DEF Numbered
<1>11. bin'.sections = bin.sections /\ bin'.symbols = bin.symbols /\ bin'.relocs = y
  BY <1>1, <1>2 DEF Record
<1>12. \A m : MeantBy(m, meant) => MeantBy(m, w)
  BY <1>9, MeantMore
<1>13. MeantBy(bin', w)
  <2>1. MeantBy(bin, w)
    BY <1>12 DEF InvMeant, SaysMeant
  <2>2. \A t : /\ IsReloc(bin', t) <=> IsReloc(bin, t)
               /\ SymbolOf(bin', t) = SymbolOf(bin, t)
    BY <1>11 DEF IsReloc, SymbolOf
  <2> SUFFICES ASSUME NEW k \in DOMAIN y
               PROVE  /\ IsReloc(bin, y[k]) /\ y[k].offset \in DOMAIN w
                      /\ SymbolOf(bin, y[k]) = w[y[k].offset]
    BY <1>11, <2>2 DEF MeantBy
  <2>3. CASE y[k] = r
    BY <1>5, <1>6, <1>9, <2>3
  <2>4. CASE k \in DOMAIN bin.relocs /\ y[k] = bin.relocs[k]
    BY <2>1, <2>4 DEF MeantBy
  <2> QED
    BY <1>8, <2>3, <2>4
<1>14. SaysMeant(bin', w)
  BY <1>11, <1>13 DEF InvMeant, SaysMeant
<1>15. image # None => FileSaysMeant(image, w)
  BY <1>12 DEF InvMeant, FileSaysMeant, SaysMeant
<1> QED
  BY <1>1, <1>10, <1>14, <1>15 DEF InvMeant

(* lielf_add_dynamic() leaves relocations alone.                            *)
LEMMA AddDynamicMeant ==
    ASSUME Inv, InvMeant, NEW tag, lielf_add_dynamic(tag)
    PROVE  InvMeant'
<1>1. /\ bin' = [bin EXCEPT !.dynamic = Append(bin.dynamic, tag)]
      /\ image' = image /\ meant' = meant
  BY DEF lielf_add_dynamic, Changed
<1>2. Record(bin)
  BY DEF Inv, BinOK, Shape
<1>3. bin'.sections = bin.sections /\ bin'.symbols = bin.symbols /\ bin'.relocs = bin.relocs
  BY <1>1, <1>2 DEF Record
<1>4. MeantBy(bin', meant)
  BY <1>3, MeantStays DEF InvMeant, SaysMeant
<1> QED
  BY <1>1, <1>3, <1>4 DEF InvMeant, SaysMeant

(* lielf_write()                                                            *)
LEMMA WriteMeant ==
    ASSUME Inv, InvMeant, lielf_write
    PROVE  InvMeant'
<1>1. bin' = Built(bin).bin /\ image' = Built(bin).image /\ meant' = meant
  BY DEF lielf_write
<1>2. SaysMeant(Built(bin).bin, meant) /\ FileSaysMeant(Built(bin).image, meant)
  BY BuiltMeant DEF Inv, InvMeant
<1> QED
  BY <1>1, <1>2 DEF InvMeant

(* lielf_load_file()                                                        *)
LEMMA LoadFileMeant ==
    ASSUME InvMeant, lielf_load_file
    PROVE  InvMeant'
<1>1. bin' = Loaded(image) /\ image' = image /\ meant' = meant /\ image # None
  BY DEF lielf_load_file
<1>2. FileSaysMeant(image, meant)
  BY <1>1 DEF InvMeant
<1> QED
  BY <1>1, <1>2 DEF InvMeant, FileSaysMeant

(* A file as other tools write it says what is meant.                       *)
LEMMA GivenMeant ==
    ASSUME NEW g, WellFormed(g), Conventional(g), Taken(Loaded(g))
    PROVE  Numbered(meant) /\ FileSaysMeant(g, meant)
<1> DEFINE L == Loaded(g)
           list == [i \in DOMAIN g.headers |-> LoadedSection(g, i)]
           n == Len(L.relocs)
<1>1. L.sections = list /\ L.relocs = LoadedRelocs(list)
  BY DEF Loaded
<1>2. /\ \A i \in DOMAIN g.headers : \A d \in BOOLEAN :
            g.headers[i].type = SymtabType(d) => SectionIndex(L, SymtabName(d)) = i
      /\ LocalsBefore(L)
      /\ \A k \in DOMAIN L.relocs :
            L.relocs[k].offset = k /\ L.relocs[k].sym \in 0 .. Len(L.symbols[L.relocs[k].dynamic])
  BY DEF Conventional
<1>3. meant = [k \in {r.offset : r \in Range(L.relocs)} |->
                 SymbolOf(L, CHOOSE r \in Range(L.relocs) : r.offset = k)]
  BY DEF Taken
<1> HIDE DEF L
<1>4. DOMAIN list = DOMAIN g.headers /\ \A i \in DOMAIN g.headers : list[i] = LoadedSection(g, i)
  OBVIOUS
<1>5. list = [i \in DOMAIN g.headers |-> list[i]]
  OBVIOUS
<1> HIDE DEF list
<1>6. IsSeq(g.headers)
  BY DEF WellFormed
<1>7. IsSeq(list)
  BY <1>5, <1>6, SeqAlong
<1>8. ASSUME NEW i \in DOMAIN list
      PROVE  /\ IsSec(list[i]) /\ list[i].type = g.headers[i].type
             /\ \A d \in BOOLEAN : list[i].kind = SymtabName(d) <=> list[i].type = SymtabType(d)
             /\ list[i].kind = "rela" <=> list[i].type = "RELA"
             /\ list[i].relaDynamic \in BOOLEAN
  <2> DEFINE s == LoadedSection(g, i)
  <2>1. /\ s.type = g.headers[i].type
        /\ \A d \in BOOLEAN : s.kind = SymtabName(d) <=> s.type = SymtabType(d)
        /\ s.kind = "rela" <=> s.type = "RELA"
        /\ s.relaDynamic \in BOOLEAN
    BY LoadedKind
  <2>2. IsSec(s)
    BY <1>4, LoadedSectionOK
  <2>3. list[i] = s
    BY <1>4
  <2> HIDE DEF s
  <2> QED
    BY <2>1, <2>2, <2>3
<1>9. KindsOK(list)
  BY <1>8 DEF KindsOK
<1>10. TablesOK(list)
  <2> SUFFICES ASSUME NEW i \in DOMAIN list
               PROVE  /\ \A d \in BOOLEAN : list[i].type = SymtabType(d) =>
                            First(list, SymtabName(d), i) /\ list[i].kind = SymtabName(d)
                      /\ list[i].type = "RELA" => list[i].kind = "rela"
    BY DEF TablesOK
  <2>1. ASSUME NEW d \in BOOLEAN, list[i].type = SymtabType(d) PROVE First(list, SymtabName(d), i)
    <3>1. SectionIndex(L, SymtabName(d)) = i /\ i # 0
      BY <1>2, <1>4, <1>7, <1>8, <2>1, SeqPlaces
    <3> QED
      BY <1>1, <1>7, <3>1, FoundFirst
  <2> QED
    BY <1>8, <2>1
<1>11. ASSUME NEW k \in DOMAIN L.relocs
       PROVE  /\ L.relocs[k] = [target |-> L.relocs[k].target, offset |-> L.relocs[k].offset,
                                sym |-> L.relocs[k].sym, dynamic |-> L.relocs[k].dynamic]
              /\ L.relocs[k].dynamic \in BOOLEAN
  <2> DEFINE t == L.relocs[k]
  <2>1. \E i \in DOMAIN list : \E m \in DOMAIN list[i].data.of :
           /\ list[i].type = "RELA"
           /\ t = [target |-> list[i].relaTarget, offset |-> list[i].data.of[m].offset,
                   sym |-> list[i].data.of[m].sym, dynamic |-> list[i].relaDynamic]
    BY <1>1, <1>7, <1>8, <1>9, LoadedRelocsAre
  <2> HIDE DEF t
  <2>2. PICK i \in DOMAIN list : \E m \in DOMAIN list[i].data.of :
           /\ list[i].type = "RELA"
           /\ t = [target |-> list[i].relaTarget, offset |-> list[i].data.of[m].offset,
                   sym |-> list[i].data.of[m].sym, dynamic |-> list[i].relaDynamic]
    BY <2>1
  <2>3. t.dynamic = list[i].relaDynamic
        /\ t = [target |-> t.target, offset |-> t.offset, sym |-> t.sym, dynamic |-> t.dynamic]
    BY <2>2
  <2>4. t.dynamic \in BOOLEAN
    BY <1>8, <2>3
  <2> QED
    BY <2>3, <2>4 DEF t
<1>12. IsSeq(L.relocs) /\ n \in Nat /\ DOMAIN L.relocs = 1 .. n
  <2>1. IsSeq(L.relocs)
    BY <1>1, <1>7, <1>8, EntriesSeq
  <2> QED
    BY <2>1, SeqPlaces
<1>13. {r.offset : r \in Range(L.relocs)} = DOMAIN L.relocs
  BY <1>2 DEF Range
<1>14. DOMAIN meant = DOMAIN L.relocs
  BY <1>3, <1>13
<1>15. ASSUME NEW k \in DOMAIN L.relocs PROVE meant[k] = SymbolOf(L, L.relocs[k])
  <2> DEFINE c == CHOOSE r \in Range(L.relocs) : r.offset = k
  <2>1. L.relocs[k] \in Range(L.relocs) /\ L.relocs[k].offset = k
    BY <1>2 DEF Range
  <2>2. c \in Range(L.relocs) /\ c.offset = k
    BY <2>1
  <2>3. c = L.relocs[k]
    BY <1>2, <2>2 DEF Range
  <2>4. meant[k] = SymbolOf(L, c)
    BY <1>3, <1>13
  <2> QED
    BY <2>3, <2>4
<1>16. MeantBy(L, meant)
  BY <1>2, <1>11, <1>14, <1>15 DEF MeantBy, IsReloc
<1>17. Numbered(meant)
  BY <1>12, <1>14 DEF Numbered
<1> QED
  BY <1>1, <1>2, <1>10, <1>16, <1>17 DEF FileSaysMeant, SaysMeant, L

(* An object without relocations says what is meant of none.                *)
LEMMA NoneMeant ==
    ASSUME NEW b, b.relocs = <<>>, NEW m
    PROVE  MeantBy(b, m)
BY DEF MeantBy

(* A new object has no tables.                                              *)
LEMMA NewBinaryMeant ==
    ASSUME NEW t
    PROVE  LET b == NewBinary(t)
           IN TablesOK(b.sections) /\ b.relocs = <<>> /\ Record(b) /\ IsSeq(b.sections)
<1> DEFINE b == NewBinary(t)
<1>1. b.sections = <<>> /\ b.relocs = <<>>
  BY DEF NewBinary
<1>2. BinOK(b)
  BY NewBinaryOK
<1> HIDE DEF b
<1>3. TablesOK(b.sections)
  BY <1>1 DEF TablesOK
<1> QED
  BY <1>1, <1>2, <1>3 DEF b, BinOK, Shape

(* A section that is no table is added to an object without relocations.    *)
LEMMA AddedMeant ==
    ASSUME NEW b, Record(b), IsSeq(b.sections), TablesOK(b.sections), b.relocs = <<>>,
           NEW s, s.type \notin DOMAIN TableKind
    PROVE  LET c == AddedSection(b, s)
           IN TablesOK(c.sections) /\ c.relocs = <<>> /\ Record(c) /\ IsSeq(c.sections)
<1> DEFINE y == Append(b.sections, s)
           c == AddedSection(b, s)
<1>1. c = Put(b, y)
  BY DEF AddedSection, Put
<1>2. TablesOK(y) /\ IsSeq(y)
  BY AddedBehind, AppendSeq
<1> HIDE DEF c, y
<1>3. Record(c) /\ c.sections = y /\ c.relocs = b.relocs
  BY <1>1, PutRecord
<1> QED
  BY <1>2, <1>3 DEF c

(* cup_output_object() writes no relocations.                               *)
LEMMA OutputMeant ==
    ASSUME NEW code \in Nat, NEW strings \in Nat, NEW m
    PROVE  FileSaysMeant(cup_output_object(code, strings), m)
<1> DEFINE sec1 == Section(".text", "PROGBITS", {"ALLOC", "EXECINSTR"}, Bytes(-1), code, 16)
           text == AddedSection(NewBinary("REL"), sec1)
           sec2 == Section(".rodata", "PROGBITS", {"ALLOC"}, Bytes(-2), strings, 8)
           both == IF strings = 0 THEN text ELSE AddedSection(text, sec2)
<1>1. Aligned(16)
  <2>1. 16 = 2 ^ 4 /\ 4 \in 0 .. 30 /\ 16 \in Nat
    BY Z3
  <2> QED
    BY <2>1 DEF Aligned
<1>2. IsSec(sec1) /\ sec1.dirty
  BY <1>1, BytesSeq, NewSection
<1>3. IsSec(sec2) /\ sec2.dirty
  BY Alignments, BytesSeq, NewSection
<1>4. cup_output_object(code, strings) = Built(both).image
  BY DEF cup_output_object
<1>5. sec1.type = "PROGBITS" /\ sec2.type = "PROGBITS" /\ "PROGBITS" \notin DOMAIN TableKind
  BY DEF Section, TableKind
<1> HIDE DEF sec1, sec2
<1>6. BinOK(text)
  BY <1>2, NewBinaryOK, AddedOK
<1>7. TablesOK(text.sections) /\ text.relocs = <<>> /\ Record(text) /\ IsSeq(text.sections)
  BY <1>5, NewBinaryMeant, AddedMeant
<1> HIDE DEF text
<1>8. BinOK(both)
  BY <1>3, <1>6, AddedOK
<1>9. TablesOK(both.sections) /\ both.relocs = <<>>
  BY <1>5, <1>7, AddedMeant
<1> HIDE DEF both
<1>10. SaysMeant(both, m)
  BY <1>9, NoneMeant DEF SaysMeant
<1> QED
  BY <1>4, <1>8, <1>10, BuiltMeant

(* An object that is begun has no relocations; one that is loaded has those *)
(* of a file that another tool or this one made.                            *)
LEMMA InitiallyMeant == Init => InvMeant
<1> SUFFICES ASSUME Init PROVE InvMeant
  OBVIOUS
<1>1. \A b : Taken(b) /\ DOMAIN b.relocs = {} => Numbered(meant)
  <2> SUFFICES ASSUME NEW b, Taken(b), DOMAIN b.relocs = {} PROVE Numbered(meant)
    OBVIOUS
  <2>1. {r.offset : r \in Range(b.relocs)} = {}
    BY DEF Range
  <2>2. DOMAIN meant = {}
    BY <2>1 DEF Taken
  <2>3. 1 .. 0 = {} /\ 0 \in Nat
    OBVIOUS
  <2> QED
    BY <2>2, <2>3 DEF Numbered
<1>2. CASE \E t \in Types : Taken(NewBinary(t)) /\ image = None /\ current = FALSE
  <2>1. PICK t \in Types : Taken(NewBinary(t)) /\ image = None
    BY <1>2
  <2>2. bin = NewBinary(t)
    BY <2>1 DEF Taken
  <2>3. TablesOK(bin.sections) /\ bin.relocs = <<>>
    BY <2>2, NewBinaryMeant
  <2>4. DOMAIN bin.relocs = {}
    BY <2>3
  <2>5. Numbered(meant)
    BY <1>1, <2>1, <2>2, <2>4
  <2>6. SaysMeant(bin, meant)
    BY <2>3, NoneMeant DEF SaysMeant
  <2> QED
    BY <2>1, <2>5, <2>6 DEF InvMeant
<1>3. CASE \E g \in Given \cup Output : Taken(Loaded(g)) /\ image = g /\ current = TRUE
  <2>1. PICK g \in Given \cup Output : Taken(Loaded(g)) /\ image = g
    BY <1>3
  <2>2. bin = Loaded(g)
    BY <2>1 DEF Taken
  <2>3. Numbered(meant) /\ FileSaysMeant(g, meant)
    <3>1. CASE g \in Given
      BY <2>1, <3>1, ElfAssumption, GivenMeant
    <3>2. CASE g \in Output
      <4>1. PICK code \in Sizes \ {0}, strings \in Sizes : g = cup_output_object(code, strings)
        BY <3>2 DEF Output
      <4>2. \A m : FileSaysMeant(g, m)
        BY <4>1, ElfAssumption, OutputMeant
      <4> DEFINE m == [k \in {} |-> 0]
      <4>3. MeantBy(Loaded(g), m) /\ DOMAIN m = {}
        BY <4>2 DEF FileSaysMeant, SaysMeant
      <4> HIDE DEF m
      <4>4. DOMAIN Loaded(g).relocs = {}
        BY <4>3 DEF MeantBy
      <4>5. Numbered(meant)
        BY <1>1, <2>1, <4>4
      <4> QED
        BY <4>2, <4>5
    <3> QED
      BY <3>1, <3>2
  <2> QED
    BY <2>1, <2>2, <2>3 DEF InvMeant, FileSaysMeant
<1> QED
  BY <1>2, <1>3 DEF Init

(* The invariant of relocations: an object and its file say of each the     *)
(* symbol that its caller named.                                            *)
THEOREM MeantAlways == Spec => []InvMeant
<1>1. Inv /\ InvMeant /\ [Next]_evars => InvMeant'
  <2> SUFFICES ASSUME Inv, InvMeant, [Next]_evars PROVE InvMeant'
    OBVIOUS
  <2>1. ASSUME NEW k \in SectionKinds, NEW size \in Sizes, lielf_add_section(k, size)
        PROVE  InvMeant'
    BY <2>1, AddSectionMeant
  <2>2. ASSUME NEW i \in DOMAIN bin.sections, lielf_remove_section(i) PROVE InvMeant'
    BY <2>2, RemoveSectionMeant
  <2>3. ASSUME NEW i \in DOMAIN bin.sections, NEW size \in Sizes, lielf_set_section_data(i, size)
        PROVE  InvMeant'
    BY <2>3, SetSectionDataMeant
  <2>4. ASSUME NEW name \in SymbolNames, NEW local \in BOOLEAN, NEW d \in Dynamic,
               NEW shndx \in 0 .. Len(bin.sections), lielf_add_symbol(name, local, shndx, d)
        PROVE  InvMeant'
    <3>1. d \in BOOLEAN
      BY ElfAssumption
    <3> QED
      BY <2>4, <3>1, AddSymbolMeant
  <2>5. ASSUME NEW k \in SectionKinds, NEW name \in SymbolNames, NEW d \in Dynamic,
               lielf_add_reloc(k.name, name, d)
        PROVE  InvMeant'
    <3>1. d \in BOOLEAN
      BY ElfAssumption
    <3> QED
      BY <2>5, <3>1, AddRelocMeant
  <2>6. ASSUME NEW tag \in {"DT_DEBUG"}, lielf_add_dynamic(tag) PROVE InvMeant'
    BY <2>6, AddDynamicMeant
  <2>7. ASSUME lielf_write PROVE InvMeant'
    BY <2>7, WriteMeant
  <2>8. ASSUME lielf_load_file PROVE InvMeant'
    BY <2>8, LoadFileMeant
  <2>9. ASSUME UNCHANGED evars PROVE InvMeant'
    BY <2>9 DEF evars, InvMeant
  <2> QED
    BY <2>1, <2>2, <2>3, <2>4, <2>5, <2>6, <2>7, <2>8, <2>9 DEF Next
<1> QED
  BY <1>1, InitiallyMeant, Layout, PTL DEF Spec

(* A relocation, read from a file that was written or loaded, is for the    *)
(* symbol that its caller named, whatever calls there were, and the local   *)
(* symbols of a table are those before the one that its info names.         *)
THEOREM RelocationsMeantAlways == Spec => []RelocationsMeant
<1>1. InvMeant => RelocationsMeant
  <2> SUFFICES ASSUME InvMeant, image # None, NEW r \in Range(Loaded(image).relocs)
               PROVE  SymbolOf(Loaded(image), r) = meant[r.offset]
    BY DEF RelocationsMeant, InvMeant, FileSaysMeant
  <2>1. MeantBy(Loaded(image), meant)
    BY DEF InvMeant, FileSaysMeant, SaysMeant
  <2>2. PICK k \in DOMAIN Loaded(image).relocs : r = Loaded(image).relocs[k]
    BY DEF Range
  <2> QED
    BY <2>1, <2>2 DEF MeantBy
<1> QED
  BY <1>1, MeantAlways, PTL

-----------------------------------------------------------------------------
(* No bytes of a call that is yet to come, the n-th or a later one          *)
Old(data, n) == \A m \in Nat : n <= m => data # Bytes(m)

(* A section after n calls: one for relocations does not have the name of   *)
(* another table, and one that takes room in a file has bytes.              *)
Good(s, n) ==
    /\ s.kind = "rela" => s.name \notin TableNames
    /\ FileSize(s) > 0 => s.data # NoData
    /\ Old(s.data, n)
AllGood(list, n) == \A i \in DOMAIN list : Good(list[i], n)

(* A section t that was s: where it was; with the bytes it had; and no      *)
(* dirty one if it has the bytes that it had                                *)
Stands(s, t) ==
    /\ t.name = s.name /\ t.offset = s.offset /\ t.addr = s.addr
    /\ t.flags = s.flags /\ t.loaded = s.loaded
Intact(s, t) == t.data = s.data /\ t.size = s.size /\ t.dirty = s.dirty
Restored(s, t) ==
    ~ s.dirty /\ s.data # NoData /\ t.data = s.data /\ t.size = s.size => ~ t.dirty

(* The list y is x with other bytes in sections of some names, and more     *)
(* sections behind.                                                         *)
Touched(x, y, names) ==
    \A i \in DOMAIN x :
       /\ i \in DOMAIN y /\ Stands(x[i], y[i]) /\ Restored(x[i], y[i])
       /\ x[i].name \notin names => Intact(x[i], y[i])

(* No section is touched twice when one step and another one have different *)
(* names.                                                                   *)
LEMMA TouchedThen ==
    ASSUME NEW x, NEW y, NEW z, NEW S, NEW T, Touched(x, y, S), Touched(y, z, T), S \cap T = {}
    PROVE  Touched(x, z, S \cup T)
<1> SUFFICES ASSUME NEW i \in DOMAIN x
             PROVE  /\ i \in DOMAIN z /\ Stands(x[i], z[i]) /\ Restored(x[i], z[i])
                    /\ x[i].name \notin S \cup T => Intact(x[i], z[i])
  BY DEF Touched
<1>1. /\ i \in DOMAIN y /\ Stands(x[i], y[i]) /\ Restored(x[i], y[i])
      /\ x[i].name \notin S => Intact(x[i], y[i])
  BY DEF Touched
<1>2. /\ i \in DOMAIN z /\ Stands(y[i], z[i]) /\ Restored(y[i], z[i])
      /\ y[i].name \notin T => Intact(y[i], z[i])
  BY <1>1 DEF Touched
<1>3. y[i].name = x[i].name /\ Stands(x[i], z[i])
  BY <1>1, <1>2 DEF Stands
<1>4. CASE x[i].name \notin T
  BY <1>1, <1>2, <1>3, <1>4 DEF Intact, Restored
<1>5. CASE x[i].name \in T
  BY <1>1, <1>2, <1>3, <1>5 DEF Intact, Restored
<1> QED
  BY <1>4, <1>5

(* What is not touched at all                                               *)
LEMMA TouchedNot ==
    ASSUME NEW x, NEW y, NEW names,
           \A i \in DOMAIN x : i \in DOMAIN y /\ Stands(x[i], y[i]) /\ Intact(x[i], y[i])
    PROVE  Touched(x, y, names)
BY DEF Touched, Restored, Intact

(* No bytes of a call are a table, or none.                                 *)
LEMMA OldData ==
    /\ \A n : Old(NoData, n) /\ \A rows : Old(Table(rows), n)
    /\ \A rows : Table(rows) # NoData
<1>1. NoData.form = "none" /\ \A m : Bytes(m).form = "bytes"
  BY DEF NoData, Bytes
<1>2. \A rows : Table(rows).form = "table"
  BY DEF Table
<1> QED
  BY <1>1, <1>2 DEF Old

(* lielf__maybe_update_data() leaves a section alone that has the bytes     *)
(* that it gets.                                                            *)
LEMMA UpdatedRestored ==
    ASSUME NEW s, NEW t, HasFields(t), Stands(s, t), Intact(s, t), NEW data, NEW size
    PROVE  LET u == Updated(t, data, size)
           IN /\ Stands(s, u) /\ Restored(s, u) /\ u.data = data /\ u.size = size
              /\ u.kind = t.kind /\ u.name = t.name /\ u.type = t.type
<1> DEFINE v == [t EXCEPT !.data = data, !.size = size, !.dirty = TRUE]
           u == Updated(t, data, size)
<1>1. /\ v.data = data /\ v.size = size /\ v.name = t.name /\ v.kind = t.kind /\ v.type = t.type
      /\ v.offset = t.offset /\ v.addr = t.addr /\ v.flags = t.flags /\ v.loaded = t.loaded
  BY DEF HasFields, Fields
<1>2. CASE t.data # NoData /\ t.size = size /\ t.data = data
  <2>1. u = t
    BY <1>2 DEF Updated
  <2> HIDE DEF u
  <2> QED
    BY <1>2, <2>1 DEF Intact, Restored, u
<1>3. CASE ~ (t.data # NoData /\ t.size = size /\ t.data = data)
  <2>1. u = v
    BY <1>3 DEF Updated
  <2> HIDE DEF u, v
  <2>2. Stands(s, u)
    BY <1>1, <2>1 DEF Stands
  <2>3. Restored(s, u)
    BY <1>1, <1>3, <2>1 DEF Intact, Restored
  <2> QED
    BY <1>1, <2>1, <2>2, <2>3 DEF u
<1> QED
  BY <1>2, <1>3

(* A table that is regenerated is as good as it was.                        *)
LEMMA TableGood ==
    ASSUME NEW s, NEW t, HasFields(t), Stands(s, t), Intact(s, t),
           t.kind = "rela" => t.name \notin TableNames, NEW rows, NEW size, NEW n
    PROVE  LET u == Updated(t, Table(rows), size)
           IN Stands(s, u) /\ Restored(s, u) /\ Good(u, n)
<1> DEFINE u == Updated(t, Table(rows), size)
<1>1. /\ Stands(s, u) /\ Restored(s, u) /\ u.data = Table(rows)
      /\ u.kind = t.kind /\ u.name = t.name
  BY UpdatedRestored
<1> HIDE DEF u
<1>2. Good(u, n)
  BY <1>1, OldData DEF Good
<1> QED
  BY <1>1, <1>2 DEF u

(* A table that is found under its name, or made, is the only one touched.  *)
LEMMA PutAtTouched ==
    ASSUME NEW b, BinOK(b), NEW n, AllGood(b.sections, n), NEW name, NEW type, NEW flags, NEW align,
           Aligned(align), NEW v, NEW e, e = Ensured(b, name, type, flags, align),
           NEW i, i = SectionIndex(e, name),
           Stands(e.sections[i], v), Restored(e.sections[i], v), Good(v, n)
    PROVE  Touched(b.sections, PutAt(e, i, v).sections, {name}) /\ AllGood(PutAt(e, i, v).sections, n)
<1> DEFINE x == b.sections
           y == e.sections
           z == [y EXCEPT ![i] = v]
<1>1. Retabled(x, y, i, name) /\ (SectionIndex(b, name) # 0 => e = b)
  BY EnsuredFirst
<1>2. BinOK(e)
  BY EnsuredOK
<1>3. Record(e) /\ IsSeq(x) /\ IsSeq(y)
  BY <1>2 DEF BinOK, Shape
<1>4. PutAt(e, i, v).sections = z
  BY <1>3, PutRecord DEF PutAt
<1>5. DOMAIN z = DOMAIN y /\ \A j \in DOMAIN y : z[j] = IF j = i THEN v ELSE y[j]
  BY <1>3, SeqWith
<1> HIDE DEF z
<1>6. /\ i \in DOMAIN y /\ DOMAIN y = DOMAIN x \cup {i} /\ y[i].name = name
      /\ \A j \in DOMAIN y : j # i => y[j] = x[j]
      /\ i \in DOMAIN x => x[i].name = name
  BY <1>1 DEF Retabled, First
<1>7. i \in DOMAIN x => y[i] = x[i]
  <2> SUFFICES ASSUME i \in DOMAIN x PROVE y[i] = x[i]
    OBVIOUS
  <2>1. SectionIndex(b, name) # 0
    BY <1>3, <1>6, FoundFirst
  <2> QED
    BY <1>1, <2>1
<1>8. ASSUME NEW j \in DOMAIN x
      PROVE  /\ j \in DOMAIN z /\ Stands(x[j], z[j]) /\ Restored(x[j], z[j])
             /\ x[j].name \notin {name} => Intact(x[j], z[j])
  <2>1. CASE j = i
    <3>1. z[j] = v /\ x[j] = y[i] /\ x[j].name = name /\ j \in DOMAIN z
      BY <1>5, <1>6, <1>7, <1>8, <2>1
    <3> QED
      BY <3>1
  <2>2. CASE j # i
    <3>1. z[j] = x[j] /\ j \in DOMAIN z
      BY <1>5, <1>6, <2>2
    <3> QED
      BY <3>1 DEF Stands, Restored, Intact
  <2> QED
    BY <2>1, <2>2
<1>9. Touched(x, z, {name})
  BY <1>8 DEF Touched
<1>10. \A j \in DOMAIN z : Good(z[j], n)
  BY <1>5, <1>6 DEF AllGood
<1> QED
  BY <1>4, <1>9, <1>10 DEF AllGood

(* A section that is made a table is where it was, with its bytes.          *)
LEMMA MadeStands ==
    ASSUME NEW s, IsSec(s), NEW type, NEW entsize, NEW kind
    PROVE  LET t == Made(s, type, entsize, kind)
           IN /\ HasFields(t) /\ Stands(s, t) /\ Intact(s, t) /\ t.kind = kind /\ t.name = s.name
              /\ t.type = type
<1> DEFINE t == Made(s, type, entsize, kind)
<1>1. t = [[[s EXCEPT !.type = type] EXCEPT !.entsize = entsize] EXCEPT !.kind = kind]
  BY DEF Made
<1>2. HasFields([s EXCEPT !.type = type])
  BY FieldSet DEF IsSec
<1>3. HasFields([[s EXCEPT !.type = type] EXCEPT !.entsize = entsize])
  BY <1>2, FieldSet
<1>4. HasFields(t)
  <2> HIDE DEF t
  <2> QED
    BY <1>1, <1>3, FieldSet
<1>5. Stands(s, t) /\ Intact(s, t) /\ t.kind = kind /\ t.name = s.name /\ t.type = type
  BY DEF Made, IsSec, HasFields, Fields, Stands, Intact
<1> QED
  BY <1>4, <1>5

(* A table of strings or of dynamic entries that is made                    *)
LEMMA MadeInTouched ==
    ASSUME NEW b, BinOK(b), NEW n, AllGood(b.sections, n), NEW name, NEW type, NEW flags, NEW align,
           Aligned(align), NEW entsize, NEW kind, kind # "rela", NEW rows, NEW size
    PROVE  LET c == MadeIn(b, name, type, flags, align, entsize, kind, Table(rows), size)
           IN Touched(b.sections, c.sections, {name}) /\ AllGood(c.sections, n)
<1> DEFINE e == Ensured(b, name, type, flags, align)
           i == SectionIndex(e, name)
           s == e.sections[i]
           t == Made(s, type, entsize, kind)
           v == Updated(t, Table(rows), size)
           c == MadeIn(b, name, type, flags, align, entsize, kind, Table(rows), size)
<1>1. c = PutAt(e, i, v)
  BY DEF MadeIn
<1> HIDE DEF c
<1>2. BinOK(e)
  BY EnsuredOK
<1>3. Retabled(b.sections, e.sections, i, name)
  BY EnsuredFirst
<1>4. IsSec(s)
  <2> HIDE DEF e, i
  <2> QED
    BY <1>2, <1>3 DEF Retabled, First, BinOK, Shape
<1>5. HasFields(t) /\ Stands(s, t) /\ Intact(s, t) /\ t.kind = kind
  <2> HIDE DEF s
  <2> QED
    BY <1>4, MadeStands
<1>6. Stands(s, v) /\ Restored(s, v) /\ Good(v, n)
  <2> HIDE DEF t, s
  <2> QED
    BY <1>5, TableGood
<1> HIDE DEF v
<1>7. Touched(b.sections, PutAt(e, i, v).sections, {name}) /\ AllGood(PutAt(e, i, v).sections, n)
  <2> HIDE DEF e, i
  <2> QED
    BY <1>6, PutAtTouched DEF e, i
<1> QED
  BY <1>1, <1>7 DEF c

(* A table that is emptied, under its name                                  *)
LEMMA EmptiedTouched ==
    ASSUME NEW b, BinOK(b), NEW n, AllGood(b.sections, n), NEW name, SectionIndex(b, name) # 0,
           NEW type, NEW flags, NEW align, Aligned(align), NEW rows, NEW size
    PROVE  LET e == Ensured(b, name, type, flags, align)
               i == SectionIndex(e, name)
               c == PutAt(e, i, Updated(e.sections[i], Table(rows), size))
           IN Touched(b.sections, c.sections, {name}) /\ AllGood(c.sections, n)
<1> DEFINE e == Ensured(b, name, type, flags, align)
           i == SectionIndex(e, name)
           s == e.sections[i]
           v == Updated(s, Table(rows), size)
<1>1. e = b /\ Retabled(b.sections, e.sections, i, name)
  BY EnsuredFirst
<1>2. IsSec(s) /\ Good(s, n)
  <2> HIDE DEF e, i
  <2> QED
    BY <1>1 DEF Retabled, First, BinOK, Shape, AllGood
<1>3. HasFields(s) /\ Stands(s, s) /\ Intact(s, s) /\ (s.kind = "rela" => s.name \notin TableNames)
  BY <1>2 DEF IsSec, Stands, Intact, Good
<1>4. Stands(s, v) /\ Restored(s, v) /\ Good(v, n)
  <2> HIDE DEF s
  <2> QED
    BY <1>3, TableGood
<1> HIDE DEF v
<1>5. Touched(b.sections, PutAt(e, i, v).sections, {name}) /\ AllGood(PutAt(e, i, v).sections, n)
  <2> HIDE DEF e, i
  <2> QED
    BY <1>4, PutAtTouched DEF e, i
<1> QED
  BY <1>5 DEF v

(* lielf__rebuild_symtab(), behind the sort that leaves sections alone      *)
LEMMA RebuiltSymtabTouched ==
    ASSUME NEW a, BinOK(a), NEW n, AllGood(a.sections, n), NEW d \in BOOLEAN
    PROVE  LET c == RebuiltSymtab(a, d)
           IN Touched(a.sections, c.sections, {SymtabName(d)}) /\ AllGood(c.sections, n)
<1> DEFINE b    == Sorted(a, d)
           syms == b.symbols[d]
           rows == [i \in DOMAIN syms |->
                      [name |-> OffsetOf(NamesOf(syms), i), local |-> syms[i].local,
                       shndx |-> syms[i].shndx, value |-> syms[i].value]]
           info == Cardinality(Locals(syms)) + 1
           name == SymtabName(d)
           e    == Ensured(b, name, SymtabType(d), AllocIf(d), 8)
           i    == SectionIndex(e, name)
           s    == e.sections[i]
           size == SYM * (Len(syms) + 1)
           t    == [s EXCEPT !.type = SymtabType(d), !.entsize = SYM, !.kind = name, !.info = info]
           v    == Updated(t, Table(rows), size)
           c    == RebuiltSymtab(a, d)
<1>1. c = IF syms # <<>> THEN PutAt(e, i, v)
          ELSE IF SectionIndex(b, name) = 0 THEN b
          ELSE PutAt(e, i, Updated(s, Table(rows), size))
  BY DEF RebuiltSymtab, PutAt, Put
<1>2. b.sections = a.sections /\ BinOK(b)
  <2>1. Record(a)
    BY DEF BinOK, Shape
  <2>2. b.sections = a.sections
    BY <2>1 DEF Sorted, Record
  <2> QED
    BY <2>2, SortedOK
<1>3. AllGood(b.sections, n)
  BY <1>2
<1> HIDE DEF rows, size, info, c
<1>4. CASE syms # <<>>
  <2> HIDE DEF b, syms
  <2>1. BinOK(e)
    BY <1>2, EnsuredOK, Alignments
  <2>2. Retabled(b.sections, e.sections, i, name)
    BY <1>2, EnsuredFirst
  <2>3. IsSec(s)
    <3> HIDE DEF e, i
    <3> QED
      BY <2>1, <2>2 DEF Retabled, First, BinOK, Shape
  <2>4. t = [Made(s, SymtabType(d), SYM, name) EXCEPT !.info = info]
    BY DEF Made
  <2>5. LET u == Made(s, SymtabType(d), SYM, name)
        IN HasFields(u) /\ Stands(s, u) /\ Intact(s, u) /\ u.kind = name
    <3> HIDE DEF s, name
    <3> QED
      BY <2>3, MadeStands
  <2>6. HasFields(t) /\ Stands(s, t) /\ Intact(s, t) /\ t.kind = name
    <3> DEFINE u == Made(s, SymtabType(d), SYM, name)
    <3>1. HasFields(u) /\ Stands(s, u) /\ Intact(s, u) /\ u.kind = name
      BY <2>5
    <3>2. t = [u EXCEPT !.info = info]
      BY <2>4
    <3> HIDE DEF u, t, s
    <3>3. HasFields(t)
      BY <3>1, <3>2, FieldSet
    <3>4. Stands(s, t) /\ Intact(s, t) /\ t.kind = name
      BY <3>1, <3>2 DEF HasFields, Fields, Stands, Intact
    <3> QED
      BY <3>3, <3>4
  <2>7. t.kind # "rela"
    BY <2>6, TableTypes
  <2>8. Stands(s, v) /\ Restored(s, v) /\ Good(v, n)
    <3> HIDE DEF t, s
    <3> QED
      BY <2>6, <2>7, TableGood
  <2> HIDE DEF v, name
  <2>9. Touched(b.sections, PutAt(e, i, v).sections, {name}) /\ AllGood(PutAt(e, i, v).sections, n)
    <3> HIDE DEF e, i
    <3> QED
      BY <1>2, <1>3, <2>8, PutAtTouched, Alignments DEF e, i
  <2>10. c = PutAt(e, i, v)
    BY <1>1, <1>4
  <2> QED
    BY <1>2, <2>9, <2>10 DEF c, name
<1>5. CASE syms = <<>> /\ SectionIndex(b, name) = 0
  <2>1. c = b
    BY <1>1, <1>5
  <2>2. Touched(a.sections, c.sections, {name})
    BY <1>2, <2>1, TouchedNot DEF Stands, Intact
  <2> QED
    BY <1>3, <2>1, <2>2 DEF c
<1>6. CASE syms = <<>> /\ SectionIndex(b, name) # 0
  <2>1. c = PutAt(e, i, Updated(s, Table(rows), size))
    BY <1>1, <1>6
  <2> HIDE DEF b, name
  <2>2. Touched(b.sections, c.sections, {name}) /\ AllGood(c.sections, n)
    BY <1>2, <1>3, <1>6, <2>1, EmptiedTouched, Alignments
  <2> QED
    BY <1>2, <2>2 DEF c, name
<1> QED
  BY <1>4, <1>5, <1>6

(* lielf__rebuild_strtab()                                                  *)
LEMMA RebuiltStrtabTouched ==
    ASSUME NEW b, BinOK(b), NEW n, AllGood(b.sections, n), NEW d \in BOOLEAN
    PROVE  LET c == RebuiltStrtab(b, d)
           IN Touched(b.sections, c.sections, {StrtabName(d)}) /\ AllGood(c.sections, n)
<1> DEFINE names == NamesOf(b.symbols[d])
           name == StrtabName(d)
           e    == Ensured(b, name, "STRTAB", AllocIf(d), 1)
           i    == SectionIndex(e, name)
           size == 1 + SpaceOf(names)
           c    == RebuiltStrtab(b, d)
<1>1. c = IF names # <<>> THEN MadeIn(b, name, "STRTAB", AllocIf(d), 1, 0, name, Table(names), size)
          ELSE IF SectionIndex(b, name) = 0 THEN b
          ELSE PutAt(e, i, Updated(e.sections[i], Table(names), 1))
  BY DEF RebuiltStrtab, MadeIn, PutAt, Put, Made
<1> HIDE DEF names, size, c
<1>2. name # "rela"
  BY DEF StrtabName
<1> HIDE DEF name
<1>3. CASE names # <<>>
  <2>1. c = MadeIn(b, name, "STRTAB", AllocIf(d), 1, 0, name, Table(names), size)
    BY <1>1, <1>3
  <2>2. Touched(b.sections, c.sections, {name}) /\ AllGood(c.sections, n)
    BY <1>2, <2>1, MadeInTouched, Alignments
  <2> QED
    BY <2>2 DEF c, name
<1>4. CASE names = <<>> /\ SectionIndex(b, name) = 0
  <2>1. c = b
    BY <1>1, <1>4
  <2>2. Touched(b.sections, c.sections, {name})
    BY <2>1, TouchedNot DEF Stands, Intact
  <2> QED
    BY <2>1, <2>2 DEF c, name
<1>5. CASE names = <<>> /\ SectionIndex(b, name) # 0
  <2>1. c = PutAt(e, i, Updated(e.sections[i], Table(names), 1))
    BY <1>1, <1>5
  <2>2. Touched(b.sections, c.sections, {name}) /\ AllGood(c.sections, n)
    BY <1>5, <2>1, EmptiedTouched, Alignments
  <2> QED
    BY <2>2 DEF c, name
<1> QED
  BY <1>3, <1>4, <1>5

(* lielf__rebuild_dynamic()                                                 *)
LEMMA RebuiltDynamicTouched ==
    ASSUME NEW b, BinOK(b), NEW n, AllGood(b.sections, n)
    PROVE  LET c == RebuiltDynamic(b)
           IN Touched(b.sections, c.sections, {".dynamic"}) /\ AllGood(c.sections, n)
<1> DEFINE rows == b.dynamic
           size == DYN * (Len(rows) + 1)
           c    == RebuiltDynamic(b)
<1>1. c = IF rows = <<>> THEN b
          ELSE MadeIn(b, ".dynamic", "DYNAMIC", {"ALLOC", "WRITE"}, 8, DYN, "dynamic", Table(rows), size)
  BY DEF RebuiltDynamic, MadeIn, PutAt, Put, Made
<1> HIDE DEF rows, size, c
<1>2. CASE rows = <<>>
  <2>1. c = b
    BY <1>1, <1>2
  <2>2. Touched(b.sections, c.sections, {".dynamic"})
    BY <2>1, TouchedNot DEF Stands, Intact
  <2> QED
    BY <2>1, <2>2 DEF c
<1>3. CASE rows # <<>>
  <2>1. c = MadeIn(b, ".dynamic", "DYNAMIC", {"ALLOC", "WRITE"}, 8, DYN, "dynamic", Table(rows), size)
    BY <1>1, <1>3
  <2>2. Touched(b.sections, c.sections, {".dynamic"}) /\ AllGood(c.sections, n)
    BY <2>1, MadeInTouched, Alignments
  <2> QED
    BY <2>2 DEF c
<1> QED
  BY <1>2, <1>3

(* lielf__rebuild_shstrtab()                                                *)
LEMMA RebuiltShstrtabTouched ==
    ASSUME NEW b, BinOK(b), NEW n, AllGood(b.sections, n)
    PROVE  LET c == RebuiltShstrtab(b)
           IN Touched(b.sections, c.sections, {".shstrtab"}) /\ AllGood(c.sections, n)
<1> DEFINE e     == Ensured(b, ".shstrtab", "STRTAB", {}, 1)
           names == SectionNames(e)
           size  == 1 + SpaceOf(names)
           c     == RebuiltShstrtab(b)
<1>1. c = MadeIn(b, ".shstrtab", "STRTAB", {}, 1, 0, "shstrtab", Table(names), size)
  BY DEF RebuiltShstrtab, MadeIn, PutAt, Put, Made
<1> HIDE DEF names, size, c
<1>2. Touched(b.sections, c.sections, {".shstrtab"}) /\ AllGood(c.sections, n)
  BY <1>1, MadeInTouched, Alignments
<1> QED
  BY <1>2 DEF c

(* The names that a step for relocations may touch: no other table's        *)
Others(list) == {list[i].name : i \in DOMAIN list} \ TableNames

(* A section for relocations that is new is good.                           *)
LEMMA RelaForGood ==
    ASSUME NEW r, NEW n
    PROVE  Good(RelaFor(r), n)
<1> DEFINE s == RelaFor(r)
<1>1. /\ s.name = RelaName(r) /\ s.size = 0 /\ s.data = NoData
  BY DEF RelaFor, Section
<1>2. RelaName(r) \notin TableNames
  <2> DEFINE name == ".rela" \o r.target
  <2>1. RelaName(r) = IF r.dynamic /\ r.target = "" THEN ".rela.dyn"
                      ELSE IF name \in TableNames THEN ".rela" ELSE name
    BY DEF RelaName
  <2>2. ".rela.dyn" \notin TableNames /\ ".rela" \notin TableNames
    BY DEF TableNames
  <2> HIDE DEF name
  <2> QED
    BY <2>1, <2>2
<1> HIDE DEF s
<1>3. FileSize(s) = 0
  BY <1>1 DEF FileSize
<1>4. Good(s, n)
  BY <1>1, <1>2, <1>3, OldData DEF Good
<1> QED
  BY <1>4 DEF s

(* lielf__rebuild_one_rela()                                                *)
LEMMA OneRelaGood ==
    ASSUME NEW b, IsSeq(b.relocs), NEW s, IsSec(s), NEW n, Good(s, n)
    PROVE  LET t == RebuiltOneRela(b, s)
           IN Stands(s, t) /\ Restored(s, t) /\ Good(t, n)
<1> DEFINE S    == {i \in DOMAIN b.relocs : Relocates(s, b.relocs[i])}
           mine == Kept(b.relocs, S)
           rows == [i \in DOMAIN mine |-> [offset |-> mine[i].offset, sym |-> mine[i].sym]]
           u    == [s EXCEPT !.entsize = RELA]
           data == IF mine = <<>> THEN NoData ELSE Table(rows)
           size == RELA * Len(mine)
           t    == RebuiltOneRela(b, s)
<1>1. t = Updated(u, data, size)
  BY DEF RebuiltOneRela
<1> HIDE DEF S, t
<1>2. IsSeq(mine)
  BY KeptSeq
<1>3. Len(mine) \in Nat /\ (mine = <<>> <=> Len(mine) = 0)
  BY <1>2, SeqPlaces, NoElements
<1> HIDE DEF mine, rows
<1>4. size > 0 => data # NoData
  <2>1. mine = <<>> => size = 0
    BY <1>3 DEF RELA
  <2>2. mine # <<>> => data # NoData
    BY OldData
  <2> HIDE DEF size, data
  <2> QED
    BY <2>1, <2>2
<1>5. Old(data, n)
  BY OldData
<1> HIDE DEF data, size
<1>6. HasFields(u)
  BY FieldSet DEF IsSec
<1>7. Stands(s, u) /\ Intact(s, u) /\ u.kind = s.kind /\ u.name = s.name
  BY DEF IsSec, HasFields, Fields, Stands, Intact
<1> HIDE DEF u
<1>8. /\ Stands(s, t) /\ Restored(s, t) /\ t.data = data /\ t.size = size
      /\ t.kind = u.kind /\ t.name = u.name
  BY <1>1, <1>6, <1>7, UpdatedRestored
<1>9. FileSize(t) > 0 => size > 0
  BY <1>8 DEF FileSize
<1>10. Good(t, n)
  BY <1>4, <1>5, <1>7, <1>8, <1>9 DEF Good
<1> QED
  BY <1>8, <1>10 DEF t

(* lielf__rebuild_relas()                                                   *)
LEMMA RebuiltRelasTouched ==
    ASSUME NEW b, BinOK(b), NEW n, AllGood(b.sections, n)
    PROVE  LET c == RebuiltRelas(b)
           IN Touched(b.sections, c.sections, Others(b.sections)) /\ AllGood(c.sections, n)
<1> DEFINE homeless == {i \in DOMAIN b.relocs :
                          /\ \A k \in DOMAIN b.sections : ~ Relocates(b.sections[k], b.relocs[i])
                          /\ \A k \in 1 .. i - 1 : ~ Relocates(RelaFor(b.relocs[k]), b.relocs[i])}
           first == Kept(b.relocs, homeless)
           new   == [i \in DOMAIN first |-> RelaFor(first[i])]
           x     == b.sections
           y     == b.sections \o new
           e     == WithRelas(b)
           one(s) == IF s.kind = "rela" THEN RebuiltOneRela(e, s) ELSE s
           z     == [i \in DOMAIN e.sections |-> one(e.sections[i])]
           c     == RebuiltRelas(b)
<1>1. e = Put(b, y)
  BY DEF WithRelas, Put
<1>2. IsSeq(b.relocs) /\ IsSeq(x) /\ Record(b)
  BY DEF BinOK, Shape
<1> HIDE DEF homeless
<1>3. IsSeq(first)
  BY <1>2, KeptSeq
<1> HIDE DEF first
<1>4. new = [i \in DOMAIN first |-> new[i]]
  OBVIOUS
<1>5. \A i \in DOMAIN first : Good(new[i], n)
  BY RelaForGood
<1> HIDE DEF new
<1>6. IsSeq(new) /\ DOMAIN new = DOMAIN first
  BY <1>3, <1>4, SeqAlong
<1> DEFINE l == Len(x)
           k == Len(new)
<1>7. l \in Nat /\ DOMAIN x = 1 .. l /\ k \in Nat /\ DOMAIN new = 1 .. k
  BY <1>2, <1>6, SeqPlaces
<1>8. /\ IsSeq(y) /\ Len(y) = l + k
      /\ \A i \in 1 .. l + k : y[i] = IF i <= l THEN x[i] ELSE new[i - l]
  BY <1>2, <1>6, BothSeq
<1>9. c = Put(e, z)
  BY DEF RebuiltRelas, Put
<1>10. BinOK(e)
  BY WithRelasOK
<1> HIDE DEF e, l, k, y, c
<1>11. e.sections = y
  BY <1>1, <1>2, PutRecord
<1>12. DOMAIN y = 1 .. l + k
  BY <1>8, SeqPlaces
<1>13. \A i \in DOMAIN x : i \in DOMAIN y /\ y[i] = x[i]
  BY <1>7, <1>8, <1>12
<1>14. ASSUME NEW i \in DOMAIN y PROVE Good(y[i], n)
  <2>1. CASE i <= l
    <3>1. i \in DOMAIN x
      BY <1>7, <1>12, <2>1
    <3> QED
      BY <1>13, <3>1 DEF AllGood
  <2>2. CASE ~ (i <= l)
    <3>1. i - l \in DOMAIN new /\ y[i] = new[i - l]
      BY <1>7, <1>8, <1>12, <2>2
    <3> QED
      BY <1>5, <1>6, <3>1
  <2> QED
    BY <2>1, <2>2
<1>15. IsSeq(e.relocs) /\ Record(e) /\ \A i \in DOMAIN y : IsSec(y[i])
  BY <1>10, <1>11 DEF BinOK, Shape
<1>16. DOMAIN z = DOMAIN y /\ \A i \in DOMAIN y : z[i] = one(y[i])
  BY <1>11
<1> HIDE DEF z
<1>17. \A i \in DOMAIN y :
          /\ Stands(y[i], z[i]) /\ Restored(y[i], z[i]) /\ Good(z[i], n)
          /\ y[i].name \in TableNames => Intact(y[i], z[i])
  <2> SUFFICES ASSUME NEW i \in DOMAIN y
               PROVE  /\ Stands(y[i], z[i]) /\ Restored(y[i], z[i]) /\ Good(z[i], n)
                      /\ y[i].name \in TableNames => Intact(y[i], z[i])
    OBVIOUS
  <2>1. CASE y[i].kind = "rela"
    <3> DEFINE s == y[i]
    <3>1. z[i] = RebuiltOneRela(e, s) /\ IsSec(s) /\ Good(s, n)
      BY <1>14, <1>15, <1>16, <2>1
    <3>2. s.name \notin TableNames
      BY <2>1, <3>1 DEF Good
    <3> HIDE DEF s
    <3>3. Stands(s, z[i]) /\ Restored(s, z[i]) /\ Good(z[i], n)
      BY <1>15, <3>1, OneRelaGood
    <3> QED
      BY <3>2, <3>3 DEF s
  <2>2. CASE y[i].kind # "rela"
    <3>1. z[i] = y[i]
      BY <1>16, <2>2
    <3> QED
      BY <1>14, <3>1 DEF Stands, Restored, Intact
  <2> QED
    BY <2>1, <2>2
<1>18. Touched(x, z, Others(x))
  <2> SUFFICES ASSUME NEW i \in DOMAIN x
               PROVE  /\ i \in DOMAIN z /\ Stands(x[i], z[i]) /\ Restored(x[i], z[i])
                      /\ x[i].name \notin Others(x) => Intact(x[i], z[i])
    BY DEF Touched
  <2>1. x[i].name \notin Others(x) => x[i].name \in TableNames
    BY DEF Others
  <2> QED
    BY <1>13, <1>16, <1>17, <2>1
<1>19. c.sections = z
  BY <1>9, <1>15, PutRecord
<1>20. AllGood(z, n)
  BY <1>16, <1>17 DEF AllGood
<1> QED
  BY <1>18, <1>19, <1>20 DEF c

(* lielf__resolve_links() touches no bytes.                                 *)
LEMMA ResolvedTouched ==
    ASSUME NEW b, BinOK(b), NEW n, AllGood(b.sections, n)
    PROVE  LET c == Resolved(b)
           IN Touched(b.sections, c.sections, {}) /\ AllGood(c.sections, n)
<1> DEFINE one(s) ==
             CASE s.kind = ".symtab" -> [s EXCEPT !.link = SectionIndex(b, ".strtab")]
               [] s.kind = ".dynsym" -> [s EXCEPT !.link = SectionIndex(b, ".dynstr")]
               [] s.kind = "rela" ->
                    [s EXCEPT !.link = SectionIndex(b, SymtabName(s.relaDynamic)),
                              !.info = IF s.relaTarget = "" THEN 0
                                       ELSE SectionIndex(b, s.relaTarget)]
               [] OTHER -> s
           x == b.sections
           y == [i \in DOMAIN x |-> one(x[i])]
           c == Resolved(b)
<1>1. c = Put(b, y)
  BY DEF Resolved, Put
<1>2. Record(b) /\ \A i \in DOMAIN x : IsSec(x[i])
  BY DEF BinOK, Shape
<1>3. ASSUME NEW s, IsSec(s)
      PROVE  Stands(s, one(s)) /\ Intact(s, one(s)) /\ one(s).kind = s.kind /\ one(s).type = s.type
  <2>1. ASSUME NEW j
        PROVE  /\ Stands(s, [s EXCEPT !.link = j]) /\ Intact(s, [s EXCEPT !.link = j])
               /\ [s EXCEPT !.link = j].type = s.type /\ [s EXCEPT !.link = j].kind = s.kind
    BY <1>3 DEF IsSec, HasFields, Fields, Stands, Intact
  <2>2. CASE s.kind = ".symtab"
    <3>1. one(s) = [s EXCEPT !.link = SectionIndex(b, ".strtab")]
      BY <2>2
    <3> HIDE DEF one
    <3> QED
      BY <2>1, <3>1
  <2>3. CASE s.kind = ".dynsym"
    <3>1. one(s) = [s EXCEPT !.link = SectionIndex(b, ".dynstr")]
      BY <2>3
    <3> HIDE DEF one
    <3> QED
      BY <2>1, <3>1
  <2>4. CASE s.kind = "rela"
    <3> DEFINE j == SectionIndex(b, SymtabName(s.relaDynamic))
               k == IF s.relaTarget = "" THEN 0 ELSE SectionIndex(b, s.relaTarget)
               v == [s EXCEPT !.link = j, !.info = k]
    <3>1. one(s) = v
      BY <2>4
    <3> HIDE DEF one, j, k
    <3>2. Stands(s, v) /\ Intact(s, v) /\ v.kind = s.kind /\ v.type = s.type
      BY <1>3 DEF IsSec, HasFields, Fields, Stands, Intact
    <3> HIDE DEF v
    <3> QED
      BY <3>1, <3>2
  <2>5. CASE s.kind \notin {".symtab", ".dynsym", "rela"}
    <3>1. one(s) = s
      BY <2>5
    <3> HIDE DEF one
    <3> QED
      BY <3>1 DEF Stands, Intact
  <2> QED
    BY <2>2, <2>3, <2>4, <2>5
<1> HIDE DEF one, c
<1>4. DOMAIN y = DOMAIN x /\ \A i \in DOMAIN x : y[i] = one(x[i])
  OBVIOUS
<1> HIDE DEF y
<1>5. c.sections = y
  BY <1>1, <1>2, PutRecord
<1>6. Touched(x, y, {})
  <2>1. \A i \in DOMAIN x : i \in DOMAIN y /\ Stands(x[i], y[i]) /\ Intact(x[i], y[i])
    BY <1>2, <1>3, <1>4
  <2> QED
    BY <2>1, TouchedNot
<1>7. ASSUME NEW i \in DOMAIN x PROVE Good(y[i], n)
  <2>1. Stands(x[i], y[i]) /\ Intact(x[i], y[i]) /\ y[i].kind = x[i].kind /\ y[i].type = x[i].type
    BY <1>2, <1>3, <1>4
  <2> QED
    BY <2>1 DEF AllGood, Good, Stands, Intact, FileSize
<1>8. AllGood(y, n)
  BY <1>4, <1>7 DEF AllGood
<1> QED
  BY <1>5, <1>6, <1>8 DEF c

(* lielf_build() regenerates every table once: what has the bytes that it   *)
(* had is as dirty as it was.                                               *)
LEMMA RegeneratedTouched ==
    ASSUME NEW b, BinOK(b), NEW n, AllGood(b.sections, n)
    PROVE  LET c == Regenerated(b)
           IN AllGood(c.sections, n) /\ \E names : Touched(b.sections, c.sections, names)
<1> DEFINE b1 == RebuiltSymtab(b, FALSE)
           b2 == RebuiltStrtab(b1, FALSE)
           b3 == RebuiltSymtab(b2, TRUE)
           b4 == RebuiltStrtab(b3, TRUE)
           b5 == RebuiltRelas(b4)
           b6 == RebuiltDynamic(b5)
           b7 == RebuiltShstrtab(b6)
           b8 == Resolved(b7)
           x  == b.sections
<1>1. Regenerated(b) = b8
  BY DEF Regenerated
<1>2. /\ SymtabName(FALSE) = ".symtab" /\ SymtabName(TRUE) = ".dynsym"
      /\ StrtabName(FALSE) = ".strtab" /\ StrtabName(TRUE) = ".dynstr"
  BY DEF SymtabName, StrtabName
<1>3. BinOK(b1) /\ Touched(x, b1.sections, {".symtab"}) /\ AllGood(b1.sections, n)
  BY <1>2, RebuiltSymtabOK, RebuiltSymtabTouched
<1> HIDE DEF b1
<1>4. BinOK(b2) /\ Touched(b1.sections, b2.sections, {".strtab"}) /\ AllGood(b2.sections, n)
  BY <1>2, <1>3, RebuiltStrtabOK, RebuiltStrtabTouched
<1> HIDE DEF b2
<1>5. BinOK(b3) /\ Touched(b2.sections, b3.sections, {".dynsym"}) /\ AllGood(b3.sections, n)
  BY <1>2, <1>4, RebuiltSymtabOK, RebuiltSymtabTouched
<1> HIDE DEF b3
<1>6. BinOK(b4) /\ Touched(b3.sections, b4.sections, {".dynstr"}) /\ AllGood(b4.sections, n)
  BY <1>2, <1>5, RebuiltStrtabOK, RebuiltStrtabTouched
<1> HIDE DEF b4
<1>7. BinOK(b5) /\ Touched(b4.sections, b5.sections, Others(b4.sections)) /\ AllGood(b5.sections, n)
  BY <1>6, RebuiltRelasOK, RebuiltRelasTouched
<1> HIDE DEF b5
<1>8. BinOK(b6) /\ Touched(b5.sections, b6.sections, {".dynamic"}) /\ AllGood(b6.sections, n)
  BY <1>7, RebuiltDynamicOK, RebuiltDynamicTouched
<1> HIDE DEF b6
<1>9. BinOK(b7) /\ Touched(b6.sections, b7.sections, {".shstrtab"}) /\ AllGood(b7.sections, n)
  BY <1>8, RebuiltShstrtabOK, RebuiltShstrtabTouched
<1> HIDE DEF b7
<1>10. Touched(b7.sections, b8.sections, {}) /\ AllGood(b8.sections, n)
  BY <1>9, ResolvedTouched
<1> HIDE DEF b8
<1> DEFINE O == Others(b4.sections)
<1>11. O \cap TableNames = {}
  BY DEF Others
<1> HIDE DEF O
<1>12. Touched(x, b2.sections, {".symtab"} \cup {".strtab"})
  <2>1. {".symtab"} \cap {".strtab"} = {}
    OBVIOUS
  <2> QED
    BY <1>3, <1>4, <2>1, TouchedThen
<1>13. Touched(x, b3.sections, {".symtab"} \cup {".strtab"} \cup {".dynsym"})
  <2>1. ({".symtab"} \cup {".strtab"}) \cap {".dynsym"} = {}
    OBVIOUS
  <2> QED
    BY <1>5, <1>12, <2>1, TouchedThen
<1> DEFINE S4 == {".symtab"} \cup {".strtab"} \cup {".dynsym"} \cup {".dynstr"}
<1>14. Touched(x, b4.sections, S4)
  <2>1. ({".symtab"} \cup {".strtab"} \cup {".dynsym"}) \cap {".dynstr"} = {}
    OBVIOUS
  <2> QED
    BY <1>6, <1>13, <2>1, TouchedThen
<1>15. Touched(x, b5.sections, S4 \cup O)
  <2>1. S4 \cap O = {}
    BY <1>11 DEF TableNames
  <2> HIDE DEF S4
  <2> QED
    BY <1>7, <1>14, <2>1, TouchedThen DEF O
<1>16. Touched(x, b6.sections, S4 \cup O \cup {".dynamic"})
  <2>1. (S4 \cup O) \cap {".dynamic"} = {}
    BY <1>11 DEF TableNames
  <2> HIDE DEF S4
  <2> QED
    BY <1>8, <1>15, <2>1, TouchedThen
<1>17. Touched(x, b7.sections, S4 \cup O \cup {".dynamic"} \cup {".shstrtab"})
  <2>1. (S4 \cup O \cup {".dynamic"}) \cap {".shstrtab"} = {}
    BY <1>11 DEF TableNames
  <2> HIDE DEF S4
  <2> QED
    BY <1>9, <1>16, <2>1, TouchedThen
<1> HIDE DEF S4
<1>18. \E names : Touched(x, b8.sections, names)
  BY <1>10, <1>17, TouchedThen
<1> QED
  BY <1>1, <1>10, <1>18

-----------------------------------------------------------------------------
(* A file after n calls, as good as its sections                            *)
ImageGood(img, n) ==
    \A i \in DOMAIN img.headers :
       /\ img.headers[i].type = "RELA" => NameOf(img, i) \notin TableNames
       /\ FileSize(img.headers[i]) > 0 => img.contents[i] # NoData
       /\ Old(img.contents[i], n)

(* A section is the q-th one of a file, and an object goes on from a file:  *)
(* what is not dirty is there, what is dirty has other bytes.               *)
IsAt(s, img, q) ==
    /\ q \in DOMAIN img.headers /\ NameOf(img, q) = s.name
    /\ img.headers[q].offset = s.offset /\ img.headers[q].addr = s.addr
    /\ img.headers[q].size = s.size /\ img.headers[q].flags = s.flags
    /\ s.loaded = ("ALLOC" \in s.flags)
HasOther(s, img) ==
    s.data = NoData \/ \A i \in DOMAIN img.headers : s.data # img.contents[i]
GoesFrom(b, img) ==
    /\ b.etype = img.etype /\ b.segments = img.segments
    /\ \A p \in DOMAIN b.sections :
          /\ b.sections[p].dirty => HasOther(b.sections[p], img)
          /\ ~ b.sections[p].dirty => \E q \in DOMAIN img.headers : IsAt(b.sections[p], img, q)

(* What is written says of each section where it is.                        *)
LEMMA ImagePlaces ==
    ASSUME NEW c, NEW shoff
    PROVE  LET img == ImageOf(c, shoff)
           IN /\ img.etype = c.etype /\ img.segments = c.segments
              /\ DOMAIN img.headers = DOMAIN c.sections
              /\ \A i \in DOMAIN c.sections :
                    LET s == c.sections[i]
                        h == img.headers[i]
                    IN /\ h.offset = s.offset /\ h.addr = s.addr /\ h.size = s.size
                       /\ h.flags = s.flags /\ h.type = s.type
                       /\ img.contents[i] = IF s.type = "NOBITS" THEN NoData ELSE s.data
<1> DEFINE img == ImageOf(c, shoff)
           header(i) ==
             LET s == c.sections[i]
             IN [name |-> OffsetOf(SectionNames(c), i + 1), type |-> s.type, flags |-> s.flags,
                 addr |-> s.addr, offset |-> s.offset, size |-> s.size, link |-> s.link,
                 info |-> s.info, align |-> s.align, entsize |-> s.entsize]
<1>1. /\ img.headers = [i \in DOMAIN c.sections |-> header(i)]
      /\ img.contents = [i \in DOMAIN c.sections |->
                           IF c.sections[i].type = "NOBITS" THEN NoData ELSE c.sections[i].data]
      /\ img.etype = c.etype /\ img.segments = c.segments
  BY DEF ImageOf
<1>2. \A i \in DOMAIN c.sections :
         /\ header(i).offset = c.sections[i].offset /\ header(i).addr = c.sections[i].addr
         /\ header(i).size = c.sections[i].size /\ header(i).flags = c.sections[i].flags
         /\ header(i).type = c.sections[i].type
  OBVIOUS
<1> HIDE DEF header, img
<1>3. /\ DOMAIN img.headers = DOMAIN c.sections
      /\ \A i \in DOMAIN c.sections :
            /\ img.headers[i] = header(i)
            /\ img.contents[i] = IF c.sections[i].type = "NOBITS" THEN NoData ELSE c.sections[i].data
  BY <1>1
<1> QED
  BY <1>1, <1>2, <1>3 DEF img

(* The object that was written goes on from its file.                       *)
LEMMA SettledGood ==
    ASSUME NEW c, Shape(c), Named(c), TablesOK(c.sections), NEW n, AllGood(c.sections, n), NEW shoff
    PROVE  /\ ImageGood(ImageOf(c, shoff), n) /\ AllGood(Settled(c).sections, n)
           /\ GoesFrom(Settled(c), ImageOf(c, shoff))
<1> DEFINE img == ImageOf(c, shoff)
           x == c.sections
           one(i) == [x[i] EXCEPT !.loaded = "ALLOC" \in x[i].flags, !.dirty = FALSE]
           y == [i \in DOMAIN x |-> one(i)]
           b == Settled(c)
<1>1. b = Put(c, y)
  BY DEF Settled, Put
<1>2. Record(c) /\ IsSeq(x) /\ \A i \in DOMAIN x : IsSec(x[i])
  BY DEF Shape
<1>3. /\ img.etype = c.etype /\ img.segments = c.segments /\ DOMAIN img.headers = DOMAIN x
      /\ \A i \in DOMAIN x :
            /\ img.headers[i].offset = x[i].offset /\ img.headers[i].addr = x[i].addr
            /\ img.headers[i].size = x[i].size /\ img.headers[i].flags = x[i].flags
            /\ img.headers[i].type = x[i].type
            /\ img.contents[i] = IF x[i].type = "NOBITS" THEN NoData ELSE x[i].data
  BY ImagePlaces
<1>4. \A i \in DOMAIN x : NameOf(img, i) = x[i].name
  BY <1>2, ImageSays
<1> HIDE DEF img
<1>5. ASSUME NEW i \in DOMAIN x
      PROVE  LET t == one(i)
             IN /\ t.name = x[i].name /\ t.offset = x[i].offset /\ t.addr = x[i].addr
                /\ t.size = x[i].size /\ t.flags = x[i].flags /\ t.type = x[i].type
                /\ t.kind = x[i].kind /\ t.data = x[i].data
                /\ t.loaded = ("ALLOC" \in t.flags) /\ ~ t.dirty
  BY <1>2 DEF IsSec, HasFields, Fields
<1>6. DOMAIN y = DOMAIN x /\ \A i \in DOMAIN x : y[i] = one(i)
  OBVIOUS
<1> HIDE DEF one, y, b
<1>7. /\ DOMAIN y = DOMAIN x
      /\ \A i \in DOMAIN x :
            /\ y[i].name = x[i].name /\ y[i].offset = x[i].offset /\ y[i].addr = x[i].addr
            /\ y[i].size = x[i].size /\ y[i].flags = x[i].flags /\ y[i].type = x[i].type
            /\ y[i].kind = x[i].kind /\ y[i].data = x[i].data
            /\ y[i].loaded = ("ALLOC" \in y[i].flags) /\ ~ y[i].dirty
  <2> SUFFICES ASSUME NEW i \in DOMAIN x
               PROVE  /\ y[i].name = x[i].name /\ y[i].offset = x[i].offset /\ y[i].addr = x[i].addr
                      /\ y[i].size = x[i].size /\ y[i].flags = x[i].flags /\ y[i].type = x[i].type
                      /\ y[i].kind = x[i].kind /\ y[i].data = x[i].data
                      /\ y[i].loaded = ("ALLOC" \in y[i].flags) /\ ~ y[i].dirty
    BY <1>6
  <2> DEFINE t == one(i)
  <2>1. y[i] = t
    BY <1>6
  <2>2. /\ t.name = x[i].name /\ t.offset = x[i].offset /\ t.addr = x[i].addr
        /\ t.size = x[i].size /\ t.flags = x[i].flags /\ t.type = x[i].type
        /\ t.kind = x[i].kind /\ t.data = x[i].data
        /\ t.loaded = ("ALLOC" \in t.flags) /\ ~ t.dirty
    BY <1>5
  <2> QED
    BY <2>1, <2>2, Zenon
<1>8. b.sections = y /\ b.etype = c.etype /\ b.segments = c.segments
  BY <1>1, <1>2, PutRecord
<1>9. ImageGood(img, n)
  <2> SUFFICES ASSUME NEW i \in DOMAIN x
               PROVE  /\ img.headers[i].type = "RELA" => NameOf(img, i) \notin TableNames
                      /\ FileSize(img.headers[i]) > 0 => img.contents[i] # NoData
                      /\ Old(img.contents[i], n)
    BY <1>3 DEF ImageGood
  <2>1. /\ x[i].kind = "rela" => x[i].name \notin TableNames
        /\ FileSize(x[i]) > 0 => x[i].data # NoData
        /\ Old(x[i].data, n)
    BY DEF AllGood, Good
  <2>2. x[i].type = "RELA" => x[i].kind = "rela"
    BY DEF TablesOK
  <2>3. FileSize(img.headers[i]) = FileSize(x[i])
    BY <1>3 DEF FileSize
  <2>4. CASE x[i].type = "NOBITS"
    <3>1. FileSize(x[i]) = 0 /\ img.contents[i] = NoData /\ img.headers[i].type # "RELA"
      BY <1>3, <2>4 DEF FileSize
    <3> QED
      BY <2>3, <3>1, OldData
  <2>5. CASE x[i].type # "NOBITS"
    BY <1>3, <1>4, <2>1, <2>2, <2>3, <2>5
  <2> QED
    BY <2>4, <2>5
<1>10. AllGood(y, n)
  <2> SUFFICES ASSUME NEW i \in DOMAIN x PROVE Good(y[i], n)
    BY <1>7 DEF AllGood
  <2>1. Good(x[i], n)
    BY DEF AllGood
  <2> QED
    BY <1>7, <2>1 DEF Good, FileSize
<1>11. ASSUME NEW p \in DOMAIN y PROVE ~ y[p].dirty /\ IsAt(y[p], img, p)
  BY <1>3, <1>4, <1>7 DEF IsAt
<1>12. GoesFrom(b, img)
  BY <1>3, <1>7, <1>8, <1>11 DEF GoesFrom
<1> QED
  BY <1>8, <1>9, <1>10, <1>12 DEF b, img

(* lielf_build()                                                            *)
LEMMA BuiltGood ==
    ASSUME NEW b, BinOK(b), NEW m, SaysMeant(b, m), NEW n, AllGood(b.sections, n)
    PROVE  /\ ImageGood(Built(b).image, n) /\ AllGood(Built(b).bin.sections, n)
           /\ GoesFrom(Built(b).bin, Built(b).image)
<1> DEFINE r == Regenerated(b)
           c == LaidOut(r).bin
           shoff == LaidOut(r).shoff
<1>1. BinOK(r) /\ Ready(r, m) /\ Linked(r) /\ AllGood(r.sections, n)
  BY RegeneratedOK, RegeneratedReady, RegeneratedTouched DEF SaysMeant
<1>2. Built(b).bin = Settled(c) /\ Built(b).image = ImageOf(c, shoff)
  BY DEF Built
<1> HIDE DEF r
<1>3. Shape(c) /\ Laid(r, c)
  BY <1>1, LaidOutOK
<1>4. IsSeq(r.sections)
  BY <1>1 DEF BinOK, Shape
<1> HIDE DEF c, shoff
<1>5. Ready(c, m)
  BY <1>1, <1>3, <1>4, LaidReady
<1>6. Named(c) /\ TablesOK(c.sections)
  BY <1>5 DEF Ready
<1>7. AllGood(c.sections, n)
  <2> SUFFICES ASSUME NEW i \in DOMAIN c.sections PROVE Good(c.sections[i], n)
    BY DEF AllGood
  <2>1. i \in DOMAIN r.sections /\ Shifted(r.sections[i], c.sections[i])
    BY <1>3 DEF Laid
  <2>2. Good(r.sections[i], n)
    BY <1>1, <2>1 DEF AllGood
  <2> QED
    BY <2>1, <2>2 DEF Good, Shifted, FileSize
<1> QED
  BY <1>2, <1>3, <1>6, <1>7, SettledGood

(* lielf_load_mem()                                                         *)
LEMMA LoadedGood ==
    ASSUME NEW img, WellFormed(img), NEW n, ImageGood(img, n)
    PROVE  AllGood(Loaded(img).sections, n) /\ GoesFrom(Loaded(img), img)
<1> DEFINE b == Loaded(img)
           x == [i \in DOMAIN img.headers |-> LoadedSection(img, i)]
<1>1. b.sections = x /\ b.etype = img.etype /\ b.segments = img.segments
  BY DEF Loaded
<1> HIDE DEF b
<1>2. ASSUME NEW i \in DOMAIN img.headers
      PROVE  ~ x[i].dirty /\ IsAt(x[i], img, i) /\ Good(x[i], n)
  <2> DEFINE s == LoadedSection(img, i)
  <2>1. /\ s.name = NameOf(img, i) /\ s.type = img.headers[i].type /\ s.data = img.contents[i]
        /\ s.kind = "rela" <=> s.type = "RELA"
    BY LoadedKind
  <2>2. /\ s.offset = img.headers[i].offset /\ FileSize(s) = FileSize(img.headers[i])
        /\ s.size = img.headers[i].size /\ s.addr = img.headers[i].addr
        /\ s.flags = img.headers[i].flags
    BY LoadedSectionOK
  <2>3. s.dirty = FALSE /\ s.loaded = ("ALLOC" \in img.headers[i].flags)
    BY DEF LoadedSection
  <2>4. x[i] = s
    OBVIOUS
  <2> HIDE DEF s, x
  <2>5. Good(s, n)
    BY <2>1, <2>2 DEF ImageGood, Good
  <2>6. IsAt(s, img, i)
    BY <2>1, <2>2, <2>3 DEF IsAt
  <2> QED
    BY <2>3, <2>4, <2>5, <2>6
<1>3. DOMAIN x = DOMAIN img.headers
  OBVIOUS
<1> HIDE DEF x
<1>4. AllGood(x, n)
  BY <1>2, <1>3 DEF AllGood
<1>5. GoesFrom(b, img)
  BY <1>1, <1>2, <1>3 DEF GoesFrom
<1> QED
  BY <1>1, <1>4, <1>5 DEF b

(* What regenerating tables leaves alone                                    *)
Remains(b, c) == c.etype = b.etype /\ c.segments = b.segments

(* A section is made sure of, or put in place of another one.               *)
LEMMA EnsuredRemains ==
    ASSUME NEW b, Record(b), NEW name, NEW type, NEW flags, NEW align
    PROVE  LET e == Ensured(b, name, type, flags, align)
           IN Record(e) /\ Remains(b, e) /\ \A x : Record(Put(e, x)) /\ Remains(b, Put(e, x))
<1> DEFINE e == Ensured(b, name, type, flags, align)
           y == Append(b.sections, Section(name, type, flags, NoData, 0, align))
<1>1. e = IF SectionIndex(b, name) # 0 THEN b ELSE Put(b, y)
  BY DEF Ensured, AddedSection, Put
<1> HIDE DEF e, y
<1>2. Record(e) /\ Remains(b, e)
  BY <1>1, PutRecord DEF Remains
<1>3. \A x : Record(Put(e, x)) /\ Remains(b, Put(e, x))
  BY <1>2, PutRecord DEF Remains
<1> QED
  BY <1>2, <1>3 DEF e

(* lielf_build() leaves the segments alone until it lays out.               *)
LEMMA RegeneratedRemains ==
    ASSUME NEW b, Record(b)
    PROVE  Remains(b, Regenerated(b))
<1>1. ASSUME NEW a, Record(a), NEW d PROVE Record(RebuiltSymtab(a, d)) /\ Remains(a, RebuiltSymtab(a, d))
  <2> DEFINE s == Sorted(a, d)
             syms == s.symbols[d]
             rows == [i \in DOMAIN syms |->
                        [name |-> OffsetOf(NamesOf(syms), i), local |-> syms[i].local,
                         shndx |-> syms[i].shndx, value |-> syms[i].value]]
             e == Ensured(s, SymtabName(d), SymtabType(d), AllocIf(d), 8)
             c == RebuiltSymtab(a, d)
  <2>1. c = s \/ \E x : c = Put(e, x)
    BY DEF RebuiltSymtab, Put
  <2>2. Record(s) /\ Remains(a, s)
    <3>1. \E X, R : s = [a EXCEPT !.symbols = X, !.relocs = R]
      BY DEF Sorted
    <3> HIDE DEF s
    <3>2. PICK X, R : s = [a EXCEPT !.symbols = X, !.relocs = R]
      BY <3>1
    <3> QED
      BY <1>1, <3>2 DEF Record, Remains
  <2> HIDE DEF s, c
  <2>3. Record(e) /\ Remains(s, e) /\ \A x : Record(Put(e, x)) /\ Remains(s, Put(e, x))
    BY <2>2, EnsuredRemains
  <2> HIDE DEF e
  <2>4. Record(c) /\ Remains(a, c)
    BY <2>1, <2>2, <2>3 DEF Remains
  <2> QED
    BY <2>4 DEF c
<1>2. ASSUME NEW a, Record(a), NEW d PROVE Record(RebuiltStrtab(a, d)) /\ Remains(a, RebuiltStrtab(a, d))
  <2> DEFINE e == Ensured(a, StrtabName(d), "STRTAB", AllocIf(d), 1)
             c == RebuiltStrtab(a, d)
  <2>1. c = a \/ \E x : c = Put(e, x)
    BY DEF RebuiltStrtab, Put
  <2> HIDE DEF c
  <2>2. Record(e) /\ Remains(a, e) /\ \A x : Record(Put(e, x)) /\ Remains(a, Put(e, x))
    BY <1>2, EnsuredRemains
  <2> HIDE DEF e
  <2>3. Record(c) /\ Remains(a, c)
    BY <1>2, <2>1, <2>2 DEF Remains
  <2> QED
    BY <2>3 DEF c
<1>3. ASSUME NEW a, Record(a) PROVE Record(RebuiltRelas(a)) /\ Remains(a, RebuiltRelas(a))
  <2> DEFINE e == WithRelas(a)
             c == RebuiltRelas(a)
  <2>1. \E x : e = Put(a, x)
    BY DEF WithRelas, Put
  <2>2. \E x : c = Put(e, x)
    BY DEF RebuiltRelas, Put
  <2> HIDE DEF e, c
  <2>3. Record(e) /\ Remains(a, e)
    BY <1>3, <2>1, PutRecord DEF Remains
  <2>4. Record(c) /\ Remains(a, c)
    BY <2>2, <2>3, PutRecord DEF Remains
  <2> QED
    BY <2>4 DEF c
<1>4. ASSUME NEW a, Record(a) PROVE Record(RebuiltDynamic(a)) /\ Remains(a, RebuiltDynamic(a))
  <2> DEFINE e == Ensured(a, ".dynamic", "DYNAMIC", {"ALLOC", "WRITE"}, 8)
             c == RebuiltDynamic(a)
  <2>1. c = a \/ \E x : c = Put(e, x)
    BY DEF RebuiltDynamic, Put
  <2> HIDE DEF c
  <2>2. Record(e) /\ Remains(a, e) /\ \A x : Record(Put(e, x)) /\ Remains(a, Put(e, x))
    BY <1>4, EnsuredRemains
  <2> HIDE DEF e
  <2>3. Record(c) /\ Remains(a, c)
    BY <1>4, <2>1, <2>2 DEF Remains
  <2> QED
    BY <2>3 DEF c
<1>5. ASSUME NEW a, Record(a) PROVE Record(RebuiltShstrtab(a)) /\ Remains(a, RebuiltShstrtab(a))
  <2> DEFINE e == Ensured(a, ".shstrtab", "STRTAB", {}, 1)
             c == RebuiltShstrtab(a)
  <2>1. \E x : c = Put(e, x)
    BY DEF RebuiltShstrtab, Put
  <2> HIDE DEF c
  <2>2. Record(e) /\ Remains(a, e) /\ \A x : Record(Put(e, x)) /\ Remains(a, Put(e, x))
    BY <1>5, EnsuredRemains
  <2> HIDE DEF e
  <2>3. Record(c) /\ Remains(a, c)
    BY <2>1, <2>2 DEF Remains
  <2> QED
    BY <2>3 DEF c
<1>6. ASSUME NEW a, Record(a) PROVE Remains(a, Resolved(a))
  <2> DEFINE c == Resolved(a)
  <2>1. \E x : c = Put(a, x)
    BY DEF Resolved, Put
  <2> HIDE DEF c
  <2>2. Remains(a, c)
    BY <1>6, <2>1, PutRecord DEF Remains
  <2> QED
    BY <2>2 DEF c
<1> DEFINE b1 == RebuiltSymtab(b, FALSE)
           b2 == RebuiltStrtab(b1, FALSE)
           b3 == RebuiltSymtab(b2, TRUE)
           b4 == RebuiltStrtab(b3, TRUE)
           b5 == RebuiltRelas(b4)
           b6 == RebuiltDynamic(b5)
           b7 == RebuiltShstrtab(b6)
<1>7. Regenerated(b) = Resolved(b7)
  BY DEF Regenerated
<1>8. Record(b1) /\ Remains(b, b1)
  BY <1>1
<1> HIDE DEF b1
<1>9. Record(b2) /\ Remains(b1, b2)
  BY <1>2, <1>8
<1> HIDE DEF b2
<1>10. Record(b3) /\ Remains(b2, b3)
  BY <1>1, <1>9
<1> HIDE DEF b3
<1>11. Record(b4) /\ Remains(b3, b4)
  BY <1>2, <1>10
<1> HIDE DEF b4
<1>12. Record(b5) /\ Remains(b4, b5)
  BY <1>3, <1>11
<1> HIDE DEF b5
<1>13. Record(b6) /\ Remains(b5, b6)
  BY <1>4, <1>12
<1> HIDE DEF b6
<1>14. Record(b7) /\ Remains(b6, b7)
  BY <1>5, <1>13
<1> HIDE DEF b7
<1>15. Remains(b7, Resolved(b7))
  BY <1>6, <1>14
<1> QED
  BY <1>7, <1>8, <1>9, <1>10, <1>11, <1>12, <1>13, <1>14, <1>15 DEF Remains

-----------------------------------------------------------------------------
(* The invariant of what stays put: sections that are not dirty are where   *)
(* the file has them, dirty ones have bytes that it has nowhere, and bytes  *)
(* of calls that are yet to come are neither here nor there.                *)
InvStay ==
    /\ calls \in Nat /\ AllGood(bin.sections, calls)
    /\ image # None => ImageGood(image, calls) /\ GoesFrom(bin, image)

(* What is old stays so.                                                    *)
LEMMA Older ==
    ASSUME NEW n \in Nat
    PROVE  /\ \A data : Old(data, n) => Old(data, n + 1)
           /\ \A list : AllGood(list, n) => AllGood(list, n + 1)
           /\ \A img : ImageGood(img, n) => ImageGood(img, n + 1)
<1>1. ASSUME NEW data, Old(data, n) PROVE Old(data, n + 1)
  <2>1. \A m \in Nat : n + 1 <= m => n <= m
    OBVIOUS
  <2> QED
    BY <1>1, <2>1 DEF Old
<1> QED
  BY <1>1 DEF AllGood, Good, ImageGood

(* The bytes of a call are new to all that is there, and it is a call.      *)
LEMMA CallBytes ==
    ASSUME NEW n \in Nat
    PROVE  /\ Old(Bytes(n), n + 1) /\ Bytes(n) # NoData /\ Old(NoData, n + 1)
           /\ \A data : Old(data, n) => data # Bytes(n)
<1>1. \A m : Bytes(m).bytes = m /\ Bytes(m).form = "bytes"
  BY DEF Bytes
<1>2. NoData.form = "none"
  BY DEF NoData
<1>3. \A m \in Nat : n + 1 <= m => n # m
  OBVIOUS
<1>4. Old(Bytes(n), n + 1)
  BY <1>1, <1>3 DEF Old
<1>5. \A data : Old(data, n) => data # Bytes(n)
  <2>1. n <= n
    OBVIOUS
  <2> QED
    BY <2>1 DEF Old
<1> QED
  BY <1>1, <1>2, <1>4, <1>5, OldData

(* An object of the same segments goes on from a file if each of its        *)
(* sections was there or is dirty and has other bytes.                      *)
LEMMA StillGoes ==
    ASSUME NEW b, NEW img, GoesFrom(b, img), NEW c, Remains(b, c),
           \A p \in DOMAIN c.sections :
              \/ \E q \in DOMAIN b.sections : c.sections[p] = b.sections[q]
              \/ c.sections[p].dirty /\ HasOther(c.sections[p], img)
    PROVE  GoesFrom(c, img)
<1>1. c.etype = img.etype /\ c.segments = img.segments
  BY DEF GoesFrom, Remains
<1>2. ASSUME NEW p \in DOMAIN c.sections
      PROVE  /\ c.sections[p].dirty => HasOther(c.sections[p], img)
             /\ ~ c.sections[p].dirty => \E q \in DOMAIN img.headers : IsAt(c.sections[p], img, q)
  <2>1. CASE \E q \in DOMAIN b.sections : c.sections[p] = b.sections[q]
    BY <2>1 DEF GoesFrom
  <2>2. CASE c.sections[p].dirty /\ HasOther(c.sections[p], img)
    BY <2>2
  <2> QED
    BY <1>2, <2>1, <2>2
<1> QED
  BY <1>1, <1>2 DEF GoesFrom

(* lielf_add_section(): a section that no file has                          *)
LEMMA AddSectionStay ==
    ASSUME Inv, InvStay, NEW k \in SectionKinds, NEW size \in Sizes, lielf_add_section(k, size)
    PROVE  InvStay'
<1> DEFINE data == IF k.type = "NOBITS" \/ size = 0 THEN NoData ELSE Bytes(calls)
           sec == Section(k.name, k.type, k.flags, Bytes(calls), size, k.align)
           x == bin.sections
           n == Len(x)
           y == Append(x, sec)
<1>1. /\ bin' = Put(bin, y) /\ image' = image /\ calls' = calls + 1
  BY DEF lielf_add_section, Changed, Call, AddedSection, Put
<1>2. /\ sec.data = data /\ sec.kind = "normal" /\ sec.dirty
      /\ sec.type = k.type /\ sec.size = size
  BY DEF Section
<1>3. size \in Nat /\ calls \in Nat
  BY ElfAssumption DEF InvStay
<1> HIDE DEF sec
<1>4. Record(bin) /\ IsSeq(x) /\ n \in Nat /\ DOMAIN x = 1 .. n
  BY SeqPlaces DEF Inv, BinOK, Shape
<1>5. DOMAIN y = 1 .. n + 1 /\ \A i \in 1 .. n + 1 : y[i] = IF i <= n THEN x[i] ELSE sec
  BY <1>4, AppendSeq
<1> HIDE DEF y
<1>6. \A i \in DOMAIN y : y[i] = sec \/ (i \in DOMAIN x /\ y[i] = x[i])
  BY <1>4, <1>5
<1>7. /\ bin'.sections = y /\ bin'.etype = bin.etype /\ bin'.segments = bin.segments
  BY <1>1, <1>4, PutRecord
<1>8. FileSize(sec) > 0 => data = Bytes(calls)
  BY <1>2, <1>3 DEF FileSize
<1>9. (data = NoData \/ data = Bytes(calls)) /\ Old(data, calls + 1)
  BY <1>3, CallBytes
<1> HIDE DEF data, n, x
<1>10. Good(sec, calls + 1)
  BY <1>2, <1>3, <1>8, <1>9, CallBytes DEF Good
<1>11. AllGood(y, calls + 1)
  BY <1>3, <1>6, <1>10, Older DEF InvStay, AllGood, x
<1>12. ASSUME image # None PROVE ImageGood(image, calls + 1) /\ GoesFrom(bin', image)
  <2>1. ImageGood(image, calls) /\ GoesFrom(bin, image)
    BY <1>12 DEF InvStay
  <2>2. HasOther(sec, image)
    <3>1. \A i \in DOMAIN image.headers : image.contents[i] # Bytes(calls)
      BY <1>3, <2>1, CallBytes DEF ImageGood
    <3> QED
      BY <1>2, <1>9, <3>1 DEF HasOther
  <2>3. GoesFrom(bin', image)
    BY <1>2, <1>6, <1>7, <2>1, <2>2, StillGoes DEF Remains, x
  <2> QED
    BY <1>3, <2>1, <2>3, Older
<1> QED
  BY <1>1, <1>3, <1>7, <1>11, <1>12 DEF InvStay

(* lielf_set_section_data(): bytes that no file has                         *)
LEMMA SetSectionDataStay ==
    ASSUME Inv, InvStay, NEW i \in DOMAIN bin.sections, NEW size \in Sizes,
           lielf_set_section_data(i, size)
    PROVE  InvStay'
<1> DEFINE x == bin.sections
           s == x[i]
           data == IF size = 0 THEN NoData ELSE Bytes(calls)
           t == [s EXCEPT !.data = data, !.size = size, !.dirty = TRUE]
           y == [x EXCEPT ![i] = t]
<1>1. /\ bin' = Put(bin, y) /\ image' = image /\ calls' = calls + 1 /\ s.kind = "normal"
  BY DEF lielf_set_section_data, Changed, Call, Put
<1>2. Record(bin) /\ IsSeq(x) /\ IsSec(s)
  BY DEF Inv, BinOK, Shape
<1>3. size \in Nat /\ calls \in Nat
  BY ElfAssumption DEF InvStay
<1>4. (data = NoData \/ data = Bytes(calls)) /\ Old(data, calls + 1)
      /\ (size > 0 => data = Bytes(calls))
  BY <1>3, CallBytes
<1> HIDE DEF data, s
<1>5. t.data = data /\ t.size = size /\ t.dirty = TRUE /\ t.kind = s.kind
  BY <1>2 DEF IsSec, HasFields, Fields
<1> HIDE DEF t, x
<1>6. DOMAIN y = DOMAIN x /\ \A j \in DOMAIN x : y[j] = IF j = i THEN t ELSE x[j]
  BY <1>2, SeqWith
<1> HIDE DEF y
<1>7. bin'.sections = y /\ bin'.etype = bin.etype /\ bin'.segments = bin.segments
  BY <1>1, <1>2, PutRecord
<1>8. Good(t, calls + 1)
  <2>1. FileSize(t) > 0 => size > 0
    BY <1>3, <1>5 DEF FileSize
  <2> QED
    BY <1>1, <1>3, <1>4, <1>5, <2>1, CallBytes DEF Good
<1>9. AllGood(y, calls + 1)
  BY <1>3, <1>6, <1>8, Older DEF InvStay, AllGood, x
<1>10. ASSUME image # None PROVE ImageGood(image, calls + 1) /\ GoesFrom(bin', image)
  <2>1. ImageGood(image, calls) /\ GoesFrom(bin, image)
    BY <1>10 DEF InvStay
  <2>2. HasOther(t, image)
    <3>1. \A j \in DOMAIN image.headers : image.contents[j] # Bytes(calls)
      BY <1>3, <2>1, CallBytes DEF ImageGood
    <3> QED
      BY <1>4, <1>5, <3>1 DEF HasOther
  <2>3. GoesFrom(bin', image)
    BY <1>5, <1>6, <1>7, <2>1, <2>2, StillGoes DEF Remains, x
  <2> QED
    BY <1>3, <2>1, <2>3, Older
<1> QED
  BY <1>1, <1>3, <1>7, <1>9, <1>10 DEF InvStay

(* lielf_remove_section(): the other sections are what they were.           *)
LEMMA RemoveSectionStay ==
    ASSUME Inv, InvStay, NEW i \in DOMAIN bin.sections, lielf_remove_section(i)
    PROVE  InvStay'
<1> DEFINE y == bin.sections
           x == RemoveAt(y, i)
           n == Len(y)
<1>1. bin' = Put(bin, x) /\ image' = image /\ calls' = calls + 1
  BY DEF lielf_remove_section, Changed, Call, Put
<1>2. Record(bin) /\ IsSeq(y) /\ calls \in Nat
  BY DEF Inv, InvStay, BinOK, Shape
<1>3. /\ DOMAIN x = 1 .. n - 1
      /\ \A j \in 1 .. n - 1 : Before(i, j) \in DOMAIN y /\ x[j] = y[Before(i, j)]
  BY <1>2, RemovedAt
<1> HIDE DEF x, y, n
<1>4. \A j \in DOMAIN x : \E k \in DOMAIN y : x[j] = y[k]
  BY <1>3
<1>5. bin'.sections = x /\ bin'.etype = bin.etype /\ bin'.segments = bin.segments
  BY <1>1, <1>2, PutRecord
<1>6. AllGood(x, calls + 1)
  BY <1>2, <1>4, Older DEF InvStay, AllGood, y
<1>7. ASSUME image # None PROVE ImageGood(image, calls + 1) /\ GoesFrom(bin', image)
  <2>1. ImageGood(image, calls) /\ GoesFrom(bin, image)
    BY <1>7 DEF InvStay
  <2>2. GoesFrom(bin', image)
    BY <1>4, <1>5, <2>1, StillGoes DEF Remains, y
  <2> QED
    BY <1>2, <2>1, <2>2, Older
<1> QED
  BY <1>1, <1>2, <1>5, <1>6, <1>7 DEF InvStay

(* A call that leaves the sections alone                                    *)
LEMMA OtherStay ==
    ASSUME InvStay, calls' = calls + 1, image' = image,
           bin'.sections = bin.sections, Remains(bin, bin')
    PROVE  InvStay'
<1>1. calls \in Nat /\ AllGood(bin.sections, calls)
  BY DEF InvStay
<1>2. ASSUME image # None PROVE ImageGood(image, calls + 1) /\ GoesFrom(bin', image)
  <2>1. ImageGood(image, calls) /\ GoesFrom(bin, image)
    BY <1>2 DEF InvStay
  <2> QED
    BY <1>1, <2>1, Older, StillGoes
<1> QED
  BY <1>1, <1>2, Older DEF InvStay

(* lielf_add_symbol(), lielf_add_reloc() and lielf_add_dynamic()            *)
LEMMA AddOtherStay ==
    ASSUME Inv, InvStay
    PROVE  /\ \A name, local, shndx, d : lielf_add_symbol(name, local, shndx, d) => InvStay'
           /\ \A target, name, d : lielf_add_reloc(target, name, d) => InvStay'
           /\ \A tag : lielf_add_dynamic(tag) => InvStay'
<1>1. Record(bin)
  BY DEF Inv, BinOK, Shape
<1>2. ASSUME NEW x, bin' = [bin EXCEPT !.symbols = x] \/ bin' = [bin EXCEPT !.relocs = x]
                    \/ bin' = [bin EXCEPT !.dynamic = x]
      PROVE  bin'.sections = bin.sections /\ Remains(bin, bin')
  BY <1>1, <1>2 DEF Record, Remains
<1>3. ASSUME NEW name, NEW local, NEW shndx, NEW d, lielf_add_symbol(name, local, shndx, d)
      PROVE  InvStay'
  <2>1. /\ calls' = calls + 1 /\ image' = image /\ \E x : bin' = [bin EXCEPT !.symbols = x]
    BY <1>3 DEF lielf_add_symbol, Changed, Call
  <2> QED
    BY <1>2, <2>1, OtherStay
<1>4. ASSUME NEW target, NEW name, NEW d, lielf_add_reloc(target, name, d) PROVE InvStay'
  <2>1. /\ calls' = calls + 1 /\ image' = image /\ \E x : bin' = [bin EXCEPT !.relocs = x]
    BY <1>4 DEF lielf_add_reloc, Changed, Call
  <2> QED
    BY <1>2, <2>1, OtherStay
<1>5. ASSUME NEW tag, lielf_add_dynamic(tag) PROVE InvStay'
  <2>1. /\ calls' = calls + 1 /\ image' = image /\ \E x : bin' = [bin EXCEPT !.dynamic = x]
    BY <1>5 DEF lielf_add_dynamic, Changed, Call
  <2> QED
    BY <1>2, <2>1, OtherStay
<1> QED
  BY <1>3, <1>4, <1>5

(* lielf_write(): every section is where the file has it.                   *)
LEMMA WriteStay ==
    ASSUME Inv, InvMeant, InvStay, lielf_write
    PROVE  InvStay'
<1>1. bin' = Built(bin).bin /\ image' = Built(bin).image /\ calls' = calls + 1
  BY DEF lielf_write, Call
<1>2. /\ ImageGood(Built(bin).image, calls) /\ AllGood(Built(bin).bin.sections, calls)
      /\ GoesFrom(Built(bin).bin, Built(bin).image)
  BY BuiltGood DEF Inv, InvMeant, InvStay
<1>3. calls \in Nat
  BY DEF InvStay
<1> QED
  BY <1>1, <1>2, <1>3, Older DEF InvStay

(* lielf_load_file(): so it is in what is loaded.                           *)
LEMMA LoadFileStay ==
    ASSUME Inv, InvStay, lielf_load_file
    PROVE  InvStay'
<1>1. bin' = Loaded(image) /\ image' = image /\ image # None /\ calls' = calls + 1
  BY DEF lielf_load_file, Call
<1>2. WellFormed(image) /\ ImageGood(image, calls) /\ calls \in Nat
  BY <1>1 DEF Inv, Loadable, InvStay
<1>3. AllGood(Loaded(image).sections, calls) /\ GoesFrom(Loaded(image), image)
  BY <1>2, LoadedGood
<1> QED
  BY <1>1, <1>2, <1>3, Older DEF InvStay

(* A file as other tools write it                                           *)
LEMMA GivenGood ==
    ASSUME NEW g, Conventional(g)
    PROVE  ImageGood(g, 0)
<1> SUFFICES ASSUME NEW i \in DOMAIN g.headers
             PROVE  /\ g.headers[i].type = "RELA" => NameOf(g, i) \notin TableNames
                    /\ FileSize(g.headers[i]) > 0 => g.contents[i] # NoData
                    /\ Old(g.contents[i], 0)
  BY DEF ImageGood
<1>1. /\ g.headers[i].type = "RELA" => NameOf(g, i) \notin TableNames
      /\ FileSize(g.headers[i]) > 0 => g.contents[i] # NoData
      /\ g.contents[i].form = "bytes" => g.contents[i].bytes < 0
  BY DEF Conventional
<1>2. \A m \in Nat : Bytes(m).form = "bytes" /\ Bytes(m).bytes = m /\ ~ (m < 0)
  BY DEF Bytes
<1> QED
  BY <1>1, <1>2 DEF Old

(* cup_output_object(): its bytes are those of no call.                     *)
LEMMA OutputGood ==
    ASSUME NEW code \in Nat, NEW strings \in Nat
    PROVE  ImageGood(cup_output_object(code, strings), 0)
<1> DEFINE sec1 == Section(".text", "PROGBITS", {"ALLOC", "EXECINSTR"}, Bytes(-1), code, 16)
           text == AddedSection(NewBinary("REL"), sec1)
           sec2 == Section(".rodata", "PROGBITS", {"ALLOC"}, Bytes(-2), strings, 8)
           both == IF strings = 0 THEN text ELSE AddedSection(text, sec2)
           Fine(b) == /\ BinOK(b) /\ TablesOK(b.sections) /\ b.relocs = <<>>
                      /\ AllGood(b.sections, 0)
<1>1. Aligned(16)
  <2>1. 16 = 2 ^ 4 /\ 4 \in 0 .. 30 /\ 16 \in Nat
    BY Z3
  <2> QED
    BY <2>1 DEF Aligned
<1>2. IsSec(sec1) /\ sec1.dirty
  BY <1>1, BytesSeq, NewSection
<1>3. IsSec(sec2) /\ sec2.dirty
  BY Alignments, BytesSeq, NewSection
<1>4. cup_output_object(code, strings) = Built(both).image
  BY DEF cup_output_object
<1>5. sec1.type = "PROGBITS" /\ sec2.type = "PROGBITS" /\ "PROGBITS" \notin DOMAIN TableKind
  BY DEF Section, TableKind
<1>6. \A j \in {-1, -2} : Bytes(j) # NoData /\ Old(Bytes(j), 0)
  <2>1. NoData.form = "none" /\ \A m : Bytes(m).form = "bytes" /\ Bytes(m).bytes = m
    BY DEF NoData, Bytes
  <2>2. \A j \in {-1, -2} : \A m \in Nat : j # m
    OBVIOUS
  <2> QED
    BY <2>1, <2>2 DEF Old
<1>7. Good(sec1, 0)
  <2>1. /\ sec1.data = IF code = 0 THEN NoData ELSE Bytes(-1)
        /\ sec1.kind = "normal" /\ FileSize(sec1) = code
    BY DEF Section, FileSize
  <2> HIDE DEF sec1
  <2> QED
    BY <1>6, <2>1, OldData DEF Good
<1>8. Good(sec2, 0)
  <2>1. /\ sec2.data = IF strings = 0 THEN NoData ELSE Bytes(-2)
        /\ sec2.kind = "normal" /\ FileSize(sec2) = strings
    BY DEF Section, FileSize
  <2> HIDE DEF sec2
  <2> QED
    BY <1>6, <2>1, OldData DEF Good
<1> HIDE DEF sec1, sec2
<1>9. ASSUME NEW b, Fine(b), NEW s, IsSec(s), s.dirty, s.type = "PROGBITS", Good(s, 0)
      PROVE  Fine(AddedSection(b, s))
  <2> DEFINE c == AddedSection(b, s)
             x == Append(b.sections, s)
  <2>1. Record(b) /\ IsSeq(b.sections)
    BY <1>9 DEF BinOK, Shape
  <2>2. BinOK(c)
    BY <1>9, AddedOK
  <2>3. TablesOK(c.sections) /\ c.relocs = <<>>
    BY <1>5, <1>9, <2>1, AddedMeant
  <2>4. c.sections = x
    BY <2>1, PutRecord DEF AddedSection, Put
  <2>5. \A i \in DOMAIN x : x[i] = s \/ (i \in DOMAIN b.sections /\ x[i] = b.sections[i])
    BY <2>1, AppendSeq, SeqPlaces
  <2> HIDE DEF c, x
  <2>6. AllGood(x, 0)
    BY <1>9, <2>5 DEF AllGood
  <2>7. Fine(c)
    BY <2>2, <2>3, <2>4, <2>6
  <2> QED
    BY <2>7 DEF c
<1>10. Fine(NewBinary("REL"))
  <2>1. NewBinary("REL").sections = <<>>
    BY DEF NewBinary
  <2> QED
    BY <2>1, NewBinaryOK, NewBinaryMeant DEF AllGood
<1> HIDE DEF Fine
<1>11. Fine(text)
  BY <1>2, <1>5, <1>7, <1>9, <1>10
<1> HIDE DEF text
<1>12. Fine(both)
  BY <1>3, <1>5, <1>8, <1>9, <1>11
<1> HIDE DEF both
<1>13. SaysMeant(both, <<>>)
  BY <1>12, NoneMeant DEF SaysMeant, Fine
<1> QED
  BY <1>4, <1>12, <1>13, BuiltGood DEF Fine

(* An object that is begun has no sections, and one that is loaded those of *)
(* its file.                                                                *)
LEMMA InitiallyStay == Init => InvStay
<1> SUFFICES ASSUME Init PROVE InvStay
  OBVIOUS
<1>1. calls = 0
  BY DEF Init
<1>2. CASE \E t \in Types : Taken(NewBinary(t)) /\ image = None /\ current = FALSE
  <2>1. PICK t \in Types : bin = NewBinary(t) /\ image = None
    BY <1>2 DEF Taken
  <2>2. bin.sections = <<>>
    BY <2>1 DEF NewBinary
  <2> QED
    BY <1>1, <2>1, <2>2 DEF InvStay, AllGood
<1>3. CASE \E g \in Given \cup Output : Taken(Loaded(g)) /\ image = g /\ current = TRUE
  <2>1. PICK g \in Given \cup Output : bin = Loaded(g) /\ image = g
    BY <1>3 DEF Taken
  <2>2. WellFormed(g) /\ ImageGood(g, 0)
    <3>1. CASE g \in Given
      BY <3>1, ElfAssumption, GivenGood
    <3>2. CASE g \in Output
      <4>1. PICK code \in Sizes \ {0}, strings \in Sizes : g = cup_output_object(code, strings)
        BY <3>2 DEF Output
      <4>2. code \in Nat /\ strings \in Nat
        BY ElfAssumption
      <4> QED
        BY <4>1, <4>2, OutputOK, OutputGood DEF Loadable
    <3> QED
      BY <3>1, <3>2
  <2>3. AllGood(Loaded(g).sections, 0) /\ GoesFrom(Loaded(g), g)
    BY <2>2, LoadedGood
  <2> QED
    BY <1>1, <2>1, <2>2, <2>3 DEF InvStay
<1> QED
  BY <1>2, <1>3 DEF Init

(* The invariant of what stays put, whatever calls there were               *)
THEOREM StayAlways == Spec => []InvStay
<1>1. Inv /\ InvMeant /\ InvStay /\ [Next]_evars => InvStay'
  <2> SUFFICES ASSUME Inv, InvMeant, InvStay, [Next]_evars PROVE InvStay'
    OBVIOUS
  <2>1. ASSUME NEW k \in SectionKinds, NEW size \in Sizes, lielf_add_section(k, size)
        PROVE  InvStay'
    BY <2>1, AddSectionStay
  <2>2. ASSUME NEW i \in DOMAIN bin.sections, lielf_remove_section(i) PROVE InvStay'
    BY <2>2, RemoveSectionStay
  <2>3. ASSUME NEW i \in DOMAIN bin.sections, NEW size \in Sizes, lielf_set_section_data(i, size)
        PROVE  InvStay'
    BY <2>3, SetSectionDataStay
  <2>4. ASSUME NEW name \in SymbolNames, NEW local \in BOOLEAN, NEW d \in Dynamic,
               NEW shndx \in 0 .. Len(bin.sections), lielf_add_symbol(name, local, shndx, d)
        PROVE  InvStay'
    BY <2>4, AddOtherStay
  <2>5. ASSUME NEW k \in SectionKinds, NEW name \in SymbolNames, NEW d \in Dynamic,
               lielf_add_reloc(k.name, name, d)
        PROVE  InvStay'
    BY <2>5, AddOtherStay
  <2>6. ASSUME NEW tag \in {"DT_DEBUG"}, lielf_add_dynamic(tag) PROVE InvStay'
    BY <2>6, AddOtherStay
  <2>7. ASSUME lielf_write PROVE InvStay'
    BY <2>7, WriteStay
  <2>8. ASSUME lielf_load_file PROVE InvStay'
    BY <2>8, LoadFileStay
  <2>9. ASSUME UNCHANGED evars PROVE InvStay'
    BY <2>9 DEF evars, InvStay
  <2> QED
    BY <2>1, <2>2, <2>3, <2>4, <2>5, <2>6, <2>7, <2>8, <2>9 DEF Next
<1> QED
  BY <1>1, InitiallyStay, Layout, MeantAlways, PTL DEF Spec

(* What a write leaves at its place: a section that keeps its bytes is not  *)
(* dirty before tables are regenerated, nor after that.                     *)
LEMMA WriteKeeps ==
    ASSUME Inv, InvMeant, InvStay, image # None, image.etype # "REL", lielf_write,
           NEW i \in DOMAIN image.headers, NEW k \in DOMAIN image'.headers,
           "ALLOC" \in image.headers[i].flags, FileSize(image.headers[i]) > 0, Keeps(i, k)
    PROVE  /\ image'.headers[k].offset = image.headers[i].offset
           /\ image'.headers[k].addr = image.headers[i].addr
<1> DEFINE x == bin.sections
           r == Regenerated(bin)
           c == LaidOut(r).bin
           shoff == LaidOut(r).shoff
           img == ImageOf(c, shoff)
           name == NameOf(image, i)
<1>1. image' = img
  BY DEF lielf_write, Built
<1>2. BinOK(bin) /\ SaysMeant(bin, meant) /\ Loadable(image)
  BY DEF Inv, InvMeant
<1>3. AllGood(x, calls) /\ ImageGood(image, calls) /\ GoesFrom(bin, image)
  BY DEF InvStay
<1>4. /\ BinOK(r) /\ Ready(r, meant) /\ Linked(r) /\ Remains(bin, r)
      /\ \E names : Touched(x, r.sections, names)
  BY <1>2, <1>3, RegeneratedOK, RegeneratedReady, RegeneratedTouched, RegeneratedRemains
     DEF SaysMeant, BinOK, Shape
<1> HIDE DEF r
<1>5. Shape(c) /\ Laid(r, c)
  BY <1>4, LaidOutOK
<1> HIDE DEF c, shoff
<1>6. IsSeq(r.sections) /\ IsSeq(c.sections)
  BY <1>4, <1>5 DEF BinOK, Shape
<1>7. Named(c)
  BY <1>4, <1>5, <1>6, LaidReady DEF Ready
<1>8. /\ DOMAIN img.headers = DOMAIN c.sections
      /\ \A j \in DOMAIN c.sections :
            /\ img.headers[j].offset = c.sections[j].offset /\ img.headers[j].addr = c.sections[j].addr
            /\ img.headers[j].size = c.sections[j].size
            /\ img.contents[j] = IF c.sections[j].type = "NOBITS" THEN NoData ELSE c.sections[j].data
  BY ImagePlaces
<1>9. \A j \in DOMAIN c.sections : NameOf(img, j) = c.sections[j].name
  BY <1>6, <1>7, ImageSays
<1> HIDE DEF img
<1>10. /\ name = NameOf(img, k) /\ Only(image, i) /\ Only(img, k)
       /\ img.contents[k] = image.contents[i] /\ img.headers[k].size = image.headers[i].size
       /\ \E s \in Range(x) : s.name = name /\ s.data = image.contents[i]
  BY <1>1 DEF Keeps
<1>11. PICK p \in DOMAIN x : x[p].name = name /\ x[p].data = image.contents[i]
  BY <1>10 DEF Range
<1>12. /\ DOMAIN c.sections = DOMAIN r.sections
       /\ \A j \in DOMAIN r.sections : Shifted(r.sections[j], c.sections[j])
  BY <1>5 DEF Laid
<1>13. p \in DOMAIN r.sections /\ Stands(x[p], r.sections[p]) /\ Restored(x[p], r.sections[p])
  BY <1>4, <1>11 DEF Touched
<1>14. p = k
  <2>1. NameOf(img, p) = name
    BY <1>9, <1>11, <1>12, <1>13 DEF Shifted, Stands
  <2> QED
    BY <1>8, <1>10, <1>12, <1>13, <2>1 DEF Only
<1>15. image.contents[i] # NoData
  BY <1>3 DEF ImageGood
<1>16. r.sections[p].data = x[p].data /\ r.sections[p].size = image.headers[i].size
  BY <1>8, <1>10, <1>11, <1>12, <1>13, <1>14, <1>15 DEF Shifted
<1>17. ~ x[p].dirty
  BY <1>3, <1>11, <1>15 DEF GoesFrom, HasOther
<1>18. IsAt(x[p], image, i)
  <2>1. PICK q \in DOMAIN image.headers : IsAt(x[p], image, q)
    BY <1>3, <1>17 DEF GoesFrom
  <2>2. q = i
    BY <1>10, <1>11, <2>1 DEF IsAt, Only
  <2> QED
    BY <2>1, <2>2
<1>19. ~ r.sections[p].dirty
  BY <1>11, <1>13, <1>15, <1>16, <1>17, <1>18 DEF Restored, IsAt
<1>20. /\ "ALLOC" \in r.sections[p].flags /\ r.sections[p].loaded
       /\ r.sections[p].offset = image.headers[i].offset
       /\ r.sections[p].addr = image.headers[i].addr
  BY <1>13, <1>18 DEF IsAt, Stands
<1>21. r.etype # "REL" /\ r.segments # <<>>
  <2>1. r.etype = image.etype /\ r.segments = image.segments
    BY <1>3, <1>4 DEF GoesFrom, Remains
  <2>2. InSegment(image.segments, image.headers[i])
    BY <1>2 DEF Loadable, Held
  <2>3. image.segments # <<>>
    <3>1. Range(image.segments) # {}
      BY <2>2 DEF InSegment
    <3> QED
      BY <3>1 DEF Range
  <2> QED
    BY <2>1, <2>3
<1>22. ClassOf(r, r.sections[p]) = "fixed"
  BY <1>19, <1>20, <1>21 DEF ClassOf
<1>23. p \in Fixed(r)
  BY <1>13, <1>22 DEF Fixed
<1>24. /\ c.sections[p].offset = r.sections[p].offset
       /\ c.sections[p].addr = r.sections[p].addr
  BY <1>5, <1>23 DEF Laid
<1> QED
  BY <1>1, <1>8, <1>12, <1>13, <1>14, <1>20, <1>24

(* A section of a program that keeps the bytes it has in the file stays at  *)
(* its place and its address, whatever calls there were before the object   *)
(* is written.                                                              *)
THEOREM StaysPutAlways == Spec => StaysPut
<1> DEFINE Stay == image # None /\ image' # image /\ image.etype # "REL" =>
             \A i \in DOMAIN image.headers, k \in DOMAIN image'.headers :
                LET old == image.headers[i]
                    new == image'.headers[k]
                IN "ALLOC" \in old.flags /\ old \in Occupied(image) /\ Keeps(i, k)
                   => new.offset = old.offset /\ new.addr = old.addr
<1>1. ASSUME Inv, InvMeant, InvStay, [Next]_evars PROVE [Stay]_evars
  <2> SUFFICES ASSUME image # None, image' # image, image.etype # "REL",
                      NEW i \in DOMAIN image.headers, NEW k \in DOMAIN image'.headers,
                      "ALLOC" \in image.headers[i].flags, image.headers[i] \in Occupied(image),
                      Keeps(i, k)
               PROVE  /\ image'.headers[k].offset = image.headers[i].offset
                      /\ image'.headers[k].addr = image.headers[i].addr
    OBVIOUS
  <2>1. lielf_write
    BY <1>1 DEF Next, evars, lielf_add_section, lielf_remove_section, lielf_set_section_data,
                lielf_add_symbol, lielf_add_reloc, lielf_add_dynamic, lielf_load_file, Changed
  <2>2. FileSize(image.headers[i]) > 0
    BY DEF Occupied
  <2> QED
    BY <1>1, <2>1, <2>2, WriteKeeps
<1> HIDE DEF Stay
<1>2. Spec => [][Stay]_evars
  BY <1>1, Layout, MeantAlways, StayAlways, PTL DEF Spec
<1> QED
  BY <1>2 DEF StaysPut, Stay
==============================================================================
