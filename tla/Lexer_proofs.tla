---------------------------- MODULE Lexer_proofs -----------------------------
(* Proofs about Lexer: tokens are the longest ones, numbers are worth their *)
(* digits, and locations follow from the tokens so far, in every source and *)
(* through every import.                                                    *)
EXTENDS Lexer, SequenceTheorems, FiniteSetTheorems, WellFoundedInduction, TLAPS

Source == Seq(STRING \ {"end"})

Tokens == {"eof", "string", "number", "nl", "varg", "dot", "id", "if", "for"}
          \cup {Doubled[c] : c \in DOMAIN Doubled} \cup {WithEq[c] : c \in DOMAIN Doubled}
          \cup {Single[c] : c \in DOMAIN Single}
Spans == [token : Tokens, from : Nat, upto : Nat, space : {0, 1}]

(* The same as in Lexer, for any source: of those that wait behind imports  *)
(* it has to be known too.                                                  *)
At(t, i) == IF i > Len(t) THEN "end" ELSE t[i]
NewlineIn(t, i) == IF At(t, i) = "\r" /\ At(t, i + 1) = "\n" THEN 2
                   ELSE IF At(t, i) \in {"\r", "\n"} THEN 1
                   ELSE 0
Piece(t, i, j) == SubSeq(t, i, j - 1)

(* between the characters of a newline                                      *)
Mid(t, i) == i > 1 /\ At(t, i) = "\n" /\ At(t, i - 1) = "\r"

-----------------------------------------------------------------------------
(* Every set of natural numbers has a least element.                        *)
LEMMA LeastNat ==
    ASSUME NEW S \in SUBSET Nat, S # {}
    PROVE  \E m \in S : \A t \in S : m <= t
<1> DEFINE R == OpToRel(<, Nat)
<1>1. IsWellFoundedOn(R, Nat)
  BY NatLessThanWellFounded
<1>2. \A x, y \in Nat : <<x, y>> \in R <=> x < y
  BY DEF OpToRel
<1> HIDE DEF R
<1>3. PICK m \in S : \A t \in S : ~ (<<t, m>> \in R)
  BY <1>1, WFMin
<1>4. \A t \in S : ~ (t < m)
  BY <1>2, <1>3
<1> QED
  BY <1>4

(* Min of the community modules is that least element.                      *)
LEMMA Oldest ==
    ASSUME NEW S \in SUBSET Nat, S # {}
    PROVE  Min(S) \in S /\ \A t \in S : Min(S) <= t
BY LeastNat DEF Min

-----------------------------------------------------------------------------
(* A number is its quotient and its remainder.                              *)
LEMMA ModDef ==
    ASSUME NEW Z \in Nat \ {0}, NEW a \in Nat
    PROVE  (a % Z) \in 0 .. Z - 1 /\ (a \div Z) \in Nat /\ a = Z * (a \div Z) + (a % Z)
OBVIOUS

(* A smaller multiple leaves room for a whole remainder.                    *)
LEMMA Smaller ==
    ASSUME NEW Z \in Nat \ {0}, NEW p \in Nat, NEW q \in Nat, p < q
    PROVE  Z * p + Z <= Z * q
<1>1. PICK d \in Nat : q = p + 1 + d
  <2>1. q - p - 1 \in Nat /\ q = p + 1 + (q - p - 1)
    OBVIOUS
  <2> QED
    BY <2>1
<1>2. Z * q = Z * p + Z + Z * d
  BY <1>1
<1>3. Z * d \in Nat /\ Z * p \in Nat
  OBVIOUS
<1> QED
  BY <1>2, <1>3

(* A number has one remainder.                                              *)
LEMMA ModUnique ==
    ASSUME NEW Z \in Nat \ {0}, NEW p \in Nat, NEW q \in Nat, NEW r \in 0 .. Z - 1, NEW s \in 0 .. Z - 1,
           Z * p + r = Z * q + s
    PROVE  r = s
<1>1. Z * p \in Nat /\ Z * q \in Nat /\ r < Z /\ s < Z
  OBVIOUS
<1>2. ~ (p < q)
  BY <1>1, Smaller
<1>3. ~ (q < p)
  BY <1>1, Smaller
<1>4. p = q
  BY <1>2, <1>3
<1> QED
  BY <1>1, <1>4

(* A multiple of Z more does not change the remainder.                      *)
LEMMA ModShift ==
    ASSUME NEW Z \in Nat \ {0}, NEW a \in Nat, NEW k \in Nat
    PROVE  ((a + Z * k) % Z) = (a % Z)
<1>1. PICK b \in Nat : b = a + Z * k
  <2>1. Z * k \in Nat
    OBVIOUS
  <2> QED
    BY <2>1
<1>2. PICK p \in Nat, r \in 0 .. Z - 1 : r = (a % Z) /\ a = Z * p + r
  BY ModDef
<1>3. PICK q \in Nat, s \in 0 .. Z - 1 : s = (b % Z) /\ b = Z * q + s
  BY ModDef
<1>4. PICK e \in Nat : e = p + k
  OBVIOUS
<1>5. Z * e = Z * p + Z * k
  BY <1>4
<1>6. Z * e \in Nat /\ Z * p \in Nat /\ Z * q \in Nat /\ Z * k \in Nat
  OBVIOUS
<1>7. Z * e + r = Z * q + s
  BY <1>1, <1>2, <1>3, <1>5, <1>6
<1>8. r = s
  BY <1>7, ModUnique
<1> QED
  BY <1>1, <1>2, <1>3, <1>8

(* The remainder may be taken before a step or behind it.                   *)
Early(Z, a, w, r) == (((a % Z) * w + r) % Z) = ((a * w + r) % Z)

(* A multiplication and an addition keep the remainder: Early always holds. *)
LEMMA ModStep ==
    ASSUME NEW Z \in Nat \ {0}, NEW a \in Nat, NEW w \in Nat, NEW r \in Nat
    PROVE  Early(Z, a, w, r)
<1>1. PICK q \in Nat, m \in Nat : m = (a % Z) /\ a = Z * q + m
  <2>1. 0 .. Z - 1 \subseteq Nat
    OBVIOUS
  <2> QED
    BY <2>1, ModDef
<1>2. PICK x \in Nat : x = m * w + r
  <2>1. m * w \in Nat
    OBVIOUS
  <2> QED
    BY <2>1
<1>3. PICK k \in Nat : k = q * w
  <2>1. q * w \in Nat
    OBVIOUS
  <2> QED
    BY <2>1
<1>4. a * w + r = x + Z * k
  <2>1. a * w = Z * (q * w) + m * w
    BY <1>1
  <2>2. Z * k \in Nat /\ m * w \in Nat
    OBVIOUS
  <2> QED
    BY <1>2, <1>3, <2>1, <2>2
<1>5. ((x + Z * k) % Z) = (x % Z)
  BY ModShift
<1> QED
  BY <1>1, <1>2, <1>4, <1>5 DEF Early

(* What fits is its own remainder.                                          *)
LEMMA ModSmall ==
    ASSUME NEW Z \in Nat \ {0}, NEW v \in 0 .. Z - 1
    PROVE  (v % Z) = v
OBVIOUS

(* One more digit c behind the value v: with the weight w and the rest r of *)
(* the digits behind it, the total is as before, modulo Z.                  *)
Digit(Z, b, v, c, w, r) ==
    /\ ((v * b + c) % Z) \in 0 .. Z - 1
    /\ ((((v * b + c) % Z) * w + r) % Z) = ((v * (b * w) + (c * w + r)) % Z)

(* It is so of every digit.                                                 *)
LEMMA HornerStep ==
    ASSUME NEW Z \in Nat \ {0}, NEW b \in Nat, NEW v \in Nat, NEW c \in Nat, NEW w \in Nat, NEW r \in Nat
    PROVE  Digit(Z, b, v, c, w, r)
<1>1. PICK a \in Nat : a = v * b + c
  <2>1. v * b \in Nat
    OBVIOUS
  <2> QED
    BY <2>1
<1>2. a * w + r = v * (b * w) + (c * w + r)
  BY <1>1
<1>3. (a % Z) \in 0 .. Z - 1
  BY ModDef
<1>4. (((a % Z) * w + r) % Z) = ((a * w + r) % Z)
  <2>1. Early(Z, a, w, r)
    BY ModStep
  <2> QED
    BY <2>1, Zenon DEF Early
<1> QED
  BY <1>1, <1>2, <1>3, <1>4, Zenon DEF Digit

(* The digits d, without the places S of separators, read in the base b     *)
(* from the left (sum, wrapping at Z) and from the right (weight and worth) *)
BothWays(Z, b, n, S, d, sum, weight, worth) ==
    /\ sum[0] = 0 /\ weight[0] = 1 /\ worth[0] = 0
    /\ \A k \in 1 .. n :
          /\ sum[k] = IF k \in S THEN sum[k - 1] ELSE (sum[k - 1] * b + d[k]) % Z
          /\ weight[n - k + 1] = IF k \in S THEN weight[n - k] ELSE b * weight[n - k]
          /\ worth[n - k + 1] = IF k \in S THEN worth[n - k] ELSE d[k] * weight[n - k] + worth[n - k]

(* Both readings agree at the end.                                          *)
Accounted(Z, n, sum, worth) == sum[n] = (worth[n] % Z)

(* Horner's scheme with an overflow at every digit gives the weighted sum   *)
(* of the digits, modulo Z: what is read so far, weighted, and the worth of *)
(* the rest are always that sum.                                            *)
LEMMA Horner ==
    ASSUME NEW Z \in Nat \ {0}, NEW b \in Nat, NEW n \in Nat, NEW S, NEW d \in [1 .. n -> Nat],
           NEW sum \in [0 .. n -> Nat], NEW weight \in [0 .. n -> Nat], NEW worth \in [0 .. n -> Nat],
           BothWays(Z, b, n, S, d, sum, weight, worth)
    PROVE  Accounted(Z, n, sum, worth)
<1> DEFINE Sum(k) == sum[k] * weight[n - k] + worth[n - k]
           Kept(k) == sum[k] \in 0 .. Z - 1 /\ (Sum(k) % Z) = (worth[n] % Z)
           Bad == {k \in 0 .. n : ~ Kept(k)}
<1>0. /\ sum[0] = 0 /\ weight[0] = 1 /\ worth[0] = 0
      /\ \A k \in 1 .. n :
            /\ sum[k] = IF k \in S THEN sum[k - 1] ELSE (sum[k - 1] * b + d[k]) % Z
            /\ weight[n - k + 1] = IF k \in S THEN weight[n - k] ELSE b * weight[n - k]
            /\ worth[n - k + 1] = IF k \in S THEN worth[n - k] ELSE d[k] * weight[n - k] + worth[n - k]
  BY DEF BothWays
<1>1. Kept(0)
  <2>1. n - 0 = n /\ n \in 0 .. n
    OBVIOUS
  <2>2. weight[n] \in Nat /\ worth[n] \in Nat /\ Sum(0) = 0 * weight[n] + worth[n]
    BY <1>0, <2>1
  <2>3. Sum(0) = worth[n]
    BY <2>2
  <2> QED
    BY <1>0, <2>3
<1>2. ASSUME NEW k \in 1 .. n, Kept(k - 1) PROVE Kept(k)
  <2>1. k - 1 \in 0 .. n /\ k \in 0 .. n /\ n - k \in 0 .. n /\ n - (k - 1) = n - k + 1
    OBVIOUS
  <2>2. PICK v, w, r, c \in Nat : v = sum[k - 1] /\ w = weight[n - k] /\ r = worth[n - k] /\ c = d[k]
    BY <2>1
  <2>3. /\ sum[k] = IF k \in S THEN v ELSE (v * b + c) % Z
        /\ weight[n - (k - 1)] = IF k \in S THEN w ELSE b * w
        /\ worth[n - (k - 1)] = IF k \in S THEN r ELSE c * w + r
    BY <1>0, <2>1, <2>2
  <2>4. v \in 0 .. Z - 1 /\ ((v * weight[n - (k - 1)] + worth[n - (k - 1)]) % Z) = (worth[n] % Z)
    BY <1>2, <2>2, Zenon
  <2>5. Sum(k) = sum[k] * w + r
    BY <2>2, Zenon
  <2>6. CASE k \in S
    <3>1. sum[k] = v /\ weight[n - (k - 1)] = w /\ worth[n - (k - 1)] = r
      BY <2>3, <2>6
    <3> HIDE DEF Sum
    <3> QED
      BY <2>4, <2>5, <3>1
  <2>7. CASE k \notin S
    <3>1. sum[k] = ((v * b + c) % Z) /\ weight[n - (k - 1)] = b * w /\ worth[n - (k - 1)] = c * w + r
      BY <2>3, <2>7
    <3>2. /\ ((v * b + c) % Z) \in 0 .. Z - 1
          /\ ((((v * b + c) % Z) * w + r) % Z) = ((v * (b * w) + (c * w + r)) % Z)
      <4>1. Digit(Z, b, v, c, w, r)
        BY HornerStep
      <4> QED
        BY <4>1, Zenon DEF Digit
    <3> HIDE DEF Sum
    <3>3. Sum(k) = ((v * b + c) % Z) * w + r
      BY <2>5, <3>1, Zenon
    <3>4. ((v * (b * w) + (c * w + r)) % Z) = (worth[n] % Z)
      BY <2>4, <3>1, Zenon
    <3>5. (Sum(k) % Z) = (worth[n] % Z)
      BY <3>2, <3>3, <3>4, Zenon
    <3> QED
      BY <3>1, <3>2, <3>5, Zenon
  <2> QED
    BY <2>6, <2>7
<1>3. Bad = {}
  <2> SUFFICES ASSUME Bad # {} PROVE FALSE
    OBVIOUS
  <2>1. PICK m \in Bad : \A k \in Bad : m <= k
    <3>1. Bad \in SUBSET Nat
      OBVIOUS
    <3> QED
      BY <3>1, LeastNat
  <2> HIDE DEF Kept
  <2>2. m \in 1 .. n
    BY <1>1, <2>1
  <2>3. m - 1 \in 0 .. n /\ m - 1 \notin Bad
    BY <2>1, <2>2
  <2> QED
    BY <1>2, <2>1, <2>2, <2>3
<1>4. Kept(n)
  <2> HIDE DEF Kept
  <2>1. n \in 0 .. n
    OBVIOUS
  <2> QED
    BY <1>3, <2>1
<1>5. sum[n] \in 0 .. Z - 1 /\ n - n = 0
  BY <1>4
<1>6. Sum(n) = sum[n]
  BY <1>0, <1>5
<1>7. (sum[n] % Z) = sum[n]
  BY <1>5, ModSmall
<1> QED
  BY <1>4, <1>6, <1>7 DEF Accounted

(* A recursion over numbers: g begins with x and follows step.              *)
Follows(g, n, x, step) == g[0] = x /\ \A k \in 1 .. n : g[k - 1] \in Nat => g[k] = step[k][g[k - 1]]

(* A recursion over 1 .. n has a solution, by the least place that it could *)
(* not reach.                                                               *)
LEMMA CountsUp ==
    ASSUME NEW n \in Nat, NEW x \in Nat, NEW step \in [1 .. n -> [Nat -> Nat]]
    PROVE  \E g \in [0 .. n -> Nat] : Follows(g, n, x, step)
<1> DEFINE Grows(k) == \E g \in [0 .. k -> Nat] :
                           g[0] = x /\ \A j \in 1 .. k : g[j] = step[j][g[j - 1]]
           Bad == {k \in 0 .. n : ~ Grows(k)}
<1>1. Grows(0)
  <2> DEFINE g == [k \in 0 .. 0 |-> x]
  <2>1. g \in [0 .. 0 -> Nat] /\ g[0] = x /\ \A j \in 1 .. 0 : FALSE
    OBVIOUS
  <2> HIDE DEF g
  <2> QED
    BY <2>1
<1>2. ASSUME NEW k \in 1 .. n, Grows(k - 1) PROVE Grows(k)
  <2>1. PICK f \in [0 .. k - 1 -> Nat] : f[0] = x /\ \A j \in 1 .. k - 1 : f[j] = step[j][f[j - 1]]
    BY <1>2
  <2> DEFINE top == step[k][f[k - 1]]
             g == [j \in 0 .. k |-> IF j = k THEN top ELSE f[j]]
  <2>2. top \in Nat
    <3>1. f[k - 1] \in Nat /\ step[k] \in [Nat -> Nat]
      OBVIOUS
    <3> QED
      BY <3>1
  <2> HIDE DEF top
  <2>3. /\ g \in [0 .. k -> Nat] /\ g[k] = top
        /\ \A j \in 0 .. k - 1 : g[j] = f[j]
    <3>1. k \in 0 .. k /\ \A j \in 0 .. k - 1 : j # k /\ j \in 0 .. k
      OBVIOUS
    <3>2. \A j \in 0 .. k : j # k => j \in 0 .. k - 1
      OBVIOUS
    <3>3. \A j \in 0 .. k : (IF j = k THEN top ELSE f[j]) \in Nat
      BY <2>2, <3>2
    <3> QED
      BY <3>1, <3>3
  <2> HIDE DEF g
  <2>4. g[0] = x
    BY <2>1, <2>3
  <2>5. \A j \in 1 .. k : g[j] = step[j][g[j - 1]]
    <3> SUFFICES ASSUME NEW j \in 1 .. k PROVE g[j] = step[j][g[j - 1]]
      OBVIOUS
    <3>1. j - 1 \in 0 .. k - 1 /\ g[j - 1] = f[j - 1]
      BY <2>3
    <3>2. CASE j = k
      BY <2>3, <3>1, <3>2 DEF top
    <3>3. CASE j # k
      <4>1. j \in 1 .. k - 1 /\ j \in 0 .. k - 1
        BY <3>3
      <4> QED
        BY <2>1, <2>3, <3>1, <4>1
    <3> QED
      BY <3>2, <3>3
  <2> QED
    BY <2>3, <2>4, <2>5
<1> HIDE DEF Grows
<1>3. Bad = {}
  <2> SUFFICES ASSUME Bad # {} PROVE FALSE
    OBVIOUS
  <2>1. PICK m \in Bad : \A k \in Bad : m <= k
    <3>1. Bad \in SUBSET Nat
      OBVIOUS
    <3> QED
      BY <3>1, LeastNat
  <2>2. m \in 1 .. n
    BY <1>1, <2>1
  <2>3. m - 1 \in 0 .. n /\ m - 1 \notin Bad
    BY <2>1, <2>2
  <2> QED
    BY <1>2, <2>1, <2>2, <2>3
<1>4. Grows(n)
  <2>1. n \in 0 .. n
    OBVIOUS
  <2> QED
    BY <1>3, <2>1
<1> QED
  BY <1>4 DEF Grows, Follows

(* Two functions that begin and go on alike                                 *)
Same(f, g, n) == f[0] = g[0] /\ \A k \in 1 .. n : f[k - 1] = g[k - 1] => f[k] = g[k]

(* They are the same up to n.                                               *)
LEMMA SameRecursion ==
    ASSUME NEW n \in Nat, NEW f, NEW g, Same(f, g, n)
    PROVE  \A k \in 0 .. n : f[k] = g[k]
<1> DEFINE Bad == {k \in 0 .. n : f[k] # g[k]}
<1> SUFFICES ASSUME Bad # {} PROVE FALSE
  OBVIOUS
<1>1. PICK m \in Bad : \A k \in Bad : m <= k
  <2>1. Bad \in SUBSET Nat
    OBVIOUS
  <2> QED
    BY <2>1, LeastNat
<1>2. m \in 1 .. n
  BY <1>1 DEF Same
<1>3. m - 1 \in 0 .. n /\ m - 1 \notin Bad
  BY <1>1, <1>2
<1> QED
  BY <1>1, <1>2, <1>3 DEF Same

(* What a recursion over numbers defines are numbers.                       *)
LEMMA Recursion ==
    ASSUME NEW n \in Nat, NEW x \in Nat, NEW step \in [1 .. n -> [Nat -> Nat]],
           NEW f, Follows(f, n, x, step)
    PROVE  \A k \in 0 .. n : f[k] \in Nat
<1>1. PICK g \in [0 .. n -> Nat] : Follows(g, n, x, step)
  BY CountsUp
<1>2. Same(f, g, n)
  <2>1. \A k \in 1 .. n : g[k - 1] \in Nat
    OBVIOUS
  <2> QED
    BY <1>1, <2>1 DEF Follows, Same
<1>3. \A k \in 0 .. n : f[k] = g[k]
  BY <1>2, SameRecursion
<1> QED
  BY <1>3

(* The three recursions of numbers (SumIs, WeightIs, WorthIs), as the       *)
(* functions that CHOOSE has to find, and as what these satisfy step by     *)
(* step (SumRuns, WeightRuns, WorthRuns)                                    *)
SumIs(Z, b, n, S, d, g) ==
    g = [k \in 0 .. n |-> IF k = 0 THEN 0
                          ELSE IF k \in S THEN g[k - 1]
                          ELSE (g[k - 1] * b + d[k]) % Z]

SumRuns(Z, b, n, S, d, f) ==
    /\ f \in [0 .. n -> Nat] /\ f[0] = 0
    /\ \A k \in 1 .. n : f[k] = IF k \in S THEN f[k - 1] ELSE (f[k - 1] * b + d[k]) % Z

(* The reading from the left is a function to numbers, and runs as defined. *)
LEMMA SumTyped ==
    ASSUME NEW Z \in Nat \ {0}, NEW b \in Nat, NEW n \in Nat, NEW S, NEW d \in [1 .. n -> Nat]
    PROVE  SumRuns(Z, b, n, S, d, CHOOSE g : SumIs(Z, b, n, S, d, g))
<1> DEFINE f == CHOOSE g : SumIs(Z, b, n, S, d, g)
           next(k, x) == IF k \in S THEN x ELSE (x * b + d[k]) % Z
           step == [k \in 1 .. n |-> [x \in Nat |-> next(k, x)]]
<1>1. \A g : SumIs(Z, b, n, S, d, g) <=> g = [k \in 0 .. n |-> IF k = 0 THEN 0 ELSE next(k, g[k - 1])]
  BY DEF SumIs
<1>2. \A k \in 1 .. n : \A x \in Nat : next(k, x) \in Nat
  <2> SUFFICES ASSUME NEW k \in 1 .. n, NEW x \in Nat PROVE (x * b + d[k]) % Z \in Nat
    OBVIOUS
  <2>1. PICK a \in Nat : a = x * b + d[k]
    <3>1. x * b \in Nat /\ d[k] \in Nat
      OBVIOUS
    <3> QED
      BY <3>1
  <2> QED
    BY <2>1
<1>3. \A k \in 1 .. n : \A x : next(k, x) = IF k \in S THEN x ELSE (x * b + d[k]) % Z
  OBVIOUS
<1> HIDE DEF next
<1>4. /\ step \in [1 .. n -> [Nat -> Nat]]
      /\ \A k \in 1 .. n : \A x \in Nat : step[k][x] = next(k, x)
  BY <1>2
<1> HIDE DEF step
<1>5. 0 .. n = {0} \cup 1 .. n /\ 0 \notin 1 .. n /\ \A k \in 1 .. n : k - 1 \in 0 .. n
  OBVIOUS
<1>6. PICK g \in [0 .. n -> Nat] : Follows(g, n, 0, step)
  <2>1. 0 \in Nat
    OBVIOUS
  <2> QED
    BY <1>4, <2>1, CountsUp
<1>7. SumIs(Z, b, n, S, d, g)
  <2>1. \A k \in 1 .. n : g[k] = next(k, g[k - 1])
    BY <1>4, <1>5, <1>6 DEF Follows
  <2>2. \A k \in 0 .. n : g[k] = IF k = 0 THEN 0 ELSE next(k, g[k - 1])
    BY <1>5, <1>6, <2>1 DEF Follows
  <2>3. g = [k \in 0 .. n |-> g[k]]
    OBVIOUS
  <2>4. g = [k \in 0 .. n |-> IF k = 0 THEN 0 ELSE next(k, g[k - 1])]
    BY <2>2, <2>3
  <2> QED
    BY <1>1, <2>4
<1>8. f = [k \in 0 .. n |-> IF k = 0 THEN 0 ELSE next(k, f[k - 1])]
  <2>1. SumIs(Z, b, n, S, d, f)
    BY <1>7
  <2> HIDE DEF f
  <2> QED
    BY <1>1, <2>1
<1> HIDE DEF f
<1>9. f[0] = 0 /\ \A k \in 1 .. n : f[k] = next(k, f[k - 1])
  BY <1>5, <1>8
<1>10. \A k \in 0 .. n : f[k] \in Nat
  <2>1. Follows(f, n, 0, step)
    BY <1>4, <1>9 DEF Follows
  <2>2. 0 \in Nat
    OBVIOUS
  <2> QED
    BY <1>4, <2>1, <2>2, Recursion
<1>11. f \in [0 .. n -> Nat]
  <2>1. f = [k \in 0 .. n |-> f[k]]
    BY <1>8
  <2> QED
    BY <1>10, <2>1
<1>12. SumRuns(Z, b, n, S, d, f)
  BY <1>3, <1>9, <1>11 DEF SumRuns
<1> QED
  BY <1>12 DEF f

WeightIs(b, n, S, g) ==
    g = [k \in 0 .. n |-> IF k = 0 THEN 1
                          ELSE IF k \in S THEN g[k - 1]
                          ELSE b * g[k - 1]]

WeightRuns(b, n, S, f) ==
    /\ f \in [0 .. n -> Nat] /\ f[0] = 1
    /\ \A k \in 1 .. n : f[k] = IF k \in S THEN f[k - 1] ELSE b * f[k - 1]

(* So is the weight of a place ...                                          *)
LEMMA WeightTyped ==
    ASSUME NEW b \in Nat, NEW n \in Nat, NEW S
    PROVE  WeightRuns(b, n, S, CHOOSE g : WeightIs(b, n, S, g))
<1> DEFINE f == CHOOSE g : WeightIs(b, n, S, g)
           next(k, x) == IF k \in S THEN x ELSE b * x
           step == [k \in 1 .. n |-> [x \in Nat |-> next(k, x)]]
<1>1. \A g : WeightIs(b, n, S, g) <=> g = [k \in 0 .. n |-> IF k = 0 THEN 1 ELSE next(k, g[k - 1])]
  BY DEF WeightIs
<1>2. \A k \in 1 .. n : \A x \in Nat : next(k, x) \in Nat
  <2> SUFFICES ASSUME NEW k \in 1 .. n, NEW x \in Nat PROVE b * x \in Nat
    OBVIOUS
  <2> QED
    OBVIOUS
<1>3. \A k \in 1 .. n : \A x : next(k, x) = IF k \in S THEN x ELSE b * x
  OBVIOUS
<1> HIDE DEF next
<1>4. /\ step \in [1 .. n -> [Nat -> Nat]]
      /\ \A k \in 1 .. n : \A x \in Nat : step[k][x] = next(k, x)
  BY <1>2
<1> HIDE DEF step
<1>5. 0 .. n = {0} \cup 1 .. n /\ 0 \notin 1 .. n /\ \A k \in 1 .. n : k - 1 \in 0 .. n
  OBVIOUS
<1>6. PICK g \in [0 .. n -> Nat] : Follows(g, n, 1, step)
  <2>1. 1 \in Nat
    OBVIOUS
  <2> QED
    BY <1>4, <2>1, CountsUp
<1>7. WeightIs(b, n, S, g)
  <2>1. \A k \in 1 .. n : g[k] = next(k, g[k - 1])
    BY <1>4, <1>5, <1>6 DEF Follows
  <2>2. \A k \in 0 .. n : g[k] = IF k = 0 THEN 1 ELSE next(k, g[k - 1])
    BY <1>5, <1>6, <2>1 DEF Follows
  <2>3. g = [k \in 0 .. n |-> g[k]]
    OBVIOUS
  <2>4. g = [k \in 0 .. n |-> IF k = 0 THEN 1 ELSE next(k, g[k - 1])]
    BY <2>2, <2>3
  <2> QED
    BY <1>1, <2>4
<1>8. f = [k \in 0 .. n |-> IF k = 0 THEN 1 ELSE next(k, f[k - 1])]
  <2>1. WeightIs(b, n, S, f)
    BY <1>7
  <2> HIDE DEF f
  <2> QED
    BY <1>1, <2>1
<1> HIDE DEF f
<1>9. f[0] = 1 /\ \A k \in 1 .. n : f[k] = next(k, f[k - 1])
  BY <1>5, <1>8
<1>10. \A k \in 0 .. n : f[k] \in Nat
  <2>1. Follows(f, n, 1, step)
    BY <1>4, <1>9 DEF Follows
  <2>2. 1 \in Nat
    OBVIOUS
  <2> QED
    BY <1>4, <2>1, <2>2, Recursion
<1>11. f \in [0 .. n -> Nat]
  <2>1. f = [k \in 0 .. n |-> f[k]]
    BY <1>8
  <2> QED
    BY <1>10, <2>1
<1>12. WeightRuns(b, n, S, f)
  BY <1>3, <1>9, <1>11 DEF WeightRuns
<1> QED
  BY <1>12 DEF f

WorthIs(n, S, d, w, g) ==
    g = [k \in 0 .. n |-> IF k = 0 THEN 0
                          ELSE IF k \in S THEN g[k - 1]
                          ELSE d[k] * w[k - 1] + g[k - 1]]

WorthRuns(n, S, d, w, f) ==
    /\ f \in [0 .. n -> Nat] /\ f[0] = 0
    /\ \A k \in 1 .. n : f[k] = IF k \in S THEN f[k - 1] ELSE d[k] * w[k - 1] + f[k - 1]

(* ... and the worth of the digits from the right.                          *)
LEMMA WorthTyped ==
    ASSUME NEW n \in Nat, NEW S, NEW d \in [1 .. n -> Nat], NEW w \in [0 .. n -> Nat]
    PROVE  WorthRuns(n, S, d, w, CHOOSE g : WorthIs(n, S, d, w, g))
<1> DEFINE f == CHOOSE g : WorthIs(n, S, d, w, g)
           next(k, x) == IF k \in S THEN x ELSE d[k] * w[k - 1] + x
           step == [k \in 1 .. n |-> [x \in Nat |-> next(k, x)]]
<1>1. \A g : WorthIs(n, S, d, w, g) <=> g = [k \in 0 .. n |-> IF k = 0 THEN 0 ELSE next(k, g[k - 1])]
  BY DEF WorthIs
<1>2. \A k \in 1 .. n : \A x \in Nat : next(k, x) \in Nat
  <2> SUFFICES ASSUME NEW k \in 1 .. n, NEW x \in Nat PROVE d[k] * w[k - 1] + x \in Nat
    OBVIOUS
  <2>1. d[k] \in Nat /\ w[k - 1] \in Nat
    OBVIOUS
  <2>2. d[k] * w[k - 1] \in Nat
    BY <2>1
  <2> QED
    BY <2>2
<1>3. \A k \in 1 .. n : \A x : next(k, x) = IF k \in S THEN x ELSE d[k] * w[k - 1] + x
  OBVIOUS
<1> HIDE DEF next
<1>4. /\ step \in [1 .. n -> [Nat -> Nat]]
      /\ \A k \in 1 .. n : \A x \in Nat : step[k][x] = next(k, x)
  BY <1>2
<1> HIDE DEF step
<1>5. 0 .. n = {0} \cup 1 .. n /\ 0 \notin 1 .. n /\ \A k \in 1 .. n : k - 1 \in 0 .. n
  OBVIOUS
<1>6. PICK g \in [0 .. n -> Nat] : Follows(g, n, 0, step)
  <2>1. 0 \in Nat
    OBVIOUS
  <2> QED
    BY <1>4, <2>1, CountsUp
<1>7. WorthIs(n, S, d, w, g)
  <2>1. \A k \in 1 .. n : g[k] = next(k, g[k - 1])
    BY <1>4, <1>5, <1>6 DEF Follows
  <2>2. \A k \in 0 .. n : g[k] = IF k = 0 THEN 0 ELSE next(k, g[k - 1])
    BY <1>5, <1>6, <2>1 DEF Follows
  <2>3. g = [k \in 0 .. n |-> g[k]]
    OBVIOUS
  <2>4. g = [k \in 0 .. n |-> IF k = 0 THEN 0 ELSE next(k, g[k - 1])]
    BY <2>2, <2>3
  <2> QED
    BY <1>1, <2>4
<1>8. f = [k \in 0 .. n |-> IF k = 0 THEN 0 ELSE next(k, f[k - 1])]
  <2>1. WorthIs(n, S, d, w, f)
    BY <1>7
  <2> HIDE DEF f
  <2> QED
    BY <1>1, <2>1
<1> HIDE DEF f
<1>9. f[0] = 0 /\ \A k \in 1 .. n : f[k] = next(k, f[k - 1])
  BY <1>5, <1>8
<1>10. \A k \in 0 .. n : f[k] \in Nat
  <2>1. Follows(f, n, 0, step)
    BY <1>4, <1>9 DEF Follows
  <2>2. 0 \in Nat
    OBVIOUS
  <2> QED
    BY <1>4, <2>1, <2>2, Recursion
<1>11. f \in [0 .. n -> Nat]
  <2>1. f = [k \in 0 .. n |-> f[k]]
    BY <1>8
  <2> QED
    BY <1>10, <2>1
<1>12. WorthRuns(n, S, d, w, f)
  BY <1>3, <1>9, <1>11 DEF WorthRuns
<1> QED
  BY <1>12 DEF f

(* The same digits in the other direction                                   *)
Mirror(n, S, T, d, e) == \A k \in 1 .. n : (n - k + 1 \in T <=> k \in S) /\ e[n - k + 1] = d[k]

(* The two directions read the same value.                                  *)
LEMMA ReadsValue ==
    ASSUME NEW Z \in Nat \ {0}, NEW b \in Nat, NEW n \in Nat, NEW S, NEW T,
           NEW d \in [1 .. n -> Nat], NEW e \in [1 .. n -> Nat], Mirror(n, S, T, d, e),
           NEW sum, SumRuns(Z, b, n, S, d, sum),
           NEW weight, WeightRuns(b, n, T, weight),
           NEW worth, WorthRuns(n, T, e, weight, worth)
    PROVE  Accounted(Z, n, sum, worth)
<1>4. /\ sum[0] = 0 /\ weight[0] = 1 /\ worth[0] = 0
      /\ \A k \in 1 .. n : sum[k] = IF k \in S THEN sum[k - 1] ELSE (sum[k - 1] * b + d[k]) % Z
      /\ \A k \in 1 .. n : weight[k] = IF k \in T THEN weight[k - 1] ELSE b * weight[k - 1]
      /\ \A k \in 1 .. n : worth[k] = IF k \in T THEN worth[k - 1] ELSE e[k] * weight[k - 1] + worth[k - 1]
  BY DEF SumRuns, WeightRuns, WorthRuns
<1>5. BothWays(Z, b, n, S, d, sum, weight, worth)
  <2>1. ASSUME NEW k \in 1 .. n
        PROVE  /\ weight[n - k + 1] = IF k \in S THEN weight[n - k] ELSE b * weight[n - k]
               /\ worth[n - k + 1] = IF k \in S THEN worth[n - k] ELSE d[k] * weight[n - k] + worth[n - k]
    <3>1. PICK j \in 1 .. n : j = n - k + 1
      OBVIOUS
    <3>2. j - 1 = n - k
      BY <3>1
    <3>3. (j \in T <=> k \in S) /\ e[j] = d[k]
      BY <3>1 DEF Mirror
    <3>4. /\ weight[j] = IF j \in T THEN weight[j - 1] ELSE b * weight[j - 1]
          /\ worth[j] = IF j \in T THEN worth[j - 1] ELSE e[j] * weight[j - 1] + worth[j - 1]
      BY <1>4
    <3>5. weight[n - k + 1] = IF k \in S THEN weight[n - k] ELSE b * weight[n - k]
      BY <3>1, <3>2, <3>3, <3>4, Zenon
    <3>6. worth[n - k + 1] = IF k \in S THEN worth[n - k] ELSE d[k] * weight[n - k] + worth[n - k]
      BY <3>1, <3>2, <3>3, <3>4, Zenon
    <3> QED
      BY <3>5, <3>6, Zenon
  <2> QED
    BY <1>4, <2>1, Zenon DEF BothWays
<1>6. sum \in [0 .. n -> Nat] /\ weight \in [0 .. n -> Nat] /\ worth \in [0 .. n -> Nat]
  BY DEF SumRuns, WeightRuns, WorthRuns
<1> QED
  BY <1>5, <1>6, Horner
-----------------------------------------------------------------------------
(* What the module says of the current source, said of any source           *)
LEMMA CharAt ==
    /\ \A i : Char(i) = At(text, i)
    /\ \A i : newlineChar(i) = NewlineIn(text, i)
    /\ \A i, j : Slice(i, j) = Piece(text, i, j)
BY DEF Char, At, newlineChar, NewlineIn, Slice, Piece

(* The characters of a source                                               *)
LEMMA SourceChars ==
    ASSUME NEW t \in Source
    PROVE  /\ Len(t) \in Nat
           /\ \A i \in 1 .. Len(t) : At(t, i) = t[i] /\ At(t, i) # "end"
           /\ \A i \in Nat : At(t, i) = "end" => i \notin 1 .. Len(t)
           /\ At(t, Len(t) + 1) = "end" /\ At(t, Len(t) + 2) = "end"
BY DEF Source, At

(* A piece of a source is one, made of the characters of its places.        *)
LEMMA PieceChars ==
    ASSUME NEW t \in Source, NEW i \in 1 .. Len(t) + 1, NEW j \in i .. Len(t) + 1
    PROVE  /\ Piece(t, i, j) \in Source
           /\ Len(Piece(t, i, j)) = j - i /\ DOMAIN Piece(t, i, j) = 1 .. j - i
           /\ \A k \in 1 .. j - i : Piece(t, i, j)[k] = At(t, i + k - 1)
<1> DEFINE T == STRING \ {"end"}
           l == j - 1
<1>1. t \in Seq(T) /\ Len(t) \in Nat /\ i \in Int /\ l \in Int
  BY DEF Source
<1>2. \A k \in i .. l : t[k] \in T
  BY <1>1
<1> HIDE DEF T, l
<1>3. /\ SubSeq(t, i, l) \in Seq(T)
      /\ Len(SubSeq(t, i, l)) = IF i <= l THEN l - i + 1 ELSE 0
      /\ \A k \in 1 .. l - i + 1 : SubSeq(t, i, l)[k] = t[i + k - 1]
  BY <1>1, <1>2, SubSeqProperties
<1> DEFINE s == SubSeq(t, i, l)
<1>4. Piece(t, i, j) = s
  BY DEF Piece, l
<1> HIDE DEF s
<1>5. s \in Seq(T) /\ Len(s) = j - i /\ \A k \in 1 .. j - i : s[k] = t[i + k - 1]
  BY <1>1, <1>3 DEF s, l
<1>6. \A k \in 1 .. j - i : At(t, i + k - 1) = t[i + k - 1]
  BY <1>1 DEF At
<1>7. s \in Source
  BY <1>5 DEF Source, T
<1>8. DOMAIN s = 1 .. j - i
  BY <1>5
<1>9. \A k \in 1 .. j - i : s[k] = At(t, i + k - 1)
  BY <1>5, <1>6
<1> QED
  BY <1>4, <1>5, <1>7, <1>8, <1>9, Zenon

(* The first place where none of the characters is: the end at the latest.  *)
LEMMA PastFinds ==
    ASSUME text \in Source, NEW i \in 1 .. Len(text) + 1, NEW chars, "end" \notin chars
    PROVE  /\ Past(i, chars) \in i .. Len(text) + 1 /\ At(text, Past(i, chars)) \notin chars
           /\ \A k \in i .. Past(i, chars) - 1 : At(text, k) \in chars
<1> DEFINE S == {j \in i .. Len(text) + 1 : At(text, j) \notin chars}
           m == Min(S)
<1>1. Len(text) \in Nat /\ At(text, Len(text) + 1) = "end"
  BY SourceChars
<1>2. Past(i, chars) = m
  BY CharAt DEF Past
<1>3. S \in SUBSET Nat /\ Len(text) + 1 \in S
  BY <1>1
<1>4. m \in S /\ \A j \in S : m <= j
  BY <1>3, Oldest
<1> HIDE DEF m
<1> QED
  BY <1>1, <1>2, <1>4
-----------------------------------------------------------------------------
(* The first character decides what a piece of source can be.               *)
Quoted(s) == Len(s) > 1 /\ {k \in 2 .. Len(s) : s[k] = Quote} = {Len(s)}
Counts(s) == \E base \in {2, 8, 10, 16} : Written(s, base)
Newline(s) == s \in {<<"\n">>, <<"\r">>, <<"\r", "\n">>}

(* The digits of each base, as sets                                         *)
LEMMA DigitSets ==
    /\ Digits(2) = {"0", "1"} /\ Digits(8) = {"0", "1", "7"}
    /\ Digits(10) = {"0", "1", "7", "9"} /\ Digits(16) = {"0", "1", "7", "9", "a", "b", "f"}
    /\ DOMAIN zeroChar = {"b", "o", "x"}
    /\ zeroChar["b"] = 2 /\ zeroChar["o"] = 8 /\ zeroChar["x"] = 16
BY DEF Digits, zeroChar

(* Which tokens a text can be, by its first character                       *)
LEMMA KindsOf ==
    ASSUME NEW s \in Source, s # <<>>
    PROVE  /\ s[1] = Quote => Kinds(s) = IF Quoted(s) THEN {"string"} ELSE {}
           /\ s[1] \in Digits(10) => Kinds(s) = IF Counts(s) THEN {"number"} ELSE {}
           /\ s[1] \in {"\n", "\r"} => Kinds(s) = IF Newline(s) THEN {"nl"} ELSE {}
           /\ s[1] = "." => Kinds(s) = (IF s = <<".", ".", ".">> THEN {"varg"} ELSE {})
                                       \cup (IF Len(s) = 1 THEN {"dot"} ELSE {})
           /\ s[1] \in DOMAIN Single \ {"."} =>
                 Kinds(s) = IF Len(s) = 1 THEN {Single[s[1]]} ELSE {}
           /\ s[1] \in DOMAIN Doubled =>
                 Kinds(s) = (IF Len(s) = 1 THEN {Doubled[s[1]]} ELSE {})
                            \cup (IF Len(s) = 2 /\ s[2] = "=" THEN {WithEq[s[1]]} ELSE {})
           /\ s[1] \notin Starters => Kinds(s) = IF ToSet(Tail(s)) \subseteq isID
                                                 THEN {Keyword(s)} ELSE {}
<1> DEFINE A == IF s[1] = Quote /\ Quoted(s) THEN {"string"} ELSE {}
           B == IF Counts(s) THEN {"number"} ELSE {}
           C == IF Newline(s) THEN {"nl"} ELSE {}
           D == IF s = <<".", ".", ".">> THEN {"varg"} ELSE {}
           E == IF Len(s) = 1 /\ s[1] \in DOMAIN Single THEN {Single[s[1]]} ELSE {}
           F == IF Len(s) = 1 /\ s[1] \in DOMAIN Doubled THEN {Doubled[s[1]]} ELSE {}
           G == IF Len(s) = 2 /\ s[1] \in DOMAIN Doubled /\ s[2] = "=" THEN {WithEq[s[1]]} ELSE {}
           H == IF IsWord(s) THEN {Keyword(s)} ELSE {}
<1>1. Kinds(s) = UNION {A, B, C, D, E, F, G, H}
  BY DEF Kinds, Quoted, Counts, Newline
<1>2. Kinds(s) = A \cup B \cup C \cup D \cup E \cup F \cup G \cup H
  <2> HIDE DEF A, B, C, D, E, F, G, H
  <2> QED
    BY <1>1
<1>3. Counts(s) => s[1] \in Digits(10)
  BY DigitSets DEF Counts, Written
<1>4. Newline(s) => s[1] \in {"\n", "\r"}
  BY DEF Newline
<1>5. s = <<".", ".", ".">> => s[1] = "." /\ Len(s) = 3
  OBVIOUS
<1>6. DOMAIN Single = {"(", ")", "{", "}", "[", "]", ".", ",", ":", ";", "#", "?", "@", "$", "\\", "~"}
      /\ Single["."] = "dot"
  BY DEF Single
<1>7. DOMAIN Doubled = {"+", "-", "*", "/", "%", "&", "|", "<", ">", "^", "!", "="}
  BY DEF Doubled
<1>8. IsWord(s) <=> s[1] \notin Starters /\ ToSet(Tail(s)) \subseteq isID
  BY DEF IsWord
<1>9. Quote = "\"" /\ Starters = {" ", "\n", "\r", Quote} \cup Digits(10) \cup DOMAIN Doubled
                                 \cup DOMAIN Single
  BY DEF Quote, Starters
<1> HIDE DEF A, B, C, D, E, F, G, H
<1>10. s[1] = Quote => Kinds(s) = IF Quoted(s) THEN {"string"} ELSE {}
  <2> SUFFICES ASSUME s[1] = Quote PROVE Kinds(s) = IF Quoted(s) THEN {"string"} ELSE {}
    OBVIOUS
  <2>1. B = {} /\ C = {} /\ D = {} /\ E = {} /\ F = {} /\ G = {} /\ H = {}
    BY <1>3, <1>4, <1>5, <1>6, <1>7, <1>8, <1>9, DigitSets DEF B, C, D, E, F, G, H
  <2> QED
    BY <1>2, <2>1 DEF A
<1>11. s[1] \in Digits(10) => Kinds(s) = IF Counts(s) THEN {"number"} ELSE {}
  <2> SUFFICES ASSUME s[1] \in Digits(10) PROVE Kinds(s) = IF Counts(s) THEN {"number"} ELSE {}
    OBVIOUS
  <2>1. A = {} /\ C = {} /\ D = {} /\ E = {} /\ F = {} /\ G = {} /\ H = {}
    BY <1>4, <1>5, <1>6, <1>7, <1>8, <1>9, DigitSets DEF A, C, D, E, F, G, H
  <2> QED
    BY <1>2, <2>1 DEF B
<1>12. s[1] \in {"\n", "\r"} => Kinds(s) = IF Newline(s) THEN {"nl"} ELSE {}
  <2> SUFFICES ASSUME s[1] \in {"\n", "\r"} PROVE Kinds(s) = IF Newline(s) THEN {"nl"} ELSE {}
    OBVIOUS
  <2>1. A = {} /\ B = {} /\ D = {} /\ E = {} /\ F = {} /\ G = {} /\ H = {}
    BY <1>3, <1>5, <1>6, <1>7, <1>8, <1>9, DigitSets DEF A, B, D, E, F, G, H
  <2> QED
    BY <1>2, <2>1 DEF C
<1>13. s[1] = "." => Kinds(s) = (IF s = <<".", ".", ".">> THEN {"varg"} ELSE {})
                                \cup (IF Len(s) = 1 THEN {"dot"} ELSE {})
  <2> SUFFICES ASSUME s[1] = "."
               PROVE  Kinds(s) = (IF s = <<".", ".", ".">> THEN {"varg"} ELSE {})
                                 \cup (IF Len(s) = 1 THEN {"dot"} ELSE {})
    OBVIOUS
  <2>1. A = {} /\ B = {} /\ C = {} /\ F = {} /\ G = {} /\ H = {}
    BY <1>3, <1>4, <1>6, <1>7, <1>8, <1>9, DigitSets DEF A, B, C, F, G, H
  <2>2. E = IF Len(s) = 1 THEN {"dot"} ELSE {}
    BY <1>6 DEF E
  <2> QED
    BY <1>2, <2>1, <2>2 DEF D
<1>14. s[1] \in DOMAIN Single \ {"."} => Kinds(s) = IF Len(s) = 1 THEN {Single[s[1]]} ELSE {}
  <2> SUFFICES ASSUME s[1] \in DOMAIN Single \ {"."}
               PROVE  Kinds(s) = IF Len(s) = 1 THEN {Single[s[1]]} ELSE {}
    OBVIOUS
  <2>1. A = {} /\ B = {} /\ C = {} /\ D = {} /\ F = {} /\ G = {} /\ H = {}
    BY <1>3, <1>4, <1>5, <1>6, <1>7, <1>8, <1>9, DigitSets DEF A, B, C, D, F, G, H
  <2> QED
    BY <1>2, <2>1 DEF E
<1>15. s[1] \in DOMAIN Doubled =>
          Kinds(s) = (IF Len(s) = 1 THEN {Doubled[s[1]]} ELSE {})
                     \cup (IF Len(s) = 2 /\ s[2] = "=" THEN {WithEq[s[1]]} ELSE {})
  <2> SUFFICES ASSUME s[1] \in DOMAIN Doubled
               PROVE  Kinds(s) = (IF Len(s) = 1 THEN {Doubled[s[1]]} ELSE {})
                                 \cup (IF Len(s) = 2 /\ s[2] = "=" THEN {WithEq[s[1]]} ELSE {})
    OBVIOUS
  <2>1. A = {} /\ B = {} /\ C = {} /\ D = {} /\ E = {} /\ H = {}
    BY <1>3, <1>4, <1>5, <1>6, <1>7, <1>8, <1>9, DigitSets DEF A, B, C, D, E, H
  <2> QED
    BY <1>2, <2>1 DEF F, G
<1>16. s[1] \notin Starters =>
          Kinds(s) = IF ToSet(Tail(s)) \subseteq isID THEN {Keyword(s)} ELSE {}
  <2> SUFFICES ASSUME s[1] \notin Starters
               PROVE  Kinds(s) = IF ToSet(Tail(s)) \subseteq isID THEN {Keyword(s)} ELSE {}
    OBVIOUS
  <2>1. A = {} /\ B = {} /\ C = {} /\ D = {} /\ E = {} /\ F = {} /\ G = {}
    BY <1>3, <1>4, <1>5, <1>6, <1>7, <1>9, DigitSets DEF A, B, C, D, E, F, G
  <2> QED
    BY <1>2, <1>8, <2>1 DEF H
<1> QED
  BY <1>10, <1>11, <1>12, <1>13, <1>14, <1>15, <1>16, Zenon
-----------------------------------------------------------------------------
(* A token that fits at a place: it is not empty, does not end inside a     *)
(* newline, and is the longest piece that is a token, or a text that goes   *)
(* to the end of the source without being closed.                           *)
Open(t, i) == {k \in i .. Len(t) : t[k] = Quote} = {i}
Best(t, i, tok) == /\ tok.token \in Kinds(Piece(t, i, tok.upto))
                   /\ \A j \in tok.upto + 1 .. Len(t) + 1 : Kinds(Piece(t, i, j)) = {}
Fits(t, i, tok) ==
    /\ tok.token \in Tokens \ {"eof"}
    /\ tok.upto \in i + 1 .. Len(t) + 1
    /\ ~ Mid(t, tok.upto)
    /\ \/ tok.token = "string" /\ tok.upto = Len(t) + 1 /\ Open(t, i)
       \/ Best(t, i, tok)

(* A piece begins with the character of its place.                          *)
LEMMA PieceBegins ==
    ASSUME NEW t \in Source, NEW i \in 1 .. Len(t), NEW j \in i + 1 .. Len(t) + 1
    PROVE  /\ Piece(t, i, j) \in Source /\ Piece(t, i, j) # <<>>
           /\ Len(Piece(t, i, j)) = j - i
           /\ Piece(t, i, j)[1] = At(t, i)
           /\ \A k \in 1 .. j - i : Piece(t, i, j)[k] = At(t, i + k - 1)
<1>1. Len(t) \in Nat
  BY SourceChars
<1>2. i \in 1 .. Len(t) + 1 /\ j \in i .. Len(t) + 1 /\ j - i >= 1
  BY <1>1
<1>3. /\ Piece(t, i, j) \in Source
      /\ Len(Piece(t, i, j)) = j - i
      /\ \A k \in 1 .. j - i : Piece(t, i, j)[k] = At(t, i + k - 1)
  BY <1>2, PieceChars
<1>4. Piece(t, i, j)[1] = At(t, i + 1 - 1) /\ i + 1 - 1 = i
  BY <1>1, <1>2, <1>3
<1>5. Len(<<>>) = 0 /\ j - i # 0
  BY <1>2
<1> QED
  BY <1>3, <1>4, <1>5

(* A text in quotes fits, or is open to the end of the source.              *)
LEMMA StringFits ==
    ASSUME text \in Source, NEW i \in 1 .. Len(text), At(text, i) = Quote
    PROVE  Fits(text, i, String(i))
<1> DEFINE S == {j \in i + 1 .. Len(text) + 1 : At(text, j) \in {Quote, "end"}}
           close == Min(S)
           n == Len(text)
<1>1. n \in Nat /\ At(text, n + 1) = "end" /\ \A k \in 1 .. n : At(text, k) = text[k]
  BY SourceChars
<1>2. S \in SUBSET Nat /\ n + 1 \in S
  BY <1>1
<1>3. close \in S /\ \A j \in S : close <= j
  BY <1>2, Oldest
<1>4. String(i) = Tok("string", IF At(text, close) = Quote THEN close + 1 ELSE close)
  BY CharAt DEF String
<1> HIDE DEF close
<1>5. /\ close \in i + 1 .. n + 1 /\ At(text, close) \in {Quote, "end"}
      /\ \A k \in i + 1 .. close - 1 : At(text, k) # Quote
  BY <1>1, <1>3
<1>6. Quote # "end" /\ Quote # "\n" /\ Quote # "\r"
  BY DEF Quote
<1>7. "string" \in Tokens \ {"eof"}
  BY DEF Tokens
<1>8. CASE At(text, close) = Quote
  <2>1. close \in i + 1 .. n
    BY <1>1, <1>5, <1>6, <1>8
  <2>2. PICK e \in i + 2 .. n + 1 : e = close + 1
    BY <1>1, <2>1
  <2>3. e \in i + 1 .. n + 1 /\ e - i \in 2 .. n /\ i \in Nat
    BY <1>1
  <2> DEFINE tok == Tok("string", e)
             s == Piece(text, i, e)
  <2>4. tok.token = "string" /\ tok.upto = e /\ String(i) = tok
    BY <1>4, <1>8, <2>2 DEF Tok
  <2>5. s \in Source /\ s # <<>> /\ Len(s) = e - i /\ s[1] = Quote
        /\ \A k \in 1 .. e - i : s[k] = At(text, i + k - 1)
    BY <2>3, PieceBegins
  <2> HIDE DEF s
  <2>6. {k \in 2 .. Len(s) : s[k] = Quote} = {Len(s)}
    <3>1. Len(s) \in 2 .. Len(s) /\ s[Len(s)] = At(text, i + Len(s) - 1) /\ i + Len(s) - 1 = close
      BY <1>1, <2>1, <2>2, <2>3, <2>5
    <3>2. ASSUME NEW k \in 2 .. Len(s), k # Len(s) PROVE s[k] # Quote
      <4>1. k \in 1 .. e - i /\ i + k - 1 \in i + 1 .. close - 1
        BY <1>1, <2>1, <2>2, <2>3, <2>5, <3>2, SMTT(30)
      <4> QED
        BY <1>5, <2>5, <4>1, SMTT(30)
    <3> QED
      BY <1>8, <3>1, <3>2
  <2>7. "string" \in Kinds(s)
    BY <2>3, <2>5, <2>6, KindsOf, SMTT(30) DEF Quoted
  <2>8. ASSUME NEW j \in e + 1 .. n + 1 PROVE Kinds(Piece(text, i, j)) = {}
    <3> DEFINE r == Piece(text, i, j)
    <3>1. j \in i + 1 .. n + 1
      BY <1>1, <2>3
    <3>2. r \in Source /\ r # <<>> /\ Len(r) = j - i /\ r[1] = Quote
          /\ \A k \in 1 .. j - i : r[k] = At(text, i + k - 1)
      BY <3>1, PieceBegins
    <3> HIDE DEF r
    <3>3. /\ e - i \in 1 .. j - i /\ e - i \in 2 .. Len(r) /\ e - i # Len(r)
          /\ i + (e - i) - 1 = close
      BY <1>1, <2>1, <2>2, <2>3, <3>1, <3>2
    <3>4. r[e - i] = Quote
      BY <1>8, <3>2, <3>3
    <3>5. ~ Quoted(r)
      BY <3>3, <3>4 DEF Quoted
    <3> QED
      BY <3>2, <3>5, KindsOf DEF r
  <2>9. Best(text, i, tok)
    BY <1>1, <2>3, <2>4, <2>7, <2>8 DEF Best, s
  <2>10. ~ Mid(text, e)
    <3>1. e - 1 = close
      BY <2>1, <2>2
    <3> QED
      BY <1>6, <1>8, <3>1 DEF Mid
  <2> QED
    BY <1>7, <2>3, <2>4, <2>9, <2>10 DEF Fits
<1>9. CASE At(text, close) = "end"
  <2> DEFINE tok == Tok("string", close)
  <2>1. close = n + 1
    BY <1>5, <1>9, SourceChars
  <2>2. tok.token = "string" /\ tok.upto = n + 1 /\ String(i) = tok
    BY <1>4, <1>6, <1>9, <2>1 DEF Tok
  <2>3. Open(text, i)
    BY <1>1, <1>5, <2>1 DEF Open
  <2>4. ~ Mid(text, n + 1)
    BY <1>1 DEF Mid
  <2> QED
    BY <1>1, <1>7, <2>2, <2>3, <2>4 DEF Fits
<1> QED
  BY <1>5, <1>8, <1>9
-----------------------------------------------------------------------------
(* Pieces of one, two and three characters                                  *)
LEMMA ShortPieces ==
    ASSUME NEW s \in Source
    PROVE  /\ Len(s) = 1 => s = <<s[1]>>
           /\ Len(s) = 2 => s = <<s[1], s[2]>>
           /\ Len(s) = 3 => s = <<s[1], s[2], s[3]>>
<1> DEFINE T == STRING \ {"end"}
<1>1. s \in Seq(T)
  BY DEF Source
<1> HIDE DEF T
<1>2. Len(s) = 1 => s = <<s[1]>>
  BY <1>1
<1>3. Len(s) = 2 => s = <<s[1], s[2]>>
  BY <1>1
<1>4. Len(s) = 3 => s = <<s[1], s[2], s[3]>>
  BY <1>1
<1> QED
  BY <1>2, <1>3, <1>4

(* All characters, those behind the first, and those behind the second      *)
LEMMA CharSets ==
    ASSUME NEW s \in Source, s # <<>>, NEW C
    PROVE  /\ ToSet(s) \subseteq C <=> \A k \in 1 .. Len(s) : s[k] \in C
           /\ ToSet(Tail(s)) \subseteq C <=> \A k \in 2 .. Len(s) : s[k] \in C
           /\ Len(s) >= 2 => (ToSet(SubSeq(s, 3, Len(s))) \subseteq C
                              <=> \A k \in 3 .. Len(s) : s[k] \in C)
<1> DEFINE T == STRING \ {"end"}
           n == Len(s)
<1>1. s \in Seq(T) /\ n \in Nat /\ n >= 1 /\ DOMAIN s = 1 .. n
  BY DEF Source
<1> HIDE DEF T
<1>2. ToSet(s) \subseteq C <=> \A k \in 1 .. n : s[k] \in C
  BY <1>1 DEF ToSet
<1>3. ToSet(Tail(s)) \subseteq C <=> \A k \in 2 .. n : s[k] \in C
  <2>1. DOMAIN Tail(s) = 1 .. n - 1 /\ \A k \in 1 .. n - 1 : Tail(s)[k] = s[k + 1]
    BY <1>1
  <2>2. ToSet(Tail(s)) \subseteq C <=> \A k \in 1 .. n - 1 : s[k + 1] \in C
    BY <2>1 DEF ToSet
  <2>3. ASSUME \A k \in 1 .. n - 1 : s[k + 1] \in C, NEW k \in 2 .. n PROVE s[k] \in C
    <3>1. k - 1 \in 1 .. n - 1 /\ k - 1 + 1 = k
      BY <1>1
    <3> QED
      BY <2>3, <3>1
  <2>4. ASSUME \A k \in 2 .. n : s[k] \in C, NEW k \in 1 .. n - 1 PROVE s[k + 1] \in C
    BY <1>1, <2>4
  <2> QED
    BY <2>2, <2>3, <2>4
<1>4. n >= 2 => (ToSet(SubSeq(s, 3, n)) \subseteq C <=> \A k \in 3 .. n : s[k] \in C)
  <2> SUFFICES ASSUME n >= 2
               PROVE  ToSet(SubSeq(s, 3, n)) \subseteq C <=> \A k \in 3 .. n : s[k] \in C
    OBVIOUS
  <2> DEFINE r == SubSeq(s, 3, n)
  <2>0. 3 \in Int /\ n \in Int /\ \A k \in 3 .. n : s[k] \in T
    BY <1>1
  <2>1. /\ r \in Seq(T) /\ Len(r) = IF 3 <= n THEN n - 3 + 1 ELSE 0
        /\ \A k \in 1 .. n - 3 + 1 : r[k] = s[3 + k - 1]
    BY <2>0, <1>1, SubSeqProperties
  <2> HIDE DEF r
  <2>2. DOMAIN r = 1 .. n - 2 /\ \A k \in 1 .. n - 2 : r[k] = s[k + 2]
    <3>0. n - 3 + 1 = n - 2 /\ (3 <= n \/ n - 2 = 0)
      BY <1>1
    <3>1. Len(r) = n - 2 /\ n - 3 + 1 = n - 2
      BY <2>1, <3>0
    <3>2. DOMAIN r = 1 .. n - 2
      BY <2>1, <3>1
    <3>3. \A k \in 1 .. n - 2 : 3 + k - 1 = k + 2
      BY <1>1
    <3> QED
      BY <2>1, <3>1, <3>2, <3>3
  <2>3. ToSet(r) \subseteq C <=> \A k \in 1 .. n - 2 : s[k + 2] \in C
    BY <2>2 DEF ToSet
  <2>4. ASSUME \A k \in 1 .. n - 2 : s[k + 2] \in C, NEW k \in 3 .. n PROVE s[k] \in C
    <3>1. k - 2 \in 1 .. n - 2 /\ k - 2 + 2 = k
      BY <1>1
    <3> QED
      BY <2>4, <3>1
  <2>5. ASSUME \A k \in 3 .. n : s[k] \in C, NEW k \in 1 .. n - 2 PROVE s[k + 2] \in C
    BY <1>1, <2>5
  <2> QED
    BY <2>3, <2>4, <2>5 DEF r
<1> QED
  BY <1>2, <1>3, <1>4

(* The same of a piece of the source, said of the places in it              *)
LEMMA PieceSets ==
    ASSUME NEW t \in Source, NEW i \in 1 .. Len(t), NEW j \in i + 1 .. Len(t) + 1, NEW C
    PROVE  /\ ToSet(Piece(t, i, j)) \subseteq C <=> \A k \in i .. j - 1 : At(t, k) \in C
           /\ ToSet(Tail(Piece(t, i, j))) \subseteq C <=> \A k \in i + 1 .. j - 1 : At(t, k) \in C
           /\ j >= i + 2 =>
                 (ToSet(SubSeq(Piece(t, i, j), 3, Len(Piece(t, i, j)))) \subseteq C
                  <=> \A k \in i + 2 .. j - 1 : At(t, k) \in C)
<1> DEFINE s == Piece(t, i, j)
<1>1. /\ s \in Source /\ s # <<>> /\ Len(s) = j - i
      /\ \A k \in 1 .. j - i : s[k] = At(t, i + k - 1)
  BY PieceBegins
<1>2. i \in Nat /\ j \in Nat /\ j >= i + 1 /\ i >= 1
  BY SourceChars
<1> HIDE DEF s
<1>3. ASSUME NEW m \in 1 .. 3
      PROVE  (\A k \in m .. j - i : s[k] \in C) <=> \A k \in i + m - 1 .. j - 1 : At(t, k) \in C
  <2>1. ASSUME \A k \in m .. j - i : s[k] \in C, NEW k \in i + m - 1 .. j - 1
        PROVE  At(t, k) \in C
    <3>1. k - i + 1 \in m .. j - i /\ k - i + 1 \in 1 .. j - i /\ i + (k - i + 1) - 1 = k
      BY <1>2
    <3> QED
      BY <1>1, <2>1, <3>1
  <2>2. ASSUME \A k \in i + m - 1 .. j - 1 : At(t, k) \in C, NEW k \in m .. j - i
        PROVE  s[k] \in C
    <3>1. i + k - 1 \in i + m - 1 .. j - 1 /\ k \in 1 .. j - i
      BY <1>2
    <3> QED
      BY <1>1, <2>2, <3>1
  <2> QED
    BY <2>1, <2>2
<1>4. i + 1 - 1 = i /\ i + 2 - 1 = i + 1 /\ i + 3 - 1 = i + 2
  BY <1>2
<1>5. /\ (\A k \in 1 .. j - i : s[k] \in C) <=> \A k \in i .. j - 1 : At(t, k) \in C
      /\ (\A k \in 2 .. j - i : s[k] \in C) <=> \A k \in i + 1 .. j - 1 : At(t, k) \in C
      /\ (\A k \in 3 .. j - i : s[k] \in C) <=> \A k \in i + 2 .. j - 1 : At(t, k) \in C
  <2>1. 1 \in 1 .. 3 /\ 2 \in 1 .. 3 /\ 3 \in 1 .. 3
    OBVIOUS
  <2>2. (\A k \in 1 .. j - i : s[k] \in C) <=> \A k \in i + 1 - 1 .. j - 1 : At(t, k) \in C
    BY <1>3, <2>1
  <2>3. (\A k \in 2 .. j - i : s[k] \in C) <=> \A k \in i + 2 - 1 .. j - 1 : At(t, k) \in C
    BY <1>3, <2>1
  <2>4. (\A k \in 3 .. j - i : s[k] \in C) <=> \A k \in i + 3 - 1 .. j - 1 : At(t, k) \in C
    BY <1>3, <2>1
  <2>5. i + 1 - 1 = i /\ i + 2 - 1 = i + 1 /\ i + 3 - 1 = i + 2
    BY <1>4
  <2> QED
    BY <2>2, <2>3, <2>4, <2>5, Zenon
<1>6. j >= i + 2 => j - i >= 2
  BY <1>2
<1>7. /\ ToSet(s) \subseteq C <=> \A k \in 1 .. Len(s) : s[k] \in C
      /\ ToSet(Tail(s)) \subseteq C <=> \A k \in 2 .. Len(s) : s[k] \in C
      /\ Len(s) >= 2 => (ToSet(SubSeq(s, 3, Len(s))) \subseteq C
                         <=> \A k \in 3 .. Len(s) : s[k] \in C)
  BY <1>1, CharSets
<1> QED
  BY <1>1, <1>5, <1>6, <1>7, Zenon DEF s

(* What it means of the places that a piece is written in the base 10 ...   *)
LEMMA PieceDecimal ==
    ASSUME NEW t \in Source, NEW i \in 1 .. Len(t), NEW j \in i + 1 .. Len(t) + 1
    PROVE  Written(Piece(t, i, j), 10) <=> /\ At(t, i) \in Digits(10)
                                           /\ \A k \in i .. j - 1 : At(t, k) \in Digits(10) \cup {"_"}
<1> DEFINE s == Piece(t, i, j)
<1>1. s # <<>> /\ s[1] = At(t, i)
  BY PieceBegins
<1>2. \A C : ToSet(s) \subseteq C <=> \A k \in i .. j - 1 : At(t, k) \in C
  BY PieceSets
<1> HIDE DEF s
<1>3. Written(s, 10) <=> /\ At(t, i) \in Digits(10)
                         /\ \A k \in i .. j - 1 : At(t, k) \in Digits(10) \cup {"_"}
  BY <1>1, <1>2 DEF Written
<1> QED
  BY <1>3 DEF s

(* ... or, behind 0 and a letter, in another base                           *)
LEMMA PiecePrefixed ==
    ASSUME NEW t \in Source, NEW i \in 1 .. Len(t), NEW j \in i + 1 .. Len(t) + 1,
           NEW base, base # 10
    PROVE  Written(Piece(t, i, j), base) <=>
              /\ j >= i + 2 /\ At(t, i) = "0" /\ At(t, i + 1) \in DOMAIN zeroChar
              /\ zeroChar[At(t, i + 1)] = base
              /\ \A k \in i + 2 .. j - 1 : At(t, k) \in Digits(base) \cup {"_"}
<1> DEFINE s == Piece(t, i, j)
<1>1. /\ s \in Source /\ s # <<>> /\ Len(s) = j - i /\ s[1] = At(t, i)
      /\ \A k \in 1 .. j - i : s[k] = At(t, i + k - 1)
  BY PieceBegins
<1>2. i \in Nat /\ j \in Nat /\ j >= i + 1
  BY SourceChars
<1>3. j >= i + 2 => \A C : ToSet(SubSeq(s, 3, Len(s))) \subseteq C
                            <=> \A k \in i + 2 .. j - 1 : At(t, k) \in C
  BY PieceSets
<1> HIDE DEF s
<1>4. Written(s, base) <=>
         /\ j >= i + 2 /\ At(t, i) = "0" /\ At(t, i + 1) \in DOMAIN zeroChar
         /\ zeroChar[At(t, i + 1)] = base
         /\ \A k \in i + 2 .. j - 1 : At(t, k) \in Digits(base) \cup {"_"}
  <2> DEFINE C == Digits(base) \cup {"_"}
             X == ToSet(SubSeq(s, 3, Len(s)))
  <2>2. Len(s) >= 2 <=> j >= i + 2
    BY <1>1, <1>2
  <2>3. j >= i + 2 => s[2] = At(t, i + 1)
    <3>1. j >= i + 2 => 2 \in 1 .. j - i /\ i + 2 - 1 = i + 1
      BY <1>2
    <3> QED
      BY <1>1, <3>1
  <2>4. j >= i + 2 => (X \subseteq C
                       <=> \A k \in i + 2 .. j - 1 : At(t, k) \in C)
    BY <1>3
  <2>5. Written(s, base) <=> /\ Len(s) >= 2 /\ s[1] = "0" /\ s[2] \in DOMAIN zeroChar
                             /\ zeroChar[s[2]] = base
                             /\ X \subseteq C
    BY Zenon DEF Written
  <2> HIDE DEF C, X
  <2>6. Written(s, base) <=> /\ j >= i + 2 /\ At(t, i) = "0" /\ At(t, i + 1) \in DOMAIN zeroChar
                             /\ zeroChar[At(t, i + 1)] = base
                             /\ \A k \in i + 2 .. j - 1 : At(t, k) \in C
    BY <1>1, <2>2, <2>3, <2>4, <2>5
  <2> QED
    BY <2>6 DEF C
<1> QED
  BY <1>4 DEF s
-----------------------------------------------------------------------------
(* Each kind of token fits.                                                 *)
LEMMA PrefixedFits ==
    ASSUME text \in Source, NEW i \in 1 .. Len(text), At(text, i) = "0",
           At(text, i + 1) \in DOMAIN zeroChar
    PROVE  Fits(text, i, Number(i + 2, zeroChar[At(text, i + 1)]))
<1> DEFINE n == Len(text)
           base == zeroChar[At(text, i + 1)]
           C == Digits(base) \cup {"_"}
           upto == Past(i + 2, C)
           tok == Number(i + 2, base)
<1>1. n \in Nat /\ At(text, n + 1) = "end" /\ i \in Nat
  BY SourceChars
<1>2. At(text, i + 1) \in {"b", "o", "x"}
  BY DigitSets
<1>3. i + 1 \in 1 .. n
  BY <1>1, <1>2
<1>4. base \in {2, 8, 16} /\ "end" \notin C /\ "\r" \notin C
  BY <1>2, DigitSets
<1>5. tok.token = "number" /\ tok.upto = upto
  BY DEF Number
<1> HIDE DEF base, C, upto, tok
<1>6. i + 2 \in 1 .. n + 1
  BY <1>1, <1>3
<1>7. upto \in i + 2 .. n + 1 /\ At(text, upto) \notin C
      /\ \A k \in i + 2 .. upto - 1 : At(text, k) \in C
  BY <1>4, <1>6, PastFinds DEF upto
<1>8. upto \in i + 1 .. n + 1
  BY <1>1, <1>7
<1>9. \A b : \A j \in i + 1 .. n + 1 : b # 10 =>
         (Written(Piece(text, i, j), b) <=>
            /\ j >= i + 2 /\ b = base
            /\ \A k \in i + 2 .. j - 1 : At(text, k) \in Digits(b) \cup {"_"})
  <2> SUFFICES ASSUME NEW b, NEW j \in i + 1 .. n + 1, b # 10
               PROVE  Written(Piece(text, i, j), b) <=>
                         /\ j >= i + 2 /\ b = base
                         /\ \A k \in i + 2 .. j - 1 : At(text, k) \in Digits(b) \cup {"_"}
    OBVIOUS
  <2>1. Written(Piece(text, i, j), b) <=>
           /\ j >= i + 2 /\ At(text, i) = "0" /\ At(text, i + 1) \in DOMAIN zeroChar
           /\ base = b
           /\ \A k \in i + 2 .. j - 1 : At(text, k) \in Digits(b) \cup {"_"}
    BY PiecePrefixed DEF base
  <2> QED
    BY <2>1, Zenon
<1>10. \A j \in i + 1 .. n + 1 : Written(Piece(text, i, j), base) <=>
            j >= i + 2 /\ \A k \in i + 2 .. j - 1 : At(text, k) \in C
  <2>1. base # 10
    BY <1>4
  <2> QED
    BY <1>9, <2>1, Zenon DEF C
<1>11. \A j \in i + 1 .. n + 1 : /\ Piece(text, i, j) \in Source /\ Piece(text, i, j) # <<>>
                                 /\ Piece(text, i, j)[1] = "0"
  BY PieceBegins
<1>12. "0" \in Digits(10)
  BY DigitSets
<1>13. "number" \in Kinds(Piece(text, i, upto))
  <2>1. Written(Piece(text, i, upto), base)
    BY <1>1, <1>7, <1>8, <1>10
  <2>2. Counts(Piece(text, i, upto))
    BY <1>4, <2>1 DEF Counts
  <2> QED
    BY <1>8, <1>11, <1>12, <2>2, KindsOf
<1>14. ASSUME NEW j \in upto + 1 .. n + 1 PROVE Kinds(Piece(text, i, j)) = {}
  <2>1. j \in i + 1 .. n + 1 /\ i + 1 \in i .. j - 1 /\ upto \in i + 2 .. j - 1
    BY <1>1, <1>7
  <2>2. ~ Written(Piece(text, i, j), base)
    BY <1>7, <1>10, <2>1
  <2>3. ~ Written(Piece(text, i, j), 10)
    <3>1. At(text, i + 1) \notin Digits(10) \cup {"_"}
      BY <1>2, DigitSets
    <3> QED
      BY <2>1, <3>1, PieceDecimal
  <2>4. \A b : b # 10 /\ b # base => ~ Written(Piece(text, i, j), b)
    BY <1>9, <2>1
  <2>5. ~ Counts(Piece(text, i, j))
    BY <1>4, <2>2, <2>3, <2>4 DEF Counts
  <2> QED
    BY <1>11, <1>12, <2>1, <2>5, KindsOf
<1>15. ~ Mid(text, upto)
  <2>1. CASE upto = i + 2
    <3>1. At(text, upto - 1) # "\r"
      BY <1>1, <1>2, <2>1
    <3> QED
      BY <3>1 DEF Mid
  <2>2. CASE upto # i + 2
    <3>1. upto - 1 \in i + 2 .. upto - 1
      BY <1>1, <1>7, <2>2
    <3> QED
      BY <1>4, <1>7, <3>1 DEF Mid
  <2> QED
    BY <2>1, <2>2
<1>16. tok.token \in Tokens \ {"eof"}
  BY <1>5 DEF Tokens
<1>17. Best(text, i, tok)
  BY <1>1, <1>5, <1>8, <1>13, <1>14 DEF Best
<1>18. Fits(text, i, tok)
  BY <1>5, <1>8, <1>15, <1>16, <1>17 DEF Fits
<1> QED
  BY <1>18 DEF tok, base

(* A decimal number                                                         *)
LEMMA DecimalFits ==
    ASSUME text \in Source, NEW i \in 1 .. Len(text), At(text, i) \in Digits(10),
           ~ (At(text, i) = "0" /\ At(text, i + 1) \in DOMAIN zeroChar)
    PROVE  Fits(text, i, Number(i, 10))
<1> DEFINE n == Len(text)
           C == Digits(10) \cup {"_"}
           upto == Past(i, C)
           tok == Number(i, 10)
<1>1. n \in Nat /\ i \in 1 .. n + 1 /\ i \in Nat
  BY SourceChars
<1>2. "end" \notin C /\ "\r" \notin C
  BY DigitSets
<1>3. tok.token = "number" /\ tok.upto = upto
  BY DEF Number
<1> HIDE DEF upto, tok
<1>4. upto \in i .. n + 1 /\ At(text, upto) \notin C
      /\ \A k \in i .. upto - 1 : At(text, k) \in C
  <2> HIDE DEF C
  <2> QED
    BY <1>1, <1>2, PastFinds DEF upto
<1>5. upto \in i + 1 .. n + 1
  <2> HIDE DEF C
  <2>1. upto # i
    BY <1>4 DEF C
  <2> QED
    BY <1>1, <1>4, <2>1
<1>6. \A j \in i + 1 .. n + 1 : Written(Piece(text, i, j), 10) <=>
            \A k \in i .. j - 1 : At(text, k) \in C
  BY PieceDecimal
<1>7. \A j \in i + 1 .. n + 1 : \A b : b # 10 => ~ Written(Piece(text, i, j), b)
  <2> SUFFICES ASSUME NEW j \in i + 1 .. n + 1, NEW b, b # 10
               PROVE  ~ Written(Piece(text, i, j), b)
    OBVIOUS
  <2>1. Written(Piece(text, i, j), b) => At(text, i) = "0" /\ At(text, i + 1) \in DOMAIN zeroChar
    BY PiecePrefixed
  <2> QED
    BY <2>1
<1>8. \A j \in i + 1 .. n + 1 : /\ Piece(text, i, j) \in Source /\ Piece(text, i, j) # <<>>
                                /\ Piece(text, i, j)[1] \in Digits(10)
  BY PieceBegins
<1> HIDE DEF C
<1>9. "number" \in Kinds(Piece(text, i, upto))
  <2>1. Counts(Piece(text, i, upto))
    BY <1>4, <1>5, <1>6 DEF Counts
  <2> QED
    BY <1>5, <1>8, <2>1, KindsOf
<1>10. ASSUME NEW j \in upto + 1 .. n + 1 PROVE Kinds(Piece(text, i, j)) = {}
  <2>1. j \in i + 1 .. n + 1 /\ upto \in i .. j - 1
    BY <1>1, <1>5
  <2>2. ~ Counts(Piece(text, i, j))
    BY <1>4, <1>6, <1>7, <2>1 DEF Counts
  <2> QED
    BY <1>8, <2>1, <2>2, KindsOf
<1>11. ~ Mid(text, upto)
  <2>1. upto - 1 \in i .. upto - 1
    BY <1>1, <1>5
  <2> QED
    BY <1>2, <1>4, <2>1 DEF Mid
<1>12. tok.token \in Tokens \ {"eof"}
  BY <1>3 DEF Tokens
<1>13. Best(text, i, tok)
  BY <1>1, <1>3, <1>5, <1>9, <1>10 DEF Best
<1>14. Fits(text, i, tok)
  BY <1>3, <1>5, <1>11, <1>12, <1>13 DEF Fits
<1> QED
  BY <1>14 DEF tok

(* A name, or a keyword                                                     *)
LEMMA WordFits ==
    ASSUME text \in Source, NEW i \in 1 .. Len(text), At(text, i) \notin Starters
    PROVE  Fits(text, i, Word(i))
<1> DEFINE n == Len(text)
           upto == Past(i + 1, isID)
           tok == Word(i)
<1>1. n \in Nat /\ i + 1 \in 1 .. n + 1 /\ i \in Nat
  BY SourceChars
<1>2. "end" \notin isID /\ "\r" \notin isID /\ At(text, i) # "\r"
  BY DEF isID, Starters
<1>3. tok.token = Keyword(Piece(text, i, upto)) /\ tok.upto = upto
  BY CharAt DEF Word, Tok
<1> HIDE DEF upto, tok
<1>4. upto \in i + 1 .. n + 1 /\ At(text, upto) \notin isID
      /\ \A k \in i + 1 .. upto - 1 : At(text, k) \in isID
  BY <1>1, <1>2, PastFinds DEF upto
<1>5. \A j \in i + 1 .. n + 1 :
         Kinds(Piece(text, i, j)) = IF \A k \in i + 1 .. j - 1 : At(text, k) \in isID
                                    THEN {Keyword(Piece(text, i, j))} ELSE {}
  <2> SUFFICES ASSUME NEW j \in i + 1 .. n + 1
               PROVE  Kinds(Piece(text, i, j)) = IF \A k \in i + 1 .. j - 1 : At(text, k) \in isID
                                                 THEN {Keyword(Piece(text, i, j))} ELSE {}
    OBVIOUS
  <2>1. Piece(text, i, j) \in Source /\ Piece(text, i, j) # <<>>
        /\ Piece(text, i, j)[1] \notin Starters
    BY PieceBegins
  <2>2. ToSet(Tail(Piece(text, i, j))) \subseteq isID
        <=> \A k \in i + 1 .. j - 1 : At(text, k) \in isID
    BY PieceSets
  <2>3. Kinds(Piece(text, i, j)) = IF ToSet(Tail(Piece(text, i, j))) \subseteq isID
                                   THEN {Keyword(Piece(text, i, j))} ELSE {}
    BY <2>1, KindsOf
  <2> QED
    BY <2>2, <2>3, Zenon
<1>6. ASSUME NEW j \in upto + 1 .. n + 1 PROVE Kinds(Piece(text, i, j)) = {}
  <2>1. j \in i + 1 .. n + 1 /\ upto \in i + 1 .. j - 1
    BY <1>1, <1>4
  <2> QED
    BY <1>4, <1>5, <2>1
<1>7. ~ Mid(text, upto)
  <2>1. upto - 1 = i \/ upto - 1 \in i + 1 .. upto - 1
    BY <1>1, <1>4
  <2> QED
    BY <1>2, <1>4, <2>1 DEF Mid
<1>8. tok.token \in Tokens \ {"eof"}
  BY <1>3 DEF Tokens, Keyword
<1>9. Best(text, i, tok)
  BY <1>1, <1>3, <1>4, <1>5, <1>6 DEF Best
<1>10. Fits(text, i, tok)
  BY <1>3, <1>4, <1>7, <1>8, <1>9 DEF Fits
<1> QED
  BY <1>10 DEF tok

(* A dot, or three of them: two are two dots.                               *)
LEMMA DotFits ==
    ASSUME text \in Source, NEW i \in 1 .. Len(text), At(text, i) = "."
    PROVE  Fits(text, i, Dot(i))
<1> DEFINE n == Len(text)
<1>1. n \in Nat /\ i \in Nat /\ At(text, n + 1) = "end" /\ At(text, n + 2) = "end"
  BY SourceChars
<1>2. \A j \in i + 1 .. n + 1 :
         /\ Piece(text, i, j) \in Source /\ Piece(text, i, j) # <<>>
         /\ Len(Piece(text, i, j)) = j - i /\ Piece(text, i, j)[1] = "."
         /\ \A k \in 1 .. j - i : Piece(text, i, j)[k] = At(text, i + k - 1)
  BY PieceBegins
<1>3. \A j \in i + 1 .. n + 1 :
         Kinds(Piece(text, i, j)) = (IF Piece(text, i, j) = <<".", ".", ".">> THEN {"varg"} ELSE {})
                                    \cup (IF j - i = 1 THEN {"dot"} ELSE {})
  <2> SUFFICES ASSUME NEW j \in i + 1 .. n + 1
               PROVE  Kinds(Piece(text, i, j)) =
                         (IF Piece(text, i, j) = <<".", ".", ".">> THEN {"varg"} ELSE {})
                         \cup (IF j - i = 1 THEN {"dot"} ELSE {})
    OBVIOUS
  <2>1. Piece(text, i, j) \in Source /\ Piece(text, i, j) # <<>> /\ Piece(text, i, j)[1] = "."
        /\ Len(Piece(text, i, j)) = j - i
    BY <1>2
  <2>2. Kinds(Piece(text, i, j)) =
           (IF Piece(text, i, j) = <<".", ".", ".">> THEN {"varg"} ELSE {})
           \cup (IF Len(Piece(text, i, j)) = 1 THEN {"dot"} ELSE {})
    BY <2>1, KindsOf
  <2> QED
    BY <2>1, <2>2
<1>4. \A j \in i + 1 .. n + 1 :
         Piece(text, i, j) = <<".", ".", ".">> <=>
            j = i + 3 /\ At(text, i + 1) = "." /\ At(text, i + 2) = "."
  <2> SUFFICES ASSUME NEW j \in i + 1 .. n + 1
               PROVE  Piece(text, i, j) = <<".", ".", ".">> <=>
                         j = i + 3 /\ At(text, i + 1) = "." /\ At(text, i + 2) = "."
    OBVIOUS
  <2> DEFINE s == Piece(text, i, j)
  <2>1. s \in Source /\ Len(s) = j - i /\ s[1] = "."
        /\ \A k \in 1 .. j - i : s[k] = At(text, i + k - 1)
    BY <1>2
  <2> HIDE DEF s
  <2>2. s = <<".", ".", ".">> <=> Len(s) = 3 /\ s[2] = "." /\ s[3] = "."
    <3>1. s = <<".", ".", ".">> <=> Len(s) = 3 /\ s[1] = "." /\ s[2] = "." /\ s[3] = "."
      BY <2>1, ShortPieces
    <3> QED
      BY <2>1, <3>1
  <2>3. Len(s) = 3 <=> j = i + 3
    BY <1>1, <2>1
  <2>4. j = i + 3 => s[2] = At(text, i + 1) /\ s[3] = At(text, i + 2)
    <3>1. j = i + 3 => /\ 2 \in 1 .. j - i /\ i + 2 - 1 = i + 1
                       /\ 3 \in 1 .. j - i /\ i + 3 - 1 = i + 2
      BY <1>1
    <3> QED
      BY <2>1, <3>1
  <2>5. s = <<".", ".", ".">> <=> j = i + 3 /\ At(text, i + 1) = "." /\ At(text, i + 2) = "."
    BY <2>2, <2>3, <2>4
  <2> QED
    BY <2>5 DEF s
<1>5. CASE At(text, i + 1) = "." /\ At(text, i + 2) = "."
  <2> DEFINE tok == Tok("varg", i + 3)
  <2>1. i + 3 \in i + 1 .. n + 1 /\ i + 2 <= n
    <3>1. i + 1 # n + 1 /\ i + 2 # n + 1
      BY <1>1, <1>5
    <3> QED
      BY <1>1, <3>1
  <2>2. tok.token = "varg" /\ tok.upto = i + 3 /\ Dot(i) = tok
    BY <1>5, CharAt DEF Dot, Tok
  <2>3. "varg" \in Kinds(Piece(text, i, i + 3))
    BY <1>3, <1>4, <1>5, <2>1
  <2>4. ASSUME NEW j \in i + 4 .. n + 1 PROVE Kinds(Piece(text, i, j)) = {}
    <3>1. j \in i + 1 .. n + 1 /\ j # i + 3 /\ j - i # 1
      BY <1>1
    <3> QED
      BY <1>3, <1>4, <3>1
  <2>5. i + 3 - 1 = i + 2 /\ i + 3 + 1 = i + 4
    BY <1>1
  <2>6. ~ Mid(text, i + 3)
    BY <1>5, <2>5 DEF Mid
  <2>7. Best(text, i, tok)
    BY <2>2, <2>3, <2>4, <2>5 DEF Best
  <2>8. "varg" \in Tokens \ {"eof"}
    BY DEF Tokens
  <2> QED
    BY <2>1, <2>2, <2>6, <2>7, <2>8 DEF Fits
<1>6. CASE ~ (At(text, i + 1) = "." /\ At(text, i + 2) = ".")
  <2> DEFINE tok == Tok("dot", i + 1)
  <2>1. i + 1 \in i + 1 .. n + 1 /\ i + 1 - i = 1
    BY <1>1
  <2>2. tok.token = "dot" /\ tok.upto = i + 1 /\ Dot(i) = tok
    BY <1>6, CharAt DEF Dot, Tok
  <2>3. "dot" \in Kinds(Piece(text, i, i + 1))
    BY <1>3, <2>1
  <2>4. ASSUME NEW j \in i + 2 .. n + 1 PROVE Kinds(Piece(text, i, j)) = {}
    <3>1. j \in i + 1 .. n + 1 /\ j - i # 1
      BY <1>1
    <3> QED
      BY <1>3, <1>4, <1>6, <3>1
  <2>5. i + 1 - 1 = i /\ i + 1 + 1 = i + 2
    BY <1>1
  <2>6. ~ Mid(text, i + 1)
    BY <2>5 DEF Mid
  <2>7. Best(text, i, tok)
    BY <2>2, <2>3, <2>4, <2>5 DEF Best
  <2>8. "dot" \in Tokens \ {"eof"}
    BY DEF Tokens
  <2> QED
    BY <2>1, <2>2, <2>6, <2>7, <2>8 DEF Fits
<1> QED
  BY <1>5, <1>6

(* What a newline is                                                        *)
LEMMA NewlineLength ==
    ASSUME NEW t, NEW i
    PROVE  /\ NewlineIn(t, i) \in {0, 1, 2}
           /\ NewlineIn(t, i) = 0 <=> At(t, i) \notin {"\r", "\n"}
           /\ NewlineIn(t, i) = 2 <=> At(t, i) = "\r" /\ At(t, i + 1) = "\n"
<1>1. CASE At(t, i) = "\r" /\ At(t, i + 1) = "\n"
  <2>1. NewlineIn(t, i) = 2
    BY <1>1 DEF NewlineIn
  <2> QED
    BY <1>1, <2>1
<1>2. CASE ~ (At(t, i) = "\r" /\ At(t, i + 1) = "\n") /\ At(t, i) \in {"\r", "\n"}
  <2>1. NewlineIn(t, i) = 1
    BY <1>2 DEF NewlineIn
  <2> QED
    BY <1>2, <2>1
<1>3. CASE At(t, i) \notin {"\r", "\n"}
  <2>1. NewlineIn(t, i) = 0
    BY <1>3 DEF NewlineIn
  <2> QED
    BY <1>3, <2>1
<1> QED
  BY <1>1, <1>2, <1>3

(* A newline of one or of two characters                                    *)
LEMMA NewlineFits ==
    ASSUME text \in Source, NEW i \in 1 .. Len(text), NewlineIn(text, i) > 0
    PROVE  Fits(text, i, Tok("nl", i + NewlineIn(text, i)))
<1> DEFINE n == Len(text)
           l == NewlineIn(text, i)
           tok == Tok("nl", i + l)
<1>1. n \in Nat /\ i \in Nat /\ At(text, n + 1) = "end"
  BY SourceChars
<1>2. /\ l \in {1, 2} /\ At(text, i) \in {"\r", "\n"}
      /\ l = 2 <=> At(text, i) = "\r" /\ At(text, i + 1) = "\n"
  BY NewlineLength
<1> HIDE DEF l
<1>3. \A j \in i + 1 .. n + 1 :
         Kinds(Piece(text, i, j)) = IF Newline(Piece(text, i, j)) THEN {"nl"} ELSE {}
  <2> SUFFICES ASSUME NEW j \in i + 1 .. n + 1
               PROVE  Kinds(Piece(text, i, j)) = IF Newline(Piece(text, i, j)) THEN {"nl"} ELSE {}
    OBVIOUS
  <2>1. Piece(text, i, j) \in Source /\ Piece(text, i, j) # <<>>
        /\ Piece(text, i, j)[1] \in {"\n", "\r"}
    BY <1>2, PieceBegins
  <2> QED
    BY <2>1, KindsOf
<1>4. \A j \in i + 1 .. n + 1 :
         Newline(Piece(text, i, j)) <=> \/ j = i + 1
                                        \/ j = i + 2 /\ l = 2
  <2> SUFFICES ASSUME NEW j \in i + 1 .. n + 1
               PROVE  Newline(Piece(text, i, j)) <=> j = i + 1 \/ (j = i + 2 /\ l = 2)
    OBVIOUS
  <2> DEFINE s == Piece(text, i, j)
  <2>1. s \in Source /\ Len(s) = j - i /\ s[1] = At(text, i)
        /\ \A k \in 1 .. j - i : s[k] = At(text, i + k - 1)
    BY PieceBegins
  <2> HIDE DEF s
  <2>2. Newline(s) <=> \/ Len(s) = 1 /\ s[1] \in {"\r", "\n"}
                       \/ Len(s) = 2 /\ s[1] = "\r" /\ s[2] = "\n"
    <3>1. s = <<"\r">> <=> Len(s) = 1 /\ s[1] = "\r"
      BY <2>1, ShortPieces
    <3>2. s = <<"\n">> <=> Len(s) = 1 /\ s[1] = "\n"
      BY <2>1, ShortPieces
    <3>3. s = <<"\r", "\n">> <=> Len(s) = 2 /\ s[1] = "\r" /\ s[2] = "\n"
      BY <2>1, ShortPieces
    <3>4. Newline(s) <=> s = <<"\n">> \/ s = <<"\r">> \/ s = <<"\r", "\n">>
      BY Zenon DEF Newline
    <3> HIDE DEF Newline
    <3> QED
      BY <3>1, <3>2, <3>3, <3>4
  <2>3. (Len(s) = 1 <=> j = i + 1) /\ (Len(s) = 2 <=> j = i + 2)
    BY <1>1, <2>1
  <2>4. j = i + 2 => s[2] = At(text, i + 1)
    <3>1. j = i + 2 => 2 \in 1 .. j - i /\ i + 2 - 1 = i + 1
      BY <1>1
    <3> QED
      BY <2>1, <3>1
  <2>5. Newline(s) <=> j = i + 1 \/ (j = i + 2 /\ l = 2)
    BY <1>2, <2>1, <2>2, <2>3, <2>4
  <2> QED
    BY <2>5 DEF s
<1>5. i + l \in i + 1 .. n + 1
  <2>1. l = 2 => i + 1 # n + 1
    BY <1>1, <1>2
  <2> QED
    BY <1>1, <1>2, <2>1
<1>6. tok.token = "nl" /\ tok.upto = i + l
  BY DEF Tok
<1>7. "nl" \in Kinds(Piece(text, i, i + l))
  BY <1>1, <1>2, <1>3, <1>4, <1>5
<1>8. ASSUME NEW j \in i + l + 1 .. n + 1 PROVE Kinds(Piece(text, i, j)) = {}
  <2>1. j \in i + 1 .. n + 1 /\ j # i + 1 /\ (j = i + 2 => l # 2)
    BY <1>1, <1>2
  <2> QED
    BY <1>3, <1>4, <2>1
<1>9. ~ Mid(text, i + l)
  <2>1. CASE l = 2
    <3>1. i + l - 1 = i + 1 /\ At(text, i + 1) = "\n"
      BY <1>1, <1>2, <2>1
    <3> QED
      BY <2>1, <3>1 DEF Mid
  <2>2. CASE l = 1
    <3>1. i + l - 1 = i /\ i + l = i + 1
      BY <1>1, <2>2
    <3> QED
      BY <1>2, <2>2, <3>1 DEF Mid
  <2> QED
    BY <1>2, <2>1, <2>2
<1>10. Best(text, i, tok)
  BY <1>6, <1>7, <1>8 DEF Best
<1>11. "nl" \in Tokens \ {"eof"}
  BY DEF Tokens
<1>12. Fits(text, i, tok)
  BY <1>5, <1>6, <1>9, <1>10, <1>11 DEF Fits
<1> QED
  BY <1>12 DEF l

(* An operator that may be doubled or have = behind it                      *)
LEMMA OperatorFits ==
    ASSUME text \in Source, NEW i \in 1 .. Len(text), At(text, i) \in DOMAIN Doubled
    PROVE  Fits(text, i, Operator(i))
<1> DEFINE n == Len(text)
           c == At(text, i)
<1>1. n \in Nat /\ i \in Nat /\ At(text, n + 1) = "end"
  BY SourceChars
<1>2. c # "\r" /\ Doubled[c] \in Tokens \ {"eof"} /\ WithEq[c] \in Tokens \ {"eof"}
  <2>1. c # "\r" /\ Doubled[c] # "eof" /\ WithEq[c] # "eof"
    BY DEF Doubled, WithEq
  <2> QED
    BY <2>1 DEF Tokens
<1>3. \A j \in i + 1 .. n + 1 :
         Kinds(Piece(text, i, j)) =
            (IF j = i + 1 THEN {Doubled[c]} ELSE {})
            \cup (IF j = i + 2 /\ At(text, i + 1) = "=" THEN {WithEq[c]} ELSE {})
  <2> SUFFICES ASSUME NEW j \in i + 1 .. n + 1
               PROVE  Kinds(Piece(text, i, j)) =
                         (IF j = i + 1 THEN {Doubled[c]} ELSE {})
                         \cup (IF j = i + 2 /\ At(text, i + 1) = "=" THEN {WithEq[c]} ELSE {})
    OBVIOUS
  <2> DEFINE s == Piece(text, i, j)
  <2>1. s \in Source /\ s # <<>> /\ Len(s) = j - i /\ s[1] = c
        /\ \A k \in 1 .. j - i : s[k] = At(text, i + k - 1)
    BY PieceBegins
  <2> HIDE DEF s
  <2>2. Kinds(s) = (IF Len(s) = 1 THEN {Doubled[s[1]]} ELSE {})
                   \cup (IF Len(s) = 2 /\ s[2] = "=" THEN {WithEq[s[1]]} ELSE {})
    BY <2>1, KindsOf
  <2>3. (Len(s) = 1 <=> j = i + 1) /\ (Len(s) = 2 <=> j = i + 2)
    BY <1>1, <2>1
  <2>4. j = i + 2 => s[2] = At(text, i + 1)
    <3>1. j = i + 2 => 2 \in 1 .. j - i /\ i + 2 - 1 = i + 1
      BY <1>1
    <3> QED
      BY <2>1, <3>1
  <2>5. Kinds(s) = (IF j = i + 1 THEN {Doubled[c]} ELSE {})
                   \cup (IF j = i + 2 /\ At(text, i + 1) = "=" THEN {WithEq[c]} ELSE {})
    BY <2>1, <2>2, <2>3, <2>4
  <2> QED
    BY <2>5 DEF s
<1> HIDE DEF c
<1>4. CASE At(text, i + 1) = "="
  <2> DEFINE tok == Tok(WithEq[c], i + 2)
  <2>1. i + 2 \in i + 1 .. n + 1 /\ i + 2 # i + 1
    <3>1. i + 1 # n + 1
      BY <1>1, <1>4
    <3> QED
      BY <1>1, <3>1
  <2>2. tok.token = WithEq[c] /\ tok.upto = i + 2 /\ Operator(i) = tok
    BY <1>4, CharAt DEF Operator, Tok, c
  <2>3. WithEq[c] \in Kinds(Piece(text, i, i + 2))
    BY <1>3, <1>4, <2>1
  <2>4. ASSUME NEW j \in i + 3 .. n + 1 PROVE Kinds(Piece(text, i, j)) = {}
    <3>1. j \in i + 1 .. n + 1 /\ j # i + 1 /\ j # i + 2
      BY <1>1
    <3> QED
      BY <1>3, <3>1
  <2>5. i + 2 - 1 = i + 1 /\ i + 2 + 1 = i + 3
    BY <1>1
  <2>6. ~ Mid(text, i + 2)
    BY <1>4, <2>5 DEF Mid
  <2>7. Best(text, i, tok)
    BY <2>2, <2>3, <2>4, <2>5 DEF Best
  <2> QED
    BY <1>2, <2>1, <2>2, <2>6, <2>7 DEF Fits
<1>5. CASE At(text, i + 1) # "="
  <2> DEFINE tok == Tok(Doubled[c], i + 1)
  <2>1. i + 1 \in i + 1 .. n + 1
    BY <1>1
  <2>2. tok.token = Doubled[c] /\ tok.upto = i + 1 /\ Operator(i) = tok
    BY <1>5, CharAt DEF Operator, Tok, c
  <2>3. Doubled[c] \in Kinds(Piece(text, i, i + 1))
    BY <1>3, <2>1
  <2>4. ASSUME NEW j \in i + 2 .. n + 1 PROVE Kinds(Piece(text, i, j)) = {}
    <3>1. j \in i + 1 .. n + 1 /\ j # i + 1
      BY <1>1
    <3> QED
      BY <1>3, <1>5, <3>1
  <2>5. i + 1 - 1 = i /\ i + 1 + 1 = i + 2
    BY <1>1
  <2>6. ~ Mid(text, i + 1)
    BY <1>2, <2>5 DEF Mid, c
  <2>7. Best(text, i, tok)
    BY <2>2, <2>3, <2>4, <2>5 DEF Best
  <2> QED
    BY <1>2, <2>1, <2>2, <2>6, <2>7 DEF Fits
<1> QED
  BY <1>4, <1>5

(* A character that is a token whatever comes behind it                     *)
LEMMA SingleFits ==
    ASSUME text \in Source, NEW i \in 1 .. Len(text), At(text, i) \in DOMAIN Single \ {"."}
    PROVE  Fits(text, i, Tok(Single[At(text, i)], i + 1))
<1> DEFINE n == Len(text)
           c == At(text, i)
           tok == Tok(Single[c], i + 1)
<1>1. n \in Nat /\ i \in Nat /\ i + 1 \in i + 1 .. n + 1
  BY SourceChars
<1>2. c # "\r" /\ Single[c] \in Tokens \ {"eof"}
  <2>1. c # "\r" /\ Single[c] # "eof"
    BY DEF Single
  <2> QED
    BY <2>1 DEF Tokens
<1>3. \A j \in i + 1 .. n + 1 :
         Kinds(Piece(text, i, j)) = IF j = i + 1 THEN {Single[c]} ELSE {}
  <2> SUFFICES ASSUME NEW j \in i + 1 .. n + 1
               PROVE  Kinds(Piece(text, i, j)) = IF j = i + 1 THEN {Single[c]} ELSE {}
    OBVIOUS
  <2> DEFINE s == Piece(text, i, j)
  <2>1. s \in Source /\ s # <<>> /\ Len(s) = j - i /\ s[1] = c
    BY PieceBegins
  <2> HIDE DEF s
  <2>2. Kinds(s) = IF Len(s) = 1 THEN {Single[s[1]]} ELSE {}
    BY <2>1, KindsOf
  <2>3. Len(s) = 1 <=> j = i + 1
    BY <1>1, <2>1
  <2>4. Kinds(s) = IF j = i + 1 THEN {Single[c]} ELSE {}
    BY <2>1, <2>2, <2>3
  <2> QED
    BY <2>4 DEF s
<1> HIDE DEF c
<1>4. tok.token = Single[c] /\ tok.upto = i + 1
  BY DEF Tok
<1>5. Single[c] \in Kinds(Piece(text, i, i + 1))
  BY <1>1, <1>3
<1>6. ASSUME NEW j \in i + 2 .. n + 1 PROVE Kinds(Piece(text, i, j)) = {}
  <2>1. j \in i + 1 .. n + 1 /\ j # i + 1
    BY <1>1
  <2> QED
    BY <1>3, <2>1
<1>7. i + 1 - 1 = i /\ i + 1 + 1 = i + 2
  BY <1>1
<1>8. ~ Mid(text, i + 1)
  BY <1>2, <1>7 DEF Mid, c
<1>9. Best(text, i, tok)
  BY <1>4, <1>5, <1>6, <1>7 DEF Best
<1>10. Fits(text, i, tok)
  BY <1>1, <1>2, <1>4, <1>8, <1>9 DEF Fits
<1> QED
  BY <1>10 DEF c
-----------------------------------------------------------------------------
(* The blank, named: it is the character that is skipped in front of a      *)
(* token.                                                                   *)
Blank == " "

(* The characters with a meaning of their own                               *)
LEMMA StarterSet ==
    Starters = {Blank, "\n", "\r", Quote} \cup Digits(10) \cup DOMAIN Doubled \cup DOMAIN Single
BY Zenon DEF Starters, Blank

(* Which token begins at a place: the cases of the scanner exclude each     *)
(* other.                                                                   *)
LEMMA ScanCases ==
    ASSUME NEW i
    PROVE  /\ At(text, i) = "end" => Scan(i) = Tok("eof", i)
           /\ At(text, i) = Quote => Scan(i) = String(i)
           /\ At(text, i) = "0" /\ At(text, i + 1) \in DOMAIN zeroChar =>
                 Scan(i) = Number(i + 2, zeroChar[At(text, i + 1)])
           /\ (/\ At(text, i) \in Digits(10)
               /\ ~ (At(text, i) = "0" /\ At(text, i + 1) \in DOMAIN zeroChar)) =>
                 Scan(i) = Number(i, 10)
           /\ At(text, i) = "." => Scan(i) = Dot(i)
           /\ NewlineIn(text, i) > 0 => Scan(i) = Tok("nl", i + NewlineIn(text, i))
           /\ At(text, i) \in DOMAIN Doubled => Scan(i) = Operator(i)
           /\ At(text, i) \in DOMAIN Single \ {"."} => Scan(i) = Tok(Single[At(text, i)], i + 1)
           /\ At(text, i) \notin Starters \cup {"end"} => Scan(i) = Word(i)
<1> DEFINE c == At(text, i)
           p == c = "0" /\ At(text, i + 1) \in DOMAIN zeroChar
           S == DOMAIN Single \ {"."}
           D == DOMAIN Doubled
           N == NewlineIn(text, i) > 0
           A1 == Tok("eof", i)
           A2 == String(i)
           A3 == Number(i + 2, zeroChar[At(text, i + 1)])
           A4 == Number(i, 10)
           A5 == Dot(i)
           A6 == Tok("nl", i + NewlineIn(text, i))
           A7 == Operator(i)
           A8 == Tok(Single[c], i + 1)
           A9 == Word(i)
<1>1. Scan(i) = CASE c = "end" -> A1
                  [] c = Quote -> A2
                  [] p -> A3
                  [] c \in Digits(10) /\ ~ p -> A4
                  [] c = "." -> A5
                  [] N -> A6
                  [] c \in D -> A7
                  [] c \in S -> A8
                  [] OTHER -> A9
  BY CharAt DEF Scan
<1>2. /\ Quote = "\"" /\ Digits(10) = {"0", "1", "7", "9"}
      /\ S = {"(", ")", "{", "}", "[", "]", ",", ":", ";", "#", "?", "@", "$", "\\", "~"}
      /\ D = {"+", "-", "*", "/", "%", "&", "|", "<", ">", "^", "!", "="}
  BY DigitSets DEF Quote, Single, Doubled
<1>3. N <=> c \in {"\r", "\n"}
  BY NewlineLength
<1>4. p => c = "0"
  OBVIOUS
<1>5. c \in Starters <=> c \in {Blank, "\n", "\r", ".", Quote} \cup Digits(10) \cup D \cup S
  BY StarterSet DEF Single
<1> HIDE DEF c, p, S, D, N, A1, A2, A3, A4, A5, A6, A7, A8, A9
<1>6. /\ c = "end" => Scan(i) = A1
      /\ c = Quote => Scan(i) = A2
      /\ p => Scan(i) = A3
      /\ c \in Digits(10) /\ ~ p => Scan(i) = A4
      /\ c = "." => Scan(i) = A5
      /\ N => Scan(i) = A6
      /\ c \in D => Scan(i) = A7
      /\ c \in S => Scan(i) = A8
      /\ c \notin Starters \cup {"end"} => Scan(i) = A9
  <2>1. c = "end" => Scan(i) = A1
    BY <1>1, <1>2, <1>3, <1>4
  <2>2. c = Quote => Scan(i) = A2
    BY <1>1, <1>2, <1>3, <1>4
  <2>3. p => Scan(i) = A3
    BY <1>1, <1>2, <1>3, <1>4
  <2>4. c \in Digits(10) /\ ~ p => Scan(i) = A4
    BY <1>1, <1>2, <1>3, <1>4
  <2>5. c = "." => Scan(i) = A5
    BY <1>1, <1>2, <1>3, <1>4
  <2>6. N => Scan(i) = A6
    BY <1>1, <1>2, <1>3, <1>4
  <2>7. c \in D => Scan(i) = A7
    BY <1>1, <1>2, <1>3, <1>4
  <2>8. c \in S => Scan(i) = A8
    BY <1>1, <1>2, <1>3, <1>4
  <2>9. c \notin Starters \cup {"end"} => Scan(i) = A9
    BY <1>1, <1>2, <1>3, <1>4, <1>5
  <2> QED
    BY <2>1, <2>2, <2>3, <2>4, <2>5, <2>6, <2>7, <2>8, <2>9
<1>7. c = "end" => Scan(i) = Tok("eof", i)
  BY <1>6 DEF A1
<1>8. c = Quote => Scan(i) = String(i)
  BY <1>6 DEF A2
<1>9. p => Scan(i) = Number(i + 2, zeroChar[At(text, i + 1)])
  BY <1>6 DEF A3
<1>10. c \in Digits(10) /\ ~ p => Scan(i) = Number(i, 10)
  BY <1>6 DEF A4
<1>11. c = "." => Scan(i) = Dot(i)
  BY <1>6 DEF A5
<1>12. N => Scan(i) = Tok("nl", i + NewlineIn(text, i))
  BY <1>6 DEF A6
<1>13. c \in D => Scan(i) = Operator(i)
  BY <1>6 DEF A7
<1>14. c \in S => Scan(i) = Tok(Single[c], i + 1)
  BY <1>6 DEF A8
<1>15. c \notin Starters \cup {"end"} => Scan(i) = Word(i)
  BY <1>6 DEF A9
<1> QED
  BY <1>7, <1>8, <1>9, <1>10, <1>11, <1>12, <1>13, <1>14, <1>15 DEF c, p, S, D, N

(* What begins at a place that is not blank fits there, and the end is told *)
(* at the end only.                                                         *)
LEMMA ScanFits ==
    ASSUME text \in Source, NEW i \in 1 .. Len(text) + 1, At(text, i) # Blank
    PROVE  /\ i = Len(text) + 1 => Scan(i).token = "eof" /\ Scan(i).upto = i
           /\ i # Len(text) + 1 => Fits(text, i, Scan(i))
<1>1. i = Len(text) + 1 => Scan(i).token = "eof" /\ Scan(i).upto = i
  <2> SUFFICES ASSUME i = Len(text) + 1 PROVE Scan(i).token = "eof" /\ Scan(i).upto = i
    OBVIOUS
  <2>1. At(text, i) = "end"
    BY SourceChars
  <2>2. Scan(i) = Tok("eof", i)
    BY <2>1, ScanCases
  <2> QED
    BY <2>2 DEF Tok
<1>2. ASSUME i # Len(text) + 1 PROVE Fits(text, i, Scan(i))
  <2>1. i \in 1 .. Len(text) /\ At(text, i) # "end"
    <3>1. Len(text) \in Nat
      BY SourceChars
    <3>2. i \in 1 .. Len(text)
      BY <1>2, <3>1
    <3> QED
      BY <3>2, SourceChars
  <2>2. CASE At(text, i) = Quote
    BY <2>1, <2>2, ScanCases, StringFits
  <2>3. CASE At(text, i) = "0" /\ At(text, i + 1) \in DOMAIN zeroChar
    BY <2>1, <2>3, ScanCases, PrefixedFits
  <2>4. CASE /\ At(text, i) \in Digits(10)
             /\ ~ (At(text, i) = "0" /\ At(text, i + 1) \in DOMAIN zeroChar)
    BY <2>1, <2>4, ScanCases, DecimalFits
  <2>5. CASE At(text, i) = "."
    BY <2>1, <2>5, ScanCases, DotFits
  <2>6. CASE NewlineIn(text, i) > 0
    BY <2>1, <2>6, ScanCases, NewlineFits
  <2>7. CASE At(text, i) \in DOMAIN Doubled
    BY <2>1, <2>7, ScanCases, OperatorFits
  <2>8. CASE At(text, i) \in DOMAIN Single \ {"."}
    BY <2>1, <2>8, ScanCases, SingleFits
  <2>9. CASE At(text, i) \notin Starters
    BY <2>1, <2>9, ScanCases, WordFits
  <2>10. At(text, i) \in {"\n", "\r"} => NewlineIn(text, i) > 0
    <3>1. NewlineIn(text, i) \in {0, 1, 2} /\ (NewlineIn(text, i) = 0 <=> At(text, i) \notin {"\r", "\n"})
      BY NewlineLength
    <3> QED
      BY <3>1
  <2> QED
    BY <2>2, <2>3, <2>4, <2>5, <2>6, <2>7, <2>8, <2>9, <2>10, StarterSet DEF Single
<1> QED
  BY <1>1, <1>2
-----------------------------------------------------------------------------
(* What a number stands for: the reading from the left (Number) and the     *)
(* worth of its digits from the right (Worth) agree.                        *)
SumAt(i, base, n, g) ==
    g = [k \in 0 .. n |->
            IF k = 0 THEN 0
            ELSE IF Char(i + k - 1) = "_" THEN g[k - 1]
            ELSE (g[k - 1] * base + DigitValue(Char(i + k - 1))) % Wrap]
WeightOf(s, base, n, g) ==
    g = [k \in 0 .. n |->
            IF k = 0 THEN 1
            ELSE IF s[Len(s) - k + 1] = "_" THEN g[k - 1]
            ELSE base * g[k - 1]]
WorthOf(s, n, w, g) ==
    g = [k \in 0 .. n |->
            IF k = 0 THEN 0
            ELSE IF s[Len(s) - k + 1] = "_" THEN g[k - 1]
            ELSE DigitValue(s[Len(s) - k + 1]) * w[k - 1] + g[k - 1]]

(* the places of separators, and the values of digits, of n characters      *)
Separators(n, c) == {k \in 1 .. n : c[k] = "_"}
Values(n, c) == [k \in 1 .. n |-> IF c[k] = "_" THEN 0 ELSE DigitValue(c[k])]

(* A base that numbers are written in                                       *)
IsBase(b) == /\ b \in Nat /\ "end" \notin Digits(b)
             /\ \A x \in Digits(b) : DigitValue(x) \in Nat

(* The four of the language                                                 *)
LEMMA Bases == IsBase(2) /\ IsBase(8) /\ IsBase(10) /\ IsBase(16)
<1>1. /\ DigitValue("0") = 0 /\ DigitValue("1") = 1 /\ DigitValue("7") = 7 /\ DigitValue("9") = 9
      /\ DigitValue("a") = 10 /\ DigitValue("b") = 11 /\ DigitValue("f") = 15
  BY DEF DigitValue
<1> QED
  BY <1>1, DigitSets DEF IsBase

(* The n characters from a place on, and the last n of a text from its end  *)
Onwards(c, n, i) == \A k \in 1 .. n : c[k] = Char(i + k - 1)
Backwards(c, n, s) == \A k \in 1 .. n : c[k] = s[Len(s) - k + 1]

(* The value of Number is the reading from the left of the source's digits. *)
LEMMA SumOfDigits ==
    ASSUME NEW i, NEW base, NEW n \in Nat, NEW c, Onwards(c, n, i)
    PROVE  (CHOOSE g : SumAt(i, base, n, g))
              = CHOOSE g : SumIs(Wrap, base, n, Separators(n, c), Values(n, c), g)
<1> DEFINE at(k) == Char(i + k - 1)
           S == Separators(n, c)
           d == Values(n, c)
           left(k, g) == IF k = 0 THEN 0
                         ELSE IF at(k) = "_" THEN g[k - 1]
                         ELSE (g[k - 1] * base + DigitValue(at(k))) % Wrap
           right(k, g) == IF k = 0 THEN 0
                          ELSE IF k \in S THEN g[k - 1]
                          ELSE (g[k - 1] * base + d[k]) % Wrap
<1>1. \A k \in 1 .. n : (k \in S <=> at(k) = "_") /\ (at(k) # "_" => d[k] = DigitValue(at(k)))
  BY DEF Separators, Values, Onwards
<1>2. \A k \in 0 .. n : k = 0 \/ k \in 1 .. n
  OBVIOUS
<1>3. \A g : SumAt(i, base, n, g) <=> g = [k \in 0 .. n |-> left(k, g)]
  BY DEF SumAt
<1>4. \A g : SumIs(Wrap, base, n, S, d, g) <=> g = [k \in 0 .. n |-> right(k, g)]
  BY DEF SumIs
<1> HIDE DEF at, S, d
<1>5. \A g : \A k \in 0 .. n : left(k, g) = right(k, g)
  <2> SUFFICES ASSUME NEW g, NEW k \in 0 .. n PROVE left(k, g) = right(k, g)
    OBVIOUS
  <2>1. CASE k = 0
    BY <2>1
  <2>2. CASE k # 0 /\ at(k) = "_"
    BY <1>1, <1>2, <2>2
  <2>3. CASE k # 0 /\ at(k) # "_"
    <3>1. k \notin S /\ d[k] = DigitValue(at(k))
      BY <1>1, <1>2, <2>3
    <3> QED
      BY <2>3, <3>1, Zenon
  <2> QED
    BY <2>1, <2>2, <2>3
<1> HIDE DEF left, right
<1>6. \A g : [k \in 0 .. n |-> left(k, g)] = [k \in 0 .. n |-> right(k, g)]
  BY <1>5
<1>7. \A g : SumAt(i, base, n, g) <=> SumIs(Wrap, base, n, S, d, g)
  BY <1>3, <1>4, <1>6
<1> QED
  BY <1>7, Zenon DEF S, d

(* The weight of Worth is that of the piece's digits ...                    *)
LEMMA WeightOfDigits ==
    ASSUME NEW s, NEW base, NEW n \in Nat, NEW c, Backwards(c, n, s)
    PROVE  (CHOOSE g : WeightOf(s, base, n, g)) = CHOOSE g : WeightIs(base, n, Separators(n, c), g)
<1> DEFINE at(k) == s[Len(s) - k + 1]
           S == Separators(n, c)
           left(k, g) == IF k = 0 THEN 1
                         ELSE IF at(k) = "_" THEN g[k - 1]
                         ELSE base * g[k - 1]
           right(k, g) == IF k = 0 THEN 1
                          ELSE IF k \in S THEN g[k - 1]
                          ELSE base * g[k - 1]
<1>1. \A k \in 1 .. n : k \in S <=> at(k) = "_"
  BY DEF Separators, Backwards
<1>2. \A k \in 0 .. n : k = 0 \/ k \in 1 .. n
  OBVIOUS
<1>3. \A g : WeightOf(s, base, n, g) <=> g = [k \in 0 .. n |-> left(k, g)]
  BY DEF WeightOf
<1>4. \A g : WeightIs(base, n, S, g) <=> g = [k \in 0 .. n |-> right(k, g)]
  BY DEF WeightIs
<1> HIDE DEF at, S
<1>5. \A g : \A k \in 0 .. n : left(k, g) = right(k, g)
  BY <1>1, <1>2
<1> HIDE DEF left, right
<1>6. \A g : [k \in 0 .. n |-> left(k, g)] = [k \in 0 .. n |-> right(k, g)]
  BY <1>5
<1>7. \A g : WeightOf(s, base, n, g) <=> WeightIs(base, n, S, g)
  BY <1>3, <1>4, <1>6
<1> QED
  BY <1>7, Zenon DEF S

(* ... and so is its worth.                                                 *)
LEMMA WorthOfDigits ==
    ASSUME NEW s, NEW w, NEW n \in Nat, NEW c, Backwards(c, n, s)
    PROVE  (CHOOSE g : WorthOf(s, n, w, g))
              = CHOOSE g : WorthIs(n, Separators(n, c), Values(n, c), w, g)
<1> DEFINE at(k) == s[Len(s) - k + 1]
           S == Separators(n, c)
           d == Values(n, c)
           left(k, g) == IF k = 0 THEN 0
                         ELSE IF at(k) = "_" THEN g[k - 1]
                         ELSE DigitValue(at(k)) * w[k - 1] + g[k - 1]
           right(k, g) == IF k = 0 THEN 0
                          ELSE IF k \in S THEN g[k - 1]
                          ELSE d[k] * w[k - 1] + g[k - 1]
<1>1. \A k \in 1 .. n : (k \in S <=> at(k) = "_") /\ (at(k) # "_" => d[k] = DigitValue(at(k)))
  BY DEF Separators, Values, Backwards
<1>2. \A k \in 0 .. n : k = 0 \/ k \in 1 .. n
  OBVIOUS
<1>3. \A g : WorthOf(s, n, w, g) <=> g = [k \in 0 .. n |-> left(k, g)]
  BY DEF WorthOf
<1>4. \A g : WorthIs(n, S, d, w, g) <=> g = [k \in 0 .. n |-> right(k, g)]
  BY DEF WorthIs
<1> HIDE DEF at, S, d
<1>5. \A g : \A k \in 0 .. n : left(k, g) = right(k, g)
  <2> SUFFICES ASSUME NEW g, NEW k \in 0 .. n PROVE left(k, g) = right(k, g)
    OBVIOUS
  <2>1. CASE k = 0
    BY <2>1
  <2>2. CASE k # 0 /\ at(k) = "_"
    BY <1>1, <1>2, <2>2
  <2>3. CASE k # 0 /\ at(k) # "_"
    <3>1. k \notin S /\ d[k] = DigitValue(at(k))
      BY <1>1, <1>2, <2>3
    <3> QED
      BY <2>3, <3>1, Zenon
  <2> QED
    BY <2>1, <2>2, <2>3
<1> HIDE DEF left, right
<1>6. \A g : [k \in 0 .. n |-> left(k, g)] = [k \in 0 .. n |-> right(k, g)]
  BY <1>5
<1>7. \A g : WorthOf(s, n, w, g) <=> WorthIs(n, S, d, w, g)
  BY <1>3, <1>4, <1>6
<1> QED
  BY <1>7, Zenon DEF S, d

(* The number read at a place is the worth of the piece that it ends.       *)
LEMMA NumberMeans ==
    ASSUME text \in Source, NEW i \in 1 .. Len(text) + 1, NEW base, IsBase(base),
           NEW from \in 1 .. i, from = IF base = 10 THEN i ELSE i - 2
    PROVE  Number(i, base).value = Worth(Piece(text, from, Number(i, base).upto), base)
<1> DEFINE m == Len(text)
           C == Digits(base) \cup {"_"}
           u == Past(i, C)
           n == u - i
           s == Piece(text, from, u)
           c == [k \in 1 .. n |-> Char(i + k - 1)]
           r == [k \in 1 .. n |-> s[Len(s) - k + 1]]
           S == Separators(n, c)
           T == Separators(n, r)
           d == Values(n, c)
           e == Values(n, r)
           sum == CHOOSE g : SumAt(i, base, n, g)
           weight == CHOOSE g : WeightOf(s, base, n, g)
           worth == CHOOSE g : WorthOf(s, n, weight, g)
<1>1. Number(i, base).upto = u /\ Number(i, base).value = sum[n]
  BY DEF Number, SumAt
<1>2. m \in Nat /\ "end" \notin C /\ base \in Nat /\ \A x \in Digits(base) : DigitValue(x) \in Nat
  BY SourceChars DEF IsBase
<1> HIDE DEF C
<1>3. u \in i .. m + 1
  BY <1>2, PastFinds
<1>30. \A k \in i .. u - 1 : At(text, k) \in C
  BY <1>2, PastFinds
<1> HIDE DEF u
<1>4. n \in Nat /\ from \in 1 .. m + 1 /\ u \in from .. m + 1 /\ i \in Nat /\ u \in Nat
  <2>1. i \in 1 .. m + 1
    OBVIOUS
  <2> HIDE DEF m
  <2>2. u >= i /\ u <= m + 1 /\ u \in Nat /\ i \in Nat /\ i <= m + 1 /\ from \in Nat /\ from >= 1 /\ from <= i
    BY <1>2, <1>3, <2>1
  <2> QED
    BY <1>2, <2>2
<1>5. Len(s) = u - from /\ \A k \in 1 .. u - from : s[k] = At(text, from + k - 1)
  BY <1>4, PieceChars
<1> HIDE DEF s
<1>6. (IF base = 10 THEN Len(s) ELSE Len(s) - 2) = n
  BY <1>4, <1>5
<1>7. Worth(s, base) = (worth[n] % Wrap)
  <2>1. Worth(s, base) = (LET size == IF base = 10 THEN Len(s) ELSE Len(s) - 2
                              w == CHOOSE g : WeightOf(s, base, size, g)
                              h == CHOOSE g : WorthOf(s, size, w, g)
                          IN  h[size] % Wrap)
    BY DEF Worth, WeightOf, WorthOf
  <2> QED
    BY <1>6, <2>1, Zenon
<1>8. \A k \in 1 .. n : r[n - k + 1] = c[k]
  <2> SUFFICES ASSUME NEW k \in 1 .. n PROVE r[n - k + 1] = c[k]
    OBVIOUS
  <2>1. PICK j \in 1 .. n : j = n - k + 1
    BY <1>4
  <2>2. PICK l \in 1 .. u - from : l = Len(s) - j + 1
    BY <1>4, <1>5, <2>1
  <2>3. from + l - 1 = i + k - 1
    BY <1>4, <1>5, <2>1, <2>2
  <2>4. r[j] = s[l] /\ c[k] = Char(i + k - 1)
    BY <2>2
  <2>5. s[l] = At(text, i + k - 1)
    BY <1>5, <2>3
  <2> QED
    BY <2>1, <2>4, <2>5, CharAt
<1>9. \A k \in 1 .. n : c[k] = "_" \/ DigitValue(c[k]) \in Nat
  <2> SUFFICES ASSUME NEW k \in 1 .. n PROVE c[k] = "_" \/ DigitValue(c[k]) \in Nat
    OBVIOUS
  <2>1. i + k - 1 \in i .. u - 1
    <3>1. u \in Nat /\ i \in Nat
      BY <1>4
    <3> QED
      BY <3>1
  <2>2. c[k] = At(text, i + k - 1)
    BY CharAt
  <2> QED
    BY <1>2, <1>30, <2>1, <2>2 DEF C
<1>10. \A k \in 1 .. n : n - k + 1 \in 1 .. n /\ n - (n - k + 1) + 1 = k
  BY <1>4
<1>11. \A k \in 1 .. n : r[k] = "_" \/ DigitValue(r[k]) \in Nat
  <2> SUFFICES ASSUME NEW k \in 1 .. n PROVE r[k] = "_" \/ DigitValue(r[k]) \in Nat
    OBVIOUS
  <2>1. PICK j \in 1 .. n : j = n - k + 1
    BY <1>4
  <2> HIDE DEF r, c
  <2>2. r[k] = c[j]
    <3>1. n - j + 1 = k
      BY <1>4, <2>1
    <3> QED
      BY <1>8, <3>1
  <2> QED
    BY <1>9, <2>2
<1>12. d \in [1 .. n -> Nat] /\ e \in [1 .. n -> Nat]
  <2> HIDE DEF c, r
  <2> QED
    BY <1>9, <1>11 DEF Values
<1>13. Mirror(n, S, T, d, e)
  <2> HIDE DEF c, r, n
  <2> QED
    BY <1>8, <1>10 DEF Mirror, Separators, Values
<1>14. sum = CHOOSE g : SumIs(Wrap, base, n, S, d, g)
  <2>1. Onwards(c, n, i)
    BY DEF Onwards
  <2> HIDE DEF c, n
  <2> QED
    BY <1>4, <2>1, SumOfDigits
<1>15. Backwards(r, n, s)
  BY DEF Backwards
<1>16. weight = CHOOSE g : WeightIs(base, n, T, g)
  <2> HIDE DEF r, n
  <2> QED
    BY <1>4, <1>15, WeightOfDigits, SMTT(30)
<1>17. worth = CHOOSE g : WorthIs(n, T, e, weight, g)
  <2> HIDE DEF r, n, weight
  <2> QED
    BY <1>4, <1>15, WorthOfDigits, SMTT(30)
<1> HIDE DEF n, S, T, d, e, sum, weight, worth
<1>18. Wrap \in Nat \ {0}
  BY LexerAssumption
<1>19. SumRuns(Wrap, base, n, S, d, sum)
  <2>1. SumRuns(Wrap, base, n, S, d, CHOOSE g : SumIs(Wrap, base, n, S, d, g))
    BY <1>2, <1>4, <1>12, <1>18, SumTyped, SMTT(30)
  <2> QED
    BY <1>14, <2>1, Zenon
<1>20. WeightRuns(base, n, T, weight)
  <2>1. WeightRuns(base, n, T, CHOOSE g : WeightIs(base, n, T, g))
    BY <1>2, <1>4, WeightTyped
  <2> QED
    BY <1>16, <2>1, Zenon
<1>21. WorthRuns(n, T, e, weight, worth)
  <2>1. weight \in [0 .. n -> Nat]
    BY <1>20 DEF WeightRuns
  <2>2. WorthRuns(n, T, e, weight, CHOOSE g : WorthIs(n, T, e, weight, g))
    BY <1>4, <1>12, <2>1, WorthTyped
  <2> QED
    BY <1>17, <2>2, Zenon
<1>22. Accounted(Wrap, n, sum, worth)
  BY <1>2, <1>4, <1>12, <1>13, <1>18, <1>19, <1>20, <1>21, ReadsValue
<1>23. Number(i, base).value = (worth[n] % Wrap)
  BY <1>1, <1>22 DEF Accounted
<1> QED
  BY <1>1, <1>7, <1>23, Zenon DEF s

(* What the token of a number says of the piece that it ends at             *)
Meant(t, i, tok) ==
    \E base \in {2, 8, 10, 16} : /\ Written(Piece(t, i, tok.upto), base)
                                 /\ tok.value = Worth(Piece(t, i, tok.upto), base)

(* A decimal number is worth its digits.                                    *)
LEMMA DecimalMeant ==
    ASSUME text \in Source, NEW i \in 1 .. Len(text), At(text, i) \in Digits(10)
    PROVE  Meant(text, i, Number(i, 10))
<1> DEFINE n == Len(text)
           C == Digits(10) \cup {"_"}
           upto == Past(i, C)
           tok == Number(i, 10)
<1>1. n \in Nat /\ i \in 1 .. n + 1 /\ i \in 1 .. i
  BY SourceChars
<1>2. "end" \notin C /\ At(text, i) \in C
  BY DigitSets
<1>3. tok.upto = upto
  BY DEF Number
<1> HIDE DEF upto, tok, C
<1>4. upto \in i .. n + 1 /\ At(text, upto) \notin C
      /\ \A k \in i .. upto - 1 : At(text, k) \in C
  BY <1>1, <1>2, PastFinds DEF upto
<1>5. upto \in i + 1 .. n + 1
  <2>1. upto # i
    BY <1>2, <1>4
  <2> QED
    BY <1>1, <1>4, <2>1
<1>6. Written(Piece(text, i, upto), 10)
  BY <1>4, <1>5, PieceDecimal DEF C
<1>7. tok.value = Worth(Piece(text, i, tok.upto), 10)
  <2>1. i = IF 10 = 10 THEN i ELSE i - 2
    OBVIOUS
  <2> QED
    BY <1>1, <2>1, Bases, NumberMeans DEF tok
<1>8. Meant(text, i, tok)
  BY <1>3, <1>6, <1>7 DEF Meant
<1> QED
  BY <1>8 DEF tok

(* So is a number behind a prefix.                                          *)
LEMMA PrefixedMeant ==
    ASSUME text \in Source, NEW i \in 1 .. Len(text), At(text, i) = "0",
           At(text, i + 1) \in DOMAIN zeroChar
    PROVE  Meant(text, i, Number(i + 2, zeroChar[At(text, i + 1)]))
<1> DEFINE n == Len(text)
           base == zeroChar[At(text, i + 1)]
           C == Digits(base) \cup {"_"}
           upto == Past(i + 2, C)
           tok == Number(i + 2, base)
<1>1. n \in Nat /\ At(text, n + 1) = "end" /\ i \in Nat
  BY SourceChars
<1>2. At(text, i + 1) \in {"b", "o", "x"}
  BY DigitSets
<1>3. i + 1 \in 1 .. n
  BY <1>1, <1>2
<1>4. base \in {2, 8, 16} /\ "end" \notin C /\ base # 10 /\ IsBase(base)
  BY <1>2, Bases, DigitSets
<1>5. tok.upto = upto
  BY DEF Number
<1> HIDE DEF base, C, upto, tok
<1>6. i + 2 \in 1 .. n + 1 /\ i \in 1 .. i + 2 /\ i + 2 - 2 = i
  BY <1>1, <1>3
<1>7. upto \in i + 2 .. n + 1 /\ \A k \in i + 2 .. upto - 1 : At(text, k) \in C
  BY <1>4, <1>6, PastFinds DEF upto
<1>8. upto \in i + 1 .. n + 1
  BY <1>1, <1>7
<1>9. Written(Piece(text, i, upto), base)
  <2>1. zeroChar[At(text, i + 1)] = base
    BY DEF base
  <2>2. \A k \in i + 2 .. upto - 1 : At(text, k) \in Digits(base) \cup {"_"}
    BY <1>7 DEF C
  <2>3. upto >= i + 2
    BY <1>1, <1>7
  <2>4. base # 10
    BY <1>4
  <2> QED
    <3>1. Written(Piece(text, i, upto), base) <=>
             /\ upto >= i + 2 /\ At(text, i) = "0" /\ At(text, i + 1) \in DOMAIN zeroChar
             /\ zeroChar[At(text, i + 1)] = base
             /\ \A k \in i + 2 .. upto - 1 : At(text, k) \in Digits(base) \cup {"_"}
      BY <1>8, <2>4, PiecePrefixed
    <3> QED
      BY <2>1, <2>2, <2>3, <3>1, Zenon
<1>10. tok.value = Worth(Piece(text, i, tok.upto), base)
  <2>1. PICK j \in 1 .. n + 1 : j = i + 2
    BY <1>6
  <2>2. i = (IF base = 10 THEN j ELSE j - 2) /\ i \in 1 .. j
    BY <1>4, <1>6, <2>1
  <2>3. Number(j, base).value = Worth(Piece(text, i, Number(j, base).upto), base)
    BY <1>4, <2>1, <2>2, NumberMeans
  <2> QED
    BY <2>1, <2>3, Zenon DEF tok
<1>11. Meant(text, i, tok)
  BY <1>4, <1>5, <1>9, <1>10 DEF Meant
<1> QED
  BY <1>11 DEF tok, base

(* Whatever the scanner calls a number is one, and worth its digits.        *)
LEMMA ScanMeant ==
    ASSUME text \in Source, NEW i \in 1 .. Len(text) + 1, At(text, i) # Blank, Scan(i).token = "number"
    PROVE  Meant(text, i, Scan(i))
<1>1. At(text, i) # "end"
  BY ScanCases DEF Tok
<1>2. i \in 1 .. Len(text)
  <2>1. Len(text) \in Nat /\ At(text, Len(text) + 1) = "end"
    BY SourceChars
  <2> QED
    BY <1>1, <2>1
<1>3. At(text, i) # Quote
  <2>1. String(i).token = "string"
    BY DEF String, Tok
  <2> QED
    BY <2>1, ScanCases
<1>4. CASE At(text, i) = "0" /\ At(text, i + 1) \in DOMAIN zeroChar
  BY <1>2, <1>4, ScanCases, PrefixedMeant
<1>5. CASE At(text, i) \in Digits(10) /\ ~ (At(text, i) = "0" /\ At(text, i + 1) \in DOMAIN zeroChar)
  BY <1>2, <1>5, ScanCases, DecimalMeant
<1>6. At(text, i) # "."
  BY ScanCases DEF Dot, Tok
<1>7. ~ (NewlineIn(text, i) > 0)
  BY ScanCases DEF Tok
<1>8. At(text, i) \notin DOMAIN Doubled
  <2> SUFFICES ASSUME At(text, i) \in DOMAIN Doubled PROVE FALSE
    OBVIOUS
  <2>1. Scan(i) = Operator(i)
    BY ScanCases
  <2>2. Operator(i).token \in {WithEq[At(text, i)], Doubled[At(text, i)]}
    BY CharAt DEF Operator, Tok
  <2>3. WithEq[At(text, i)] # "number" /\ Doubled[At(text, i)] # "number"
    BY DEF Doubled, WithEq
  <2> QED
    BY <2>1, <2>2, <2>3
<1>9. At(text, i) \notin DOMAIN Single \ {"."}
  <2> SUFFICES ASSUME At(text, i) \in DOMAIN Single \ {"."} PROVE FALSE
    OBVIOUS
  <2>1. Scan(i) = Tok(Single[At(text, i)], i + 1)
    BY ScanCases
  <2>2. Single[At(text, i)] # "number"
    BY DEF Single
  <2> QED
    BY <2>1, <2>2 DEF Tok
<1>10. At(text, i) \in Starters
  <2> SUFFICES ASSUME At(text, i) \notin Starters PROVE FALSE
    OBVIOUS
  <2>1. Scan(i) = Word(i)
    BY <1>1, ScanCases
  <2> QED
    BY <2>1 DEF Word, Tok, Keyword
<1>11. At(text, i) \in {"\n", "\r"} => NewlineIn(text, i) > 0
  <2>1. NewlineIn(text, i) \in {0, 1, 2} /\ (NewlineIn(text, i) = 0 <=> At(text, i) \notin {"\r", "\n"})
    BY NewlineLength
  <2> QED
    BY <2>1
<1> QED
  BY <1>3, <1>4, <1>5, <1>6, <1>7, <1>8, <1>9, <1>10, <1>11, StarterSet
-----------------------------------------------------------------------------
(* The location that follows from the tokens before a place                 *)
NewlineStart(t, i) == NewlineIn(t, i) > 0 /\ ~ Mid(t, i)
InSpan(S, i) == \E k \in 1 .. Len(S) : S[k].from <= i /\ i < S[k].upto
Counted(t, S, x) == {i \in 1 .. x - 1 : NewlineStart(t, i) /\ InSpan(S, i)}
Begin(t, S, x) == IF Counted(t, S, x) = {} THEN 1
                  ELSE Max(Counted(t, S, x)) + NewlineIn(t, Max(Counted(t, S, x)))
TextsOn(S, b) == {k \in 1 .. Len(S) : S[k].token = "string" /\ S[k].from >= b}
Place(t, S, x) == [line |-> 1 + Cardinality(Counted(t, S, x)),
                   col  |-> x - Begin(t, S, x) + 1 + Cardinality(TextsOn(S, Begin(t, S, x)))]

(* A set of places below a bound has a greatest element.                    *)
LEMMA Latest ==
    ASSUME NEW x \in Nat, NEW S \in SUBSET (1 .. x - 1), S # {}
    PROVE  Max(S) \in S /\ \A y \in S : y <= Max(S)
<1> DEFINE B == {b \in Nat : \A y \in S : y <= b}
<1>1. \A y \in S : y \in Nat /\ y >= 1 /\ y <= x
  OBVIOUS
<1>2. B \in SUBSET Nat /\ x \in B
  BY <1>1
<1>3. PICK m \in B : \A b \in B : m <= b
  BY <1>2, LeastNat
<1>4. m \in S
  <2> SUFFICES ASSUME m \notin S PROVE FALSE
    OBVIOUS
  <2>1. PICK y \in S : TRUE
    OBVIOUS
  <2>2. m \in Nat /\ m >= 1
    BY <1>1, <1>3, <2>1
  <2>3. \A z \in S : z <= m - 1
    BY <1>1, <1>3, <2>2
  <2>4. m - 1 \in B
    BY <2>2, <2>3
  <2> QED
    BY <1>3, <2>2, <2>4
<1>5. \E z \in S : \A y \in S : y <= z
  BY <1>3, <1>4
<1> HIDE DEF B
<1> QED
  BY <1>5 DEF Max

(* Finitely many newlines and texts are counted.                            *)
LEMMA CountedFinite ==
    ASSUME NEW t, NEW S, NEW x \in Nat
    PROVE  /\ Counted(t, S, x) \in SUBSET (1 .. x - 1)
           /\ IsFiniteSet(Counted(t, S, x)) /\ Cardinality(Counted(t, S, x)) \in Nat
<1> DEFINE C == Counted(t, S, x)
<1>1. C \in SUBSET (1 .. x - 1)
  BY DEF Counted
<1>2. IsFiniteSet(1 .. x - 1)
  BY FS_Interval
<1> HIDE DEF C
<1>3. IsFiniteSet(C) /\ Cardinality(C) \in Nat
  BY <1>1, <1>2, FS_Subset, FS_CardinalityType
<1> QED
  BY <1>1, <1>3 DEF C

(* The same of the texts on a line                                          *)
LEMMA TextsFinite ==
    ASSUME NEW S, Len(S) \in Nat, NEW b
    PROVE  /\ TextsOn(S, b) \in SUBSET (1 .. Len(S))
           /\ IsFiniteSet(TextsOn(S, b)) /\ Cardinality(TextsOn(S, b)) \in Nat
<1> DEFINE T == TextsOn(S, b)
<1>1. T \in SUBSET (1 .. Len(S))
  BY DEF TextsOn
<1>2. IsFiniteSet(1 .. Len(S))
  BY FS_Interval
<1> HIDE DEF T
<1>3. IsFiniteSet(T) /\ Cardinality(T) \in Nat
  BY <1>1, <1>2, FS_Subset, FS_CardinalityType
<1> QED
  BY <1>1, <1>3 DEF T

(* The line that a place is on begins at the place at the latest.           *)
LEMMA BeginBefore ==
    ASSUME NEW t, NEW S, NEW x \in Nat \ {0}, ~ Mid(t, x)
    PROVE  Begin(t, S, x) \in 1 .. x
<1> DEFINE C == Counted(t, S, x)
           m == Max(C)
<1>1. CASE C = {}
  BY <1>1 DEF Begin
<1>2. CASE C # {}
  <2>1. C \in SUBSET (1 .. x - 1)
    BY DEF Counted
  <2>2. m \in C
    BY <1>2, <2>1, Latest
  <2>3. Begin(t, S, x) = m + NewlineIn(t, m)
    BY <1>2 DEF Begin
  <2>4. m \in 1 .. x - 1
    BY <2>1, <2>2
  <2>5. NewlineIn(t, m) \in {0, 1, 2} /\ (NewlineIn(t, m) = 2 => At(t, m) = "\r" /\ At(t, m + 1) = "\n")
    BY NewlineLength
  <2> HIDE DEF m
  <2>6. ~ (NewlineIn(t, m) = 2 /\ m = x - 1)
    <3>1. m = x - 1 => m + 1 = x /\ x > 1
      BY <2>4
    <3> QED
      BY <2>5, <3>1 DEF Mid
  <2> QED
    BY <2>3, <2>4, <2>5, <2>6
<1> QED
  BY <1>1, <1>2
-----------------------------------------------------------------------------
(* Where no newline is between two places, the column follows.              *)
LEMMA PlaceKept ==
    ASSUME NEW t, NEW S, Len(S) \in Nat, NEW x \in Nat \ {0}, NEW y \in Nat, ~ Mid(t, x),
           Counted(t, S, y) = Counted(t, S, x)
    PROVE  Place(t, S, y) = [line |-> Place(t, S, x).line, col |-> Place(t, S, x).col + (y - x)]
<1> DEFINE b == Begin(t, S, x)
           n == Cardinality(TextsOn(S, b))
           l == 1 + Cardinality(Counted(t, S, x))
<1>1. Begin(t, S, y) = b
  BY DEF Begin
<1>2. b \in 1 .. x
  BY BeginBefore
<1>3. n \in Nat
  BY TextsFinite
<1>4. Place(t, S, x) = [line |-> l, col |-> x - b + 1 + n]
  BY DEF Place
<1>5. Place(t, S, y) = [line |-> l, col |-> y - b + 1 + n]
  BY <1>1, Zenon DEF Place
<1> HIDE DEF b, n, l
<1>6. y - b + 1 + n = x - b + 1 + n + (y - x)
  BY <1>2, <1>3
<1> QED
  BY <1>4, <1>5, <1>6

(* One character further, inside a token, the location is again the one     *)
(* that follows from the tokens: here without a newline ...                 *)
LEMMA OverChar ==
    ASSUME NEW t, NEW S, Len(S) \in Nat, NEW x \in Nat \ {0}, NewlineIn(t, x) = 0, ~ Mid(t, x)
    PROVE  /\ Place(t, S, x + 1) = [line |-> Place(t, S, x).line, col |-> Place(t, S, x).col + 1]
           /\ ~ Mid(t, x + 1)
<1>1. PICK y \in Nat : y = x + 1
  OBVIOUS
<1>2. Counted(t, S, y) = Counted(t, S, x)
  <2>1. ~ NewlineStart(t, x)
    BY DEF NewlineStart
  <2>2. 1 .. y - 1 = (1 .. x - 1) \cup {x}
    BY <1>1
  <2> QED
    BY <2>1, <2>2 DEF Counted
<1>3. Place(t, S, y) = [line |-> Place(t, S, x).line, col |-> Place(t, S, x).col + (y - x)]
  BY <1>2, PlaceKept
<1>4. y - x = 1
  BY <1>1
<1>5. At(t, x) # "\r" /\ x + 1 - 1 = x
  BY NewlineLength
<1>6. ~ Mid(t, x + 1)
  BY <1>5 DEF Mid
<1> QED
  BY <1>1, <1>3, <1>4, <1>6

(* ... and here over one.                                                   *)
LEMMA OverNewline ==
    ASSUME NEW t, NEW S, Len(S) \in Nat, NEW x \in Nat \ {0}, NewlineIn(t, x) # 0, ~ Mid(t, x),
           InSpan(S, x), \A k \in 1 .. Len(S) : S[k].from \in Nat /\ S[k].from <= x
    PROVE  /\ Place(t, S, x + NewlineIn(t, x)) = [line |-> Place(t, S, x).line + 1, col |-> 1]
           /\ ~ Mid(t, x + NewlineIn(t, x))
<1> DEFINE l == NewlineIn(t, x)
<1>1. l \in {1, 2} /\ (l = 2 <=> At(t, x) = "\r" /\ At(t, x + 1) = "\n")
      /\ At(t, x) \in {"\r", "\n"}
  BY NewlineLength
<1>2. PICK y \in Nat : y = x + l
  BY <1>1
<1>3. y - 1 = IF l = 2 THEN x + 1 ELSE x
  BY <1>1, <1>2
<1>4. NewlineStart(t, x)
  <2>1. l > 0
    BY <1>1
  <2> QED
    BY <2>1 DEF NewlineStart
<1>5. l = 2 => ~ NewlineStart(t, x + 1)
  <2>1. x + 1 > 1 /\ x + 1 - 1 = x
    OBVIOUS
  <2>2. l = 2 => Mid(t, x + 1)
    BY <1>1, <2>1 DEF Mid
  <2> QED
    BY <2>2 DEF NewlineStart
<1>6. ~ Mid(t, y)
  <2>1. CASE l = 2
    BY <1>1, <1>3, <2>1 DEF Mid
  <2>2. CASE l = 1
    <3>1. y - 1 = x /\ y = x + 1
      BY <1>2, <2>2
    <3> QED
      BY <1>1, <2>2, <3>1 DEF Mid
  <2> QED
    BY <1>1, <2>1, <2>2
<1> DEFINE C == Counted(t, S, x)
           D == Counted(t, S, y)
<1>7. D = C \cup {x}
  <2>1. D = {i \in 1 .. y - 1 : NewlineStart(t, i) /\ InSpan(S, i)}
    BY DEF Counted
  <2>2. C = {i \in 1 .. x - 1 : NewlineStart(t, i) /\ InSpan(S, i)}
    BY DEF Counted
  <2> HIDE DEF C, D, l
  <2>3. CASE l = 1
    <3>1. 1 .. y - 1 = (1 .. x - 1) \cup {x}
      BY <1>2, <2>3
    <3> QED
      BY <1>4, <2>1, <2>2, <3>1
  <2>4. CASE l = 2
    <3>1. 1 .. y - 1 = (1 .. x - 1) \cup {x, x + 1}
      BY <1>2, <2>4
    <3> QED
      BY <1>4, <1>5, <2>1, <2>2, <2>4, <3>1
  <2> QED
    BY <1>1, <2>3, <2>4
<1>8. C \in SUBSET (1 .. x - 1) /\ IsFiniteSet(C) /\ Cardinality(C) \in Nat
  BY CountedFinite
<1>9. D \in SUBSET (1 .. y - 1)
  BY CountedFinite
<1> HIDE DEF C, D, l
<1>10. x \notin C
  BY <1>8
<1>11. Cardinality(D) = Cardinality(C) + 1
  BY <1>7, <1>8, <1>10, FS_AddElement
<1>12. Max(D) = x /\ D # {}
  <2>1. D # {}
    BY <1>7
  <2>2. Max(D) \in D /\ \A z \in D : z <= Max(D)
    BY <1>9, <2>1, Latest
  <2>3. x \in D /\ \A z \in D : z \in Nat /\ z <= x
    BY <1>7, <1>8
  <2> DEFINE m == Max(D)
  <2> HIDE DEF m
  <2>4. m \in Nat /\ m <= x /\ x <= m
    BY <2>2, <2>3 DEF m
  <2>5. m = x
    BY <2>4
  <2> QED
    BY <2>1, <2>5 DEF m
<1>13. Begin(t, S, y) = y
  BY <1>2, <1>12 DEF Begin, D, l
<1>14. TextsOn(S, y) = {}
  <2>1. ASSUME NEW k \in 1 .. Len(S) PROVE ~ (S[k].from >= y)
    <3>1. S[k].from \in Nat /\ S[k].from <= x
      OBVIOUS
    <3> QED
      BY <1>1, <1>2, <3>1
  <2> QED
    BY <2>1 DEF TextsOn
<1>15. Place(t, S, y) = [line |-> 1 + Cardinality(D), col |-> y - y + 1 + Cardinality({})]
  BY <1>13, <1>14, Zenon DEF Place, D
<1>16. y - y + 1 + 0 = 1 /\ 1 + (Cardinality(C) + 1) = 1 + Cardinality(C) + 1
       /\ Cardinality({}) = 0
  BY <1>8, FS_EmptySet
<1>17. Place(t, S, x).line = 1 + Cardinality(C)
  BY DEF Place, C
<1> QED
  BY <1>2, <1>6, <1>11, <1>15, <1>16, <1>17 DEF l

(* A token behind what is skipped adds its own column only, and one for a   *)
(* text.                                                                    *)
LEMMA OverBlanks ==
    ASSUME NEW t, NEW S \in Seq(Spans), NEW x \in Nat \ {0}, ~ Mid(t, x),
           \A k \in 1 .. Len(S) : S[k].upto <= x,
           NEW from \in Nat, from >= x, NEW s \in Spans, s.from = from
    PROVE  Place(t, Append(S, s), from) =
              [line |-> Place(t, S, x).line,
               col  |-> Place(t, S, x).col + (from - x) + (IF s.token = "string" THEN 1 ELSE 0)]
<1> DEFINE R == Append(S, s)
           n == Len(S)
           C == Counted(t, S, x)
           b == Begin(t, S, x)
           one == IF s.token = "string" THEN 1 ELSE 0
<1>1. n \in Nat /\ Len(R) = n + 1 /\ R[n + 1] = s /\ \A k \in 1 .. n : R[k] = S[k]
  OBVIOUS
<1>2. \A k \in 1 .. n : S[k].upto \in Nat /\ S[k].from \in Nat
  <2>1. \A k \in 1 .. n : S[k] \in Spans
    OBVIOUS
  <2>2. \A r \in Spans : r.upto \in Nat /\ r.from \in Nat
    BY DEF Spans
  <2> QED
    BY <2>1, <2>2
<1> HIDE DEF R
<1>3. \A i \in Nat : i < from => (InSpan(R, i) <=> InSpan(S, i))
  <2> SUFFICES ASSUME NEW i \in Nat, i < from PROVE InSpan(R, i) <=> InSpan(S, i)
    OBVIOUS
  <2>1. ~ (R[n + 1].from <= i)
    BY <1>1
  <2>2. 1 .. Len(R) = (1 .. n) \cup {n + 1}
    BY <1>1
  <2> QED
    BY <1>1, <2>1, <2>2 DEF InSpan
<1>4. \A i \in Nat : i >= x => ~ InSpan(S, i)
  <2> SUFFICES ASSUME NEW i \in Nat, i >= x, NEW k \in 1 .. n PROVE ~ (i < S[k].upto)
    BY DEF InSpan
  <2>1. S[k].upto \in Nat /\ S[k].upto <= x
    BY <1>2
  <2> QED
    BY <2>1
<1>5. Counted(t, R, from) = C
  <2>1. ASSUME NEW i \in Counted(t, R, from) PROVE i \in C
    <3>1. i \in 1 .. from - 1 /\ NewlineStart(t, i) /\ InSpan(R, i)
      BY <2>1 DEF Counted
    <3>2. InSpan(S, i) /\ i \in Nat
      BY <1>3, <3>1
    <3>3. i < x
      BY <1>4, <3>2
    <3> QED
      BY <3>1, <3>2, <3>3 DEF Counted
  <2>2. ASSUME NEW i \in C PROVE i \in Counted(t, R, from)
    <3>1. i \in 1 .. x - 1 /\ NewlineStart(t, i) /\ InSpan(S, i)
      BY <2>2 DEF Counted
    <3>2. i \in 1 .. from - 1
      BY <3>1
    <3> QED
      BY <1>3, <3>1, <3>2 DEF Counted
  <2> QED
    BY <2>1, <2>2
<1>6. Begin(t, R, from) = b
  BY <1>5 DEF Begin
<1>7. b \in 1 .. x
  BY BeginBefore
<1> DEFINE T == TextsOn(S, b)
<1>8. T \in SUBSET (1 .. n) /\ IsFiniteSet(T) /\ Cardinality(T) \in Nat
  BY <1>1, TextsFinite
<1>9. TextsOn(R, b) = IF s.token = "string" THEN T \cup {n + 1} ELSE T
  <2>1. R[n + 1].from >= b
    BY <1>1, <1>7
  <2>2. 1 .. Len(R) = (1 .. n) \cup {n + 1}
    BY <1>1
  <2> HIDE DEF b
  <2> QED
    BY <1>1, <2>1, <2>2 DEF TextsOn
<1> HIDE DEF T, C, b
<1>10. Cardinality(TextsOn(R, b)) = Cardinality(T) + one
  <2>1. n + 1 \notin T
    BY <1>1, <1>8
  <2>2. Cardinality(T \cup {n + 1}) = Cardinality(T) + 1
    BY <1>8, <2>1, FS_AddElement
  <2>3. Cardinality(T) = Cardinality(T) + 0
    BY <1>8
  <2> QED
    BY <1>9, <2>2, <2>3
<1>11. Place(t, S, x) = [line |-> 1 + Cardinality(C), col |-> x - b + 1 + Cardinality(T)]
  BY DEF Place, T, C, b
<1>12. Place(t, R, from) = [line |-> 1 + Cardinality(C), col |-> from - b + 1 + (Cardinality(T) + one)]
  BY <1>5, <1>6, <1>10, Zenon DEF Place
<1>13. from - b + 1 + (Cardinality(T) + one) = x - b + 1 + Cardinality(T) + (from - x) + one
  BY <1>7, <1>8
<1> HIDE DEF one
<1>14. Place(t, R, from) = [line |-> Place(t, S, x).line, col |-> Place(t, S, x).col + (from - x) + one]
  BY <1>11, <1>12, <1>13
<1> QED
  BY <1>14 DEF R, one
-----------------------------------------------------------------------------
(* What holds of a source that is being read, or waits for one that it      *)
(* imports: S are the tokens so far, i is the end of the last one, p its    *)
(* beginning, l the location and tok the last token.                        *)
Told(t, S, tok) ==
    LET last   == S[Len(S)]
        before == IF Len(S) = 1 THEN 1 ELSE S[Len(S) - 1].upto
    IN  /\ ToSet(Piece(t, before, last.from)) \subseteq Skipped(last.space)
        /\ IF tok = "eof" THEN last.from = Len(t) + 1
           ELSE \/ tok = "string" /\ last.upto = Len(t) + 1 /\ Open(t, last.from)
                \/ Piece(t, last.from, last.upto) # <<>> /\ Best(t, last.from, [token |-> tok, upto |-> last.upto])

Reading(t, S, i, p, l, tok) ==
    /\ t \in Source /\ S \in Seq(Spans)
    /\ i \in 1 .. Len(t) + 1 /\ ~ Mid(t, i)
    /\ \A k \in 1 .. Len(S) : S[k].upto <= i
    /\ S = <<>> => i = 1 /\ p = 0 /\ l = [line |-> 1, col |-> 1]
    /\ S # <<>> => /\ p = S[Len(S)].from /\ i = S[Len(S)].upto
                   /\ p \in 1 .. i /\ ~ Mid(t, p)
                   /\ \A k \in 1 .. Len(S) : S[k].from <= p
                   /\ l = Place(t, S, p)
                   /\ Told(t, S, tok)

-----------------------------------------------------------------------------
(* The walk from the last token to its end                                  *)
WalkStart == [at |-> IF priv = 0 THEN input ELSE priv, loc |-> loc]
Onward(w) == IF w.at = input THEN w ELSE nextChar(w)
OnPath(w) == /\ w.at \in 1 .. input /\ ~ Mid(text, w.at)
             /\ w.loc = Place(text, spans, w.at)
             /\ w.at # input => w.at >= priv /\ priv # 0

(* A location is a line and a column.                                       *)
LEMMA PlaceRecord ==
    ASSUME NEW t, NEW S, NEW x
    PROVE  Place(t, S, x) = [line |-> Place(t, S, x).line, col |-> Place(t, S, x).col]
BY DEF Place

(* Where nothing has been read, the location is the first.                  *)
LEMMA FirstPlace ==
    ASSUME NEW t
    PROVE  Place(t, <<>>, 1) = [line |-> 1, col |-> 1]
<1>1. Counted(t, <<>>, 1) = {}
  BY DEF Counted
<1>2. Begin(t, <<>>, 1) = 1
  BY <1>1 DEF Begin
<1>3. TextsOn(<<>>, 1) = {}
  BY DEF TextsOn
<1>4. Cardinality({}) = 0
  BY FS_EmptySet
<1>5. Place(t, <<>>, 1) = [line |-> 1 + 0, col |-> 1 - 1 + 1 + 0]
  BY <1>1, <1>2, <1>3, <1>4 DEF Place
<1> QED
  BY <1>5

(* The walk begins on its path.                                             *)
LEMMA StartsOnPath ==
    ASSUME Reading(text, spans, input, priv, loc, token)
    PROVE  OnPath(WalkStart)
<1>1. CASE spans = <<>>
  <2>1. input = 1 /\ priv = 0 /\ loc = [line |-> 1, col |-> 1] /\ ~ Mid(text, input)
    BY <1>1 DEF Reading
  <2>2. WalkStart.at = 1 /\ WalkStart.loc = loc
    BY <2>1 DEF WalkStart
  <2>3. loc = Place(text, spans, 1)
    BY <1>1, <2>1, FirstPlace
  <2> QED
    BY <2>1, <2>2, <2>3 DEF OnPath
<1>2. CASE spans # <<>>
  <2>1. /\ priv \in 1 .. input /\ ~ Mid(text, priv) /\ loc = Place(text, spans, priv)
        /\ input \in 1 .. Len(text) + 1 /\ text \in Source
    BY <1>2 DEF Reading
  <2>2. WalkStart.at = priv /\ WalkStart.loc = loc /\ priv # 0 /\ priv >= priv
    BY <2>1 DEF WalkStart
  <2> QED
    BY <2>1, <2>2 DEF OnPath
<1> QED
  BY <1>1, <1>2

(* A character or a newline further, the walk is on its path, and nearer to *)
(* the end of the token.                                                    *)
LEMMA StaysOnPath ==
    ASSUME Reading(text, spans, input, priv, loc, token), NEW w, OnPath(w), w.at # input
    PROVE  OnPath(nextChar(w)) /\ nextChar(w).at >= w.at + 1
<1> DEFINE x == w.at
           l == NewlineIn(text, x)
           n == Len(spans)
<1>1. /\ x \in Nat \ {0} /\ x < input /\ ~ Mid(text, x) /\ w.loc = Place(text, spans, x)
      /\ x >= priv /\ priv # 0 /\ input \in Nat /\ ~ Mid(text, input)
  BY SourceChars DEF OnPath, Reading
<1>2. spans # <<>>
  BY <1>1 DEF Reading
<1>3. /\ spans \in Seq(Spans) /\ n \in Nat /\ n \in 1 .. n
      /\ \A k \in 1 .. n : spans[k].from \in Nat /\ spans[k].upto \in Nat
  <2>1. spans \in Seq(Spans)
    BY DEF Reading
  <2>2. n \in Nat /\ n \in 1 .. n
    BY <1>2, <2>1
  <2>3. \A k \in 1 .. n : spans[k] \in Spans
    BY <2>1
  <2>4. \A r \in Spans : r.upto \in Nat /\ r.from \in Nat
    BY DEF Spans
  <2> QED
    BY <2>1, <2>2, <2>3, <2>4
<1>4. /\ priv = spans[n].from /\ input = spans[n].upto /\ priv \in Nat
      /\ \A k \in 1 .. n : spans[k].from <= priv
  <2>1. priv = spans[n].from /\ input = spans[n].upto /\ \A k \in 1 .. n : spans[k].from <= priv
    BY <1>2 DEF Reading
  <2> QED
    BY <1>3, <2>1
<1>5. InSpan(spans, x)
  <2>1. spans[n].from <= x /\ x < spans[n].upto
    BY <1>1, <1>4
  <2> QED
    BY <1>3, <2>1 DEF InSpan
<1>6. \A k \in 1 .. n : spans[k].from \in Nat /\ spans[k].from <= x
  <2> SUFFICES ASSUME NEW k \in 1 .. n PROVE spans[k].from \in Nat /\ spans[k].from <= x
    OBVIOUS
  <2>1. spans[k].from \in Nat /\ spans[k].from <= priv
    BY <1>3, <1>4
  <2> QED
    BY <1>1, <1>4, <2>1
<1>7. l \in {0, 1, 2} /\ (l = 2 => At(text, x) = "\r" /\ At(text, x + 1) = "\n")
  BY NewlineLength
<1>8. nextChar(w) = IF l = 0 THEN [at |-> x + 1, loc |-> [w.loc EXCEPT !.col = @ + 1]]
                    ELSE [at |-> x + l, loc |-> [line |-> w.loc.line + 1, col |-> 1]]
  BY CharAt DEF nextChar
<1>9. x + l <= input
  <2>1. ~ (l = 2 /\ x + 1 = input)
    <3>1. x + 1 = input => input > 1 /\ input - 1 = x
      BY <1>1
    <3> QED
      BY <1>1, <1>7, <3>1 DEF Mid
  <2> QED
    BY <1>1, <1>7, <2>1
<1> HIDE DEF l, x
<1>10. CASE l = 0
  <2>1. /\ Place(text, spans, x + 1) = [line |-> w.loc.line, col |-> w.loc.col + 1]
        /\ ~ Mid(text, x + 1)
    BY <1>1, <1>3, <1>10, OverChar DEF l
  <2>2. w.loc = [line |-> w.loc.line, col |-> w.loc.col]
    BY <1>1, PlaceRecord
  <2>3. [w.loc EXCEPT !.col = @ + 1] = [line |-> w.loc.line, col |-> w.loc.col + 1]
    BY <2>2
  <2>4. nextChar(w).at = x + 1 /\ nextChar(w).loc = Place(text, spans, x + 1)
    BY <1>8, <1>10, <2>1, <2>3
  <2>5. x + 1 \in 1 .. input /\ x + 1 >= priv
    BY <1>1, <1>4
  <2> QED
    BY <1>1, <2>1, <2>4, <2>5 DEF OnPath, x
<1>11. CASE l # 0
  <2>1. /\ Place(text, spans, x + l) = [line |-> w.loc.line + 1, col |-> 1]
        /\ ~ Mid(text, x + l)
    BY <1>1, <1>3, <1>5, <1>6, <1>11, OverNewline DEF l
  <2>2. nextChar(w).at = x + l /\ nextChar(w).loc = Place(text, spans, x + l)
    BY <1>8, <1>11, <2>1
  <2>3. x + l \in 1 .. input /\ x + l >= priv /\ x + l >= x + 1
    BY <1>1, <1>4, <1>7, <1>9, <1>11
  <2> QED
    BY <1>1, <2>1, <2>2, <2>3 DEF OnPath, x
<1> QED
  BY <1>10, <1>11

(* The walk as far as k characters is a function, by induction on k.        *)
Walk(k, g) == g = [n \in 0 .. k |-> IF n = 0 THEN WalkStart ELSE Onward(g[n - 1])]

(* There is one for every k.                                                *)
LEMMA WalkExists ==
    ASSUME NEW k \in Nat
    PROVE  \E g : Walk(k, g)
<1> SUFFICES ASSUME \A g : ~ Walk(k, g) PROVE FALSE
  OBVIOUS
<1> DEFINE Bad == {n \in Nat : \A g : ~ Walk(n, g)}
<1>1. PICK m \in Bad : \A n \in Bad : m <= n
  <2>1. Bad \in SUBSET Nat /\ Bad # {}
    OBVIOUS
  <2> QED
    BY <2>1, LeastNat
<1>2. CASE m = 0
  <2> DEFINE g == [n \in 0 .. 0 |-> WalkStart]
  <2>1. g = [n \in 0 .. 0 |-> IF n = 0 THEN WalkStart ELSE Onward(g[n - 1])]
    <3>1. \A n \in 0 .. 0 : n = 0
      OBVIOUS
    <3> QED
      BY <3>1
  <2> QED
    BY <1>1, <1>2, <2>1 DEF Walk
<1>3. CASE m # 0
  <2>1. m - 1 \in Nat /\ m \in Nat /\ m - 1 \notin Bad
    BY <1>1, <1>3
  <2>2. PICK f : Walk(m - 1, f)
    BY <2>1
  <2> DEFINE g == [n \in 0 .. m |-> IF n = m THEN Onward(f[m - 1]) ELSE f[n]]
             step(n, h) == IF n = 0 THEN WalkStart ELSE Onward(h[n - 1])
  <2>3. f = [n \in 0 .. m - 1 |-> step(n, f)]
    BY <2>2 DEF Walk
  <2>4. ASSUME NEW n \in 0 .. m PROVE g[n] = step(n, g)
    <3>1. CASE n = m
      <4>1. g[n] = Onward(f[m - 1]) /\ g[m - 1] = f[m - 1]
        BY <2>1, <3>1
      <4> QED
        BY <1>3, <3>1, <4>1
    <3>2. CASE n # m /\ n = 0
      <4>1. g[n] = f[n] /\ n \in 0 .. m - 1
        BY <2>1, <3>2
      <4> QED
        BY <2>3, <3>2, <4>1
    <3>3. CASE n # m /\ n # 0
      <4>1. g[n] = f[n] /\ n \in 0 .. m - 1 /\ n - 1 \in 0 .. m /\ n - 1 # m
        BY <2>1, <3>3
      <4>2. g[n - 1] = f[n - 1]
        BY <4>1
      <4>3. f[n] = Onward(f[n - 1])
        BY <2>3, <3>3, <4>1
      <4> QED
        BY <3>3, <4>1, <4>2, <4>3
    <3> QED
      BY <3>1, <3>2, <3>3
  <2>5. g = [n \in 0 .. m |-> step(n, g)]
    <3> DEFINE h == [n \in 0 .. m |-> step(n, g)]
    <3>1. \A n \in 0 .. m : g[n] = h[n]
      BY <2>4
    <3> HIDE DEF g, step
    <3>2. h = [n \in 0 .. m |-> h[n]]
      OBVIOUS
    <3>3. g = [n \in 0 .. m |-> g[n]]
      BY DEF g
    <3> HIDE DEF h
    <3>4. g = h
      BY <3>1, <3>2, <3>3
    <3> QED
      BY <3>4 DEF h
  <2>6. Walk(m, g)
    <3> HIDE DEF g
    <3> QED
      BY <2>5 DEF Walk
  <2> QED
    BY <1>1, <2>6
<1> QED
  BY <1>2, <1>3

(* The walk ends at the end of the token, at the location that follows from *)
(* the tokens.                                                              *)
LEMMA WalkedToEnd ==
    ASSUME Reading(text, spans, input, priv, loc, token)
    PROVE  Walked.at = input /\ Walked.loc = Place(text, spans, input)
<1> DEFINE n == Len(text)
           walk == CHOOSE g : Walk(n, g)
<1>1. n \in Nat /\ input \in 1 .. n + 1
  BY SourceChars DEF Reading
<1>2. Walked = walk[n]
  BY DEF Walked, Walk, WalkStart, Onward
<1>3. Walk(n, walk)
  <2>1. \E g : Walk(n, g)
    BY <1>1, WalkExists
  <2> QED
    BY <2>1
<1> HIDE DEF walk
<1>4. walk[0] = WalkStart /\ \A k \in 1 .. n : walk[k] = Onward(walk[k - 1])
  <2> HIDE DEF n
  <2>1. walk = [k \in 0 .. n |-> IF k = 0 THEN WalkStart ELSE Onward(walk[k - 1])]
    BY <1>3 DEF Walk
  <2>2. 0 \in 0 .. n /\ \A k \in 1 .. n : k \in 0 .. n /\ k # 0
    BY <1>1
  <2> QED
    BY <2>1, <2>2
<1> DEFINE Kept(k) == OnPath(walk[k]) /\ (walk[k].at = input \/ walk[k].at >= k + 1)
           Bad == {k \in 0 .. n : ~ Kept(k)}
<1>5. Bad = {}
  <2> SUFFICES ASSUME Bad # {} PROVE FALSE
    OBVIOUS
  <2>1. PICK m \in Bad : \A k \in Bad : m <= k
    <3>1. Bad \in SUBSET Nat
      BY <1>1
    <3> QED
      BY <3>1, LeastNat
  <2>2. m # 0
    <3>1. OnPath(walk[0])
      BY <1>4, StartsOnPath
    <3>2. walk[0].at >= 0 + 1
      BY <1>1, <3>1 DEF OnPath
    <3>3. Kept(0)
      BY <3>1, <3>2
    <3> QED
      BY <2>1, <3>3
  <2>3. m \in 1 .. n /\ m - 1 \in 0 .. n /\ Kept(m - 1)
    BY <1>1, <2>1, <2>2
  <2>4. walk[m] = Onward(walk[m - 1])
    BY <1>4, <2>3
  <2>5. CASE walk[m - 1].at = input
    <3>1. walk[m] = walk[m - 1]
      BY <2>4, <2>5 DEF Onward
    <3>2. Kept(m)
      BY <2>3, <2>5, <3>1
    <3> QED
      BY <2>1, <3>2
  <2>6. CASE walk[m - 1].at # input
    <3> DEFINE w == walk[m - 1]
    <3>1. OnPath(w) /\ w.at >= m - 1 + 1
      BY <2>3, <2>6
    <3>2. walk[m] = nextChar(w)
      BY <2>4, <2>6 DEF Onward
    <3>3. OnPath(nextChar(w)) /\ nextChar(w).at >= w.at + 1
      <4> HIDE DEF w
      <4>1. w.at # input
        BY <2>6 DEF w
      <4> QED
        BY <3>1, <4>1, StaysOnPath
    <3>4. w.at \in Nat /\ nextChar(w).at \in Nat
      BY <1>1, <3>1, <3>3 DEF OnPath
    <3> HIDE DEF w
    <3>5. nextChar(w).at >= m + 1
      BY <2>3, <3>1, <3>3, <3>4
    <3>6. Kept(m)
      BY <3>2, <3>3, <3>5
    <3> QED
      BY <2>1, <3>6
  <2> QED
    BY <2>5, <2>6
<1>6. Kept(n)
  BY <1>1, <1>5
<1>7. walk[n].at = input
  <2>1. walk[n].at \in 1 .. input
    BY <1>6 DEF OnPath
  <2> QED
    BY <1>1, <1>6, <2>1
<1> QED
  BY <1>2, <1>6, <1>7 DEF OnPath
-----------------------------------------------------------------------------
(* What is passed over in front of a token is blank, and no token begins    *)
(* inside a newline.                                                        *)
LEMMA SkippedBlanks ==
    ASSUME NEW space \in {0, 1}
    PROVE  /\ "end" \notin Skipped(space) /\ Blank \in Skipped(space)
           /\ "\r" \in Skipped(space) <=> space = 0
           /\ "\n" \in Skipped(space) <=> space = 0
<1>1. "end" # Blank /\ "\r" # Blank /\ "\n" # Blank
  BY Zenon DEF Blank
<1>2. Skipped(space) = IF space = 1 THEN {Blank} ELSE {Blank, "\n", "\r"}
  BY Zenon DEF Skipped, Blank
<1>3. "end" # "\r" /\ "end" # "\n"
  OBVIOUS
<1> QED
  BY <1>1, <1>2, <1>3

(* A token begins behind what is skipped, at a place that is not blank.     *)
LEMMA NextBegins ==
    ASSUME text \in Source, input \in 1 .. Len(text) + 1, ~ Mid(text, input), NEW space \in {0, 1}
    PROVE  /\ Past(input, Skipped(space)) \in input .. Len(text) + 1
           /\ At(text, Past(input, Skipped(space))) # Blank
           /\ ~ Mid(text, Past(input, Skipped(space)))
           /\ ToSet(Piece(text, input, Past(input, Skipped(space)))) \subseteq Skipped(space)
<1> DEFINE C == Skipped(space)
           from == Past(input, C)
<1>1. "end" \notin C /\ Blank \in C /\ ("\r" \in C <=> space = 0) /\ ("\n" \in C <=> space = 0)
  BY SkippedBlanks
<1> HIDE DEF C, from
<1>2. /\ from \in input .. Len(text) + 1 /\ At(text, from) \notin C
      /\ \A k \in input .. from - 1 : At(text, k) \in C
  BY <1>1, PastFinds DEF from
<1>3. Len(text) \in Nat /\ input \in Nat /\ from \in input .. Len(text) + 1 /\ from \in Nat
  BY <1>2, SourceChars
<1>4. ~ Mid(text, from)
  <2>1. CASE from = input
    BY <2>1
  <2>2. CASE from # input
    <3>1. from - 1 \in input .. from - 1
      BY <1>3, <2>2
    <3>2. At(text, from - 1) \in C
      BY <1>2, <3>1
    <3> QED
      BY <1>1, <1>2, <3>2 DEF Mid
  <2> QED
    BY <2>1, <2>2
<1>5. ToSet(Piece(text, input, from)) \subseteq C
  <2> DEFINE s == Piece(text, input, from)
  <2>1. DOMAIN s = 1 .. from - input /\ \A k \in 1 .. from - input : s[k] = At(text, input + k - 1)
    BY <1>2, PieceChars
  <2>2. \A k \in 1 .. from - input : input + k - 1 \in input .. from - 1
    BY <1>3
  <2> HIDE DEF s
  <2>3. ToSet(s) \subseteq C
    BY <1>2, <2>1, <2>2 DEF ToSet
  <2> QED
    BY <2>3 DEF s
<1> QED
  BY <1>1, <1>2, <1>4, <1>5 DEF from, C

(* The token read at a place that is not blank                              *)
LEMMA TokenRead ==
    ASSUME text \in Source, NEW i \in 1 .. Len(text) + 1, At(text, i) # Blank, ~ Mid(text, i)
    PROVE  /\ Scan(i).token \in Tokens /\ Scan(i).upto \in i .. Len(text) + 1
           /\ ~ Mid(text, Scan(i).upto)
           /\ IF Scan(i).token = "eof" THEN i = Len(text) + 1
              ELSE \/ Scan(i).token = "string" /\ Scan(i).upto = Len(text) + 1 /\ Open(text, i)
                   \/ Piece(text, i, Scan(i).upto) # <<>> /\ Best(text, i, Scan(i))
<1> DEFINE n == Len(text)
           tok == Scan(i)
<1>1. n \in Nat /\ i \in Nat
  BY SourceChars
<1>2. CASE i = n + 1
  <2>1. tok.token = "eof" /\ tok.upto = i
    BY <1>2, ScanFits
  <2>2. "eof" \in Tokens /\ i \in i .. n + 1
    BY <1>1 DEF Tokens
  <2> QED
    BY <1>2, <2>1, <2>2
<1>3. CASE i # n + 1
  <2>1. Fits(text, i, tok)
    BY <1>3, ScanFits
  <2>2. i \in 1 .. n
    <3> HIDE DEF n
    <3>1. i \in 1 .. n + 1
      BY DEF n
    <3> QED
      BY <1>1, <1>3, <3>1
  <2> HIDE DEF tok
  <2>3. tok.token \in Tokens /\ tok.token # "eof" /\ tok.upto \in i + 1 .. n + 1 /\ ~ Mid(text, tok.upto)
    BY <2>1 DEF Fits
  <2>4. Piece(text, i, tok.upto) # <<>>
    BY <2>2, <2>3, PieceBegins
  <2>5. \/ tok.token = "string" /\ tok.upto = n + 1 /\ Open(text, i)
        \/ Best(text, i, tok)
    BY <2>1 DEF Fits
  <2>6. tok.upto \in i .. n + 1
    BY <1>1, <2>3
  <2> QED
    BY <2>3, <2>4, <2>5, <2>6 DEF tok
<1> QED
  BY <1>2, <1>3

(* The next token keeps what holds of a source that is read.                *)
LEMMA ReadOn ==
    ASSUME Reading(text, spans, input, priv, loc, token), NEW space \in {0, 1},
           NEW from, from = Past(input, Skipped(space)), NEW tok, tok = Scan(from),
           NEW s, s = [token |-> tok.token, from |-> from, upto |-> tok.upto, space |-> space]
    PROVE  Reading(text, Append(spans, s), tok.upto, from,
                   [line |-> Place(text, spans, input).line,
                    col  |-> Place(text, spans, input).col + (from - input)
                             + (IF tok.token = "string" THEN 1 ELSE 0)],
                   tok.token)
<1> DEFINE t == text
           m == Len(text)
           n == Len(spans)
           R == Append(spans, s)
<1>1. /\ t \in Source /\ spans \in Seq(Spans) /\ input \in 1 .. m + 1 /\ ~ Mid(t, input)
      /\ \A k \in 1 .. n : spans[k].upto <= input
      /\ spans = <<>> => input = 1
      /\ spans # <<>> => /\ input = spans[n].upto /\ priv \in 1 .. input
                         /\ \A k \in 1 .. n : spans[k].from <= priv
  BY DEF Reading
<1>2. m \in Nat /\ n \in Nat /\ input \in Nat /\ input # 0
  BY <1>1, SourceChars
<1>3. /\ from \in input .. m + 1 /\ At(t, from) # Blank /\ ~ Mid(t, from)
      /\ ToSet(Piece(t, input, from)) \subseteq Skipped(space)
  BY <1>1, NextBegins
<1>4. from \in 1 .. m + 1 /\ from \in Nat /\ from >= input
  BY <1>2, <1>3
<1>5. /\ tok.token \in Tokens /\ tok.upto \in from .. m + 1 /\ ~ Mid(t, tok.upto)
      /\ IF tok.token = "eof" THEN from = m + 1
         ELSE \/ tok.token = "string" /\ tok.upto = m + 1 /\ Open(t, from)
              \/ Piece(t, from, tok.upto) # <<>> /\ Best(t, from, tok)
  BY <1>1, <1>3, <1>4, TokenRead
<1>6. tok.upto \in Nat /\ tok.upto >= from /\ tok.upto \in 1 .. m + 1
  BY <1>2, <1>4, <1>5
<1>7. s \in Spans /\ s.token = tok.token /\ s.from = from /\ s.upto = tok.upto /\ s.space = space
  BY <1>4, <1>5, <1>6 DEF Spans
<1>8. /\ R \in Seq(Spans) /\ Len(R) = n + 1 /\ R[n + 1] = s /\ R # <<>>
      /\ \A k \in 1 .. n : R[k] = spans[k]
  BY <1>1, <1>7
<1> HIDE DEF R, m, n
<1>9. \A k \in 1 .. n : spans[k].from \in Nat /\ spans[k].upto \in Nat
  <2>1. \A k \in 1 .. n : spans[k] \in Spans
    BY <1>1 DEF n
  <2>2. \A r \in Spans : r.upto \in Nat /\ r.from \in Nat
    BY DEF Spans
  <2> QED
    BY <2>1, <2>2
<1>10. 1 .. Len(R) = (1 .. n) \cup {n + 1}
  BY <1>2, <1>8
<1>11. \A k \in 1 .. Len(R) : R[k].upto <= tok.upto
  <2>1. ASSUME NEW k \in 1 .. n PROVE R[k].upto <= tok.upto
    <3>1. spans[k].upto \in Nat /\ spans[k].upto <= input /\ R[k] = spans[k]
      BY <1>1, <1>8, <1>9
    <3> QED
      BY <1>2, <1>4, <1>6, <3>1
  <2>2. R[n + 1].upto <= tok.upto
    BY <1>6, <1>7, <1>8
  <2> QED
    BY <1>10, <2>1, <2>2
<1>12. \A k \in 1 .. Len(R) : R[k].from <= from
  <2>1. ASSUME NEW k \in 1 .. n PROVE R[k].from <= from
    <3>1. spans # <<>>
      BY <1>2 DEF n
    <3>2. priv \in Nat /\ priv <= input /\ spans[k].from <= priv /\ spans[k].from \in Nat /\ R[k] = spans[k]
      BY <1>1, <1>2, <1>8, <1>9, <3>1
    <3> QED
      BY <1>2, <1>4, <3>2
  <2>2. R[n + 1].from <= from
    BY <1>4, <1>7, <1>8
  <2> QED
    BY <1>10, <2>1, <2>2
<1>13. Place(t, R, from) =
          [line |-> Place(t, spans, input).line,
           col  |-> Place(t, spans, input).col + (from - input)
                    + (IF tok.token = "string" THEN 1 ELSE 0)]
  <2>1. /\ spans \in Seq(Spans) /\ input \in Nat \ {0} /\ ~ Mid(text, input)
        /\ \A k \in 1 .. Len(spans) : spans[k].upto <= input
        /\ from \in Nat /\ from >= input /\ s \in Spans /\ s.from = from
    BY <1>1, <1>2, <1>4, <1>7 DEF n
  <2>2. Place(text, Append(spans, s), from) =
           [line |-> Place(text, spans, input).line,
            col  |-> Place(text, spans, input).col + (from - input)
                     + (IF s.token = "string" THEN 1 ELSE 0)]
    BY <2>1, OverBlanks
  <2> QED
    BY <1>7, <2>2, Zenon DEF R
<1>14. Told(t, R, tok.token)
  <2>1. R[Len(R)] = s
    BY <1>8
  <2>2. (IF Len(R) = 1 THEN 1 ELSE R[Len(R) - 1].upto) = input
    <3>1. CASE n = 0
      <4>1. spans = <<>>
        BY <1>1, <3>1 DEF n
      <4> QED
        BY <1>1, <1>8, <3>1, <4>1
    <3>2. CASE n # 0
      <4>1. spans # <<>> /\ Len(R) # 1 /\ Len(R) - 1 = n /\ n \in 1 .. n
        BY <1>2, <1>8, <3>2 DEF n
      <4> QED
        BY <1>1, <1>8, <4>1
    <3> QED
      BY <3>1, <3>2
  <2>3. Best(t, from, tok) => Best(t, from, [token |-> tok.token, upto |-> tok.upto])
    BY DEF Best
  <2>4. Told(t, R, tok.token) <=>
          /\ ToSet(Piece(t, input, from)) \subseteq Skipped(space)
          /\ IF tok.token = "eof" THEN from = m + 1
             ELSE \/ tok.token = "string" /\ tok.upto = m + 1 /\ Open(t, from)
                  \/ Piece(t, from, tok.upto) # <<>>
                     /\ Best(t, from, [token |-> tok.token, upto |-> tok.upto])
    BY <1>7, <2>1, <2>2, Zenon DEF Told, m
  <2> QED
    BY <1>3, <1>5, <2>3, <2>4
<1>15. R[Len(R)].from = from /\ R[Len(R)].upto = tok.upto /\ from \in 1 .. tok.upto
  BY <1>4, <1>6, <1>7, <1>8
<1>16. Reading(t, R, tok.upto, from, Place(t, R, from), tok.token)
  BY <1>1, <1>3, <1>5, <1>6, <1>8, <1>11, <1>12, <1>14, <1>15 DEF Reading, m
<1> QED
  BY <1>13, <1>16, Zenon DEF R
-----------------------------------------------------------------------------
(* The last token, if it is a number, is worth its digits.                  *)
NumberRead(t, S, tok, val) ==
    S # <<>> /\ tok = "number" => Meant(t, S[Len(S)].from, [upto |-> S[Len(S)].upto, value |-> val])

(* Both of a source that waits                                              *)
ReadingOf(f) == /\ Reading(f.text, f.spans, f.input, f.priv, f.loc, f.token)
                /\ NumberRead(f.text, f.spans, f.token, f.value)

(* The inductive invariant: both hold of the source that is read, and of    *)
(* those that wait for one that they import.                                *)
LexInv ==
    /\ Reading(text, spans, input, priv, loc, token)
    /\ NumberRead(text, spans, token, value)
    /\ \E V : outer \in Seq(V)
    /\ \A k \in 1 .. Len(outer) : ReadingOf(outer[k])

(* The next token, if it is a number, is worth its digits.                  *)
LEMMA ReadNumber ==
    ASSUME Reading(text, spans, input, priv, loc, token), NEW space \in {0, 1},
           NEW from, from = Past(input, Skipped(space)), NEW tok, tok = Scan(from),
           NEW s, s = [token |-> tok.token, from |-> from, upto |-> tok.upto, space |-> space]
    PROVE  NumberRead(text, Append(spans, s), tok.token, tok.value)
<1> DEFINE R == Append(spans, s)
<1>1. /\ text \in Source /\ spans \in Seq(Spans) /\ input \in 1 .. Len(text) + 1 /\ ~ Mid(text, input)
  BY DEF Reading
<1>2. from \in input .. Len(text) + 1 /\ At(text, from) # Blank
  BY <1>1, NextBegins
<1>3. from \in 1 .. Len(text) + 1
  BY <1>1, <1>2, SourceChars
<1>4. R[Len(R)] = s
  BY <1>1
<1> HIDE DEF R
<1>5. ASSUME tok.token = "number"
      PROVE  Meant(text, from, [upto |-> tok.upto, value |-> tok.value])
  <2>1. Meant(text, from, tok)
    BY <1>1, <1>2, <1>3, <1>5, ScanMeant
  <2> QED
    BY <2>1, Zenon DEF Meant
<1>6. s.from = from /\ s.upto = tok.upto
  OBVIOUS
<1> QED
  BY <1>4, <1>5, <1>6, Zenon DEF NumberRead, R

(* They hold of a source that nothing has been read of ...                  *)
LEMMA FreshReading ==
    ASSUME NEW t \in Texts \cup Imported
    PROVE  /\ Reading(t, <<>>, 1, 0, [line |-> 1, col |-> 1], "none")
           /\ NumberRead(t, <<>>, "none", 0)
<1>1. t \in Source
  BY LexerAssumption DEF Source
<1>2. Len(t) \in Nat /\ 1 \in 1 .. Len(t) + 1
  BY <1>1, SourceChars
<1>3. ~ Mid(t, 1)
  BY DEF Mid
<1>4. <<>> \in Seq(Spans) /\ Len(<<>>) = 0
  OBVIOUS
<1> QED
  BY <1>1, <1>2, <1>3, <1>4 DEF Reading, NumberRead

(* ... and so in the beginning.                                             *)
LEMMA InitReading == Init => LexInv
<1> SUFFICES ASSUME Init PROVE LexInv
  OBVIOUS
<1>1. /\ text \in Texts /\ spans = <<>> /\ input = 1 /\ priv = 0
      /\ loc = [line |-> 1, col |-> 1] /\ token = "none" /\ value = 0 /\ outer = <<>>
  BY DEF Init
<1>2. /\ Reading(text, <<>>, 1, 0, [line |-> 1, col |-> 1], "none")
      /\ NumberRead(text, <<>>, "none", 0)
  BY <1>1, FreshReading
<1>3. outer \in Seq({}) /\ Len(outer) = 0
  BY <1>1
<1> QED
  BY <1>1, <1>2, <1>3 DEF LexInv

(* getToken() keeps the invariant (lexer.c:288-397) ...                     *)
LEMMA NextTokenKeeps ==
    ASSUME LexInv, NextToken
    PROVE  LexInv'
<1>1. PICK space \in {0, 1} : getToken(space)
  BY DEF NextToken
<1>2. Reading(text, spans, input, priv, loc, token)
  BY DEF LexInv
<1> DEFINE from == Past(input, Skipped(space))
           tok == Scan(from)
           s == [token |-> tok.token, from |-> from, upto |-> tok.upto, space |-> space]
           one == IF tok.token = "string" THEN 1 ELSE 0
<1>3. /\ loc' = [Walked.loc EXCEPT !.col = @ + (from - input) + one]
      /\ priv' = from /\ input' = tok.upto /\ token' = tok.token /\ value' = tok.value
      /\ spans' = Append(spans, s)
      /\ text' = text /\ outer' = outer
  BY <1>1 DEF getToken
<1>4. Reading(text, Append(spans, s), tok.upto, from,
              [line |-> Place(text, spans, input).line,
               col  |-> Place(text, spans, input).col + (from - input) + one],
              tok.token)
  BY <1>2, ReadOn
<1>9. NumberRead(text, Append(spans, s), tok.token, tok.value)
  BY <1>2, ReadNumber
<1> HIDE DEF from, tok, s, one
<1>5. loc' = [line |-> Place(text, spans, input).line,
              col  |-> Place(text, spans, input).col + (from - input) + one]
  <2> DEFINE P == Place(text, spans, input)
  <2>1. Walked.loc = P /\ P = [line |-> P.line, col |-> P.col]
    BY <1>2, WalkedToEnd, PlaceRecord
  <2> HIDE DEF P
  <2>2. loc' = [P EXCEPT !.col = @ + (from - input) + one]
    BY <1>3, <2>1
  <2>3. loc' = [line |-> P.line, col |-> P.col + (from - input) + one]
    BY <2>1, <2>2
  <2> QED
    BY <2>3 DEF P
<1>6. Reading(text', spans', input', priv', loc', token')
  BY <1>3, <1>4, <1>5, Zenon
<1>7. Reading(text, spans, input, priv, loc, token)'
  BY <1>6
<1>8. NumberRead(text, spans, token, value)'
  <2>1. NumberRead(text', spans', token', value')
    BY <1>3, <1>9, Zenon
  <2> QED
    BY <2>1
<1> QED
  BY <1>3, <1>7, <1>8 DEF LexInv, ReadingOf

(* ... and so does an import, which puts the current source aside ...       *)
LEMMA ImportKeeps ==
    ASSUME LexInv, Import
    PROVE  LexInv'
<1>1. PICK t \in Imported : Becomes(Fresh(t))
  BY DEF Import
<1>2. outer' = <<frame>> \o outer
  BY DEF Import
<1>3. /\ text' = t /\ spans' = <<>> /\ input' = 1 /\ priv' = 0
      /\ loc' = [line |-> 1, col |-> 1] /\ token' = "none" /\ value' = 0
  BY <1>1 DEF Becomes, Fresh
<1>4. (Reading(text, spans, input, priv, loc, token) /\ NumberRead(text, spans, token, value))'
  <2>1. /\ Reading(t, <<>>, 1, 0, [line |-> 1, col |-> 1], "none")
        /\ NumberRead(t, <<>>, "none", 0)
    BY <1>1, FreshReading
  <2>2. /\ Reading(text', spans', input', priv', loc', token')
        /\ NumberRead(text', spans', token', value')
    BY <1>3, <2>1, Zenon
  <2> QED
    BY <2>2
<1>5. ReadingOf(frame)
  BY DEF LexInv, ReadingOf, frame
<1>6. PICK V : outer \in Seq(V)
  BY DEF LexInv
<1>7. \A k \in 1 .. Len(outer) : ReadingOf(outer[k])
  BY DEF LexInv
<1> DEFINE W == V \cup {frame}
           n == Len(outer)
<1>8. /\ outer' \in Seq(W) /\ Len(outer') = n + 1
      /\ outer'[1] = frame /\ \A k \in 1 .. n : outer'[k + 1] = outer[k]
  <2>1. outer \in Seq(W) /\ <<frame>> \in Seq(W) /\ Len(<<frame>>) = 1 /\ <<frame>>[1] = frame
    BY <1>6
  <2> DEFINE one == <<frame>>
  <2> HIDE DEF W, one
  <2>2. one \in Seq(W) /\ outer \in Seq(W) /\ Len(one) = 1 /\ one[1] = frame
    BY <2>1 DEF one
  <2>3. one \o outer \in Seq(W) /\ Len(one \o outer) = 1 + n
        /\ \A k \in 1 .. 1 + n : (one \o outer)[k] = IF k <= 1 THEN one[k] ELSE outer[k - 1]
    <3>1. one \o outer \in Seq(W) /\ Len(one \o outer) = Len(one) + Len(outer)
          /\ \A k \in 1 .. Len(one) + Len(outer) :
                (one \o outer)[k] = IF k <= Len(one) THEN one[k] ELSE outer[k - Len(one)]
      BY <2>2, ConcatProperties
    <3> QED
      BY <2>2, <3>1, Zenon
  <2>4. outer' = one \o outer
    BY <1>2 DEF one
  <2>5. n \in Nat
    BY <2>2
  <2> HIDE DEF n
  <2>6. \A k \in 1 .. n : k + 1 \in 1 .. 1 + n /\ ~ (k + 1 <= 1) /\ k + 1 - 1 = k
    BY <2>5
  <2>7. 1 \in 1 .. 1 + n /\ 1 + n = n + 1
    BY <2>5
  <2> QED
    BY <2>2, <2>3, <2>4, <2>6, <2>7, SMTT(30)
<1>9. \A k \in 1 .. Len(outer') : ReadingOf(outer'[k])
  <2> SUFFICES ASSUME NEW k \in 1 .. Len(outer') PROVE ReadingOf(outer'[k])
    OBVIOUS
  <2>1. CASE k = 1
    BY <1>5, <1>8, <2>1
  <2>2. CASE k # 1
    <3>1. n \in Nat
      BY <1>6
    <3>2. k - 1 \in 1 .. n /\ k - 1 + 1 = k
      BY <1>8, <2>2, <3>1
    <3>3. outer'[k] = outer[k - 1]
      BY <1>8, <3>2
    <3> QED
      BY <1>7, <3>2, <3>3
  <2> QED
    BY <2>1, <2>2
<1>10. (\E U : outer \in Seq(U))' /\ (\A k \in 1 .. Len(outer) : ReadingOf(outer[k]))'
  BY <1>8, <1>9 DEF ReadingOf
<1> QED
  BY <1>4, <1>10 DEF LexInv

(* ... and its end, which takes the source back that was put aside.         *)
LEMMA ResumeKeeps ==
    ASSUME LexInv, Resume
    PROVE  LexInv'
<1>1. PICK V : outer \in Seq(V)
  BY DEF LexInv
<1>2. outer # <<>> /\ Becomes(outer[1]) /\ outer' = Tail(outer)
  BY DEF Resume
<1> DEFINE n == Len(outer)
<1>3. n \in Nat /\ 1 \in 1 .. n
  BY <1>1, <1>2
<1>4. \A k \in 1 .. n : ReadingOf(outer[k])
  BY DEF LexInv
<1>5. (Reading(text, spans, input, priv, loc, token) /\ NumberRead(text, spans, token, value))'
  <2>1. ReadingOf(outer[1])
    BY <1>3, <1>4
  <2>2. /\ text' = outer[1].text /\ spans' = outer[1].spans /\ input' = outer[1].input
        /\ priv' = outer[1].priv /\ loc' = outer[1].loc /\ token' = outer[1].token
        /\ value' = outer[1].value
    BY <1>2 DEF Becomes
  <2>3. /\ Reading(text', spans', input', priv', loc', token')
        /\ NumberRead(text', spans', token', value')
    BY <2>1, <2>2, Zenon DEF ReadingOf
  <2> QED
    BY <2>3
<1>6. /\ outer' \in Seq(V) /\ Len(outer') = n - 1
      /\ \A k \in 1 .. n - 1 : outer'[k] = outer[k + 1]
  BY <1>1, <1>2
<1>7. \A k \in 1 .. n - 1 : k + 1 \in 1 .. n
  BY <1>3
<1>8. \A k \in 1 .. Len(outer') : ReadingOf(outer'[k])
  BY <1>4, <1>6, <1>7
<1>9. (\E U : outer \in Seq(U))' /\ (\A k \in 1 .. Len(outer) : ReadingOf(outer[k]))'
  BY <1>6, <1>8 DEF ReadingOf
<1> QED
  BY <1>5, <1>9 DEF LexInv

(* Every step keeps the invariant.                                          *)
LEMMA StepReading == LexInv /\ [Next]_vars => LexInv'
<1> SUFFICES ASSUME LexInv, [Next]_vars PROVE LexInv'
  OBVIOUS
<1>1. CASE NextToken
  BY <1>1, NextTokenKeeps
<1>2. CASE Import
  BY <1>2, ImportKeeps
<1>3. CASE Resume
  BY <1>3, ResumeKeeps
<1>4. CASE UNCHANGED vars
  BY <1>4 DEF LexInv, ReadingOf, vars
<1> QED
  BY <1>1, <1>2, <1>3, <1>4 DEF Next, Finished

(* The invariant says what the properties say of the last token.            *)
LEMMA InvLocates == LexInv => LocAccounts
<1> SUFFICES ASSUME LexInv, spans # <<>> PROVE LocAccounts
  BY Zenon DEF LocAccounts
<1>1. Reading(text, spans, input, priv, loc, token)
  BY DEF LexInv
<1>2. loc = Place(text, spans, LastSpan.from)
  BY <1>1 DEF Reading, LastSpan
<1>3. Walked.at = input
  BY <1>1, WalkedToEnd
<1>4. \A i : NewlineAt(i) <=> NewlineStart(text, i)
  BY CharAt DEF NewlineAt, NewlineStart, Mid
<1>5. loc = Place(text, spans, LastSpan.from) /\ Walked.at = input => LocAccounts
  <2> DEFINE here == LastSpan.from
             counted == {i \in 1 .. here - 1 : /\ NewlineAt(i)
                                              /\ \E k \in 1 .. Len(spans) :
                                                     spans[k].from <= i /\ i < spans[k].upto}
             begin == IF counted = {} THEN 1 ELSE Max(counted) + newlineChar(Max(counted))
             texts == {k \in 1 .. Len(spans) : spans[k].token = "string" /\ spans[k].from >= begin}
  <2>1. counted = Counted(text, spans, here)
    BY <1>4 DEF Counted, InSpan
  <2> HIDE DEF counted
  <2>2. begin = Begin(text, spans, here)
    BY <2>1, CharAt DEF Begin
  <2> HIDE DEF begin
  <2>3. texts = TextsOn(spans, begin)
    BY DEF TextsOn
  <2> HIDE DEF texts
  <2>4. Place(text, spans, here) = [line |-> 1 + Cardinality(counted),
                                    col  |-> here - begin + 1 + Cardinality(texts)]
    BY <2>1, <2>2, <2>3, Zenon DEF Place
  <2>5. LocAccounts <=> /\ loc = [line |-> 1 + Cardinality(counted),
                                  col  |-> here - begin + 1 + Cardinality(texts)]
                        /\ Walked.at = input
    BY Zenon DEF LocAccounts, counted, begin, texts
  <2> QED
    BY <2>4, <2>5
<1> QED
  BY <1>2, <1>3, <1>5

(* The same of the token ...                                                *)
LEMMA InvTells == LexInv => TokenFound
<1> SUFFICES ASSUME LexInv, spans # <<>> PROVE TokenFound
  BY Zenon DEF TokenFound
<1>1. Told(text, spans, token)
  BY DEF LexInv, Reading
<1>2. ASSUME Told(text, spans, token) PROVE TokenFound
  <2> DEFINE before == IF Len(spans) = 1 THEN 1 ELSE spans[Len(spans) - 1].upto
             s == Piece(text, LastSpan.from, LastSpan.upto)
  <2>1. /\ ToSet(Piece(text, before, LastSpan.from)) \subseteq Skipped(LastSpan.space)
        /\ IF token = "eof" THEN LastSpan.from = Len(text) + 1
           ELSE \/ token = "string" /\ LastSpan.upto = Len(text) + 1 /\ Open(text, LastSpan.from)
                \/ s # <<>> /\ Best(text, LastSpan.from, [token |-> token, upto |-> LastSpan.upto])
    BY <1>2, Zenon DEF Told, LastSpan
  <2>2. NothingLost
    BY <2>1, CharAt DEF NothingLost, Before
  <2>3. Open(text, LastSpan.from) <=> {k \in LastSpan.from .. Len(text) : text[k] = Quote} = {LastSpan.from}
    BY DEF Open
  <2>4. Best(text, LastSpan.from, [token |-> token, upto |-> LastSpan.upto])
        <=> token \in Kinds(s) /\ Longest
    BY CharAt DEF Best, Longest
  <2>5. Slice(LastSpan.from, LastSpan.upto) = s
    BY CharAt
  <2> HIDE DEF s
  <2>6. IF token = "eof" THEN LastSpan.from = Len(text) + 1
        ELSE Unterminated \/ (s # <<>> /\ token \in Kinds(s) /\ Longest)
    BY <2>1, <2>3, <2>4 DEF Unterminated
  <2> QED
    BY <2>2, <2>5, <2>6, Zenon DEF TokenFound
<1> QED
  BY <1>1, <1>2

(* ... and of its value                                                     *)
LEMMA InvMeans == LexInv => NumberMeant
<1> SUFFICES ASSUME LexInv, spans # <<>>, token = "number" PROVE NumberMeant
  BY Zenon DEF NumberMeant
<1>1. NumberRead(text, spans, token, value)
  BY DEF LexInv
<1>2. Meant(text, LastSpan.from, [upto |-> LastSpan.upto, value |-> value])
  BY <1>1, Zenon DEF NumberRead, LastSpan
<1>3. PICK base \in {2, 8, 10, 16} :
         /\ Written(Piece(text, LastSpan.from, LastSpan.upto), base)
         /\ value = Worth(Piece(text, LastSpan.from, LastSpan.upto), base)
  BY <1>2, Zenon DEF Meant
<1>4. Slice(LastSpan.from, LastSpan.upto) = Piece(text, LastSpan.from, LastSpan.upto)
  BY CharAt
<1> QED
  BY <1>3, <1>4, Zenon DEF NumberMeant

-----------------------------------------------------------------------------
(* Of every source, and through every import, the location that the nodes   *)
(* get follows from the tokens so far (LocAccounts), and the walk from one  *)
(* token to the next ends there (getToken(), lexer.c:288-299).              *)
THEOREM LocAccountsAlways == Spec => []LocAccounts
<1>1. LexInv => LocAccounts
  BY InvLocates
<1> QED
  BY InitReading, StepReading, <1>1, PTL DEF Spec

(* Of every source, getToken() (lexer.c:288-397) returns the longest token  *)
(* behind the last one and the blanks, tells the end at the end only, and   *)
(* gives a number the value of its digits, however many there are, as far   *)
(* as it fits into the width (lexer.c:204-272).                             *)
THEOREM TokenMeantAlways == Spec => []TokenMeant
<1>1. LexInv => TokenMeant
  BY InvTells, InvMeans DEF TokenMeant
<1> QED
  BY InitReading, StepReading, <1>1, PTL DEF Spec
==============================================================================
