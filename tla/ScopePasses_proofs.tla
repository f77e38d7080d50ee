------------------------ MODULE ScopePasses_proofs -------------------------
(* Proofs about ScopePasses: the code generator takes a name for the        *)
(* variable that the resolver has checked, the scopes that the passes count *)
(* to exist, and a module that begins before any scope was made finds what  *)
(* its parser saw, for every tree of blocks and names and every number of   *)
(* modules.                                                                 *)
EXTENDS ScopePasses, FiniteSetTheorems, WellFoundedInduction, TLAPS

Listed(s) == \E S : s \in Seq(S)

(* The blocks that each pass has counted when n nodes lie behind it.        *)
Blocks(n) == {i \in 1 .. n : nodes[i].kind = "block"}
KeptBlocks(n) == {k \in 1 .. n : nodes[kept[k]].kind = "block"}

(* What is passed on is a part of what was read, in its order.              *)
StreamOK == /\ Listed(found) /\ Listed(used) /\ kept \in Seq(Nat)
            /\ \A k \in 1 .. Len(kept) : kept[k] \in 1 .. Len(found)
            /\ \A j, k \in 1 .. Len(kept) : j < k => kept[j] < kept[k]
            /\ Len(used) <= Len(kept)

(* While the stream changes there is no walk over it.                       *)
PhaseOK == /\ phase = "parse" => found = <<>> /\ kept = <<>> /\ used = <<>>
           /\ phase = "resolve" => used = <<>>

(* A pass is in the scope of as many blocks as it has counted, and has      *)
(* looked each name up there.                                               *)
CountOK == /\ phase = "resolve" => scope = 1 + Cardinality(Blocks(Len(found)))
           /\ phase = "codegen" => scope = 1 + Cardinality(KeptBlocks(Len(used)))
FoundOK == \A i \in 1 .. Len(found) :
              nodes[i].kind = "name" =>
                 found[i] = Lookup(nodes[i].name, 1 + Cardinality(Blocks(i - 1)))
UsedOK == \A k \in 1 .. Len(used) :
              nodes[kept[k]].kind = "name" =>
                 used[k] = Lookup(nodes[kept[k]].name, 1 + Cardinality(KeptBlocks(k - 1)))

WalkInv == StreamOK /\ PhaseOK /\ CountOK /\ FoundOK /\ UsedOK

-----------------------------------------------------------------------------
LEMMA Longer ==
    ASSUME NEW s, Listed(s), NEW x
    PROVE  /\ Listed(Append(s, x)) /\ Len(s) \in Nat
           /\ Len(Append(s, x)) = Len(s) + 1
           /\ \A i \in 1 .. Len(s) : Append(s, x)[i] = s[i]
           /\ Append(s, x)[Len(s) + 1] = x
<1>1. PICK S : s \in Seq(S)
  BY DEF Listed
<1> DEFINE T == S \cup {x}
<1>2. s \in Seq(T) /\ x \in T
  BY <1>1
<1>3. Append(s, x) \in Seq(T)
  BY <1>2
<1>4. Listed(Append(s, x))
  BY <1>3 DEF Listed
<1> QED
  BY <1>1, <1>4

(* Names mean the same as long as nothing is declared and no scope made.    *)
LEMMA LookupStays ==
    ASSUME UNCHANGED table, NEW nm, NEW s
    PROVE  Lookup(nm, s)' = Lookup(nm, s)
BY DEF Lookup, table, Dict!Resolves, Dict!Visible, Dict!Chain, Dict!Prefers

(* One node more is one block more, if it is one.                           *)
LEMMA CountedBlocks ==
    ASSUME NEW n \in Nat
    PROVE  /\ IsFiniteSet(Blocks(n)) /\ IsFiniteSet(KeptBlocks(n))
           /\ Cardinality(Blocks(n)) \in Nat /\ Cardinality(KeptBlocks(n)) \in Nat
<1>1. IsFiniteSet(1 .. n)
  BY FS_Interval
<1>2. Blocks(n) \in SUBSET (1 .. n) /\ KeptBlocks(n) \in SUBSET (1 .. n)
  BY DEF Blocks, KeptBlocks
<1>3. IsFiniteSet(Blocks(n)) /\ IsFiniteSet(KeptBlocks(n))
  BY <1>1, <1>2, FS_Subset
<1> QED
  BY <1>3, FS_CardinalityType

LEMMA OneMore ==
    ASSUME NEW n \in Nat
    PROVE  /\ Cardinality(Blocks(n + 1)) =
                 Cardinality(Blocks(n)) + IF nodes[n + 1].kind = "block" THEN 1 ELSE 0
           /\ Cardinality(KeptBlocks(n + 1)) =
                 Cardinality(KeptBlocks(n)) + IF nodes[kept[n + 1]].kind = "block" THEN 1 ELSE 0
<1>1. n + 1 \notin Blocks(n) /\ n + 1 \notin KeptBlocks(n)
  BY DEF Blocks, KeptBlocks
<1>2. \A i : i \in 1 .. n + 1 <=> i \in 1 .. n \/ i = n + 1
  OBVIOUS
<1>3. Blocks(n + 1) = IF nodes[n + 1].kind = "block" THEN Blocks(n) \cup {n + 1} ELSE Blocks(n)
  BY <1>2 DEF Blocks
<1>4. KeptBlocks(n + 1) = IF nodes[kept[n + 1]].kind = "block"
                          THEN KeptBlocks(n) \cup {n + 1} ELSE KeptBlocks(n)
  BY <1>2 DEF KeptBlocks
<1>5. /\ Cardinality(Blocks(n) \cup {n + 1}) = Cardinality(Blocks(n)) + 1
      /\ Cardinality(KeptBlocks(n) \cup {n + 1}) = Cardinality(KeptBlocks(n)) + 1
  BY <1>1, CountedBlocks, FS_AddElement
<1> QED
  BY <1>3, <1>4, <1>5, CountedBlocks

LEMMA NoneYet == Cardinality(Blocks(0)) = 0 /\ Cardinality(KeptBlocks(0)) = 0
<1>1. Blocks(0) = {} /\ KeptBlocks(0) = {}
  BY DEF Blocks, KeptBlocks
<1> QED
  BY <1>1, FS_EmptySet

-----------------------------------------------------------------------------
(* Steps that leave the walks alone: of the host and of the parser, and     *)
(* those that end a pass.                                                   *)
LEMMA FreshWalks ==
    ASSUME found' = <<>>, kept' = <<>>, used' = <<>>, phase' = "parse"
    PROVE  WalkInv'
<1>1. <<>> \in Seq(Nat) /\ Len(<<>>) = 0
  OBVIOUS
<1>2. Listed(<<>>)
  BY <1>1 DEF Listed
<1> QED
  BY <1>1, <1>2 DEF WalkInv, StreamOK, PhaseOK, CountOK, FoundOK, UsedOK

LEMMA WalksStay ==
    ASSUME WalkInv, UNCHANGED <<table, nodes, walks>>,
           \/ phase' = phase /\ scope' = scope
           \/ phase' \notin {"parse", "resolve", "codegen"}
    PROVE  WalkInv'
<1>1. StreamOK' /\ PhaseOK'
  BY DEF WalkInv, StreamOK, PhaseOK, walks
<1>2. \A n : Blocks(n)' = Blocks(n) /\ KeptBlocks(n)' = KeptBlocks(n)
  BY DEF Blocks, KeptBlocks, walks
<1>3. CountOK'
  BY <1>2 DEF WalkInv, CountOK, walks
<1>4. FoundOK' /\ UsedOK'
  BY <1>2, LookupStays DEF WalkInv, FoundOK, UsedOK, walks
<1> QED
  BY <1>1, <1>3, <1>4 DEF WalkInv

(* A step of the resolver: a node is read, and may be passed on.            *)
LEMMA ResolverStep ==
    ASSUME WalkInv, phase = "resolve", UNCHANGED <<table, nodes, used>>,
           NEW x, found' = Append(found, x),
           kept' = kept \/ kept' = Append(kept, Len(found) + 1),
           nodes[Len(found) + 1].kind = "name" =>
               x = Lookup(nodes[Len(found) + 1].name, scope),
           \/ /\ phase' = "resolve"
              /\ scope' = scope + IF nodes[Len(found) + 1].kind = "block" THEN 1 ELSE 0
           \/ phase' \notin {"parse", "resolve", "codegen"}
    PROVE  WalkInv'
<1> DEFINE n == Len(found)
<1>1. /\ n \in Nat /\ Listed(found') /\ Len(found') = n + 1
      /\ \A i \in 1 .. n : found'[i] = found[i]
      /\ found'[n + 1] = x
  BY Longer DEF WalkInv, StreamOK
<1>2. kept \in Seq(Nat) /\ used = <<>> /\ Len(used) = 0 /\ Len(kept) \in Nat
  BY DEF WalkInv, StreamOK, PhaseOK
<1>3. /\ kept' \in Seq(Nat) /\ Len(kept') >= 0
      /\ \A k \in 1 .. Len(kept') : kept'[k] \in 1 .. n + 1
      /\ \A j, k \in 1 .. Len(kept') : j < k => kept'[j] < kept'[k]
  <2>1. /\ \A k \in 1 .. Len(kept) : kept[k] \in 1 .. n
        /\ \A j, k \in 1 .. Len(kept) : j < k => kept[j] < kept[k]
    BY DEF WalkInv, StreamOK
  <2>2. CASE kept' = kept
    BY <1>1, <1>2, <2>1, <2>2
  <2>3. CASE kept' = Append(kept, n + 1)
    <3>1. /\ kept' \in Seq(Nat) /\ Len(kept') = Len(kept) + 1
          /\ \A k \in 1 .. Len(kept) : kept'[k] = kept[k]
          /\ kept'[Len(kept) + 1] = n + 1
      BY <1>1, <1>2, <2>3
    <3>2. \A k \in 1 .. Len(kept') : k \in 1 .. Len(kept) \/ k = Len(kept) + 1
      BY <1>2, <3>1
    <3>3. \A k \in 1 .. Len(kept') : kept'[k] \in 1 .. n + 1
      BY <1>1, <2>1, <3>1, <3>2
    <3>4. ASSUME NEW j \in 1 .. Len(kept'), NEW k \in 1 .. Len(kept'), j < k
          PROVE  kept'[j] < kept'[k]
      <4>1. j \in 1 .. Len(kept)
        BY <1>2, <3>1, <3>4
      <4>2. CASE k \in 1 .. Len(kept)
        BY <2>1, <3>1, <3>4, <4>1, <4>2
      <4>3. CASE k = Len(kept) + 1
        BY <1>1, <2>1, <3>1, <4>1, <4>3
      <4> QED
        BY <3>2, <4>2, <4>3
    <3> QED
      BY <1>2, <3>1, <3>3, <3>4
  <2> QED
    BY <2>2, <2>3
<1>4. StreamOK' /\ PhaseOK'
  BY <1>1, <1>2, <1>3 DEF WalkInv, StreamOK, PhaseOK
<1>5. \A i : Blocks(i)' = Blocks(i)
  BY DEF Blocks
<1>6. CountOK'
  <2>1. scope = 1 + Cardinality(Blocks(n)) /\ Cardinality(Blocks(n)) \in Nat
    BY <1>1, CountedBlocks DEF WalkInv, CountOK
  <2>2. Cardinality(Blocks(n + 1)) =
           Cardinality(Blocks(n)) + IF nodes[n + 1].kind = "block" THEN 1 ELSE 0
    BY <1>1, OneMore
  <2>3. phase' = "resolve" => scope' = 1 + Cardinality(Blocks(n + 1))
    BY <2>1, <2>2
  <2>4. phase' # "codegen"
    OBVIOUS
  <2> QED
    BY <1>1, <1>5, <2>3, <2>4 DEF CountOK
<1>7. FoundOK'
  <2> SUFFICES ASSUME NEW i \in 1 .. n + 1, nodes[i].kind = "name"
               PROVE  found'[i] = Lookup(nodes[i].name, 1 + Cardinality(Blocks(i - 1)))
    BY <1>1, <1>5, LookupStays DEF FoundOK
  <2>1. CASE i \in 1 .. n
    BY <1>1, <2>1 DEF WalkInv, FoundOK
  <2>2. CASE i = n + 1
    <3>1. i - 1 = n
      BY <1>1, <2>2
    <3>2. scope = 1 + Cardinality(Blocks(n))
      BY DEF WalkInv, CountOK
    <3> QED
      BY <1>1, <2>2, <3>1, <3>2
  <2> QED
    BY <1>1, <2>1, <2>2
<1>8. UsedOK'
  BY <1>2 DEF UsedOK
<1> QED
  BY <1>4, <1>6, <1>7, <1>8 DEF WalkInv

(* A step of the generator: a node of the new stream is read.               *)
LEMMA GeneratorStep ==
    ASSUME WalkInv, phase = "codegen", UNCHANGED <<table, nodes, found, kept>>,
           Len(used) < Len(kept),
           NEW x, used' = Append(used, x),
           nodes[kept[Len(used) + 1]].kind = "name" =>
               x = Lookup(nodes[kept[Len(used) + 1]].name, scope),
           \/ /\ phase' = "codegen"
              /\ scope' = scope + IF nodes[kept[Len(used) + 1]].kind = "block" THEN 1 ELSE 0
           \/ phase' \notin {"parse", "resolve", "codegen"}
    PROVE  WalkInv'
<1> DEFINE n == Len(used)
<1>1. /\ n \in Nat /\ Listed(used') /\ Len(used') = n + 1
      /\ \A i \in 1 .. n : used'[i] = used[i]
      /\ used'[n + 1] = x
  BY Longer DEF WalkInv, StreamOK
<1>2. StreamOK' /\ PhaseOK'
  <2>1. Len(kept) \in Nat /\ n + 1 <= Len(kept)
    BY <1>1 DEF WalkInv, StreamOK
  <2> QED
    BY <1>1, <2>1 DEF WalkInv, StreamOK, PhaseOK
<1>3. \A i : Blocks(i)' = Blocks(i) /\ KeptBlocks(i)' = KeptBlocks(i)
  BY DEF Blocks, KeptBlocks
<1>4. CountOK'
  <2>1. scope = 1 + Cardinality(KeptBlocks(n)) /\ Cardinality(KeptBlocks(n)) \in Nat
    BY <1>1, CountedBlocks DEF WalkInv, CountOK
  <2>2. Cardinality(KeptBlocks(n + 1)) =
           Cardinality(KeptBlocks(n)) + IF nodes[kept[n + 1]].kind = "block" THEN 1 ELSE 0
    BY <1>1, OneMore
  <2>3. phase' = "codegen" => scope' = 1 + Cardinality(KeptBlocks(n + 1))
    BY <2>1, <2>2
  <2>4. phase' # "resolve"
    OBVIOUS
  <2> QED
    BY <1>1, <1>3, <2>3, <2>4 DEF CountOK
<1>5. FoundOK'
  BY <1>3, LookupStays DEF WalkInv, FoundOK
<1>6. UsedOK'
  <2> SUFFICES ASSUME NEW k \in 1 .. n + 1, nodes[kept[k]].kind = "name"
               PROVE  used'[k] = Lookup(nodes[kept[k]].name, 1 + Cardinality(KeptBlocks(k - 1)))
    BY <1>1, <1>3, LookupStays DEF UsedOK
  <2>1. CASE k \in 1 .. n
    BY <1>1, <2>1 DEF WalkInv, UsedOK
  <2>2. CASE k = n + 1
    <3>1. k - 1 = n
      BY <1>1, <2>2
    <3>2. scope = 1 + Cardinality(KeptBlocks(n))
      BY DEF WalkInv, CountOK
    <3> QED
      BY <1>1, <2>2, <3>1, <3>2
  <2> QED
    BY <1>1, <2>1, <2>2
<1> QED
  BY <1>2, <1>4, <1>5, <1>6 DEF WalkInv

-----------------------------------------------------------------------------
LEMMA WalksBegin == Init => WalkInv
<1> SUFFICES ASSUME Init PROVE WalkInv
  OBVIOUS
<1>1. found = <<>> /\ kept = <<>> /\ used = <<>> /\ phase = "host"
  BY DEF Init
<1>2. <<>> \in Seq(Nat) /\ Len(<<>>) = 0
  OBVIOUS
<1>3. Listed(<<>>)
  BY <1>2 DEF Listed
<1> QED
  BY <1>1, <1>2, <1>3 DEF WalkInv, StreamOK, PhaseOK, CountOK, FoundOK, UsedOK

LEMMA WalksKept == WalkInv /\ [Next]_passvars => WalkInv'
<1> SUFFICES ASSUME WalkInv, [Next]_passvars PROVE WalkInv'
  OBVIOUS
<1> USE DEF walks, parser
<1>1. CASE BeginParse
  BY <1>1, FreshWalks DEF BeginParse
<1>2. CASE (\E nm \in Names : Identifier(nm)) \/ BlockOpen \/ BlockClose \/ CallOpen \/ CallClose
  <2>1. phase = "parse" /\ phase' = "parse" /\ UNCHANGED <<found, kept, used>>
    BY <1>2 DEF Identifier, BlockOpen, BlockClose, CallOpen, CallClose
  <2>2. found = <<>> /\ kept = <<>> /\ used = <<>>
    BY <2>1 DEF WalkInv, PhaseOK
  <2> QED
    BY <2>1, <2>2, FreshWalks
<1>3. CASE BeginResolve
  <2>1. /\ phase = "parse" /\ phase' = "resolve" /\ scope' = 1
        /\ UNCHANGED <<nodes, found, kept, used>>
    BY <1>3 DEF BeginResolve
  <2>2. found = <<>> /\ kept = <<>> /\ used = <<>>
    BY <2>1 DEF WalkInv, PhaseOK
  <2>3. StreamOK' /\ PhaseOK' /\ FoundOK' /\ UsedOK'
    BY <2>1, <2>2 DEF WalkInv, StreamOK, PhaseOK, FoundOK, UsedOK
  <2>4. \A i : Blocks(i)' = Blocks(i)
    BY <2>1 DEF Blocks
  <2>5. CountOK'
    BY <2>1, <2>2, <2>4, NoneYet DEF CountOK
  <2> QED
    BY <2>3, <2>5 DEF WalkInv
<1>4. CASE ResolveBlock
  <2>1. /\ phase = "resolve" /\ phase' = "resolve" /\ UNCHANGED <<table, nodes, used>>
        /\ nodes[Len(found) + 1].kind = "block"
        /\ scope' = scope + 1 /\ found' = Append(found, 0)
        /\ kept' = kept \/ kept' = Append(kept, Len(found) + 1)
    BY <1>4 DEF ResolveBlock, Resolving, Keep
  <2> QED
    BY <2>1, ResolverStep
<1>5. CASE ResolveName
  <2> DEFINE x == Lookup(nodes[Len(found) + 1].name, scope)
  <2>1. /\ phase = "resolve" /\ UNCHANGED <<table, scope, nodes, used>>
        /\ nodes[Len(found) + 1].kind = "name" /\ found' = Append(found, x)
        /\ kept' = kept \/ kept' = Append(kept, Len(found) + 1)
        /\ phase' = "resolve" \/ phase' \in {"host", "exited"}
    BY <1>5 DEF ResolveName, Resolving, Keep
  <2>2. scope = scope + 0
    <3>1. Len(found) \in Nat
      BY Longer DEF WalkInv, StreamOK
    <3> QED
      BY <2>1, <3>1, CountedBlocks DEF WalkInv, CountOK
  <2> HIDE DEF x
  <2>3. nodes[Len(found) + 1].kind = "name" => x = Lookup(nodes[Len(found) + 1].name, scope)
    BY DEF x
  <2> QED
    BY <2>1, <2>2, <2>3, ResolverStep
<1>6. CASE ResolveCall
  <2>1. /\ phase = "resolve" /\ phase' = "resolve" /\ UNCHANGED <<table, scope, nodes, used>>
        /\ nodes[Len(found) + 1].kind = "call" /\ found' = Append(found, 0)
        /\ kept' = kept \/ kept' = Append(kept, Len(found) + 1)
    BY <1>6 DEF ResolveCall, Resolving, Keep
  <2>2. scope = scope + 0
    <3>1. Len(found) \in Nat
      BY Longer DEF WalkInv, StreamOK
    <3> QED
      BY <2>1, <3>1, CountedBlocks DEF WalkInv, CountOK
  <2> QED
    BY <2>1, <2>2, ResolverStep
<1>7. CASE ResolveFails \/ Run
  BY <1>7, WalksStay DEF ResolveFails, Run
<1>8. CASE BeginCodegen
  <2>1. /\ phase = "resolve" /\ phase' = "codegen" /\ scope' = 1
        /\ UNCHANGED <<table, nodes, found, kept, used>>
    BY <1>8 DEF BeginCodegen
  <2>2. used = <<>> /\ Len(used) = 0
    BY <2>1 DEF WalkInv, PhaseOK
  <2>3. StreamOK' /\ PhaseOK'
    BY <2>1, <2>2 DEF WalkInv, StreamOK, PhaseOK
  <2>4. \A i : Blocks(i)' = Blocks(i) /\ KeptBlocks(i)' = KeptBlocks(i)
    BY <2>1 DEF Blocks, KeptBlocks
  <2>5. FoundOK' /\ UsedOK'
    BY <2>1, <2>2, <2>4, LookupStays DEF WalkInv, FoundOK, UsedOK
  <2>6. CountOK'
    BY <2>1, <2>2, <2>4, NoneYet DEF CountOK
  <2> QED
    BY <2>3, <2>5, <2>6 DEF WalkInv
<1>9. CASE GenerateBlock
  <2>1. /\ phase = "codegen" /\ phase' = "codegen" /\ UNCHANGED <<table, nodes, found, kept>>
        /\ Len(used) < Len(kept) /\ nodes[kept[Len(used) + 1]].kind = "block"
        /\ scope' = scope + 1 /\ used' = Append(used, 0)
    BY <1>9 DEF GenerateBlock, Generating
  <2> QED
    BY <2>1, GeneratorStep
<1>10. CASE GenerateName
  <2> DEFINE x == Lookup(nodes[kept[Len(used) + 1]].name, scope)
  <2>1. /\ phase = "codegen" /\ UNCHANGED <<table, scope, nodes, found, kept>>
        /\ Len(used) < Len(kept) /\ nodes[kept[Len(used) + 1]].kind = "name"
        /\ used' = Append(used, x) /\ phase' \in {"codegen", "exited"}
    BY <1>10 DEF GenerateName, Generating
  <2>2. scope = scope + 0
    <3>1. Len(used) \in Nat
      BY Longer DEF WalkInv, StreamOK
    <3> QED
      BY <2>1, <3>1, CountedBlocks DEF WalkInv, CountOK
  <2> HIDE DEF x
  <2>3. nodes[kept[Len(used) + 1]].kind = "name" =>
            x = Lookup(nodes[kept[Len(used) + 1]].name, scope)
    BY DEF x
  <2> QED
    BY <2>1, <2>2, <2>3, GeneratorStep
<1>11. CASE GenerateCall
  <2>1. /\ phase = "codegen" /\ phase' = "codegen" /\ UNCHANGED <<table, scope, nodes, found, kept>>
        /\ Len(used) < Len(kept) /\ nodes[kept[Len(used) + 1]].kind = "call"
        /\ used' = Append(used, 0)
    BY <1>11 DEF GenerateCall, Generating
  <2>2. scope = scope + 0
    <3>1. Len(used) \in Nat
      BY Longer DEF WalkInv, StreamOK
    <3> QED
      BY <2>1, <3>1, CountedBlocks DEF WalkInv, CountOK
  <2> QED
    BY <2>1, <2>2, GeneratorStep
<1>12. CASE UNCHANGED passvars
  BY <1>12, WalksStay DEF passvars
<1> QED
  BY <1>1, <1>2, <1>3, <1>4, <1>5, <1>6, <1>7, <1>8, <1>9, <1>10, <1>11, <1>12 DEF Next

(* If no block up to a kept node was folded away, the kept blocks in front  *)
(* of it are all blocks in front of it, so both passes have counted alike.  *)
LEMMA SameCount ==
    ASSUME StreamOK, NEW k \in 1 .. Len(used),
           \A i \in 1 .. kept[k] : nodes[i].kind = "block" => ~ Folded(i)
    PROVE  Cardinality(KeptBlocks(k - 1)) = Cardinality(Blocks(kept[k] - 1))
<1> DEFINE S == KeptBlocks(k - 1)
           T == Blocks(kept[k] - 1)
           f == [j \in S |-> kept[j]]
<1>1. /\ Len(used) \in Nat /\ Len(kept) \in Nat /\ Len(found) \in Nat
      /\ k \in 1 .. Len(kept)
  <2>1. Len(used) \in Nat /\ Len(found) \in Nat /\ Len(kept) \in Nat /\ Len(used) <= Len(kept)
    BY Longer DEF StreamOK
  <2> QED
    BY <2>1
<1>2. /\ \A j \in 1 .. Len(kept) : kept[j] \in Nat /\ kept[j] >= 1
      /\ \A i, j \in 1 .. Len(kept) : i < j => kept[i] < kept[j]
  BY <1>1 DEF StreamOK
<1>3. S \subseteq 1 .. k - 1 /\ \A j \in S : j \in 1 .. Len(kept) /\ j < k
  BY <1>1 DEF KeptBlocks
<1>4. \A j \in S : f[j] \in T
  <2> SUFFICES ASSUME NEW j \in S PROVE kept[j] \in T
    OBVIOUS
  <2>1. kept[j] \in 1 .. kept[k] - 1
    BY <1>1, <1>2, <1>3
  <2>2. nodes[kept[j]].kind = "block"
    BY DEF KeptBlocks
  <2> QED
    BY <2>1, <2>2 DEF Blocks
<1>5. \A i, j \in S : f[i] = f[j] => i = j
  <2> SUFFICES ASSUME NEW i \in S, NEW j \in S, kept[i] = kept[j], i # j PROVE FALSE
    OBVIOUS
  <2>1. i \in 1 .. Len(kept) /\ j \in 1 .. Len(kept) /\ (i < j \/ j < i)
    BY <1>3
  <2> QED
    BY <1>2, <2>1
<1>6. \A t \in T : \E j \in S : f[j] = t
  <2> SUFFICES ASSUME NEW t \in T PROVE \E j \in S : kept[j] = t
    OBVIOUS
  <2>1. t \in 1 .. kept[k] - 1 /\ nodes[t].kind = "block"
    BY DEF Blocks
  <2>2. t \in 1 .. kept[k] /\ t < kept[k]
    BY <1>1, <1>2, <2>1
  <2>3. PICK j \in 1 .. Len(kept) : kept[j] = t
    BY <2>1, <2>2 DEF Folded
  <2>4. j < k
    <3>1. CASE j = k
      BY <1>1, <1>2, <2>2, <2>3, <3>1
    <3>2. CASE k < j
      BY <1>1, <1>2, <2>2, <2>3, <3>2
    <3> QED
      BY <1>1, <3>1, <3>2
  <2>5. j \in 1 .. k - 1
    BY <1>1, <2>4
  <2>6. j \in S
    BY <2>1, <2>3, <2>5 DEF KeptBlocks
  <2> QED
    BY <2>3, <2>6
<1>7. ExistsBijection(S, T)
  <2>1. f \in Bijection(S, T)
    BY <1>4, <1>5, <1>6 DEF Bijection, Injection, Surjection, IsInjective
  <2> QED
    BY <2>1 DEF ExistsBijection
<1>8. IsFiniteSet(S)
  BY <1>1, CountedBlocks
<1> QED
  BY <1>7, <1>8, FS_Bijection

(* The code generator takes a name for the variable whose type the resolver *)
(* has checked: both have counted the same blocks in front of it (N_BLOCK:  *)
(* inferTypes, resolver.c:517, codegen_expr, x64codegen.c:548), unless a    *)
(* callback has folded a call with a block among its arguments.             *)
THEOREM PassesAlwaysAgree == Spec => []PassesAgree
<1>1. WalkInv => PassesAgree
  <2> SUFFICES ASSUME WalkInv, NEW k \in 1 .. Len(used), nodes[kept[k]].kind = "name",
                      \A i \in 1 .. kept[k] : nodes[i].kind = "block" => ~ Folded(i)
               PROVE  used[k] = found[kept[k]]
    BY DEF PassesAgree
  <2>1. Cardinality(KeptBlocks(k - 1)) = Cardinality(Blocks(kept[k] - 1))
    BY SameCount DEF WalkInv
  <2>2. kept[k] \in 1 .. Len(found)
    <3>1. Len(used) \in Nat /\ Len(kept) \in Nat /\ Len(used) <= Len(kept)
      BY Longer DEF WalkInv, StreamOK
    <3>2. k \in 1 .. Len(kept)
      BY <3>1
    <3> QED
      BY <3>2 DEF WalkInv, StreamOK
  <2>3. found[kept[k]] = Lookup(nodes[kept[k]].name, 1 + Cardinality(Blocks(kept[k] - 1)))
    BY <2>2 DEF WalkInv, FoundOK
  <2>4. used[k] = Lookup(nodes[kept[k]].name, 1 + Cardinality(KeptBlocks(k - 1)))
    BY DEF WalkInv, UsedOK
  <2> QED
    BY <2>1, <2>3, <2>4
<1> QED
  BY <1>1, WalksBegin, WalksKept, PTL DEF Spec
-----------------------------------------------------------------------------
(* The scopes that the passes count to                                      *)
USE PassAssumption

Chain(s) == chains[s + 1]
Ids == 0 .. Len(chains) - 1

(* what Lookup chooses from, in the words of this module *)
Sees(nm, s) == { i \in 1 .. Len(binds) :
                    binds[i].name = nm /\ binds[i].scope \in Chain(s) }
Prefers(i, j) == \/ binds[j].scope < binds[i].scope
                 \/ binds[j].scope = binds[i].scope /\ i <= j
Means(nm, s, r) == \/ r = 0 /\ Sees(nm, s) = {}
                   \/ /\ r \in Sees(nm, s)
                      /\ \A j \in Sees(nm, s) : Prefers(r, j)

(* Each scope sees itself and what the scope around it sees, so that the    *)
(* scopes that it sees are in a row.                                        *)
ScopesOK ==
    /\ chains \in Seq(SUBSET Nat) /\ Len(chains) \in 2 .. MaxScopes
    /\ Chain(0) = {0}
    /\ \A s \in Ids : /\ s \in Chain(s) /\ 0 \in Chain(s)
                      /\ Chain(s) \subseteq 0 .. s
                      /\ \A t \in Chain(s) : Chain(t) \subseteq Chain(s)
                      /\ \A t, u \in Chain(s) : t <= u => t \in Chain(u)
    /\ \A s \in Ids \ {0} : \E p \in 0 .. s - 1 : Chain(s) = Chain(p) \cup {s}

BindsOK == /\ binds \in Seq([name : Names \cup {This}, scope : Nat])
           /\ Len(binds) <= MaxVars
           /\ \A i \in 1 .. Len(binds) : binds[i].scope \in Ids

-----------------------------------------------------------------------------
LEMMA LeastNat ==
    ASSUME NEW T \in SUBSET Nat, T # {}
    PROVE  \E m \in T : \A t \in T : m <= t
<1> DEFINE R == OpToRel(<, Nat)
<1>1. IsWellFoundedOn(R, Nat)
  BY NatLessThanWellFounded
<1>2. \A x, y \in Nat : <<x, y>> \in R <=> x < y
  BY DEF OpToRel
<1> HIDE DEF R
<1>3. PICK m \in T : \A t \in T : ~ (<<t, m>> \in R)
  BY <1>1, WFMin
<1>4. \A t \in T : ~ (t < m)
  BY <1>2, <1>3
<1> QED
  BY <1>4

(* Of the bindings that are visible one is preferred to all of them.        *)
LEMMA SomethingMeant ==
    ASSUME ScopesOK, BindsOK, NEW nm, NEW s
    PROVE  \E r \in 0 .. Len(binds) : Means(nm, s, r)
<1> DEFINE V == Sees(nm, s)
<1>0. Len(binds) \in Nat /\ Len(chains) \in Nat
  BY DEF ScopesOK, BindsOK
<1>1. CASE V = {}
  BY <1>0, <1>1 DEF Means
<1>2. CASE V # {}
  <2> DEFINE deep == {k \in Nat : \E i \in V : k + binds[i].scope = Len(chains)}
  <2>1. \A i \in V : i \in 1 .. Len(binds)
    BY DEF Sees
  <2>2. \A i \in V : binds[i].scope \in 0 .. Len(chains) - 1
    BY <2>1 DEF BindsOK, Ids
  <2> HIDE DEF V
  <2>a. ASSUME NEW i \in V PROVE Len(chains) - binds[i].scope \in deep
    <3> PICK c : c = Len(chains)
      OBVIOUS
    <3> PICK x : x = binds[i].scope
      OBVIOUS
    <3>1. c \in Nat /\ x \in 0 .. c - 1
      BY <1>0, <2>2
    <3>2. c - x \in Nat /\ (c - x) + x = c
      BY <3>1
    <3> QED
      BY <3>2
  <2>3. deep # {}
    BY <1>2, <2>a
  <2>4. PICK d \in deep : \A k \in deep : d <= k
    <3>1. deep \in SUBSET Nat
      OBVIOUS
    <3> HIDE DEF deep
    <3> QED
      BY <2>3, <3>1, LeastNat
  <2>5. PICK b \in V : d + binds[b].scope = Len(chains)
    BY <2>4
  <2>6. ASSUME NEW i \in V PROVE binds[i].scope <= binds[b].scope
    <3>1. Len(chains) - binds[i].scope \in deep
      BY <2>a
    <3>2. d <= Len(chains) - binds[i].scope
      BY <2>4, <3>1
    <3>3. binds[i].scope \in Int /\ binds[b].scope \in Int /\ d \in Int
      BY <1>0, <2>2, <2>4
    <3> QED
      BY <1>0, <2>5, <3>2, <3>3
  <2> DEFINE old == {i \in V : binds[i].scope = binds[b].scope}
  <2>7. old \in SUBSET Nat /\ old # {}
    BY <2>1
  <2>8. PICK r \in old : \A i \in old : r <= i
    BY <2>7, LeastNat
  <2>9. ASSUME NEW i \in V PROVE Prefers(r, i)
    BY <2>2, <2>6, <2>8, <2>9 DEF Prefers
  <2>10. r \in V /\ r \in 0 .. Len(binds)
    BY <2>1, <2>8
  <2>11. Means(nm, s, r)
    BY <2>9, <2>10 DEF Means, V
  <2> QED
    BY <2>10, <2>11
<1> QED
  BY <1>1, <1>2

(* varLookup answers with it.                                               *)
LEMMA LookupMeans ==
    ASSUME ScopesOK, BindsOK, NEW nm, NEW s
    PROVE  Lookup(nm, s) \in 0 .. Len(binds) /\ Means(nm, s, Lookup(nm, s))
<1>1. Lookup(nm, s) = CHOOSE r \in 0 .. Len(binds) : Means(nm, s, r)
  BY DEF Lookup, Means, Sees, Prefers, Chain, Dict!Resolves, Dict!Visible,
         Dict!Prefers, Dict!Chain
<1> QED
  BY <1>1, SomethingMeant

(* There is one meaning only.                                               *)
LEMMA OneMeaning ==
    ASSUME ScopesOK, BindsOK, NEW nm, NEW s, NEW q \in Sees(nm, s), NEW r \in Sees(nm, s),
           \A j \in Sees(nm, s) : Prefers(q, j), Prefers(r, q)
    PROVE  q = r
<1>1. Prefers(q, r)
  OBVIOUS
<1>2. /\ q \in Int /\ r \in Int
      /\ binds[q].scope \in Int /\ binds[r].scope \in Int
  BY DEF Sees, BindsOK, Ids, ScopesOK
<1> QED
  BY <1>1, <1>2 DEF Prefers

-----------------------------------------------------------------------------
(* scope_leave goes to the scope that the scope was entered from.           *)
LEMMA ParentIsAround ==
    ASSUME ScopesOK, NEW s \in Ids, s # 0
    PROVE  /\ Parent(s) \in 0 .. s - 1 /\ Parent(s) \in Ids
           /\ s \notin Chain(Parent(s)) /\ Chain(s) = Chain(Parent(s)) \cup {s}
<1>1. PICK p \in 0 .. s - 1 : Chain(s) = Chain(p) \cup {s}
  BY DEF ScopesOK
<1>2. Len(chains) \in Nat /\ s \in Nat /\ p \in Ids
  BY DEF ScopesOK, Ids
<1>3. p \in Chain(p) /\ Chain(p) \subseteq 0 .. p /\ s \notin Chain(p)
  BY <1>2 DEF ScopesOK
<1>4. Chain(s) \ {s} = Chain(p)
  BY <1>1, <1>3
<1>5. Parent(s) = CHOOSE q \in Chain(p) : \A r \in Chain(p) : r <= q
  BY <1>4 DEF Parent, Dict!Chain, Chain
<1>6. Parent(s) \in Chain(p) /\ \A r \in Chain(p) : r <= Parent(s)
  BY <1>3, <1>5
<1>7. Parent(s) = p
  BY <1>3, <1>6
<1> QED
  BY <1>1, <1>2, <1>3, <1>7

(* scope_enter                                                              *)
LEMMA EnterScope ==
    ASSUME ScopesOK, NEW p \in Ids, NEW k, k = Len(chains), k < MaxScopes,
           chains' = Append(chains, Chain(p) \cup {k})
    PROVE  /\ ScopesOK' /\ Len(chains') = k + 1 /\ Ids = 0 .. k - 1 /\ Ids' = 0 .. k
           /\ \A s \in Ids : chains'[s + 1] = chains[s + 1]
           /\ chains'[k + 1] = Chain(p) \cup {k}
<1>1. k \in Nat /\ k >= 2 /\ chains \in Seq(SUBSET Nat) /\ Ids = 0 .. k - 1
  BY DEF ScopesOK, Ids
<1>2. /\ p \in Chain(p) /\ 0 \in Chain(p) /\ Chain(p) \subseteq 0 .. p
      /\ \A t \in Chain(p) : Chain(t) \subseteq Chain(p)
      /\ \A t, u \in Chain(p) : t <= u => t \in Chain(u)
  BY DEF ScopesOK
<1>3. Chain(p) \cup {k} \in SUBSET Nat
  BY <1>1, <1>2
<1>4. /\ chains' \in Seq(SUBSET Nat) /\ Len(chains') = k + 1
      /\ \A s \in 0 .. k - 1 : chains'[s + 1] = chains[s + 1]
      /\ chains'[k + 1] = Chain(p) \cup {k}
  BY <1>1, <1>3
<1>5. Ids' = 0 .. k
  BY <1>1, <1>4 DEF Ids
<1>6. \A s \in 0 .. k - 1 : Chain(s)' = Chain(s)
  BY <1>4 DEF Chain
<1>7. Chain(k)' = Chain(p) \cup {k}
  BY <1>4 DEF Chain
<1>8. \A t \in Chain(p) : t \in 0 .. k - 1 /\ Chain(t)' = Chain(t)
  BY <1>1, <1>2, <1>6
<1>9. ASSUME NEW s \in 0 .. k
      PROVE  /\ s \in Chain(s)' /\ 0 \in Chain(s)'
             /\ Chain(s)' \subseteq 0 .. s
             /\ \A t \in Chain(s)' : Chain(t)' \subseteq Chain(s)'
             /\ \A t, u \in Chain(s)' : t <= u => t \in Chain(u)'
  <2>1. CASE s = k
    <3>1. k \in Chain(k)' /\ 0 \in Chain(k)' /\ Chain(k)' \subseteq 0 .. k
      BY <1>1, <1>2, <1>7
    <3>2. \A t \in Chain(k)' : Chain(t)' \subseteq Chain(k)'
      BY <1>2, <1>7, <1>8
    <3>3. ASSUME NEW t \in Chain(k)', NEW u \in Chain(k)', t <= u
          PROVE  t \in Chain(u)'
      <4>1. CASE u = k
        BY <1>7, <3>3, <4>1
      <4>2. CASE u \in Chain(p)
        <5>1. t \in Chain(p)
          BY <1>1, <1>7, <1>8, <3>3, <4>2
        <5> QED
          BY <1>2, <1>8, <3>3, <4>2, <5>1
      <4> QED
        BY <1>7, <4>1, <4>2
    <3> QED
      BY <2>1, <3>1, <3>2, <3>3
  <2>2. CASE s \in 0 .. k - 1
    <3>1. /\ s \in Chain(s) /\ 0 \in Chain(s)
          /\ Chain(s) \subseteq 0 .. s
          /\ \A t \in Chain(s) : Chain(t) \subseteq Chain(s)
          /\ \A t, u \in Chain(s) : t <= u => t \in Chain(u)
      BY <1>1, <2>2 DEF ScopesOK
    <3>2. \A t \in Chain(s) : t \in 0 .. k - 1
      BY <1>1, <2>2, <3>1
    <3> QED
      BY <1>6, <2>2, <3>1, <3>2
  <2> QED
    BY <1>1, <2>1, <2>2
<1>10. ASSUME NEW s \in 0 .. k, s # 0
       PROVE  \E q \in 0 .. s - 1 : Chain(s)' = Chain(q)' \cup {s}
  <2>1. CASE s = k
    BY <1>1, <1>6, <1>7, <2>1
  <2>2. CASE s \in 0 .. k - 1
    <3>1. PICK q \in 0 .. s - 1 : Chain(s) = Chain(q) \cup {s}
      BY <1>1, <1>10, <2>2 DEF ScopesOK
    <3>2. q \in 0 .. k - 1
      BY <1>1, <2>2
    <3> QED
      BY <1>6, <2>2, <3>1, <3>2
  <2> QED
    BY <1>1, <2>1, <2>2
<1>11. Chain(0)' = {0}
  BY <1>1, <1>6 DEF ScopesOK
<1>12. Len(chains') \in 2 .. MaxScopes
  BY <1>1, <1>4
<1> QED
  BY <1>1, <1>4, <1>5, <1>9, <1>10, <1>11, <1>12 DEF ScopesOK

-----------------------------------------------------------------------------
(* Where the parser and the passes are.  The scopes around the parser are   *)
(* two more than the blocks it is inside of, so a '}' does not leave the    *)
(* global scope, and the scopes that were ever made two more than the       *)
(* blocks of this module.                                                   *)
Inside == {k \in 1 .. Len(open) : open[k] = 0}
PlaceOK ==
    /\ scope \in Ids \ {0}
    /\ phase \in {"host", "parse", "resolve", "codegen", "exited"}
    /\ nodes \in Seq(Node) /\ closed \in SUBSET Nat
    /\ open \in Seq(Nat) /\ \A k \in 1 .. Len(open) : open[k] <= Len(nodes)
    /\ Len(kept) <= Len(found) /\ Len(found) <= Len(nodes)
    /\ phase = "parse" => Cardinality(Chain(scope)) >= 2 + Cardinality(Inside)
    /\ Len(chains) >= 2 + Cardinality(Blocks(Len(nodes)))

(* The scope that the passes will have counted to at node i                 *)
Counted(i) == 1 + Cardinality(Blocks(i - 1))

(* What the parser took a name for is what it means in a scope around the   *)
(* one that will be counted to, and what lies between the two is closed.    *)
BoundOK(i) ==
    /\ nodes[i].decl # 0
    /\ \E s \in Chain(Counted(i)) :
          /\ Means(nodes[i].name, s, nodes[i].decl)
          /\ \A t \in Chain(Counted(i)) : t \in Chain(s) \/ t \in nodes[i].closed

SeenOK ==
    fresh =>
       /\ Len(chains) = 2 + Cardinality(Blocks(Len(nodes)))
       /\ phase = "parse" =>
             /\ scope \in Chain(Len(chains) - 1)
             /\ \A t \in Chain(Len(chains) - 1) : t \in Chain(scope) \/ t \in closed
       /\ \A i \in 1 .. Len(nodes) : nodes[i].kind = "name" => BoundOK(i)

BindInv == ScopesOK /\ BindsOK /\ PlaceOK /\ SeenOK

-----------------------------------------------------------------------------
(* Counting.                                                                *)
LEMMA MoreBlocks ==
    ASSUME NEW m \in Nat, NEW n \in Nat, m <= n
    PROVE  /\ Cardinality(Blocks(m)) \in Nat /\ Cardinality(Blocks(n)) \in Nat
           /\ Cardinality(Blocks(m)) <= Cardinality(Blocks(n))
<1>1. Blocks(m) \in SUBSET Blocks(n)
  BY DEF Blocks
<1> QED
  BY <1>1, CountedBlocks, FS_Subset

LEMMA FewerKept ==
    ASSUME StreamOK, Len(found) <= Len(nodes), Len(nodes) \in Nat
    PROVE  /\ Cardinality(KeptBlocks(Len(used))) \in Nat
           /\ Cardinality(KeptBlocks(Len(used))) <= Cardinality(Blocks(Len(nodes)))
<1> DEFINE S == KeptBlocks(Len(used))
           T == Blocks(Len(nodes))
           f == [k \in S |-> kept[k]]
<1>1. Len(used) \in Nat /\ Len(found) \in Nat /\ Len(kept) \in Nat
  BY Longer DEF StreamOK
<1>2. \A k \in S : k \in 1 .. Len(kept) /\ nodes[kept[k]].kind = "block"
  BY <1>1 DEF StreamOK, KeptBlocks
<1>3. \A k \in S : kept[k] \in T
  BY <1>1, <1>2 DEF StreamOK, Blocks
<1>4. \A j, k \in S : kept[j] = kept[k] => j = k
  <2> SUFFICES ASSUME NEW j \in S, NEW k \in S, kept[j] = kept[k] PROVE j = k
    OBVIOUS
  <2>1. j \in 1 .. Len(kept) /\ k \in 1 .. Len(kept)
    BY <1>2
  <2>2. kept[j] \in Int /\ ~ (kept[j] < kept[k]) /\ ~ (kept[k] < kept[j])
    BY <1>1, <2>1 DEF StreamOK
  <2> QED
    BY <1>1, <2>1, <2>2 DEF StreamOK
<1>5. IsFiniteSet(T) /\ Cardinality(S) \in Nat
  BY <1>1, CountedBlocks
<1> HIDE DEF S, T
<1>6. f \in Injection(S, T)
  BY <1>3, <1>4 DEF Injection, IsInjective
<1>7. Cardinality(S) <= Cardinality(T)
  BY <1>5, <1>6, FS_Injection
<1> QED
  BY <1>5, <1>7 DEF S, T

(* The passes count to scopes that exist.                                   *)
LEMMA CountInside ==
    /\ WalkInv /\ phase \in {"resolve", "codegen"}
    /\ Len(nodes) \in Nat /\ Len(chains) \in Nat /\ Len(found) <= Len(nodes)
    /\ Len(chains) >= 2 + Cardinality(Blocks(Len(nodes)))
    => scope \in Ids \ {0}
<1> SUFFICES ASSUME WalkInv, phase \in {"resolve", "codegen"},
                    Len(nodes) \in Nat, Len(chains) \in Nat, Len(found) <= Len(nodes),
                    Len(chains) >= 2 + Cardinality(Blocks(Len(nodes)))
             PROVE  scope \in 1 .. Len(chains) - 1
  BY DEF Ids
<1>1. Len(found) \in Nat
  BY Longer DEF WalkInv, StreamOK
<1>2. Cardinality(Blocks(Len(nodes))) \in Nat
  BY MoreBlocks
<1>3. CASE phase = "resolve"
  <2>1. /\ Cardinality(Blocks(Len(found))) <= Cardinality(Blocks(Len(nodes)))
        /\ Cardinality(Blocks(Len(found))) \in Nat
    BY <1>1, MoreBlocks
  <2>2. scope = 1 + Cardinality(Blocks(Len(found)))
    BY <1>3 DEF WalkInv, CountOK
  <2> QED
    BY <1>2, <2>1, <2>2
<1>4. CASE phase = "codegen"
  <2>1. scope = 1 + Cardinality(KeptBlocks(Len(used)))
    BY <1>4 DEF WalkInv, CountOK
  <2> QED
    BY <1>2, <2>1, FewerKept DEF WalkInv
<1> QED
  BY <1>3, <1>4

LEMMA CountInsideNext ==
    (/\ WalkInv /\ phase \in {"resolve", "codegen"}
     /\ Len(nodes) \in Nat /\ Len(chains) \in Nat /\ Len(found) <= Len(nodes)
     /\ Len(chains) >= 2 + Cardinality(Blocks(Len(nodes)))
     => scope \in Ids \ {0})'
BY CountInside, PTL

-----------------------------------------------------------------------------
(* Meanings stay.                                                           *)

(* scope_enter changes nothing for the scopes that were there.              *)
LEMMA EnterKeepsMeaning ==
    ASSUME binds' = binds, NEW s \in Ids, chains'[s + 1] = chains[s + 1],
           NEW nm, NEW r, Means(nm, s, r)
    PROVE  Means(nm, s, r)'
<1>1. Sees(nm, s)' = Sees(nm, s)
  BY DEF Sees, Chain
<1> QED
  BY <1>1 DEF Means, Prefers

(* putVar in a scope from which the name was not visible: it means the new  *)
(* variable there, and whatever meant something still does.                 *)
LEMMA DeclareKeepsMeaning ==
    ASSUME ScopesOK, BindsOK, NEW q \in Ids, NEW nm, Sees(nm, q) = {},
           NEW k, k = Len(binds),
           binds' = Append(binds, [name |-> nm, scope |-> q]), chains' = chains
    PROVE  /\ Means(nm, q, k + 1)'
           /\ \A x, s, r : s \in Ids /\ r # 0 /\ Means(x, s, r) => Means(x, s, r)'
<1>1. /\ k \in Nat /\ Len(binds') = k + 1
      /\ \A i \in 1 .. k : binds'[i] = binds[i]
      /\ binds'[k + 1].name = nm /\ binds'[k + 1].scope = q
  BY DEF BindsOK
<1>2. \A i \in 1 .. k : binds[i].scope \in Nat
  BY DEF BindsOK, Ids, ScopesOK
<1>3. \A x, s : Sees(x, s)' = Sees(x, s) \cup
                   IF x = nm /\ q \in Chain(s) THEN {k + 1} ELSE {}
  BY <1>1 DEF Sees, Chain
<1>4. q \in Chain(q) /\ q \in Nat /\ \A i \in {k + 1} : Prefers(i, i)'
  BY <1>1 DEF ScopesOK, Ids, Prefers
<1>5. Means(nm, q, k + 1)'
  BY <1>3, <1>4 DEF Means
<1>6. ASSUME NEW x, NEW s \in Ids, NEW r, r # 0, Means(x, s, r)
      PROVE  Means(x, s, r)'
  <2>1. r \in Sees(x, s) /\ \A j \in Sees(x, s) : Prefers(r, j)
    BY <1>6 DEF Means
  <2>2. r \in 1 .. k /\ \A j \in Sees(x, s) : j \in 1 .. k
    BY <2>1 DEF Sees
  <2>3. \A j \in Sees(x, s) : Prefers(r, j)'
    BY <1>1, <2>1, <2>2 DEF Prefers
  <2>4. ASSUME x = nm, q \in Chain(s) PROVE Prefers(r, k + 1)'
    <3>1. binds[r].scope \in Chain(s) /\ binds[r].name = nm
      BY <2>1, <2>4 DEF Sees
    <3>2. binds[r].scope \notin Chain(q)
      BY <2>2, <3>1 DEF Sees
    <3>3. ~ (binds[r].scope <= q)
      BY <2>4, <3>1, <3>2 DEF ScopesOK
    <3> QED
      BY <1>1, <1>2, <1>4, <2>2, <3>3 DEF Prefers
  <2>5. r \in Sees(x, s)'
    BY <1>3, <2>1
  <2>6. \A j \in Sees(x, s)' : Prefers(r, j)'
    BY <1>3, <2>3, <2>4
  <2> QED
    BY <2>5, <2>6 DEF Means
<1> QED
  BY <1>5, <1>6

(* What a name was taken for stays while the stream of nodes grows.         *)
LEMMA BoundStays ==
    ASSUME ScopesOK, NEW i, BoundOK(i), Counted(i) \in Ids, Blocks(i - 1)' = Blocks(i - 1),
           nodes'[i].name = nodes[i].name, nodes'[i].decl = nodes[i].decl,
           nodes'[i].closed = nodes[i].closed,
           \A s \in Ids : chains'[s + 1] = chains[s + 1],
           \A x, s, r : s \in Ids /\ r # 0 /\ Means(x, s, r) => Means(x, s, r)'
    PROVE  BoundOK(i)'
<1>1. Counted(i)' = Counted(i)
  BY DEF Counted
<1> PICK nm, d, out : nm = nodes[i].name /\ d = nodes[i].decl /\ out = nodes[i].closed
  OBVIOUS
<1>2. d # 0
  BY DEF BoundOK
<1>3. PICK s \in Chain(Counted(i)) :
         /\ Means(nm, s, d)
         /\ \A t \in Chain(Counted(i)) : t \in Chain(s) \/ t \in out
  BY DEF BoundOK
<1>4. s \in Ids
  <2>1. Chain(Counted(i)) \subseteq 0 .. Counted(i)
    BY DEF ScopesOK
  <2> QED
    BY <1>3, <2>1 DEF Ids, ScopesOK
<1>5. Chain(s)' = Chain(s) /\ Chain(Counted(i))' = Chain(Counted(i))
  BY <1>1, <1>4 DEF Chain
<1>6. Means(nm, s, d)'
  BY <1>2, <1>3, <1>4
<1>7. nodes'[i].name = nm /\ nodes'[i].decl = d /\ nodes'[i].closed = out
  OBVIOUS
<1>8. BoundOK(i)' <=> /\ nodes'[i].decl # 0
                      /\ \E u \in Chain(Counted(i))' :
                            /\ Means(nm, u, d)'
                            /\ \A t \in Chain(Counted(i))' : t \in Chain(u)' \/ t \in nodes'[i].closed
  BY <1>7 DEF BoundOK, Means, Sees, Prefers
<1> QED
  BY <1>2, <1>3, <1>5, <1>6, <1>7, <1>8

(* One node more.                                                           *)
LEMMA NodeAdded ==
    ASSUME nodes \in Seq(Node), NEW x \in Node, nodes' = Append(nodes, x),
           NEW k, k = Len(nodes)
    PROVE  /\ k \in Nat /\ nodes' \in Seq(Node) /\ Len(nodes') = k + 1
           /\ \A i \in 1 .. k : nodes'[i] = nodes[i]
           /\ nodes'[k + 1] = x
           /\ \A m \in 0 .. k : Blocks(m)' = Blocks(m)
           /\ Cardinality(Blocks(k)) \in Nat
           /\ Cardinality(Blocks(k + 1)') =
                 Cardinality(Blocks(k)) + IF x.kind = "block" THEN 1 ELSE 0
<1>1. /\ k \in Nat /\ nodes' \in Seq(Node) /\ Len(nodes') = k + 1
      /\ \A i \in 1 .. k : nodes'[i] = nodes[i]
      /\ nodes'[k + 1] = x
  OBVIOUS
<1>2. \A m \in 0 .. k : Blocks(m)' = Blocks(m)
  BY <1>1 DEF Blocks
<1>3. Blocks(k + 1)' = IF x.kind = "block" THEN Blocks(k) \cup {k + 1} ELSE Blocks(k)
  BY <1>1 DEF Blocks
<1>4. IsFiniteSet(Blocks(k)) /\ Cardinality(Blocks(k)) \in Nat /\ k + 1 \notin Blocks(k)
  BY <1>1, CountedBlocks DEF Blocks
<1>5. Cardinality(Blocks(k) \cup {k + 1}) = Cardinality(Blocks(k)) + 1
  BY <1>4, FS_AddElement
<1> QED
  BY <1>1, <1>2, <1>3, <1>4, <1>5

(* The passes count to scopes that exist, also those of one node more.      *)
LEMMA CountedInside ==
    ASSUME ScopesOK, PlaceOK, NEW i \in 1 .. Len(nodes) + 1
    PROVE  Counted(i) \in Ids
<1> PICK n, c, b : n = Len(nodes) /\ c = Len(chains) /\ b = Cardinality(Blocks(n))
  OBVIOUS
<1>1. n \in Nat /\ c \in Nat /\ c >= 2 + b
  BY DEF PlaceOK, ScopesOK
<1>2. i - 1 \in Nat /\ i - 1 <= n
  BY <1>1
<1>3. Cardinality(Blocks(i - 1)) \in Nat /\ b \in Nat /\ Cardinality(Blocks(i - 1)) <= b
  BY <1>1, <1>2, MoreBlocks
<1> QED
  BY <1>1, <1>3 DEF Counted, Ids

(* A step of the parser that adds a node.                                   *)
LEMMA SeenStays ==
    ASSUME BindInv, fresh, NEW x \in Node, nodes' = Append(nodes, x),
           \A s \in Ids : chains'[s + 1] = chains[s + 1],
           \A y, s, r : s \in Ids /\ r # 0 /\ Means(y, s, r) => Means(y, s, r)'
    PROVE  \A i \in 1 .. Len(nodes) : nodes'[i].kind = "name" => BoundOK(i)'
<1> SUFFICES ASSUME NEW i \in 1 .. Len(nodes), nodes'[i].kind = "name" PROVE BoundOK(i)'
  OBVIOUS
<1> PICK k : k = Len(nodes)
  OBVIOUS
<1>1. nodes \in Seq(Node) /\ k \in Nat /\ ScopesOK /\ i \in 1 .. k /\ i - 1 \in 0 .. k
  BY DEF BindInv, PlaceOK
<1>2. nodes'[i] = nodes[i] /\ Blocks(i - 1)' = Blocks(i - 1)
  BY <1>1, NodeAdded
<1>3. BoundOK(i)
  BY <1>2 DEF BindInv, SeenOK
<1>4. Counted(i) \in Ids
  BY <1>1, CountedInside DEF BindInv
<1> QED
  BY <1>1, <1>2, <1>3, <1>4, BoundStays

-----------------------------------------------------------------------------
(* The steps.                                                               *)
LEMMA ScopesStay ==
    ASSUME ScopesOK, chains' = chains
    PROVE  ScopesOK' /\ Ids' = Ids
<1>1. Ids' = Ids
  BY DEF Ids
<1>2. ASSUME NEW s \in Ids
      PROVE  /\ s \in Chain(s)' /\ 0 \in Chain(s)'
             /\ Chain(s)' \subseteq 0 .. s
             /\ \A t \in Chain(s)' : Chain(t)' \subseteq Chain(s)'
             /\ \A t, u \in Chain(s)' : t <= u => t \in Chain(u)'
  BY DEF ScopesOK, Chain
<1>3. \A s \in Ids \ {0} : \E p \in 0 .. s - 1 : Chain(s)' = Chain(p)' \cup {s}
  BY DEF ScopesOK, Chain
<1>4. chains' \in Seq(SUBSET Nat) /\ Len(chains') \in 2 .. MaxScopes /\ Chain(0)' = {0}
  BY DEF ScopesOK, Chain
<1> QED
  BY <1>1, <1>2, <1>3, <1>4 DEF ScopesOK

(* Steps that leave the stream and the table alone.                         *)
LEMMA PassStep ==
    ASSUME BindInv, WalkInv', UNCHANGED <<table, nodes, open, closed, fresh>>,
           \/ phase' = phase /\ scope' = scope
           \/ phase' \in {"host", "exited"} /\ scope' = scope
           \/ phase' \in {"resolve", "codegen"},
           Len(kept') <= Len(found'), Len(found') <= Len(nodes)
    PROVE  BindInv'
<1>1. ScopesOK' /\ BindsOK' /\ Ids' = Ids
  <2>1. chains' = chains /\ binds' = binds
    BY DEF table
  <2> QED
    BY <2>1, ScopesStay DEF BindInv, BindsOK
<1>2. \A n : Blocks(n)' = Blocks(n)
  BY DEF Blocks
<1>3. /\ nodes' = nodes /\ chains' = chains /\ Inside' = Inside
      /\ Len(nodes) \in Nat /\ Len(chains) \in Nat
      /\ Len(chains) >= 2 + Cardinality(Blocks(Len(nodes)))
  BY DEF table, BindInv, PlaceOK, ScopesOK, Inside
<1>4. scope' \in Ids' \ {0}
  <2>1. CASE phase' \in {"resolve", "codegen"}
    BY <1>2, <1>3, <2>1, CountInsideNext
  <2>2. CASE scope' = scope
    BY <1>1, <2>2 DEF BindInv, PlaceOK
  <2> QED
    BY <2>1, <2>2
<1>5. PlaceOK'
  <2>1. /\ phase' \in {"host", "parse", "resolve", "codegen", "exited"}
        /\ nodes \in Seq(Node) /\ closed \in SUBSET Nat
        /\ open \in Seq(Nat) /\ \A j \in 1 .. Len(open) : open[j] <= Len(nodes)
    BY DEF BindInv, PlaceOK
  <2>2. phase' = "parse" => Cardinality(Chain(scope)') >= 2 + Cardinality(Inside')
    <3> SUFFICES ASSUME phase' = "parse"
                 PROVE  Cardinality(Chain(scope)') >= 2 + Cardinality(Inside')
      OBVIOUS
    <3>1. phase = "parse" /\ scope' = scope
      OBVIOUS
    <3>2. Chain(scope)' = Chain(scope)
      BY <1>3, <3>1 DEF Chain
    <3> QED
      BY <1>3, <3>1, <3>2 DEF BindInv, PlaceOK
  <2>3. Len(chains') >= 2 + Cardinality(Blocks(Len(nodes))')
    BY <1>2, <1>3
  <2> QED
    BY <1>3, <1>4, <2>1, <2>2, <2>3 DEF PlaceOK
<1>6. \A i : BoundOK(i)' <=> BoundOK(i)
  <2>1. binds' = binds /\ \A i : Counted(i)' = Counted(i)
    BY <1>2 DEF Counted, table
  <2> QED
    BY <1>3, <2>1 DEF BoundOK, Means, Sees, Prefers, Chain
<1>7. SeenOK'
  BY <1>2, <1>3, <1>6 DEF BindInv, SeenOK, Chain
<1> QED
  BY <1>1, <1>5, <1>7 DEF BindInv

(* The parser begins in a scope that is not the root.                       *)
LEMMA BeginStep ==
    ASSUME BindInv, BeginParse
    PROVE  BindInv'
<1>1. /\ UNCHANGED <<chains, binds, scope>> /\ phase' = "parse"
      /\ nodes' = <<>> /\ open' = <<>> /\ closed' = {}
      /\ found' = <<>> /\ kept' = <<>>
      /\ fresh' = (Len(chains) = 2 /\ scope = 1)
  BY DEF BeginParse, table
<1>2. ScopesOK' /\ BindsOK' /\ Ids' = Ids
  BY <1>1, ScopesStay DEF BindInv, BindsOK
<1>3. Blocks(0)' = {} /\ Cardinality(Blocks(0)') = 0 /\ Inside' = {} /\ Cardinality(Inside') = 0
  BY <1>1, FS_EmptySet DEF Blocks, Inside
<1>4. Len(<<>>) = 0 /\ <<>> \in Seq(Node) /\ <<>> \in Seq(Nat)
  OBVIOUS
<1>5. Cardinality(Chain(scope)) >= 2
  <2>1. scope \in Ids /\ scope # 0 /\ scope \in Nat /\ scope \in Chain(scope) /\ 0 \in Chain(scope)
        /\ Chain(scope) \subseteq 0 .. scope
    BY DEF BindInv, PlaceOK, ScopesOK, Ids
  <2>2. IsFiniteSet(Chain(scope))
    <3>1. IsFiniteSet(0 .. scope)
      BY <2>1, FS_Interval
    <3> QED
      BY <2>1, <3>1, FS_Subset
  <2>3. {0, scope} \subseteq Chain(scope) /\ IsFiniteSet({0}) /\ Cardinality({0}) = 1 /\ scope \notin {0}
    BY <2>1, FS_Singleton
  <2>4. {0} \cup {scope} = {0, scope}
    OBVIOUS
  <2>5. Cardinality({0, scope}) = 2
    <3>1. Cardinality({0} \cup {scope}) = Cardinality({0}) + 1
      BY <2>3, FS_AddElement
    <3> QED
      BY <2>3, <2>4, <3>1
  <2> QED
    BY <2>2, <2>3, <2>5, FS_Subset
<1>6. PlaceOK'
  BY <1>1, <1>2, <1>3, <1>4, <1>5 DEF BindInv, PlaceOK, Chain, ScopesOK
<1>7. SeenOK'
  <2> SUFFICES ASSUME Len(chains) = 2, scope = 1 PROVE SeenOK'
    BY <1>1 DEF SeenOK
  <2>1. 1 \in Ids /\ 1 \in Chain(1)
    BY DEF BindInv, ScopesOK, Ids
  <2>2. Len(chains') = 2 /\ scope' = 1 /\ Len(nodes') = 0 /\ Chain(1)' = Chain(1)
    BY <1>1, <1>4 DEF Chain
  <2>3. Len(chains') - 1 = 1 /\ 2 + 0 = 2 /\ \A i \in 1 .. 0 : FALSE
    BY <2>2
  <2> QED
    BY <1>3, <2>1, <2>2, <2>3 DEF SeenOK
<1> QED
  BY <1>2, <1>6, <1>7 DEF BindInv

(* A name is passed, which means something where the parser is.             *)
LEMMA NameStep ==
    ASSUME BindInv, Len(found) = 0, Len(kept) = 0,
           phase = "parse", UNCHANGED <<chains, scope, phase, open, closed, fresh, found, kept>>,
           NEW x \in Node, x.kind = "name", x.decl # 0, x.closed = closed,
           nodes' = Append(nodes, x), BindsOK', Means(x.name, scope, x.decl)',
           \A y, s, r : s \in Ids /\ r # 0 /\ Means(y, s, r) => Means(y, s, r)'
    PROVE  BindInv'
<1> PICK k : k = Len(nodes)
  OBVIOUS
<1>1. ScopesOK' /\ Ids' = Ids
  BY ScopesStay DEF BindInv
<1>2. nodes \in Seq(Node)
  BY DEF BindInv, PlaceOK
<1>3. /\ k \in Nat /\ nodes' \in Seq(Node) /\ Len(nodes') = k + 1
      /\ nodes'[k + 1] = x /\ Blocks(k)' = Blocks(k)
      /\ Cardinality(Blocks(k + 1)') = Cardinality(Blocks(k))
  <2>1. /\ k \in Nat /\ nodes' \in Seq(Node) /\ Len(nodes') = k + 1
        /\ nodes'[k + 1] = x
        /\ \A m \in 0 .. k : Blocks(m)' = Blocks(m)
        /\ Cardinality(Blocks(k)) \in Nat
        /\ Cardinality(Blocks(k + 1)') = Cardinality(Blocks(k)) + 0
    BY <1>2, NodeAdded
  <2> QED
    BY <2>1
<1>4. PlaceOK'
  <2>1. Len(kept') <= Len(found') /\ Len(found') <= Len(nodes')
    BY <1>3
  <2>2. Inside' = Inside
    BY DEF Inside
  <2>3. \A j \in 1 .. Len(open) : open[j] \in Nat /\ open[j] <= k
    BY DEF BindInv, PlaceOK
  <2>4. \A j \in 1 .. Len(open) : open[j] <= k + 1
    BY <1>3, <2>3
  <2> QED
    BY <1>1, <1>3, <2>1, <2>2, <2>4 DEF BindInv, PlaceOK, Chain
<1>5. SeenOK'
  <2> SUFFICES ASSUME fresh PROVE SeenOK'
    BY DEF SeenOK
  <2>1. \A i \in 1 .. k : nodes'[i].kind = "name" => BoundOK(i)'
    BY SeenStays
  <2>2. BoundOK(k + 1)'
    <3>1. Counted(k + 1)' = Len(chains) - 1
      <4>1. (k + 1) - 1 = k /\ Cardinality(Blocks(k)) \in Nat
        BY <1>3, CountedBlocks
      <4>2. Len(chains) = 2 + Cardinality(Blocks(k))
        BY DEF BindInv, SeenOK
      <4> QED
        BY <1>3, <4>1, <4>2 DEF Counted
    <3>2. /\ scope \in Chain(Len(chains) - 1)
          /\ \A t \in Chain(Len(chains) - 1) : t \in Chain(scope) \/ t \in closed
      BY DEF BindInv, SeenOK
    <3> PICK nm, d : nm = x.name /\ d = x.decl
      OBVIOUS
    <3>3. Means(nm, scope, d)'
      OBVIOUS
    <3>4. nodes'[k + 1].name = nm /\ nodes'[k + 1].decl = d /\ nodes'[k + 1].closed = closed
      BY <1>3
    <3> QED
      BY <3>1, <3>2, <3>3, <3>4 DEF BoundOK, Means, Sees, Prefers, Chain
  <2>3. \A i \in 1 .. k + 1 : i \in 1 .. k \/ i = k + 1
    BY <1>3
  <2> QED
    BY <1>3, <2>1, <2>2, <2>3 DEF BindInv, SeenOK, Chain
<1> QED
  BY <1>1, <1>4, <1>5 DEF BindInv

(* the node of a name                                                       *)
Named(nm, d) == [Plain EXCEPT !.kind = "name", !.name = nm, !.decl = d, !.closed = closed]
LEMMA NamedNode ==
    ASSUME NEW nm \in Names, NEW d \in Nat, closed \in SUBSET Nat
    PROVE  /\ Named(nm, d) \in Node /\ Named(nm, d).kind = "name"
           /\ Named(nm, d).name = nm /\ Named(nm, d).decl = d /\ Named(nm, d).closed = closed
<1>1. Plain \in Node
  BY DEF Plain, Node
<1> QED
  BY <1>1 DEF Named, Node

LEMMA NewName ==
    ASSUME BindInv, Len(found) = 0, Len(kept) = 0, NEW nm \in Names, Identifier(nm)
    PROVE  BindInv'
<1> PICK r, k : r = Lookup(nm, scope) /\ k = Len(binds)
  OBVIOUS
<1>1. /\ phase = "parse"
      /\ UNCHANGED <<chains, scope, phase, open, closed, fresh, found, kept>>
  BY DEF Identifier, walks
<1>2. ScopesOK /\ BindsOK /\ scope \in Ids /\ closed \in SUBSET Nat
      /\ binds \in Seq([name : Names \cup {This}, scope : Nat]) /\ k \in Nat
  BY DEF BindInv, BindsOK, PlaceOK
<1>3. r \in 0 .. k /\ Means(nm, scope, r)
  BY <1>2, LookupMeans
<1>4. CASE r # 0
  <2>1. nodes' = Append(nodes, Named(nm, r)) /\ binds' = binds
    BY <1>4 DEF Identifier, Emit, Named
  <2>2. BindsOK'
    BY <1>1, <1>2, <2>1, ScopesStay DEF BindsOK
  <2>3. ASSUME NEW y, NEW s, NEW q, Means(y, s, q) PROVE Means(y, s, q)'
    BY <1>1, <2>1, <2>3 DEF Means, Sees, Prefers, Chain
  <2>4. Means(nm, scope, r)'
    BY <1>1, <1>3, <2>1 DEF Means, Sees, Prefers, Chain
  <2> PICK x : x = Named(nm, r)
    OBVIOUS
  <2>5. x \in Node /\ x.kind = "name" /\ x.decl = r /\ x.name = nm /\ x.closed = closed
    BY <1>2, <1>3, NamedNode
  <2>6. nodes' = Append(nodes, x)
    BY <2>1
  <2>7. Means(x.name, scope, x.decl)'
    BY <2>4, <2>5 DEF Means, Sees, Prefers
  <2> QED
    BY <1>1, <1>4, <2>2, <2>3, <2>5, <2>6, <2>7, NameStep
<1>5. CASE r = 0
  <2>1. /\ k < MaxVars
        /\ binds' = Append(binds, [name |-> nm, scope |-> scope])
        /\ nodes' = Append(nodes, Named(nm, k + 1))
    BY <1>5 DEF Identifier, Emit, Named
  <2>2. BindsOK'
    <3>1. scope \in Nat /\ MaxVars \in Nat /\ Ids' = Ids
      BY <1>1, <1>2, ScopesStay DEF Ids, ScopesOK, PassAssumption
    <3>2. [name |-> nm, scope |-> scope] \in [name : Names \cup {This}, scope : Nat]
      BY <3>1
    <3>3. /\ binds' \in Seq([name : Names \cup {This}, scope : Nat]) /\ Len(binds') = k + 1
          /\ \A i \in 1 .. k : binds'[i] = binds[i]
          /\ binds'[k + 1].scope = scope
      BY <1>2, <2>1, <3>2
    <3>4. \A i \in 1 .. k + 1 : binds'[i].scope \in Ids
      BY <1>2, <3>3 DEF BindsOK
    <3> QED
      BY <1>2, <2>1, <3>1, <3>3, <3>4 DEF BindsOK
  <2>3. Sees(nm, scope) = {}
    BY <1>3, <1>5 DEF Means, Sees
  <2> PICK q : q = scope
    OBVIOUS
  <2>4. /\ Means(nm, q, k + 1)'
        /\ \A y, s, d : s \in Ids /\ d # 0 /\ Means(y, s, d) => Means(y, s, d)'
    BY <1>1, <1>2, <2>1, <2>3, DeclareKeepsMeaning
  <2> PICK x : x = Named(nm, k + 1)
    OBVIOUS
  <2>5. x \in Node /\ x.kind = "name" /\ x.decl = k + 1 /\ x.name = nm /\ x.closed = closed
    BY <1>2, NamedNode
  <2>6. nodes' = Append(nodes, x)
    BY <2>1
  <2>7. Means(x.name, scope, x.decl)'
    BY <1>1, <2>4, <2>5 DEF Means, Sees, Prefers, Chain
  <2>8. x.decl # 0
    BY <1>2, <2>5
  <2> QED
    BY <1>1, <2>2, <2>4, <2>5, <2>6, <2>7, <2>8, NameStep
<1> QED
  BY <1>4, <1>5

(* '{' makes the scope that the passes will count to next.                  *)
LEMMA OpenStep ==
    ASSUME BindInv, Len(found) = 0, Len(kept) = 0, BlockOpen
    PROVE  BindInv'
<1> PICK k, c, d, p : k = Len(nodes) /\ c = Len(chains) /\ d = Len(open) /\ p = scope
  OBVIOUS
<1>1. /\ phase = "parse" /\ c < MaxScopes
      /\ UNCHANGED <<binds, phase, closed, fresh, found, kept>>
      /\ nodes' = Append(nodes, Plain) /\ open' = Append(open, 0)
      /\ chains' = Append(chains, Chain(p) \cup {c}) /\ scope' = c
  BY DEF BlockOpen, Emit, walks, Chain, Dict!Chain
<1>2. /\ ScopesOK /\ p \in Ids \ {0} /\ nodes \in Seq(Node) /\ open \in Seq(Nat)
      /\ closed \in SUBSET Nat
  BY DEF BindInv, PlaceOK
<1>3. /\ ScopesOK' /\ Len(chains') = c + 1 /\ Ids = 0 .. c - 1 /\ Ids' = 0 .. c
      /\ \A s \in Ids : chains'[s + 1] = chains[s + 1]
      /\ Chain(c)' = Chain(p) \cup {c} /\ c \in Nat /\ c >= 2
  <2>1. /\ ScopesOK' /\ Len(chains') = c + 1 /\ Ids = 0 .. c - 1 /\ Ids' = 0 .. c
        /\ \A s \in Ids : chains'[s + 1] = chains[s + 1]
        /\ chains'[c + 1] = Chain(p) \cup {c}
    BY <1>1, <1>2, EnterScope
  <2>2. c \in Nat /\ c >= 2
    BY <1>2 DEF ScopesOK
  <2>3. Chain(c)' = Chain(p) \cup {c}
    BY <2>1 DEF Chain
  <2> QED
    BY <2>1, <2>2, <2>3
<1>4. Plain \in Node /\ Plain.kind = "block"
  BY DEF Plain, Node
<1>5. /\ k \in Nat /\ nodes' \in Seq(Node) /\ Len(nodes') = k + 1
      /\ nodes'[k + 1] = Plain
      /\ Cardinality(Blocks(k)) \in Nat
      /\ Cardinality(Blocks(k + 1)') = Cardinality(Blocks(k)) + 1
  BY <1>1, <1>2, <1>4, NodeAdded
<1>6. BindsOK'
  BY <1>1, <1>3 DEF BindInv, BindsOK
<1>7. Cardinality(Chain(c)') = Cardinality(Chain(p)) + 1 /\ Cardinality(Chain(p)) \in Nat
  <2>1. Chain(p) \in SUBSET (0 .. p) /\ p \in Nat /\ p < c
    BY <1>2, <1>3 DEF ScopesOK
  <2>2. IsFiniteSet(0 .. p)
    BY <2>1, FS_Interval
  <2>3. c \notin Chain(p)
    BY <1>3, <2>1
  <2>4. IsFiniteSet(Chain(p))
    BY <2>1, <2>2, FS_Subset
  <2>5. Cardinality(Chain(p) \cup {c}) = Cardinality(Chain(p)) + 1
    BY <2>3, <2>4, FS_AddElement
  <2>6. Cardinality(Chain(p)) \in Nat
    BY <2>4, FS_CardinalityType
  <2> QED
    BY <1>3, <2>5, <2>6
<1>8. Cardinality(Inside') = Cardinality(Inside) + 1 /\ Cardinality(Inside) \in Nat
  <2>1. d \in Nat /\ IsFiniteSet(1 .. d)
    BY <1>2, FS_Interval
  <2>2. Inside \in SUBSET (1 .. d)
    BY DEF Inside
  <2>3. d + 1 \notin Inside
    BY <2>1, <2>2
  <2>4. Inside' = Inside \cup {d + 1}
    <3>1. /\ Len(open') = d + 1 /\ \A j \in 1 .. d : open'[j] = open[j]
          /\ open'[d + 1] = 0
      BY <1>1, <1>2
    <3>2. \A j : j \in 1 .. Len(open') <=> j \in 1 .. d \/ j = d + 1
      BY <2>1, <3>1
    <3> QED
      BY <2>1, <3>1, <3>2 DEF Inside
  <2>5. IsFiniteSet(Inside)
    BY <2>1, <2>2, FS_Subset
  <2>6. Cardinality(Inside \cup {d + 1}) = Cardinality(Inside) + 1
    BY <2>3, <2>5, FS_AddElement
  <2>7. Cardinality(Inside) \in Nat
    BY <2>5, FS_CardinalityType
  <2> QED
    BY <2>4, <2>6, <2>7
<1>9. PlaceOK'
  <2>1. scope' \in Ids' \ {0}
    BY <1>1, <1>3
  <2>2. /\ open' \in Seq(Nat) /\ Len(open') = d + 1 /\ d \in Nat
        /\ \A j \in 1 .. d : open'[j] = open[j]
        /\ open'[d + 1] = 0
    BY <1>1, <1>2
  <2>3. \A j \in 1 .. d : open[j] \in Nat /\ open[j] <= k
    BY <1>2 DEF BindInv, PlaceOK
  <2>4. \A j \in 1 .. Len(open') : open'[j] <= k + 1
    <3>1. \A j \in 1 .. d : open'[j] <= k + 1
      BY <1>5, <2>2, <2>3
    <3>2. \A j \in 1 .. Len(open') : j \in 1 .. d \/ j = d + 1
      BY <2>2
    <3> QED
      BY <1>5, <2>2, <3>1, <3>2
  <2>5. Len(kept') <= Len(found') /\ Len(found') <= Len(nodes')
    BY <1>1, <1>5
  <2>6. Cardinality(Chain(p)) >= 2 + Cardinality(Inside) /\ c >= 2 + Cardinality(Blocks(k))
    BY <1>1 DEF BindInv, PlaceOK
  <2>7. /\ Cardinality(Chain(scope)') >= 2 + Cardinality(Inside')
        /\ Len(chains') >= 2 + Cardinality(Blocks(Len(nodes))')
    <3>1. Chain(scope)' = Chain(c)'
      BY <1>1 DEF Chain
    <3> QED
      BY <1>3, <1>5, <1>7, <1>8, <2>6, <3>1
  <2> QED
    BY <1>1, <1>2, <1>5, <2>1, <2>2, <2>4, <2>5, <2>7 DEF BindInv, PlaceOK
<1>10. SeenOK'
  <2> SUFFICES ASSUME fresh PROVE SeenOK'
    BY <1>1 DEF SeenOK
  <2>1. \A y, s, r : s \in Ids /\ r # 0 /\ Means(y, s, r) => Means(y, s, r)'
    BY <1>1, <1>3, EnterKeepsMeaning
  <2>2. \A i \in 1 .. k : nodes'[i].kind = "name" => BoundOK(i)'
    BY <1>1, <1>3, <1>4, <2>1, SeenStays
  <2>3. \A i \in 1 .. k + 1 : i \in 1 .. k \/ i = k + 1
    BY <1>5
  <2>4. Len(chains') = 2 + Cardinality(Blocks(Len(nodes))')
    <3>1. c = 2 + Cardinality(Blocks(k))
      BY DEF BindInv, SeenOK
    <3> QED
      BY <1>3, <1>5, <3>1
  <2>5. /\ Len(chains') - 1 = c /\ scope' = c /\ c \in Chain(c)'
        /\ Chain(scope)' = Chain(c)' /\ Chain(Len(chains) - 1)' = Chain(c)'
    BY <1>1, <1>3 DEF Chain
  <2> QED
    BY <1>4, <1>5, <2>2, <2>3, <2>4, <2>5 DEF SeenOK
<1> QED
  BY <1>3, <1>6, <1>9, <1>10 DEF BindInv

(* '}' goes back to the scope around the one it closes.                     *)
LEMMA CloseStep ==
    ASSUME BindInv, BlockClose, UNCHANGED <<found, kept>>
    PROVE  BindInv'
<1> PICK d, p, q : d = Len(open) /\ p = scope /\ q = Parent(scope)
  OBVIOUS
<1>1. /\ phase = "parse" /\ UNCHANGED <<chains, binds, phase, nodes, fresh>>
      /\ open # <<>> /\ open[d] = 0 /\ open' = SubSeq(open, 1, d - 1)
      /\ closed' = closed \cup {p} /\ scope' = q
  BY DEF BlockClose, table
<1>2. /\ ScopesOK /\ p \in Ids \ {0} /\ p \in Nat /\ open \in Seq(Nat)
      /\ closed \in SUBSET Nat
  BY DEF BindInv, PlaceOK, Ids
<1>3. ScopesOK' /\ Ids' = Ids /\ BindsOK'
  BY <1>1, <1>2, ScopesStay DEF BindInv, BindsOK
<1>4. q \in 0 .. p - 1 /\ q \in Ids /\ p \notin Chain(q) /\ Chain(p) = Chain(q) \cup {p}
  BY <1>2, ParentIsAround
<1>5. Cardinality(Chain(p)) = Cardinality(Chain(q)) + 1 /\ Cardinality(Chain(q)) \in Nat
  <2>1. Chain(q) \in SUBSET (0 .. q) /\ q \in Nat
    BY <1>2, <1>4 DEF ScopesOK
  <2>2. IsFiniteSet(0 .. q)
    BY <2>1, FS_Interval
  <2>3. IsFiniteSet(Chain(q))
    BY <2>1, <2>2, FS_Subset
  <2>4. Cardinality(Chain(q) \cup {p}) = Cardinality(Chain(q)) + 1
    BY <1>4, <2>3, FS_AddElement
  <2>5. Cardinality(Chain(q)) \in Nat
    BY <2>3, FS_CardinalityType
  <2> QED
    BY <1>4, <2>4, <2>5
<1>6. Cardinality(Inside) = Cardinality(Inside') + 1 /\ Cardinality(Inside') \in Nat
  <2>1. d \in Nat /\ d >= 1
    BY <1>1, <1>2
  <2>2. d - 1 \in Nat /\ IsFiniteSet(1 .. d - 1)
    BY <2>1, FS_Interval
  <2>3. Len(open') = d - 1 /\ \A j \in 1 .. d - 1 : open'[j] = open[j]
    BY <1>1, <1>2, <2>1
  <2>4. Inside' = {j \in 1 .. d - 1 : open[j] = 0}
    BY <2>3 DEF Inside
  <2>5. Inside = Inside' \cup {d} /\ d \notin Inside'
    BY <1>1, <2>1, <2>4 DEF Inside
  <2>6. Inside' \in SUBSET (1 .. d - 1)
    BY <2>4
  <2>7. IsFiniteSet(Inside')
    BY <2>2, <2>6, FS_Subset
  <2>8. Cardinality(Inside' \cup {d}) = Cardinality(Inside') + 1
    BY <2>5, <2>7, FS_AddElement
  <2>9. Cardinality(Inside') \in Nat
    BY <2>7, FS_CardinalityType
  <2> QED
    BY <2>5, <2>8, <2>9
<1>7. Cardinality(Chain(q)) >= 2 + Cardinality(Inside')
  <2>1. Cardinality(Chain(p)) >= 2 + Cardinality(Inside)
    BY <1>1 DEF BindInv, PlaceOK
  <2> QED
    BY <1>5, <1>6, <2>1
<1>8. q # 0
  <2>1. Cardinality({0}) = 1
    BY FS_Singleton
  <2>2. Chain(0) = {0}
    BY <1>2 DEF ScopesOK
  <2> QED
    BY <1>6, <1>7, <2>1, <2>2
<1>9. PlaceOK'
  <2>1. /\ open' \in Seq(Nat) /\ Len(open') = d - 1 /\ d \in Nat
        /\ \A j \in 1 .. d - 1 : open'[j] = open[j]
    BY <1>1, <1>2
  <2>2. \A j \in 1 .. d - 1 : open[j] <= Len(nodes)
    BY <2>1 DEF BindInv, PlaceOK
  <2>3. closed' \in SUBSET Nat
    BY <1>1, <1>2
  <2>4. Chain(scope)' = Chain(q) /\ Blocks(Len(nodes))' = Blocks(Len(nodes))
    BY <1>1 DEF Chain, Blocks
  <2>5. /\ phase \in {"host", "parse", "resolve", "codegen", "exited"}
        /\ nodes \in Seq(Node) /\ Len(kept) <= Len(found) /\ Len(found) <= Len(nodes)
        /\ Len(chains) >= 2 + Cardinality(Blocks(Len(nodes)))
    BY DEF BindInv, PlaceOK
  <2>6. scope' \in Ids' \ {0}
    BY <1>1, <1>3, <1>4, <1>8
  <2>7. Cardinality(Chain(scope)') >= 2 + Cardinality(Inside')
    BY <1>7, <2>4
  <2>8. \A j \in 1 .. Len(open') : open'[j] <= Len(nodes)
    BY <2>1, <2>2
  <2> QED
    BY <1>1, <2>1, <2>3, <2>4, <2>5, <2>6, <2>7, <2>8 DEF PlaceOK
<1>10. SeenOK'
  <2> SUFFICES ASSUME fresh PROVE SeenOK'
    BY <1>1 DEF SeenOK
  <2> PICK c : c = Len(chains) - 1
    OBVIOUS
  <2>1. /\ Len(chains) = 2 + Cardinality(Blocks(Len(nodes)))
        /\ p \in Chain(c) /\ \A t \in Chain(c) : t \in Chain(p) \/ t \in closed
        /\ \A i \in 1 .. Len(nodes) : nodes[i].kind = "name" => BoundOK(i)
    BY <1>1 DEF BindInv, SeenOK
  <2>2. c \in Ids
    BY <1>2 DEF ScopesOK, Ids
  <2>3. q \in Chain(c)
    BY <1>2, <1>4, <2>1, <2>2 DEF ScopesOK
  <2>4. \A t \in Chain(c) : t \in Chain(q) \/ t \in closed'
    BY <1>1, <1>4, <2>1
  <2>5. \A i : Blocks(i)' = Blocks(i)
    BY <1>1 DEF Blocks
  <2>6. \A i : BoundOK(i)' <=> BoundOK(i)
    BY <1>1, <2>5 DEF BoundOK, Means, Sees, Prefers, Chain, Counted
  <2>7. /\ Chain(Len(chains) - 1)' = Chain(c) /\ Chain(scope)' = Chain(q)
        /\ Len(chains)' = Len(chains) /\ Len(nodes)' = Len(nodes)
        /\ Cardinality(Blocks(Len(nodes)))' = Cardinality(Blocks(Len(nodes)))
    BY <1>1, <2>5 DEF Chain
  <2> QED
    BY <1>1, <2>1, <2>3, <2>4, <2>6, <2>7 DEF SeenOK
<1> QED
  BY <1>3, <1>9, <1>10 DEF BindInv

(* A call of a meta symbol begins.                                          *)
LEMMA CallStep ==
    ASSUME BindInv, Len(found) = 0, Len(kept) = 0, CallOpen
    PROVE  BindInv'
<1> PICK k, d, x : k = Len(nodes) /\ d = Len(open) /\ x = [Plain EXCEPT !.kind = "call"]
  OBVIOUS
<1>1. /\ phase = "parse"
      /\ UNCHANGED <<chains, binds, scope, phase, closed, fresh, found, kept>>
      /\ nodes' = Append(nodes, x) /\ open' = Append(open, k + 1)
  BY DEF CallOpen, Emit, table, walks
<1>2. /\ ScopesOK /\ nodes \in Seq(Node) /\ open \in Seq(Nat)
  BY DEF BindInv, PlaceOK
<1>3. ScopesOK' /\ Ids' = Ids /\ BindsOK'
  BY <1>1, <1>2, ScopesStay DEF BindInv, BindsOK
<1>4. x \in Node /\ x.kind = "call"
  <2>1. Plain \in Node
    BY DEF Plain, Node
  <2> QED
    BY <2>1 DEF Node
<1>5. /\ k \in Nat /\ nodes' \in Seq(Node) /\ Len(nodes') = k + 1
      /\ nodes'[k + 1] = x
      /\ Cardinality(Blocks(k + 1)') = Cardinality(Blocks(k))
  <2>1. /\ k \in Nat /\ nodes' \in Seq(Node) /\ Len(nodes') = k + 1
        /\ nodes'[k + 1] = x /\ Cardinality(Blocks(k)) \in Nat
        /\ Cardinality(Blocks(k + 1)') = Cardinality(Blocks(k)) + 0
    BY <1>1, <1>2, <1>4, NodeAdded
  <2> QED
    BY <2>1
<1>6. PlaceOK'
  <2>1. /\ open' \in Seq(Nat) /\ Len(open') = d + 1 /\ d \in Nat
        /\ \A j \in 1 .. d : open'[j] = open[j]
        /\ open'[d + 1] = k + 1
    BY <1>1, <1>2, <1>5
  <2>2. Inside' = Inside
    <3>1. \A j : j \in 1 .. Len(open') <=> j \in 1 .. d \/ j = d + 1
      BY <2>1
    <3> QED
      BY <1>5, <2>1, <3>1 DEF Inside
  <2>3. \A j \in 1 .. d : open[j] \in Nat /\ open[j] <= k
    BY <1>2 DEF BindInv, PlaceOK
  <2>4. \A j \in 1 .. Len(open') : open'[j] <= k + 1
    <3>1. \A j \in 1 .. d : open'[j] <= k + 1
      BY <1>5, <2>1, <2>3
    <3>2. \A j \in 1 .. Len(open') : j \in 1 .. d \/ j = d + 1
      BY <2>1
    <3> QED
      BY <1>5, <2>1, <3>1, <3>2
  <2>5. Len(kept') <= Len(found') /\ Len(found') <= Len(nodes')
    BY <1>1, <1>5
  <2> QED
    BY <1>1, <1>3, <1>5, <2>1, <2>2, <2>4, <2>5 DEF BindInv, PlaceOK, Chain
<1>7. SeenOK'
  <2> SUFFICES ASSUME fresh PROVE SeenOK'
    BY <1>1 DEF SeenOK
  <2>1. ASSUME NEW y, NEW s, NEW r, Means(y, s, r) PROVE Means(y, s, r)'
    BY <1>1, <2>1 DEF Means, Sees, Prefers, Chain
  <2>2. \A i \in 1 .. k : nodes'[i].kind = "name" => BoundOK(i)'
    BY <1>1, <1>4, <2>1, SeenStays
  <2>3. \A i \in 1 .. k + 1 : i \in 1 .. k \/ i = k + 1
    BY <1>5
  <2> QED
    BY <1>1, <1>4, <1>5, <2>2, <2>3 DEF BindInv, SeenOK, Chain
<1> QED
  BY <1>3, <1>6, <1>7 DEF BindInv

(* The arguments of the call end, and its node learns where.                *)
LEMMA ReturnStep ==
    ASSUME BindInv, Len(found) = 0, Len(kept) = 0, CallClose
    PROVE  BindInv'
<1> PICK k, d, e : k = Len(nodes) /\ d = Len(open) /\ e = open[Len(open)]
  OBVIOUS
<1>1. /\ phase = "parse"
      /\ UNCHANGED <<chains, binds, scope, phase, closed, fresh, found, kept>>
      /\ open # <<>> /\ e # 0 /\ open' = SubSeq(open, 1, d - 1)
      /\ nodes' = [nodes EXCEPT ![e].end = k]
  BY DEF CallClose, table, walks
<1>2. /\ ScopesOK /\ nodes \in Seq(Node) /\ open \in Seq(Nat) /\ k \in Nat
      /\ d \in Nat /\ d >= 1
  BY <1>1 DEF BindInv, PlaceOK
<1>3. ScopesOK' /\ Ids' = Ids /\ BindsOK'
  BY <1>1, <1>2, ScopesStay DEF BindInv, BindsOK
<1>4. /\ nodes' \in Seq(Node) /\ Len(nodes') = k
      /\ \A i \in 1 .. k : /\ nodes'[i].kind = nodes[i].kind
                           /\ nodes'[i].name = nodes[i].name
                           /\ nodes'[i].decl = nodes[i].decl
                           /\ nodes'[i].closed = nodes[i].closed
  <2>1. e \in 1 .. k
    BY <1>1, <1>2 DEF BindInv, PlaceOK
  <2>2. nodes[e] \in Node
    BY <1>2, <2>1
  <2>3. [nodes[e] EXCEPT !.end = k] \in Node
    BY <1>2, <2>2 DEF Node
  <2>4. nodes' = [nodes EXCEPT ![e] = [nodes[e] EXCEPT !.end = k]]
    BY <1>1
  <2>5. nodes' \in Seq(Node) /\ Len(nodes') = k
    BY <1>2, <2>1, <2>3, <2>4
  <2>6. ASSUME NEW i \in 1 .. k
        PROVE  /\ nodes'[i].kind = nodes[i].kind
               /\ nodes'[i].name = nodes[i].name
               /\ nodes'[i].decl = nodes[i].decl
               /\ nodes'[i].closed = nodes[i].closed
    <3>1. CASE i # e
      BY <1>2, <2>1, <2>4, <3>1
    <3>2. CASE i = e
      <4>1. nodes'[e] = [nodes[e] EXCEPT !.end = k]
        BY <1>2, <2>1, <2>4
      <4> QED
        BY <2>2, <3>2, <4>1 DEF Node
    <3> QED
      BY <3>1, <3>2
  <2> QED
    BY <2>5, <2>6
<1>5. \A i \in 0 .. k : Blocks(i)' = Blocks(i)
  BY <1>2, <1>4 DEF Blocks
<1>6. PlaceOK'
  <2>1. /\ open' \in Seq(Nat) /\ Len(open') = d - 1
        /\ \A j \in 1 .. d - 1 : open'[j] = open[j]
    BY <1>1, <1>2
  <2>2. \A j \in 1 .. d - 1 : open[j] <= k
    BY <1>2 DEF BindInv, PlaceOK
  <2>3. Inside' = Inside
    <3>1. \A j : j \in 1 .. d <=> j \in 1 .. d - 1 \/ j = d
      BY <1>2
    <3> QED
      BY <1>1, <2>1, <3>1 DEF Inside
  <2>4. Blocks(Len(nodes))' = Blocks(Len(nodes))
    BY <1>2, <1>4, <1>5
  <2> QED
    BY <1>1, <1>3, <1>4, <2>1, <2>2, <2>3, <2>4 DEF BindInv, PlaceOK, Chain
<1>7. SeenOK'
  <2> SUFFICES ASSUME fresh PROVE SeenOK'
    BY <1>1 DEF SeenOK
  <2>1. ASSUME NEW i \in 1 .. k, nodes'[i].kind = "name" PROVE BoundOK(i)'
    <3>1. BoundOK(i)
      BY <1>4, <2>1 DEF BindInv, SeenOK
    <3>2. Counted(i) \in Ids
      BY <1>2, CountedInside DEF BindInv
    <3>3. ASSUME NEW y, NEW s, NEW r, Means(y, s, r) PROVE Means(y, s, r)'
      BY <1>1, <3>3 DEF Means, Sees, Prefers, Chain
    <3>4. Blocks(i - 1)' = Blocks(i - 1)
      BY <1>2, <1>5
    <3> QED
      BY <1>1, <1>2, <1>4, <3>1, <3>2, <3>3, <3>4, BoundStays
  <2>2. Blocks(Len(nodes))' = Blocks(Len(nodes))
    BY <1>2, <1>4, <1>5
  <2> QED
    BY <1>1, <1>4, <2>1, <2>2 DEF BindInv, SeenOK, Chain
<1> QED
  BY <1>3, <1>6, <1>7 DEF BindInv

LEMMA BindsKept == BindInv /\ WalkInv /\ WalkInv' /\ [Next]_passvars => BindInv'
<1> SUFFICES ASSUME BindInv, WalkInv, WalkInv', [Next]_passvars PROVE BindInv'
  OBVIOUS
<1> USE DEF parser, walks
<1>0. /\ Len(found) \in Nat /\ kept \in Seq(Nat) /\ Len(kept) \in Nat
      /\ Len(nodes) \in Nat /\ Len(kept) <= Len(found) /\ Len(found) <= Len(nodes)
      /\ phase = "parse" => Len(found) = 0 /\ Len(kept) = 0
  <2>1. Len(found) \in Nat /\ kept \in Seq(Nat)
    BY Longer DEF WalkInv, StreamOK
  <2>2. phase = "parse" => found = <<>> /\ kept = <<>>
    BY DEF WalkInv, PhaseOK
  <2>3. Len(nodes) \in Nat /\ Len(kept) <= Len(found) /\ Len(found) <= Len(nodes)
    BY DEF BindInv, PlaceOK
  <2> QED
    BY <2>1, <2>2, <2>3
<1>1. CASE BeginParse
  BY <1>1, BeginStep
<1>2. CASE \E nm \in Names : Identifier(nm)
  <2>1. phase = "parse"
    BY <1>2 DEF Identifier
  <2> QED
    BY <1>0, <1>2, <2>1, NewName
<1>3. CASE BlockOpen
  <2>1. phase = "parse"
    BY <1>3 DEF BlockOpen
  <2> QED
    BY <1>0, <1>3, <2>1, OpenStep
<1>4. CASE BlockClose
  <2>1. UNCHANGED <<found, kept>>
    BY <1>4 DEF BlockClose
  <2> QED
    BY <1>4, <2>1, CloseStep
<1>5. CASE CallOpen
  <2>1. phase = "parse"
    BY <1>5 DEF CallOpen
  <2> QED
    BY <1>0, <1>5, <2>1, CallStep
<1>6. CASE CallClose
  <2>1. phase = "parse"
    BY <1>6 DEF CallClose
  <2> QED
    BY <1>0, <1>6, <2>1, ReturnStep
<1>7. CASE BeginResolve \/ BeginCodegen
  <2>1. /\ UNCHANGED <<table, nodes, open, closed, fresh, found, kept>>
        /\ phase' \in {"resolve", "codegen"}
    BY <1>7 DEF BeginResolve, BeginCodegen
  <2> QED
    BY <1>0, <2>1, PassStep
<1>8. CASE ResolveBlock \/ ResolveName \/ ResolveCall
  <2>1. PICK x : /\ found' = Append(found, x)
                 /\ kept' = kept \/ kept' = Append(kept, Len(found) + 1)
                 /\ Len(found) < Len(nodes)
                 /\ UNCHANGED <<table, nodes, open, closed, fresh>>
                 /\ \/ phase' = "resolve"
                    \/ phase' \in {"host", "exited"} /\ scope' = scope
    <3>1. CASE ResolveBlock
      BY <3>1 DEF ResolveBlock, Resolving, Keep
    <3>2. CASE ResolveName
      <4> PICK x : x = Lookup(nodes[Len(found) + 1].name, scope)
        OBVIOUS
      <4> QED
        BY <3>2 DEF ResolveName, Resolving, Keep
    <3>3. CASE ResolveCall
      BY <3>3 DEF ResolveCall, Resolving, Keep
    <3> QED
      BY <1>8, <3>1, <3>2, <3>3
  <2>2. Len(found') = Len(found) + 1
    BY <2>1, Longer DEF WalkInv, StreamOK
  <2>3. Len(kept') = Len(kept) \/ Len(kept') = Len(kept) + 1
    BY <1>0, <2>1
  <2>4. Len(kept') <= Len(found') /\ Len(found') <= Len(nodes)
    BY <1>0, <2>1, <2>2, <2>3
  <2>5. \/ phase' \in {"host", "exited"} /\ scope' = scope
        \/ phase' \in {"resolve", "codegen"}
    BY <2>1
  <2> QED
    BY <2>1, <2>4, <2>5, PassStep
<1>9. CASE ResolveFails \/ Run
  <2>1. /\ UNCHANGED <<table, nodes, open, closed, fresh, found, kept, scope>>
        /\ phase' \in {"host", "exited"}
    BY <1>9 DEF ResolveFails, Run
  <2> QED
    BY <1>0, <2>1, PassStep
<1>10. CASE GenerateBlock \/ GenerateName \/ GenerateCall
  <2>1. /\ UNCHANGED <<table, nodes, open, closed, fresh, found, kept>>
        /\ \/ phase' = "codegen"
           \/ phase' = "exited" /\ scope' = scope
    <3>1. CASE GenerateBlock
      BY <1>10, <3>1 DEF GenerateBlock, Generating
    <3>2. CASE GenerateName
      BY <3>2 DEF GenerateName, Generating
    <3>3. CASE GenerateCall
      BY <3>3 DEF GenerateCall, Generating
    <3> QED
      BY <1>10, <3>1, <3>2, <3>3
  <2>2. \/ phase' \in {"host", "exited"} /\ scope' = scope
        \/ phase' \in {"resolve", "codegen"}
    BY <2>1
  <2> QED
    BY <1>0, <2>1, <2>2, PassStep
<1>11. CASE UNCHANGED passvars
  BY <1>0, <1>11, PassStep DEF passvars
<1> QED
  BY <1>1, <1>2, <1>3, <1>4, <1>5, <1>6, <1>7, <1>8, <1>9, <1>10, <1>11 DEF Next

LEMMA BindsBegin == Init => BindInv
<1> SUFFICES ASSUME Init PROVE BindInv
  OBVIOUS
<1>1. /\ chains = <<{0}, {0, 1}>> /\ binds = <<[name |-> This, scope |-> 1]>>
      /\ scope = 1 /\ phase = "host" /\ nodes = <<>> /\ open = <<>> /\ closed = {}
      /\ found = <<>> /\ kept = <<>>
  BY DEF Init
<1>2. /\ chains \in Seq(SUBSET Nat) /\ Len(chains) = 2
      /\ Chain(0) = {0} /\ Chain(1) = {0, 1}
  BY <1>1 DEF Chain
<1>3. Ids = {0, 1} /\ 2 \in 2 .. MaxScopes
  BY <1>2 DEF Ids, PassAssumption
<1>4. ScopesOK
  <2>1. ASSUME NEW s \in {0, 1}
        PROVE  /\ s \in Chain(s) /\ 0 \in Chain(s)
               /\ Chain(s) \subseteq 0 .. s
               /\ \A t \in Chain(s) : Chain(t) \subseteq Chain(s)
               /\ \A t, u \in Chain(s) : t <= u => t \in Chain(u)
    <3>1. CASE s = 0
      BY <1>2, <3>1
    <3>2. CASE s = 1
      <4>1. 1 \in Chain(1) /\ 0 \in Chain(1) /\ Chain(1) \subseteq 0 .. 1
        BY <1>2
      <4>2. \A t \in Chain(1) : Chain(t) \subseteq Chain(1)
        BY <1>2
      <4>3. \A t, u \in Chain(1) : t <= u => t \in Chain(u)
        BY <1>2
      <4> QED
        BY <3>2, <4>1, <4>2, <4>3
    <3> QED
      BY <3>1, <3>2
  <2>2. ASSUME NEW s \in {0, 1} \ {0} PROVE \E p \in 0 .. s - 1 : Chain(s) = Chain(p) \cup {s}
    <3>1. s = 1 /\ 0 \in 0 .. s - 1
      OBVIOUS
    <3> QED
      BY <1>2, <3>1
  <2> QED
    BY <1>2, <1>3, <2>1, <2>2 DEF ScopesOK
<1>5. BindsOK
  <2>1. [name |-> This, scope |-> 1] \in [name : Names \cup {This}, scope : Nat]
    OBVIOUS
  <2>2. /\ binds \in Seq([name : Names \cup {This}, scope : Nat]) /\ Len(binds) = 1
        /\ binds[1].scope = 1
    BY <1>1, <2>1
  <2>3. 1 <= MaxVars
    BY DEF PassAssumption
  <2> QED
    BY <1>3, <2>2, <2>3 DEF BindsOK
<1>6. Blocks(0) = {} /\ Cardinality(Blocks(0)) = 0
  BY FS_EmptySet DEF Blocks
<1>7. /\ Len(nodes) = 0 /\ nodes \in Seq(Node) /\ Len(open) = 0 /\ open \in Seq(Nat)
      /\ Len(found) = 0 /\ Len(kept) = 0
  BY <1>1
<1>8. PlaceOK
  BY <1>1, <1>2, <1>3, <1>6, <1>7 DEF PlaceOK
<1>9. SeenOK
  BY <1>1, <1>2, <1>6, <1>7 DEF SeenOK
<1> QED
  BY <1>4, <1>5, <1>8, <1>9 DEF BindInv

LEMMA BindsAlways == Spec => [](BindInv /\ WalkInv)
BY BindsBegin, WalksBegin, WalksKept, BindsKept, PTL DEF Spec

-----------------------------------------------------------------------------
(* The scopes that the passes count to exist, so that varLookup reads       *)
(* state->scopes inside its bounds, and no pass gets ahead of its stream    *)
(* (N_BLOCK: inferTypes, resolver.c:517, codegen_expr, x64codegen.c:548).   *)
THEOREM PassesTyped == Spec => []TypeOK
<1>1. BindInv /\ WalkInv => TypeOK
  <2> SUFFICES ASSUME BindInv, WalkInv PROVE TypeOK
    OBVIOUS
  <2>1. Dict!DictTypeOK
    <3> DEFINE none == [name |-> This, from |-> 0, id |-> -1]
    <3>1. none \in [name : Names \cup {This}, from : Nat, id : Int]
      OBVIOUS
    <3>2. Len(binds) \in Nat /\ none.from = 0 /\ none.id = -1 /\ -1 \in -1 .. Len(binds)
      BY DEF BindInv, BindsOK
    <3>3. /\ chains \in Seq(SUBSET Nat) /\ 2 <= Len(chains) /\ Len(chains) <= MaxScopes
          /\ 0 \in Ids /\ 1 \in Ids
      BY DEF BindInv, ScopesOK, Ids, PassAssumption
    <3>4. \A s \in Ids : /\ s \in Chain(s)
                         /\ Chain(s) \subseteq 0 .. s
                         /\ \A t \in Chain(s) : Chain(t) \subseteq Chain(s)
                         /\ \A t, u \in Chain(s) : t <= u => t \in Chain(u)
      BY DEF BindInv, ScopesOK
    <3>5. 0 \in Chain(1)
      BY <3>3 DEF BindInv, ScopesOK
    <3>6. /\ binds \in Seq([name : Names \cup {This}, scope : Nat]) /\ Len(binds) <= MaxVars
          /\ \A i \in 1 .. Len(binds) : binds[i].scope \in Ids
      BY DEF BindInv, BindsOK
    <3> QED
      BY <3>1, <3>2, <3>3, <3>4, <3>5, <3>6
         DEF Dict!DictTypeOK, Dict!Scopes, Dict!Chain, Dict!Binding, Dict!AllNames,
             Dict!Answer, Chain, Ids
  <2>2. scope \in 1 .. Len(chains) - 1
    BY DEF BindInv, PlaceOK, ScopesOK, Ids
  <2>3. /\ phase \in {"host", "parse", "resolve", "codegen", "exited"}
        /\ nodes \in Seq(Node)
        /\ Len(kept) <= Len(found) /\ Len(found) <= Len(nodes)
    BY DEF BindInv, PlaceOK
  <2>4. Len(used) <= Len(kept)
    BY DEF WalkInv, StreamOK
  <2> QED
    BY <2>1, <2>2, <2>3, <2>4 DEF TypeOK
<1> QED
  BY <1>1, BindsAlways, PTL

(* In a module that begins before any scope was made the resolver finds     *)
(* every name the parser saw (inferTypes, resolver.c:565), and takes it for *)
(* the same variable or for one of a block of this module that is closed:   *)
(* both look from scopes in a row, and what means something goes on to.     *)
THEOREM FreshModulesBind == Spec => []FreshModuleBinds
<1>1. BindInv /\ WalkInv => FreshModuleBinds
  <2> SUFFICES ASSUME BindInv, WalkInv, fresh, NEW i \in 1 .. Len(found),
                      nodes[i].kind = "name"
               PROVE  /\ found[i] # 0
                      /\ \/ found[i] = nodes[i].decl
                         \/ binds[found[i]].scope \in nodes[i].closed
    BY DEF FreshModuleBinds
  <2> PICK nm, d, out, c, r :
           /\ nm = nodes[i].name /\ d = nodes[i].decl /\ out = nodes[i].closed
           /\ c = Counted(i) /\ r = found[i]
    OBVIOUS
  <2>1. ScopesOK /\ BindsOK /\ Len(found) \in Nat /\ Len(found) <= Len(nodes)
        /\ Len(nodes) \in Nat
    BY Longer DEF BindInv, PlaceOK, WalkInv, StreamOK
  <2>2. i \in 1 .. Len(nodes) /\ i \in 1 .. Len(nodes) + 1
    BY <2>1
  <2>3. c \in Ids
    BY <2>2, CountedInside DEF BindInv
  <2>4. r = Lookup(nm, c)
    BY DEF WalkInv, FoundOK, Counted
  <2>5. Means(nm, c, r)
    BY <2>1, <2>4, LookupMeans
  <2>6. BoundOK(i)
    BY <2>2 DEF BindInv, SeenOK
  <2>7. PICK s \in Chain(c) : /\ Means(nm, s, d) /\ d # 0
                              /\ \A t \in Chain(c) : t \in Chain(s) \/ t \in out
    BY <2>6 DEF BoundOK
  <2>8. Chain(s) \subseteq Chain(c)
    BY <2>1, <2>3 DEF ScopesOK
  <2>9. d \in Sees(nm, s) /\ \A j \in Sees(nm, s) : Prefers(d, j)
    BY <2>7 DEF Means
  <2>10. Sees(nm, s) \subseteq Sees(nm, c)
    BY <2>8 DEF Sees
  <2>11. r \in Sees(nm, c) /\ \A j \in Sees(nm, c) : Prefers(r, j)
    BY <2>5, <2>9, <2>10 DEF Means
  <2>12. r # 0 /\ binds[r].scope \in Chain(c) /\ binds[r].name = nm
    BY <2>11 DEF Sees
  <2>13. CASE binds[r].scope \in out
    BY <2>12, <2>13
  <2>14. CASE binds[r].scope \in Chain(s)
    <3>1. r \in Sees(nm, s)
      BY <2>11, <2>14 DEF Sees
    <3>2. Prefers(r, d)
      BY <2>9, <2>10, <2>11
    <3>3. d = r
      BY <2>1, <2>9, <3>1, <3>2, OneMeaning
    <3> QED
      BY <2>12, <3>3
  <2> QED
    BY <2>7, <2>12, <2>13, <2>14
<1> QED
  BY <1>1, BindsAlways, PTL
=============================================================================
