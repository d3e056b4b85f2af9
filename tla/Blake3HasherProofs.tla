------------------------- MODULE Blake3HasherProofs -------------------------
(***************************************************************************)
(* That, for any number of lanes, any writes and any digests between them, *)
(* the queue of pairs never overflows, the stack holds the complete        *)
(* subtrees of the chunks hashed, every byte written is in exactly one     *)
(* place, and so the hasher implements Blake3Tree: a digest is the one of  *)
(* the bytes alone.                                                        *)
(***************************************************************************)
EXTENDS Blake3Hasher, SequenceTheorems, WellFoundedInduction, TLAPS

(* A sequence, of whatever values. *)
IsSequence(s) == \E S : s \in Seq(S)

(* PairsFit is not inductive: a push while a flush is under way adds a     *)
(* pair, and what makes room for it is that the parent pushed came out of  *)
(* the Lanes pairs that were compressed.  So parents still to be pushed    *)
(* count as pairs.                                                         *)
PairsInv ==
  /\ IsSequence(pairs) /\ IsSequence(parents)
  /\ pc \in {"idle", "writing", "pushing", "flushing"}
  /\ Len(pairs) + Len(parents) <= Lanes
  /\ pc \in {"idle", "writing"} => parents = <<>> /\ Len(pairs) < Lanes

-----------------------------------------------------------------------------
(* Appending to a sequence, and taking its head away. *)
LEMMA AppendedIsSequence ==
  ASSUME NEW s, IsSequence(s), NEW x
  PROVE  IsSequence(Append(s, x)) /\ Len(Append(s, x)) = Len(s) + 1
<1>1. PICK S : s \in Seq(S)
  BY DEF IsSequence
<1>2. s \in Seq(S \union {x}) /\ x \in S \union {x}
  BY <1>1
<1>3. Append(s, x) \in Seq(S \union {x}) /\ Len(Append(s, x)) = Len(s) + 1
  BY <1>2, AppendProperties
<1> QED BY <1>3 DEF IsSequence

LEMMA RestIsSequence ==
  ASSUME NEW s, IsSequence(s), s # <<>>
  PROVE  IsSequence(Tail(s)) /\ Len(Tail(s)) = Len(s) - 1
<1>1. PICK S : s \in Seq(S)
  BY DEF IsSequence
<1>2. Tail(s) \in Seq(S) /\ Len(Tail(s)) = Len(s) - 1
  BY <1>1, HeadTailProperties
<1> QED BY <1>2 DEF IsSequence

LEMMA LengthIsNatural ==
  ASSUME NEW s, IsSequence(s)
  PROVE  Len(s) \in Nat /\ (Len(s) = 0 <=> s = <<>>)
BY EmptySeq, LenProperties DEF IsSequence

(* The empty sequence. *)
LEMMA EmptyIsSequence == IsSequence(<<>>) /\ Len(<<>>) = 0
BY DEF IsSequence

(* A push leaves the pairs as they are or adds one. *)
LEMMA PushLAdds ==
  ASSUME IsSequence(pairs), NEW level, NEW value, PushL(level, value)
  PROVE  IsSequence(pairs') /\ Len(pairs') \in Len(pairs)..(Len(pairs) + 1)
<1>1. Len(pairs) \in Nat
  BY LengthIsNatural
<1>2. CASE level \in occ
  <2> DEFINE pair == [level |-> level, left |-> stack[level], right |-> value]
  <2>1. pairs' = Append(pairs, pair)
    BY <1>2 DEF PushL
  <2> HIDE DEF pair
  <2>2. IsSequence(Append(pairs, pair)) /\ Len(Append(pairs, pair)) = Len(pairs) + 1
    BY AppendedIsSequence
  <2> QED BY <1>1, <2>1, <2>2
<1>3. CASE level \notin occ
  BY <1>1, <1>3 DEF PushL
<1> QED BY <1>2, <1>3

(* A flush turns the pairs into as many parents. *)
LEMMA TakePairsKeepsCount ==
  ASSUME IsSequence(pairs), TakePairs
  PROVE  /\ pairs' = <<>>
         /\ IsSequence(parents') /\ Len(parents') = Len(pairs)
<1> DEFINE parent(i) ==
             [level |-> pairs[i].level + 1,
              value |-> Tree!Compress(Tree!ParentNode(mode, pairs[i].left, pairs[i].right))]
<1>1. Len(pairs) \in Nat
  BY LengthIsNatural
<1>2. parents' = [i \in 1..Len(pairs) |-> parent(i)] /\ pairs' = <<>>
  BY DEF TakePairs, HashP
<1> HIDE DEF parent
<1>3. parents' \in Seq({parent(i) : i \in 1..Len(pairs)})
  BY <1>1, <1>2
<1>4. Len(parents') = Len(pairs)
  BY <1>1, <1>2
<1> QED BY <1>2, <1>3, <1>4 DEF IsSequence

-----------------------------------------------------------------------------
LEMMA PairsInit == Init => PairsInv
<1> SUFFICES ASSUME Init PROVE PairsInv
  OBVIOUS
<1>1. pc = "idle" /\ pairs = <<>> /\ parents = <<>>
  BY DEF Init
<1>2. Lanes \in Nat \ {0, 1}
  BY HasherAssumption
<1> QED BY <1>1, <1>2, EmptyIsSequence DEF PairsInv

(* Most steps leave pairs and parents alone and move pc within the rule.   *)
LEMMA PairsKept ==
  ASSUME PairsInv, UNCHANGED <<pairs, parents>>,
         pc' \in {"idle", "writing", "pushing", "flushing"},
         pc' \in {"idle", "writing"} => parents = <<>> /\ Len(pairs) < Lanes
  PROVE  PairsInv'
BY DEF PairsInv, IsSequence

LEMMA PairsStep == PairsInv /\ [Next]_vars => PairsInv'
<1> SUFFICES ASSUME PairsInv, [Next]_vars PROVE PairsInv'
  OBVIOUS
<1>0. /\ Len(pairs) \in Nat /\ Len(parents) \in Nat
      /\ Len(pairs) = 0 <=> pairs = <<>>
      /\ Len(parents) = 0 <=> parents = <<>>
  BY LengthIsNatural DEF PairsInv
<1>L. Lanes \in Nat \ {0, 1}
  BY HasherAssumption
<1>1. CASE \E n \in WriteSizes : CallWrite(n)
  <2>1. UNCHANGED <<pairs, parents>> /\ pc = "idle" /\ pc' = "writing"
    BY <1>1 DEF CallWrite, stackVars
  <2> QED BY <2>1, PairsKept DEF PairsInv
<1>2. CASE DigestSmall
  <2>1. UNCHANGED <<pairs, parents>> /\ pc = "idle" /\ pc' = "idle"
    BY <1>2 DEF DigestSmall, stackVars, callVars
  <2> QED BY <2>1, PairsKept DEF PairsInv
<1>3. CASE CallDigest
  <2>1. UNCHANGED <<pairs, parents>> /\ pc = "idle" /\ pc' = "pushing"
    BY <1>3 DEF CallDigest, stackVars
  <2> QED BY <2>1, PairsKept DEF PairsInv
<1>4. CASE Reset \/ DeriveKey
  <2>1. pairs' = <<>> /\ parents' = parents /\ pc = "idle" /\ pc' = "idle"
    BY <1>4 DEF Reset, DeriveKey, Clear, callVars
  <2> QED BY <2>1, <1>L, EmptyIsSequence DEF PairsInv
<1>5. CASE WriteReturns
  <2>1. UNCHANGED <<pairs, parents>> /\ pc = "writing" /\ pc' = "idle"
    BY <1>5 DEF WriteReturns, stackVars
  <2> QED BY <2>1, PairsKept DEF PairsInv
<1>6. CASE ConsumeInput \/ ConsumeBuffer
  <2>1. UNCHANGED <<pairs, parents>> /\ pc' = "pushing"
    BY <1>6 DEF ConsumeInput, ConsumeBuffer, Consume, stackVars
  <2> QED BY <2>1, PairsKept
<1>7. CASE CopyIn
  <2>1. UNCHANGED <<pairs, parents>> /\ pc = "writing" /\ pc' = "writing"
    BY <1>7 DEF CopyIn, stackVars
  <2> QED BY <2>1, PairsKept DEF PairsInv
<1>8. CASE ConsumeReturns
  <2>1. UNCHANGED <<pairs, parents>> /\ pc' = "writing" /\ Pushed
    BY <1>8 DEF ConsumeReturns, stackVars
  <2>2. parents = <<>> /\ Len(pairs) # Lanes
    BY <2>1 DEF Pushed
  <2>3. Len(pairs) < Lanes
    BY <1>0, <1>L, <2>2 DEF PairsInv
  <2> QED BY <2>1, <2>2, <2>3, PairsKept
<1>9. CASE PushVector
  <2>1. /\ parents = <<>> /\ parents' = parents /\ Len(pairs) # Lanes
        /\ pc = "pushing" /\ pc' = pc
        /\ PushL(0, Head(vectors))
    BY <1>9 DEF PushVector
  <2>2. IsSequence(pairs') /\ Len(pairs') \in Len(pairs)..(Len(pairs) + 1)
    BY <2>1, PushLAdds DEF PairsInv
  <2>3. Len(pairs') + Len(parents') <= Lanes
    BY <1>0, <1>L, <2>1, <2>2 DEF PairsInv
  <2> QED BY <2>1, <2>2, <2>3 DEF PairsInv
<1>10. CASE FlushFull \/ FlushRest
  <2>1. parents = <<>> /\ pc \in {"pushing", "flushing"} /\ pc' = pc /\ TakePairs
    BY <1>10 DEF FlushFull, FlushRest
  <2>2. pairs' = <<>> /\ IsSequence(parents') /\ Len(parents') = Len(pairs)
    BY <2>1, TakePairsKeepsCount DEF PairsInv
  <2>3. Len(pairs') + Len(parents') <= Lanes
    BY <1>0, <2>1, <2>2, EmptyIsSequence DEF PairsInv
  <2> QED BY <2>1, <2>2, <2>3, EmptyIsSequence DEF PairsInv
<1>11. CASE PushParent
  <2>1. /\ parents # <<>> /\ parents' = Tail(parents)
        /\ pc \in {"pushing", "flushing"} /\ pc' = pc
        /\ PushL(Head(parents).level, Head(parents).value)
    BY <1>11 DEF PushParent
  <2>2. IsSequence(pairs') /\ Len(pairs') \in Len(pairs)..(Len(pairs) + 1)
    BY <2>1, PushLAdds DEF PairsInv
  <2>3. IsSequence(parents') /\ Len(parents') = Len(parents) - 1
    BY <2>1, RestIsSequence DEF PairsInv
  <2>4. Len(pairs') + Len(parents') <= Lanes
    BY <1>0, <1>L, <2>2, <2>3 DEF PairsInv
  <2> QED BY <2>1, <2>2, <2>3, <2>4 DEF PairsInv
<1>12. CASE FoldBuffer
  <2>1. UNCHANGED <<pairs, parents>> /\ pc' = "flushing"
    BY <1>12 DEF FoldBuffer, stackVars
  <2> QED BY <2>1, PairsKept
<1>13. CASE DigestReturns
  <2>1. UNCHANGED <<pairs, parents>> /\ pc' = "idle" /\ parents = <<>> /\ pairs = <<>>
    BY <1>13 DEF DigestReturns, stackVars
  <2> QED BY <1>0, <1>L, <2>1, PairsKept
<1>14. CASE UNCHANGED vars
  <2>1. UNCHANGED <<pairs, parents, pc>>
    BY <1>14 DEF vars
  <2> QED BY <2>1, PairsKept DEF PairsInv
<1> QED
  BY <1>1, <1>2, <1>3, <1>4, <1>5, <1>6, <1>7, <1>8, <1>9, <1>10, <1>11, <1>12, <1>13, <1>14
  DEF Next, Step

(* At most Lanes pairs ever wait, and fewer whenever no push is under way: *)
(* the wrapping index of pushL (methods_stack.go:25) overwrites no pair.   *)
THEOREM QueueFits == Spec => []PairsFit
<1>1. PairsInv => PairsFit
  <2> SUFFICES ASSUME PairsInv PROVE PairsFit
    OBVIOUS
  <2>1. Len(pairs) \in Nat /\ Len(parents) \in Nat
    BY LengthIsNatural DEF PairsInv
  <2>2. Lanes \in Nat
    BY HasherAssumption
  <2> QED BY <2>1, <2>2 DEF PairsInv, PairsFit
<1> QED BY PairsInit, PairsStep, <1>1, PTL DEF Spec

-----------------------------------------------------------------------------
(* Recursive definitions: induction over a set of numbers stands for the   *)
(* induction theorems of the library.                                      *)
LEMMA Induction ==
  ASSUME NEW T, 0 \in T, \A n \in Nat : n \in T => n + 1 \in T
  PROVE  Nat \subseteq T
<1> SUFFICES ASSUME Nat \ T # {} PROVE FALSE
  OBVIOUS
<1> DEFINE Less == {ss \in Nat \X Nat : ss[1] < ss[2]}
<1>1. IsWellFoundedOn(Less, Nat)
  BY NatLessThanWellFounded DEF OpToRel
<1>2. PICK n \in Nat \ T : \A k \in Nat \ T : <<k, n>> \notin Less
  BY <1>1, WFMin, Zenon
<1>3. n - 1 \in Nat /\ <<n - 1, n>> \in Less /\ (n - 1) + 1 = n
  OBVIOUS
<1>4. n - 1 \in T
  BY <1>2, <1>3
<1> QED BY <1>3, <1>4

(* Pow2 on the numbers up to one. *)
IsPow2(f, n) == f = [k \in 0..n |-> IF k = 0 THEN 1 ELSE 2 * f[k - 1]]

LEMMA Pow2Upto ==
  ASSUME NEW n \in Nat
  PROVE  \E f : IsPow2(f, n)
<1> DEFINE T == {m \in Nat : \E f : IsPow2(f, m)}
<1>1. 0 \in T
  <2>1. IsPow2([k \in 0..0 |-> 1], 0)
    BY DEF IsPow2
  <2> QED BY <2>1
<1>2. ASSUME NEW m \in Nat, m \in T PROVE m + 1 \in T
  <2>1. PICK f : IsPow2(f, m)
    BY <1>2
  <2> DEFINE g == [k \in 0..(m + 1) |-> IF k = m + 1 THEN 2 * f[m] ELSE f[k]]
  <2>2. \A k \in 0..m : f[k] = IF k = 0 THEN 1 ELSE 2 * f[k - 1]
    BY <2>1 DEF IsPow2
  <2>3. g[m + 1] = 2 * f[m] /\ \A k \in 0..m : g[k] = f[k]
    OBVIOUS
  <2>4. ASSUME NEW k \in 0..(m + 1) PROVE g[k] = IF k = 0 THEN 1 ELSE 2 * g[k - 1]
    <3>1. CASE k = m + 1
      <4>1. m + 1 # 0 /\ (m + 1) - 1 = m /\ m \in 0..m
        OBVIOUS
      <4> HIDE DEF g
      <4> QED BY <2>3, <3>1, <4>1
    <3>2. CASE k \in 0..m
      <4>1. k # 0 => k - 1 \in 0..m
        BY <3>2
      <4> HIDE DEF g
      <4> QED BY <2>2, <2>3, <3>2, <4>1
    <3> QED BY <3>1, <3>2
  <2>5. IsPow2(g, m + 1)
    BY <2>4 DEF IsPow2
  <2> QED BY <2>5
<1> HIDE DEF T
<1>3. Nat \subseteq T
  BY <1>1, <1>2, Induction
<1> QED BY <1>3 DEF T

LEMMA Pow2Unique ==
  ASSUME NEW m \in Nat, NEW n \in Nat, NEW f, NEW g, IsPow2(f, m), IsPow2(g, n),
         NEW k \in 0..m, k \in 0..n
  PROVE  f[k] = g[k]
<1>1. /\ \A j \in 0..m : f[j] = IF j = 0 THEN 1 ELSE 2 * f[j - 1]
      /\ \A j \in 0..n : g[j] = IF j = 0 THEN 1 ELSE 2 * g[j - 1]
  BY DEF IsPow2
<1> DEFINE T == {j \in Nat : j \in 0..m /\ j \in 0..n => f[j] = g[j]}
<1>2. 0 \in T
  BY <1>1
<1>3. ASSUME NEW j \in Nat, j \in T PROVE j + 1 \in T
  <2> SUFFICES ASSUME j + 1 \in 0..m, j + 1 \in 0..n PROVE f[j + 1] = g[j + 1]
    OBVIOUS
  <2>1. j + 1 # 0 /\ (j + 1) - 1 = j /\ f[j] = g[j]
    BY <1>3
  <2> QED BY <1>1, <2>1
<1> HIDE DEF T
<1>4. Nat \subseteq T
  BY <1>2, <1>3, Induction
<1> QED BY <1>4 DEF T

LEMMA Pow2Def ==
  \A n \in Nat : Tree!Pow2[n] = IF n = 0 THEN 1 ELSE 2 * Tree!Pow2[n - 1]
<1> DEFINE upto == [n \in Nat |-> CHOOSE f : IsPow2(f, n)]
           pow == [n \in Nat |-> upto[n][n]]
           Whole(f) == f = [n \in Nat |-> IF n = 0 THEN 1 ELSE 2 * f[n - 1]]
<1>1. \A n \in Nat : IsPow2(upto[n], n)
  BY Pow2Upto
<1>2. \A n \in Nat : pow[n] = upto[n][n]
  OBVIOUS
<1> HIDE DEF upto
<1>3. ASSUME NEW n \in Nat PROVE pow[n] = IF n = 0 THEN 1 ELSE 2 * pow[n - 1]
  <2> HIDE DEF pow
  <2>1. upto[n][n] = IF n = 0 THEN 1 ELSE 2 * upto[n][n - 1]
    <3>1. IsPow2(upto[n], n) /\ n \in 0..n
      BY <1>1
    <3> QED BY <3>1 DEF IsPow2
  <2>2. n # 0 => upto[n][n - 1] = upto[n - 1][n - 1]
    <3> SUFFICES ASSUME n # 0 PROVE upto[n][n - 1] = upto[n - 1][n - 1]
      OBVIOUS
    <3>1. /\ n - 1 \in Nat /\ n - 1 \in 0..n /\ n - 1 \in 0..(n - 1)
          /\ IsPow2(upto[n], n) /\ IsPow2(upto[n - 1], n - 1)
      BY <1>1
    <3> QED BY <3>1, Pow2Unique
  <2>3. n # 0 => n - 1 \in Nat
    OBVIOUS
  <2> QED BY <1>2, <2>1, <2>2, <2>3
<1>4. Whole(pow)
  BY <1>3
<1> HIDE DEF pow
<1>5. Tree!Pow2 = CHOOSE f : Whole(f)
  BY Zenon DEF Tree!Pow2
<1>6. Whole(Tree!Pow2)
  BY <1>4, <1>5, Zenon
<1> QED BY <1>6

LEMMA Pow2Facts ==
  /\ Tree!Pow2[0] = 1
  /\ \A n \in Nat : /\ Tree!Pow2[n] \in Nat /\ Tree!Pow2[n] > n
                    /\ Tree!Pow2[n + 1] = 2 * Tree!Pow2[n]
<1>1. Tree!Pow2[0] = 1 /\ \A n \in Nat : Tree!Pow2[n + 1] = 2 * Tree!Pow2[n]
  <2>1. \A n \in Nat : n + 1 \in Nat /\ n + 1 # 0 /\ (n + 1) - 1 = n
    OBVIOUS
  <2> QED BY <2>1, Pow2Def
<1> DEFINE T == {n \in Nat : Tree!Pow2[n] \in Nat /\ Tree!Pow2[n] > n}
<1>2. 0 \in T
  BY <1>1
<1>3. \A n \in Nat : n \in T => n + 1 \in T
  BY <1>1
<1> HIDE DEF T
<1>4. Nat \subseteq T
  BY <1>2, <1>3, Induction
<1> QED BY <1>1, <1>4 DEF T

(* A smaller power is at most half of a greater one. *)
LEMMA Pow2Doubles ==
  ASSUME NEW m \in Nat, NEW n \in Nat, m < n
  PROVE  2 * Tree!Pow2[m] <= Tree!Pow2[n]
<1> DEFINE T == {k \in Nat : 2 * Tree!Pow2[m] <= Tree!Pow2[m + (k + 1)]}
<1>1. 0 \in T
  BY Pow2Facts
<1>2. ASSUME NEW k \in Nat, k \in T PROVE k + 1 \in T
  <2>1. Tree!Pow2[(m + (k + 1)) + 1] = 2 * Tree!Pow2[m + (k + 1)] /\ m + (k + 1) \in Nat
    BY Pow2Facts
  <2>2. Tree!Pow2[m] \in Nat /\ Tree!Pow2[m + (k + 1)] \in Nat
    BY Pow2Facts
  <2>3. m + ((k + 1) + 1) = (m + (k + 1)) + 1
    OBVIOUS
  <2> QED BY <1>2, <2>1, <2>2, <2>3
<1> HIDE DEF T
<1>3. n - m - 1 \in T
  BY <1>1, <1>2, Induction
<1>4. m + ((n - m - 1) + 1) = n
  OBVIOUS
<1> QED BY <1>3, <1>4 DEF T

-----------------------------------------------------------------------------
(* The tree: how LeftSize splits, and what Subtree is. *)
LEMMA LeftSizeIs ==
  ASSUME NEW e \in Nat, NEW n \in Nat, Tree!Pow2[e] < n, n <= 2 * Tree!Pow2[e]
  PROVE  Tree!LeftSize(n) = Tree!Pow2[e]
<1> DEFINE Fits(k) == n <= 2 * k /\ \E x \in 0..n : k = Tree!Pow2[x]
           size == CHOOSE k \in 1..(n - 1) : Fits(k)
<1>1. Tree!Pow2[e] \in Nat /\ Tree!Pow2[e] > e
  BY Pow2Facts
<1>2. Tree!Pow2[e] \in 1..(n - 1) /\ Fits(Tree!Pow2[e])
  BY <1>1
<1>3. size \in 1..(n - 1) /\ Fits(size)
  BY <1>2
<1>4. Tree!LeftSize(n) = size
  BY Zenon DEF Tree!LeftSize
<1> HIDE DEF size
<1>5. PICK x \in 0..n : size = Tree!Pow2[x]
  BY <1>3
<1>6. x = e
  <2>1. x < e => 2 * Tree!Pow2[x] <= Tree!Pow2[e]
    BY Pow2Doubles
  <2>2. e < x => 2 * Tree!Pow2[e] <= Tree!Pow2[x]
    BY Pow2Doubles
  <2> QED BY <1>1, <1>3, <1>5, <2>1, <2>2
<1> QED BY <1>4, <1>5, <1>6

LEMMA PowerBelow ==
  ASSUME NEW n \in Nat, n >= 2
  PROVE  \E e \in Nat : Tree!Pow2[e] < n /\ n <= 2 * Tree!Pow2[e]
<1> DEFINE T == {k \in Nat : \E e \in Nat : Tree!Pow2[e] < k + 2 /\ k + 2 <= 2 * Tree!Pow2[e]}
<1>1. 0 \in T
  BY Pow2Facts
<1>2. ASSUME NEW k \in Nat, k \in T PROVE k + 1 \in T
  <2>1. PICK e \in Nat : Tree!Pow2[e] < k + 2 /\ k + 2 <= 2 * Tree!Pow2[e]
    BY <1>2
  <2>2. Tree!Pow2[e] \in Nat /\ e + 1 \in Nat /\ Tree!Pow2[e + 1] = 2 * Tree!Pow2[e]
    BY Pow2Facts
  <2>3. CASE (k + 1) + 2 <= 2 * Tree!Pow2[e]
    BY <2>1, <2>2, <2>3
  <2>4. CASE k + 2 = 2 * Tree!Pow2[e]
    <3>1. Tree!Pow2[e + 1] < (k + 1) + 2 /\ (k + 1) + 2 <= 2 * Tree!Pow2[e + 1]
      BY <2>1, <2>2, <2>4
    <3> QED BY <2>2, <3>1
  <2> QED BY <2>1, <2>2, <2>3, <2>4
<1> HIDE DEF T
<1>3. n - 2 \in T
  BY <1>1, <1>2, Induction
<1> QED BY <1>3 DEF T

LEMMA LeftSizeRange ==
  ASSUME NEW n \in Nat, n >= 2
  PROVE  Tree!LeftSize(n) \in 1..(n - 1)
<1>1. PICK e \in Nat : Tree!Pow2[e] < n /\ n <= 2 * Tree!Pow2[e]
  BY PowerBelow
<1>2. Tree!LeftSize(n) = Tree!Pow2[e] /\ Tree!Pow2[e] \in Nat /\ Tree!Pow2[e] > e
  BY <1>1, LeftSizeIs, Pow2Facts
<1> QED BY <1>1, <1>2

(* What Subtree says of the nodes over count chunks, given the smaller ones. *)
NodeOver(node, m, bytes, count, first) ==
  IF count = 1 THEN Tree!ChunkNode(m, first, Tree!ChunkAt(bytes, first))
  ELSE Tree!ParentNode(m, Tree!Compress(node[Tree!LeftSize(count)][first]),
         Tree!Compress(node[count - Tree!LeftSize(count)][first + Tree!LeftSize(count)]))

AreNodes(node, m, bytes, n) ==
  node = [count \in 1..n |-> [first \in Nat |-> NodeOver(node, m, bytes, count, first)]]

(* NodeOver uses the nodes of smaller counts only. *)
LEMMA NodeOverSmaller ==
  ASSUME NEW m, NEW bytes, NEW count \in Nat \ {0}, NEW first \in Nat, NEW f, NEW g,
         \A c \in 1..(count - 1) : f[c] = g[c]
  PROVE  NodeOver(f, m, bytes, count, first) = NodeOver(g, m, bytes, count, first)
<1>1. CASE count = 1
  BY <1>1 DEF NodeOver
<1>2. CASE count # 1
  <2> DEFINE k == Tree!LeftSize(count)
  <2>1. k \in 1..(count - 1)
    BY <1>2, LeftSizeRange
  <2>2. count - k \in 1..(count - 1)
    BY <2>1
  <2>3. f[k] = g[k] /\ f[count - k] = g[count - k]
    BY <2>1, <2>2
  <2> HIDE DEF k
  <2> QED BY <1>2, <2>3, Zenon DEF NodeOver, k
<1> QED BY <1>1, <1>2

LEMMA NodesUpto ==
  ASSUME NEW m, NEW bytes, NEW n \in Nat
  PROVE  \E node : AreNodes(node, m, bytes, n)
<1> DEFINE T == {k \in Nat : \E node : AreNodes(node, m, bytes, k)}
<1>1. 0 \in T
  <2>1. AreNodes([count \in 1..0 |-> 0], m, bytes, 0)
    BY DEF AreNodes
  <2> QED BY <2>1
<1>2. ASSUME NEW k \in Nat, k \in T PROVE k + 1 \in T
  <2>1. PICK f : AreNodes(f, m, bytes, k)
    BY <1>2
  <2> DEFINE last == [first \in Nat |-> NodeOver(f, m, bytes, k + 1, first)]
             g == [count \in 1..(k + 1) |-> IF count = k + 1 THEN last ELSE f[count]]
  <2>2. \A count \in 1..k : f[count] = [first \in Nat |-> NodeOver(f, m, bytes, count, first)]
    BY <2>1, Zenon DEF AreNodes
  <2>3. g[k + 1] = last /\ \A count \in 1..k : g[count] = f[count]
    OBVIOUS
  <2>4. ASSUME NEW count \in 1..(k + 1)
        PROVE  g[count] = [first \in Nat |-> NodeOver(g, m, bytes, count, first)]
    <3> HIDE DEF g
    <3>1. \A first \in Nat : NodeOver(f, m, bytes, count, first) = NodeOver(g, m, bytes, count, first)
      <4>1. \A c \in 1..(count - 1) : f[c] = g[c]
        BY <2>3
      <4> QED BY <4>1, NodeOverSmaller
    <3>2. g[count] = [first \in Nat |-> NodeOver(f, m, bytes, count, first)]
      <4>1. CASE count = k + 1
        BY <2>3, <4>1
      <4>2. CASE count \in 1..k
        BY <2>2, <2>3, <4>2
      <4> QED BY <4>1, <4>2
    <3> QED BY <3>1, <3>2
  <2>5. AreNodes(g, m, bytes, k + 1)
    BY <2>4, Zenon DEF AreNodes
  <2> QED BY <2>5
<1> HIDE DEF T
<1>3. Nat \subseteq T
  BY <1>1, <1>2, Induction
<1> QED BY <1>3 DEF T

LEMMA NodesUnique ==
  ASSUME NEW m, NEW bytes, NEW n \in Nat, NEW k \in Nat, NEW f, NEW g,
         AreNodes(f, m, bytes, n), AreNodes(g, m, bytes, k)
  PROVE  \A count \in 1..n : count <= k => f[count] = g[count]
<1>1. /\ \A count \in 1..n : f[count] = [first \in Nat |-> NodeOver(f, m, bytes, count, first)]
      /\ \A count \in 1..k : g[count] = [first \in Nat |-> NodeOver(g, m, bytes, count, first)]
  BY Zenon DEF AreNodes
<1> DEFINE T == {j \in Nat : \A count \in 1..j : count <= n /\ count <= k => f[count] = g[count]}
<1>2. 0 \in T
  OBVIOUS
<1>3. ASSUME NEW j \in Nat, j \in T PROVE j + 1 \in T
  <2> SUFFICES ASSUME j + 1 <= n, j + 1 <= k PROVE f[j + 1] = g[j + 1]
    BY <1>3
  <2>1. \A c \in 1..((j + 1) - 1) : f[c] = g[c]
    BY <1>3
  <2>2. \A first \in Nat : NodeOver(f, m, bytes, j + 1, first) = NodeOver(g, m, bytes, j + 1, first)
    BY <2>1, NodeOverSmaller
  <2>3. j + 1 \in 1..n /\ j + 1 \in 1..k
    OBVIOUS
  <2> QED BY <1>1, <2>2, <2>3
<1> HIDE DEF T
<1>4. Nat \subseteq T
  BY <1>2, <1>3, Induction
<1> QED BY <1>4 DEF T

LEMMA SubtreeDef ==
  ASSUME NEW m, NEW bytes, NEW count \in Nat \ {0}, NEW first \in Nat
  PROVE  Tree!Subtree(m, bytes)[count][first]
           = NodeOver(Tree!Subtree(m, bytes), m, bytes, count, first)
<1> DEFINE upto == [n \in Nat |-> CHOOSE f : AreNodes(f, m, bytes, n)]
           node == [n \in Nat \ {0} |-> upto[n][n]]
           Whole(f) == f = [c \in Nat \ {0} |-> [x \in Nat |-> NodeOver(f, m, bytes, c, x)]]
<1>1. \A n \in Nat : AreNodes(upto[n], m, bytes, n)
  BY NodesUpto
<1>2. \A n \in Nat \ {0} : node[n] = upto[n][n]
  OBVIOUS
<1> HIDE DEF upto
<1>3. ASSUME NEW c \in Nat \ {0} PROVE node[c] = [x \in Nat |-> NodeOver(node, m, bytes, c, x)]
  <2> HIDE DEF node
  <2>1. upto[c][c] = [x \in Nat |-> NodeOver(upto[c], m, bytes, c, x)]
    <3>1. AreNodes(upto[c], m, bytes, c) /\ c \in 1..c
      BY <1>1
    <3> QED BY <3>1, Zenon DEF AreNodes
  <2>2. ASSUME NEW d \in 1..(c - 1) PROVE upto[c][d] = node[d]
    <3>1. /\ c \in Nat /\ d \in Nat /\ d \in 1..c /\ d <= d
          /\ AreNodes(upto[c], m, bytes, c) /\ AreNodes(upto[d], m, bytes, d)
      BY <1>1
    <3>2. ASSUME NEW f, NEW g, AreNodes(f, m, bytes, c), AreNodes(g, m, bytes, d)
          PROVE  f[d] = g[d]
      BY <3>1, <3>2, NodesUnique
    <3>3. upto[c][d] = upto[d][d]
      BY <3>1, <3>2
    <3> QED BY <1>2, <3>3
  <2>3. \A x \in Nat : NodeOver(upto[c], m, bytes, c, x) = NodeOver(node, m, bytes, c, x)
    BY <2>2, NodeOverSmaller
  <2> QED BY <1>2, <2>1, <2>3
<1>4. Whole(node)
  BY <1>3, Zenon
<1> HIDE DEF node
<1>5. Tree!Subtree(m, bytes) = CHOOSE f : Whole(f)
  BY Zenon DEF Tree!Subtree, NodeOver
<1>6. Whole(Tree!Subtree(m, bytes))
  BY <1>4, <1>5, Zenon
<1> HIDE DEF node
<1> DEFINE tree == Tree!Subtree(m, bytes)
<1> HIDE DEF tree
<1>7. tree = [c \in Nat \ {0} |-> [x \in Nat |-> NodeOver(tree, m, bytes, c, x)]]
  BY <1>6 DEF tree
<1>8. tree[count] = [x \in Nat |-> NodeOver(tree, m, bytes, count, x)]
  BY <1>7, Zenon
<1>9. tree[count][first] = NodeOver(tree, m, bytes, count, first)
  BY <1>8, Zenon
<1> QED BY <1>9 DEF tree

(* A subtree of one chunk is its node, and a greater one joins the complete *)
(* subtree on its left with the rest.                                       *)
LEMMA SubtreeOne ==
  ASSUME NEW m, NEW bytes, NEW first \in Nat
  PROVE  Tree!Subtree(m, bytes)[1][first] = Tree!ChunkNode(m, first, Tree!ChunkAt(bytes, first))
<1>1. Tree!Subtree(m, bytes)[1][first] = NodeOver(Tree!Subtree(m, bytes), m, bytes, 1, first)
  BY SubtreeDef
<1> QED BY <1>1 DEF NodeOver

LEMMA SubtreeJoin ==
  ASSUME NEW m, NEW bytes, NEW e \in Nat, NEW rest \in 1..Tree!Pow2[e], NEW first \in Nat
  PROVE  Tree!Subtree(m, bytes)[Tree!Pow2[e] + rest][first] =
           Tree!ParentNode(m, Tree!Compress(Tree!Subtree(m, bytes)[Tree!Pow2[e]][first]),
                      Tree!Compress(Tree!Subtree(m, bytes)[rest][first + Tree!Pow2[e]]))
<1> DEFINE size == Tree!Pow2[e]
           count == size + rest
<1>1. size \in Nat /\ size > e
  BY Pow2Facts
<1> HIDE DEF size
<1>2. count \in Nat \ {0} /\ count # 1 /\ size < count /\ count <= 2 * size
  BY <1>1 DEF size
<1>3. Tree!LeftSize(count) = size
  BY <1>2, LeftSizeIs DEF size
<1>4. count - size = rest
  BY <1>1
<1>5. Tree!Subtree(m, bytes)[count][first] = NodeOver(Tree!Subtree(m, bytes), m, bytes, count, first)
  BY <1>2, SubtreeDef
<1> HIDE DEF count
<1>6. NodeOver(Tree!Subtree(m, bytes), m, bytes, count, first) =
        Tree!ParentNode(m, Tree!Compress(Tree!Subtree(m, bytes)[size][first]),
                        Tree!Compress(Tree!Subtree(m, bytes)[rest][first + size]))
  BY <1>2, <1>3, <1>4, Zenon DEF NodeOver
<1> QED BY <1>5, <1>6, Zenon DEF count, size

(* A complete subtree joins two complete subtrees of half its size. *)
LEMMA SubtreeDouble ==
  ASSUME NEW m, NEW bytes, NEW e \in Nat, NEW first \in Nat
  PROVE  Tree!Subtree(m, bytes)[Tree!Pow2[e] + Tree!Pow2[e]][first] =
           Tree!ParentNode(m, Tree!Compress(Tree!Subtree(m, bytes)[Tree!Pow2[e]][first]),
                      Tree!Compress(Tree!Subtree(m, bytes)[Tree!Pow2[e]][first + Tree!Pow2[e]]))
<1>1. PICK size \in Nat : size = Tree!Pow2[e] /\ size > e
  BY Pow2Facts
<1>2. size \in 1..Tree!Pow2[e]
  BY <1>1
<1> QED BY <1>1, <1>2, SubtreeJoin

(* A subtree depends on the chunks that it is over. *)
LEMMA SubtreeSame ==
  ASSUME NEW m, NEW a, NEW b, NEW count \in Nat \ {0}, NEW first \in Nat,
         \A i \in first..(first + count - 1) : Tree!ChunkAt(a, i) = Tree!ChunkAt(b, i)
  PROVE  Tree!Subtree(m, a)[count][first] = Tree!Subtree(m, b)[count][first]
<1> DEFINE Alike(c, x) == \A i \in x..(x + c - 1) : Tree!ChunkAt(a, i) = Tree!ChunkAt(b, i)
           Same(c, x) == Tree!Subtree(m, a)[c][x] = Tree!Subtree(m, b)[c][x]
           T == {n \in Nat : \A c \in 1..n, x \in Nat : Alike(c, x) => Same(c, x)}
<1>1. 0 \in T
  OBVIOUS
<1>2. ASSUME NEW n \in Nat, n \in T PROVE n + 1 \in T
  <2> SUFFICES ASSUME NEW x \in Nat, Alike(n + 1, x) PROVE Same(n + 1, x)
    BY <1>2
  <2> DEFINE c == n + 1
  <2>1. c \in Nat \ {0}
    OBVIOUS
  <2>2. NodeOver(Tree!Subtree(m, a), m, a, c, x) = NodeOver(Tree!Subtree(m, b), m, b, c, x)
    <3>1. CASE c = 1
      <4>1. x \in x..(x + (n + 1) - 1)
        BY <3>1
      <4>2. Tree!ChunkAt(a, x) = Tree!ChunkAt(b, x)
        BY <4>1
      <4> QED BY <3>1, <4>2, Zenon DEF NodeOver
    <3>2. CASE c # 1
      <4> DEFINE k == Tree!LeftSize(c)
      <4>1. k \in 1..(c - 1) /\ c >= 2
        BY <3>2, <2>1, LeftSizeRange
      <4>2. k \in 1..n /\ c - k \in 1..n /\ x + k \in Nat
        BY <4>1
      <4> HIDE DEF k
      <4>3. Alike(k, x) /\ Alike(c - k, x + k)
        BY <4>2
      <4>4. Same(k, x) /\ Same(c - k, x + k)
        BY <1>2, <4>2, <4>3
      <4> QED BY <3>2, <4>4, Zenon DEF NodeOver, k
    <3> QED BY <3>1, <3>2
  <2> HIDE DEF c
  <2>3. Same(c, x)
    BY <2>1, <2>2, SubtreeDef
  <2> QED BY <2>3 DEF c
<1> HIDE DEF T
<1>3. count \in T
  BY <1>1, <1>2, Induction
<1>4. count \in 1..count
  OBVIOUS
<1> QED BY <1>3, <1>4 DEF T

(* Equal complete subtrees are over the same chunks. *)
LEMMA SubtreeFirst ==
  ASSUME NEW m, NEW bytes, NEW e \in Nat, NEW x \in Nat, NEW y \in Nat,
         Tree!Subtree(m, bytes)[Tree!Pow2[e]][x] = Tree!Subtree(m, bytes)[Tree!Pow2[e]][y]
  PROVE  x = y
<1> DEFINE tree == Tree!Subtree(m, bytes)
           T == {n \in Nat : \A p, q \in Nat :
                   tree[Tree!Pow2[n]][p] = tree[Tree!Pow2[n]][q] => p = q}
<1>1. 0 \in T
  <2> SUFFICES ASSUME NEW p \in Nat, NEW q \in Nat, tree[1][p] = tree[1][q] PROVE p = q
    BY Pow2Facts
  <2>1. Tree!ChunkNode(m, p, Tree!ChunkAt(bytes, p)) = Tree!ChunkNode(m, q, Tree!ChunkAt(bytes, q))
    BY SubtreeOne
  <2>2. \A n : Tree!ChunkNode(m, n, Tree!ChunkAt(bytes, n)).counter = n
    BY DEF Tree!ChunkNode, Tree!BlockNode, Tree!Node
  <2> QED BY <2>1, <2>2
<1>2. ASSUME NEW n \in Nat, n \in T PROVE n + 1 \in T
  <2> SUFFICES ASSUME NEW p \in Nat, NEW q \in Nat,
                      tree[Tree!Pow2[n + 1]][p] = tree[Tree!Pow2[n + 1]][q]
               PROVE  p = q
    BY <1>2
  <2> DEFINE size == Tree!Pow2[n]
  <2>1. size \in Nat /\ size > n /\ Tree!Pow2[n + 1] = size + size /\ size \in 1..Tree!Pow2[n]
    BY Pow2Facts
  <2>2. \A z \in Nat : tree[size + size][z] =
          Tree!ParentNode(m, Tree!Compress(tree[size][z]), Tree!Compress(tree[size][z + size]))
    BY SubtreeDouble
  <2> HIDE DEF tree, size
  <2>3. \A u, v : Tree!ParentNode(m, u, v).block = <<"parents", u, v>>
    BY DEF Tree!ParentNode, Tree!Node
  <2>4. Tree!Compress(tree[size][p]) = Tree!Compress(tree[size][q])
    BY <2>1, <2>2, <2>3
  <2>5. tree[size][p] = tree[size][q]
    BY <2>4 DEF Tree!Compress
  <2> QED BY <1>2, <2>5 DEF size
<1> HIDE DEF T
<1>3. e \in T
  BY <1>1, <1>2, Induction
<1> QED BY <1>3 DEF T

-----------------------------------------------------------------------------
(* Tilings: complete subtrees side by side over n chunks, the older ones   *)
(* first.  first says at which chunk the subtree at a place begins.        *)
Size(at) == Tree!Pow2[at[1]]

Tiling(first, n) ==
  /\ DOMAIN first \subseteq Nat \X Nat
  /\ \A at \in DOMAIN first : first[at] \in Nat /\ first[at] + Size(at) <= n
  /\ \A at, than \in DOMAIN first : Older(at, than) => first[at] + Size(at) <= first[than]
  /\ \A c \in 0..(n - 1) : \E at \in DOMAIN first : first[at] <= c /\ c < first[at] + Size(at)

LEMMA SizeType ==
  ASSUME NEW at \in Nat \X Nat
  PROVE  Size(at) \in Nat /\ Size(at) > 0
<1>1. at[1] \in Nat
  OBVIOUS
<1> QED BY <1>1, Pow2Facts DEF Size

LEMMA OlderTotal ==
  ASSUME NEW d \in Nat \X Nat, NEW e \in Nat \X Nat
  PROVE  /\ d = e \/ Older(d, e) \/ Older(e, d)
         /\ ~ (Older(d, e) /\ Older(e, d))
         /\ ~ Older(d, d)
<1>1. d[1] \in Nat /\ d[2] \in Nat /\ e[1] \in Nat /\ e[2] \in Nat
  OBVIOUS
<1>2. d[1] = e[1] /\ d[2] = e[2] => d = e
  OBVIOUS
<1> QED BY <1>1, <1>2 DEF Older

(* A place and the next younger one are over adjacent chunks. *)
LEMMA Adjacent ==
  ASSUME NEW first, NEW n \in Nat, Tiling(first, n), NEW d \in DOMAIN first, NEW e \in DOMAIN first,
         Older(d, e), \A x \in DOMAIN first : ~ (Older(d, x) /\ Older(x, e))
  PROVE  first[d] + Size(d) = first[e]
<1> DEFINE c == first[d] + Size(d)
<1>1. /\ \A x \in DOMAIN first : /\ x \in Nat \X Nat /\ first[x] \in Nat
                                 /\ Size(x) \in Nat /\ Size(x) > 0 /\ first[x] + Size(x) <= n
      /\ \A x, y \in DOMAIN first : Older(x, y) => first[x] + Size(x) <= first[y]
  BY SizeType DEF Tiling
<1> SUFFICES ASSUME c # first[e] PROVE FALSE
  OBVIOUS
<1>2. c < first[e] /\ c \in 0..(n - 1)
  BY <1>1
<1>3. PICK x \in DOMAIN first : first[x] <= c /\ c < first[x] + Size(x)
  BY <1>2 DEF Tiling
<1>4. x # d /\ x # e
  BY <1>1, <1>2, <1>3
<1>5. CASE Older(x, d)
  BY <1>1, <1>3, <1>5
<1>6. CASE Older(d, x)
  <2>1. Older(e, x)
    BY <1>1, <1>4, <1>6, OlderTotal
  <2> QED BY <1>1, <1>2, <1>3, <2>1
<1> QED BY <1>1, <1>4, <1>5, <1>6, OlderTotal

(* Other places in the same order. *)
LEMMA Renamed ==
  ASSUME NEW first, NEW n \in Nat, Tiling(first, n),
         NEW g \in [DOMAIN first -> Nat \X Nat],
         \A d \in DOMAIN first : g[d][1] = d[1],
         \A d, e \in DOMAIN first : d[1] = e[1] /\ d[2] < e[2] => g[d][2] < g[e][2],
         NEW h, DOMAIN h = {g[d] : d \in DOMAIN first},
         \A d \in DOMAIN first : h[g[d]] = first[d]
  PROVE  Tiling(h, n)
<1>1. \A d \in DOMAIN first : d \in Nat \X Nat /\ g[d] \in Nat \X Nat /\ Size(g[d]) = Size(d)
  BY DEF Tiling, Size
<1>2. ASSUME NEW d \in DOMAIN first, NEW e \in DOMAIN first, Older(d, e)
      PROVE  Older(g[d], g[e])
  BY <1>2 DEF Older
<1>3. ASSUME NEW d \in DOMAIN first, NEW e \in DOMAIN first, Older(g[d], g[e])
      PROVE  Older(d, e)
  <2>1. CASE d = e
    BY <1>1, <1>3, <2>1, OlderTotal
  <2>2. CASE Older(e, d)
    BY <1>1, <1>2, <1>3, <2>2, OlderTotal
  <2> QED BY <1>1, <2>1, <2>2, OlderTotal
<1>4. /\ DOMAIN h \subseteq Nat \X Nat
      /\ \A at \in DOMAIN h : h[at] \in Nat /\ h[at] + Size(at) <= n
  BY <1>1 DEF Tiling
<1>5. \A at, than \in DOMAIN h : Older(at, than) => h[at] + Size(at) <= h[than]
  BY <1>1, <1>3 DEF Tiling
<1>6. ASSUME NEW c \in 0..(n - 1)
      PROVE  \E at \in DOMAIN h : h[at] <= c /\ c < h[at] + Size(at)
  <2>1. PICK d \in DOMAIN first : first[d] <= c /\ c < first[d] + Size(d)
    BY DEF Tiling
  <2>2. g[d] \in DOMAIN h /\ h[g[d]] = first[d] /\ Size(g[d]) = Size(d)
    BY <1>1
  <2> QED BY <2>1, <2>2
<1> QED BY <1>4, <1>5, <1>6 DEF Tiling

(* The two oldest of a level join and become the youngest of the next.     *)
Joins(first, n, l, k, m, h) ==
  /\ Tiling(first, n) /\ n \in Nat /\ l \in Nat /\ k \in Nat /\ m \in Nat /\ k > 0
  /\ <<l, 0>> \in DOMAIN first /\ <<l, k>> \in DOMAIN first
  /\ \A x \in DOMAIN first : x[1] = l => x[2] = 0 \/ x[2] >= k
  /\ \A x \in DOMAIN first : x[1] = l + 1 => x[2] < m
  /\ DOMAIN h = (DOMAIN first \ {<<l, 0>>, <<l, k>>}) \union {<<l + 1, m>>}
  /\ h[<<l + 1, m>>] = first[<<l, 0>>]
  /\ \A x \in DOMAIN first \ {<<l, 0>>, <<l, k>>} : h[x] = first[x]

LEMMA Joined ==
  ASSUME NEW first, NEW n, NEW l, NEW k, NEW m, NEW h, Joins(first, n, l, k, m, h)
  PROVE  Tiling(h, n) /\ first[<<l, k>>] = first[<<l, 0>>] + Tree!Pow2[l]
<1> USE DEF Joins
<1>0. Tiling(first, n) /\ n \in Nat /\ l \in Nat /\ k \in Nat /\ m \in Nat /\ k > 0
  OBVIOUS
<1> DEFINE d == <<l, 0>>
           e == <<l, k>>
           new == <<l + 1, m>>
           D == DOMAIN first
<1>1. /\ d \in D /\ e \in D /\ d[1] = l /\ d[2] = 0 /\ e[1] = l /\ e[2] = k
      /\ new \in Nat \X Nat /\ new[1] = l + 1 /\ new[2] = m /\ d # e
      /\ D \subseteq Nat \X Nat
      /\ \A x \in D : x[1] \in Nat /\ x[2] \in Nat
  BY DEF Tiling
<1>2. /\ \A x \in D : /\ first[x] \in Nat /\ Size(x) \in Nat /\ Size(x) > 0
                      /\ first[x] + Size(x) <= n
      /\ \A x, y \in D : Older(x, y) => first[x] + Size(x) <= first[y]
  BY <1>1, SizeType DEF Tiling
<1>3. Size(d) = Tree!Pow2[l] /\ Size(e) = Size(d) /\ Size(new) = 2 * Size(d)
  BY <1>1, Pow2Facts DEF Size
<1>4. \A x \in D : x # d /\ x # e => (x[1] = l => x[2] > k)
  BY <1>1
<1> HIDE DEF d, e, new
<1>5. Older(d, e) /\ \A x \in D : ~ (Older(d, x) /\ Older(x, e))
  <2>1. Older(d, e)
    BY <1>1 DEF Older
  <2>2. ASSUME NEW x \in D, Older(d, x), Older(x, e) PROVE FALSE
    <3>1. x[1] = l /\ x[2] > 0 /\ x[2] < k
      BY <1>1, <2>2 DEF Older
    <3> QED BY <1>1, <3>1
  <2> QED BY <2>1, <2>2
<1>6. first[d] + Size(d) = first[e]
  BY <1>1, <1>5, Adjacent
<1>7. /\ DOMAIN h = (D \ {d, e}) \union {new} /\ h[new] = first[d]
      /\ \A x \in D \ {d, e} : h[x] = first[x]
  BY DEF d, e, new
<1>8. new \notin D
  BY <1>1
<1>9. /\ DOMAIN h \subseteq Nat \X Nat
      /\ \A x \in DOMAIN h : h[x] \in Nat /\ h[x] + Size(x) <= n
  BY <1>1, <1>2, <1>3, <1>6, <1>7
<1>10. ASSUME NEW x \in D \ {d, e}
       PROVE  /\ Older(x, new) => first[x] + Size(x) <= first[d]
              /\ Older(new, x) => first[e] + Size(e) <= first[x]
  <2>1. CASE x[1] > l
    <3>1. Older(x, d) /\ ~ Older(new, x)
      BY <1>1, <2>1 DEF Older
    <3> QED BY <1>1, <1>2, <3>1
  <2>2. CASE x[1] <= l
    <3>1. Older(e, x) /\ ~ Older(x, new)
      BY <1>1, <1>4, <2>2 DEF Older
    <3> QED BY <1>1, <1>2, <3>1
  <2> QED BY <1>1, <2>1, <2>2
<1>11. ASSUME NEW x \in DOMAIN h, NEW y \in DOMAIN h, Older(x, y)
       PROVE  h[x] + Size(x) <= h[y]
  <2>1. CASE x = new /\ y = new
    BY <1>1, <1>11, <2>1, OlderTotal
  <2>2. CASE x = new /\ y # new
    <3>1. y \in D \ {d, e}
      BY <1>7, <2>2
    <3> QED BY <1>1, <1>2, <1>3, <1>6, <1>7, <1>10, <1>11, <2>2, <3>1
  <2>3. CASE x # new /\ y = new
    <3>1. x \in D \ {d, e}
      BY <1>7, <2>3
    <3> QED BY <1>7, <1>10, <1>11, <2>3, <3>1
  <2>4. CASE x # new /\ y # new
    BY <1>2, <1>7, <1>11, <2>4
  <2> QED BY <2>1, <2>2, <2>3, <2>4
<1>12. ASSUME NEW c \in 0..(n - 1)
       PROVE  \E x \in DOMAIN h : h[x] <= c /\ c < h[x] + Size(x)
  <2>1. PICK x \in D : first[x] <= c /\ c < first[x] + Size(x)
    BY DEF Tiling
  <2>2. CASE x \in {d, e}
    <3>1. h[new] <= c /\ c < h[new] + Size(new)
      BY <1>1, <1>2, <1>3, <1>6, <1>7, <2>1, <2>2
    <3> QED BY <1>7, <3>1
  <2>3. CASE x \notin {d, e}
    BY <1>7, <2>1, <2>3
  <2> QED BY <2>2, <2>3
<1> QED BY <1>3, <1>6, <1>9, <1>11, <1>12 DEF Tiling, d, e

(* More chunks at the end. *)
LEMMA Extended ==
  ASSUME NEW first, NEW n \in Nat, Tiling(first, n), NEW k \in Nat, NEW count \in Nat,
         \A x \in DOMAIN first : x[1] = 0 => x[2] <= k,
         NEW h, DOMAIN h = DOMAIN first \union {<<0, k + i>> : i \in 1..count},
         \A x \in DOMAIN first : h[x] = first[x],
         \A i \in 1..count : h[<<0, k + i>>] = n + (i - 1)
  PROVE  Tiling(h, n + count)
<1> DEFINE D == DOMAIN first
           New == {<<0, k + i>> : i \in 1..count}
<1>1. /\ \A x \in D : /\ x \in Nat \X Nat /\ x[1] \in Nat /\ x[2] \in Nat
                      /\ first[x] \in Nat /\ Size(x) \in Nat /\ first[x] + Size(x) <= n
      /\ \A x, y \in D : Older(x, y) => first[x] + Size(x) <= first[y]
  BY SizeType DEF Tiling
<1>2. \A x \in New : /\ x \in Nat \X Nat /\ x[1] = 0 /\ x[2] > k /\ x[2] <= k + count
                     /\ h[x] = n + (x[2] - k - 1) /\ Size(x) = 1
  <2> SUFFICES ASSUME NEW i \in 1..count, NEW x, x = <<0, k + i>>
               PROVE  /\ x \in Nat \X Nat /\ x[1] = 0 /\ x[2] > k /\ x[2] <= k + count
                      /\ h[x] = n + (x[2] - k - 1) /\ Size(x) = 1
    OBVIOUS
  <2>1. x \in Nat \X Nat /\ x[1] = 0 /\ x[2] = k + i /\ h[x] = n + (i - 1)
    OBVIOUS
  <2> QED BY <2>1, Pow2Facts DEF Size
<1>3. DOMAIN h = D \union New /\ \A x \in D : h[x] = first[x]
  OBVIOUS
<1> HIDE DEF New
<1>4. /\ DOMAIN h \subseteq Nat \X Nat
      /\ \A x \in DOMAIN h : h[x] \in Nat /\ h[x] + Size(x) <= n + count
  BY <1>1, <1>2, <1>3
<1>5. ASSUME NEW x \in DOMAIN h, NEW y \in DOMAIN h, Older(x, y)
      PROVE  h[x] + Size(x) <= h[y]
  <2>1. CASE x \in D /\ y \in D
    BY <1>1, <1>3, <1>5, <2>1
  <2>2. CASE x \in D /\ y \in New
    BY <1>1, <1>2, <1>3, <2>2
  <2>3. CASE x \in New /\ y \in D
    <3>1. ~ Older(x, y)
      BY <1>1, <1>2, <2>3 DEF Older
    <3> QED BY <1>5, <3>1
  <2>4. CASE x \in New /\ y \in New
    <3>1. x[1] = 0 /\ y[1] = 0 /\ x[2] \in Nat /\ y[2] \in Nat
      BY <1>2, <2>4
    <3>2. x[2] < y[2]
      BY <1>5, <3>1 DEF Older
    <3>3. h[x] = n + (x[2] - k - 1) /\ h[y] = n + (y[2] - k - 1) /\ Size(x) = 1
      BY <1>2, <2>4
    <3> HIDE DEF D
    <3> QED BY <3>1, <3>2, <3>3
  <2> QED BY <1>3, <2>1, <2>2, <2>3, <2>4
<1>6. ASSUME NEW c \in 0..((n + count) - 1)
      PROVE  \E x \in DOMAIN h : h[x] <= c /\ c < h[x] + Size(x)
  <2>1. CASE c < n
    <3>1. PICK x \in D : first[x] <= c /\ c < first[x] + Size(x)
      BY <2>1 DEF Tiling
    <3> QED BY <1>3, <3>1
  <2>2. CASE c >= n
    <3> DEFINE x == <<0, k + (c - n + 1)>>
    <3>1. c - n + 1 \in 1..count
      BY <2>2
    <3>2. x \in New /\ x[2] = k + (c - n + 1)
      BY <3>1 DEF New
    <3> HIDE DEF x
    <3>3. h[x] = c /\ Size(x) = 1
      BY <1>2, <3>2
    <3> QED BY <1>3, <3>2, <3>3
  <2> QED BY <2>1, <2>2
<1> QED BY <1>4, <1>5, <1>6 DEF Tiling

-----------------------------------------------------------------------------
(* Where chunks lie among the bytes.  Offset is kept folded, so that the   *)
(* provers see products of ChunkLen only here.                             *)
Offset(c) == c * ChunkLen

LEMMA Lengths ==
  /\ ChunkLen \in Nat /\ ChunkLen > 0 /\ BufLen \in Nat /\ BufLen = Offset(Lanes)
  /\ Lanes \in Nat /\ Lanes > 1 /\ MaxBytes \in Nat
<1>1. ChunkLen \in Nat /\ ChunkLen > 0 /\ Lanes \in Nat /\ Lanes > 1 /\ MaxBytes \in Nat
  BY HasherAssumption DEF Tree!ValidLengths
<1> QED BY <1>1 DEF BufLen, Offset

LEMMA OffsetFacts ==
  ASSUME NEW c \in Nat, NEW d \in Nat
  PROVE  /\ Offset(c) \in Nat /\ Offset(c) >= c
         /\ Offset(c + d) = Offset(c) + Offset(d)
         /\ Offset(c + 1) = Offset(c) + ChunkLen
         /\ Offset(0) = 0 /\ Offset(1) = ChunkLen
         /\ c <= d => Offset(c) <= Offset(d)
         /\ c < d => Offset(c) + ChunkLen <= Offset(d)
<1>0. ChunkLen \in Nat /\ ChunkLen > 0
  BY Lengths
<1>1. \A x \in Nat : x * ChunkLen \in Nat /\ x * ChunkLen >= x
  BY <1>0
<1>2. \A x, y \in Int : (x + y) * ChunkLen = x * ChunkLen + y * ChunkLen
  BY <1>0
<1>3. 0 * ChunkLen = 0 /\ 1 * ChunkLen = ChunkLen
  BY <1>0
<1>4. c * ChunkLen \in Nat /\ d * ChunkLen \in Nat
  BY <1>1
<1>5. c <= d => c * ChunkLen <= d * ChunkLen
  <2> SUFFICES ASSUME c <= d PROVE c * ChunkLen <= d * ChunkLen
    OBVIOUS
  <2>1. d - c \in Nat /\ c + (d - c) = d
    OBVIOUS
  <2>2. (c + (d - c)) * ChunkLen = c * ChunkLen + (d - c) * ChunkLen
    BY <1>2, <2>1
  <2>3. (d - c) * ChunkLen \in Nat
    BY <1>1, <2>1
  <2> QED BY <1>4, <2>1, <2>2, <2>3
<1>6. c < d => c * ChunkLen + ChunkLen <= d * ChunkLen
  <2> SUFFICES ASSUME c < d PROVE c * ChunkLen + ChunkLen <= d * ChunkLen
    OBVIOUS
  <2>1. d - c - 1 \in Nat /\ (c + 1) + (d - c - 1) = d
    OBVIOUS
  <2>2. ((c + 1) + (d - c - 1)) * ChunkLen = (c + 1) * ChunkLen + (d - c - 1) * ChunkLen
    BY <1>2, <2>1
  <2>3. (d - c - 1) * ChunkLen \in Nat
    BY <1>1, <2>1
  <2>4. (c + 1) * ChunkLen = c * ChunkLen + ChunkLen
    BY <1>2, <1>3
  <2> QED BY <1>0, <1>4, <2>1, <2>2, <2>3, <2>4
<1>7. (c + d) * ChunkLen = c * ChunkLen + d * ChunkLen
  BY <1>2
<1>8. (c + 1) * ChunkLen = c * ChunkLen + ChunkLen
  <2>1. (c + 1) * ChunkLen = c * ChunkLen + 1 * ChunkLen
    BY <1>2
  <2> QED BY <1>3, <2>1
<1> QED BY <1>1, <1>3, <1>5, <1>6, <1>7, <1>8 DEF Offset

(* Complete is how many chunks come before the last byte of the buffer.    *)
LEMMA CompleteFacts ==
  ASSUME len \in Nat
  PROVE  /\ Complete \in Nat /\ Offset(Complete) \in Nat
         /\ Offset(Complete) <= len /\ len - Offset(Complete) <= ChunkLen
         /\ len > 0 => Offset(Complete) < len
         /\ len <= BufLen => Complete < Lanes
<1>0. ChunkLen \in Nat /\ ChunkLen > 0 /\ Lanes \in Nat /\ Lanes > 0
      /\ BufLen \in Nat /\ BufLen = Offset(Lanes)
  BY Lengths
<1>1. CASE len > ChunkLen
  <2> DEFINE q == (len - 1) \div ChunkLen
  <2>1. q \in Int /\ len - 1 = ChunkLen * q + ((len - 1) % ChunkLen)
        /\ (len - 1) % ChunkLen \in 0..(ChunkLen - 1)
    BY <1>0
  <2>2. Complete = q
    BY <1>1 DEF Complete
  <2> HIDE DEF q
  <2>3. q \in Nat
    <3>1. q <= -1 => ChunkLen * q <= -ChunkLen
      BY <1>0, <2>1
    <3> QED BY <1>0, <1>1, <2>1, <3>1
  <2>4. ChunkLen * q = Offset(q)
    BY <1>0, <2>3 DEF Offset
  <2>5. Offset(q) \in Nat /\ (Lanes <= q => Offset(Lanes) <= Offset(q))
    BY <1>0, <2>3, OffsetFacts
  <2>6. Offset(q) <= len - 1 /\ len - Offset(q) <= ChunkLen
    BY <1>0, <2>1, <2>4, <2>5
  <2>7. len <= BufLen => q < Lanes
    BY <1>0, <2>3, <2>5, <2>6
  <2>8. Offset(q) <= len /\ Offset(q) < len
    BY <2>5, <2>6
  <2> QED BY <2>2, <2>3, <2>5, <2>6, <2>7, <2>8
<1>2. CASE ~ (len > ChunkLen)
  <2>1. Complete = 0 /\ Offset(0) = 0
    BY <1>2, OffsetFacts DEF Complete
  <2> QED BY <1>0, <1>2, <2>1
<1> QED BY <1>1, <1>2

(* A whole chunk of some bytes. *)
LEMMA WholeChunk ==
  ASSUME NEW bytes \in Seq(Int), NEW i \in Nat, Offset(i + 1) <= Len(bytes)
  PROVE  /\ Tree!ChunkAt(bytes, i) \in Seq(Int) /\ Len(Tree!ChunkAt(bytes, i)) = ChunkLen
         /\ \A j \in 1..ChunkLen : Tree!ChunkAt(bytes, i)[j] = bytes[Offset(i) + j]
<1> DEFINE low == Offset(i) + 1
           high == Offset(i) + ChunkLen
<1>1. /\ Offset(i) \in Nat /\ ChunkLen \in Nat /\ ChunkLen > 0 /\ Len(bytes) \in Nat
      /\ Offset(i + 1) = Offset(i) + ChunkLen
  BY Lengths, OffsetFacts, LenProperties
<1>2. Tree!ChunkAt(bytes, i) = SubSeq(bytes, low, high)
  <2>1. (IF Offset(i + 1) < Len(bytes) THEN Offset(i + 1) ELSE Len(bytes)) = high
    BY <1>1
  <2> QED BY <2>1 DEF Tree!ChunkAt, Offset
<1>3. low \in Int /\ high \in Int /\ low <= high /\ high - low + 1 = ChunkLen
  BY <1>1
<1>4. \A j \in low..high : bytes[j] \in Int
  BY <1>1, ElementOfSeq
<1>5. \A j \in 1..ChunkLen : low + j - 1 = Offset(i) + j
  BY <1>1
<1> HIDE DEF low, high
<1> QED BY <1>2, <1>3, <1>4, <1>5, SubSeqProperties

(* The same bytes at another place are the same chunk. *)
LEMMA SameChunk ==
  ASSUME NEW a \in Seq(Int), NEW b \in Seq(Int), NEW i \in Nat, NEW k \in Nat,
         Offset(i + 1) <= Len(a), Offset(k + 1) <= Len(b),
         \A j \in 1..ChunkLen : a[Offset(i) + j] = b[Offset(k) + j]
  PROVE  Tree!ChunkAt(a, i) = Tree!ChunkAt(b, k)
<1>1. /\ Tree!ChunkAt(a, i) \in Seq(Int) /\ Len(Tree!ChunkAt(a, i)) = ChunkLen
      /\ \A j \in 1..ChunkLen : Tree!ChunkAt(a, i)[j] = a[Offset(i) + j]
  BY WholeChunk
<1>2. /\ Tree!ChunkAt(b, k) \in Seq(Int) /\ Len(Tree!ChunkAt(b, k)) = ChunkLen
      /\ \A j \in 1..ChunkLen : Tree!ChunkAt(b, k)[j] = b[Offset(k) + j]
  BY WholeChunk
<1> QED BY <1>1, <1>2, SeqEqual

(* The last chunk, which may be short. *)
LEMMA LastChunk ==
  ASSUME NEW bytes \in Seq(Int), NEW i \in Nat, Len(bytes) <= Offset(i) + ChunkLen
  PROVE  Tree!ChunkAt(bytes, i) = SubSeq(bytes, Offset(i) + 1, Len(bytes))
<1>1. Offset(i + 1) = Offset(i) + ChunkLen /\ Len(bytes) \in Nat /\ Offset(i) \in Nat /\ ChunkLen \in Nat
  BY OffsetFacts, LenProperties, Lengths
<1>2. (IF Offset(i + 1) < Len(bytes) THEN Offset(i + 1) ELSE Len(bytes)) = Len(bytes)
  BY <1>1
<1> QED BY <1>2 DEF Tree!ChunkAt, Offset

-----------------------------------------------------------------------------
(* Where the bytes are that were written: those of the first base chunks   *)
(* have gone to the stack, the next n lie in the buffer, and the rest is   *)
(* what a Write has still to take.  The last byte is never on the stack.   *)
Consuming == pc = "pushing" /\ caller = "writing"
Base == IF Consuming THEN chunks + Lanes ELSE chunks
InBuffer == IF Consuming THEN 0 ELSE len

Lies(base, n) ==
  /\ Len(written) = Offset(base) + n + Len(input)
  /\ \A j \in 1..n : buf[j] = written[Offset(base) + j]
  /\ \A j \in 1..Len(input) : input[j] = written[Offset(base) + n + j]
  /\ written # <<>> => n + Len(input) > 0

ByteType ==
  /\ pc \in {"idle", "writing", "pushing", "flushing"} /\ caller \in {"writing", "finalizing"}
  /\ chunks \in Nat /\ len \in 0..BufLen
  /\ buf \in Seq(Int) /\ Len(buf) = BufLen
  /\ written \in Seq(Int) /\ Len(written) <= MaxBytes
  /\ input \in Seq(Int) /\ starts \in Nat

CallInv ==
  /\ pc = "idle" => input = <<>>
  /\ pc \in {"pushing", "flushing"} /\ caller = "finalizing" => input = <<>> /\ len > 0
  /\ pc = "flushing" => /\ caller = "finalizing" /\ len <= ChunkLen
                        /\ digest = Tree!ChunkNode(mode, chunks, Buffered)

ByteInv == ByteType /\ CallInv /\ Lies(Base, InBuffer)

LEMMA Empty == <<>> \in Seq(Int) /\ Len(<<>>) = 0 /\ 1..0 = {}
BY EmptySeq

LEMMA ByteInit == Init => ByteInv
<1> SUFFICES ASSUME Init PROVE ByteInv
  OBVIOUS
<1>1. /\ len = 0 /\ chunks = 0 /\ buf = [i \in 1..BufLen |-> 0] /\ pc = "idle"
      /\ caller = "writing" /\ input = <<>> /\ written = <<>> /\ starts = 1
  BY DEF Init
<1>2. BufLen \in Nat /\ MaxBytes \in Nat /\ Offset(0) = 0
  BY Lengths, OffsetFacts
<1>3. buf \in Seq(Int) /\ Len(buf) = BufLen
  BY <1>1, <1>2
<1>4. ByteType
  BY <1>1, <1>2, <1>3, Empty DEF ByteType
<1>5. CallInv
  BY <1>1 DEF CallInv
<1>6. Base = 0 /\ InBuffer = 0
  BY <1>1 DEF Base, InBuffer, Consuming
<1>7. Lies(0, 0)
  BY <1>1, <1>2, Empty DEF Lies
<1> QED BY <1>4, <1>5, <1>6, <1>7 DEF ByteInv

(* Most steps of a call leave the bytes alone. *)
LEMMA ByteKept ==
  ASSUME ByteInv, UNCHANGED <<mode, bufferVars, pc, caller, input, written, starts, digest>>
  PROVE  ByteInv'
BY DEF ByteInv, ByteType, CallInv, Lies, Base, InBuffer, Consuming, Buffered, bufferVars

LEMMA CallWriteBytes ==
  ASSUME ByteInv, NEW n \in WriteSizes, CallWrite(n)
  PROVE  ByteInv'
<1>0. n \in Nat /\ MaxBytes \in Nat
  BY HasherAssumption
<1>1. /\ pc = "idle" /\ pc' = "writing" /\ Len(written) + n <= MaxBytes
      /\ input' = Fresh(n) /\ written' = written \o Fresh(n)
      /\ UNCHANGED <<mode, len, chunks, buf, caller, digest, starts>>
  BY DEF CallWrite, bufferVars
<1>2. ByteType /\ input = <<>> /\ Lies(chunks, len)
  BY <1>1 DEF ByteInv, CallInv, Base, InBuffer, Consuming
<1>3. /\ chunks \in Nat /\ Offset(chunks) \in Nat /\ len \in Nat /\ written \in Seq(Int)
      /\ Len(written) \in Nat /\ starts \in Nat
  BY <1>2, OffsetFacts, LenProperties, Lengths DEF ByteType
<1>4. /\ Fresh(n) \in Seq(Int) /\ Len(Fresh(n)) = n
  <2>1. \A i \in 1..n : starts * MaxBytes + Len(written) + i \in Int
    BY <1>0, <1>3
  <2> QED BY <1>0, <2>1 DEF Fresh
<1>5. Len(written) = Offset(chunks) + len
  BY <1>2, <1>3, Empty DEF Lies
<1>6. /\ written' \in Seq(Int) /\ Len(written') = Len(written) + n
      /\ \A i \in 1..(Len(written) + n) :
           written'[i] = IF i <= Len(written) THEN written[i] ELSE input'[i - Len(written)]
  BY <1>1, <1>3, <1>4, ConcatProperties
<1>7. Lies(chunks, len)'
  <2>1. Len(input') = n /\ Len(written') = Offset(chunks) + len + n
    BY <1>1, <1>3, <1>4, <1>5, <1>6
  <2>2. ASSUME NEW j \in 1..len PROVE buf[j] = written'[Offset(chunks) + j]
    <3> DEFINE k == Offset(chunks) + j
    <3>1. k \in 1..(Len(written) + n) /\ k <= Len(written)
      BY <1>0, <1>3, <1>5
    <3>2. buf[j] = written[k]
      BY <1>2 DEF Lies
    <3> HIDE DEF k
    <3>3. written'[k] = written[k]
      BY <1>6, <3>1
    <3> QED BY <3>2, <3>3 DEF k
  <2>3. ASSUME NEW j \in 1..n PROVE input'[j] = written'[Offset(chunks) + len + j]
    <3> DEFINE k == Offset(chunks) + len + j
    <3>1. k \in 1..(Len(written) + n) /\ ~ (k <= Len(written)) /\ k - Len(written) = j
      BY <1>0, <1>3, <1>5, SMTT(30)
    <3> HIDE DEF k
    <3>2. written'[k] = input'[k - Len(written)]
      BY <1>6, <3>1
    <3>3. written'[k] = input'[j]
      BY <3>1, <3>2, Zenon
    <3> QED BY <3>3 DEF k
  <2>4. written' # <<>> => len + n > 0
    <3> SUFFICES ASSUME len + n = 0 PROVE written' = <<>>
      BY <1>0, <1>3
    <3>1. n = 0 /\ len = 0
      BY <1>0, <1>3
    <3>2. written = <<>>
      BY <1>2, <3>1, Empty DEF Lies
    <3>3. Len(written') = 0
      BY <1>6, <3>1, <3>2, Empty
    <3> QED BY <1>6, <3>3, EmptySeq
  <2> QED BY <1>1, <2>1, <2>2, <2>3, <2>4 DEF Lies
<1>8. ByteType'
  BY <1>1, <1>2, <1>4, <1>6, <1>0, <1>3 DEF ByteType
<1>9. CallInv' /\ Base' = chunks' /\ InBuffer' = len'
  BY <1>1 DEF CallInv, Base, InBuffer, Consuming
<1> QED BY <1>7, <1>8, <1>9 DEF ByteInv, Lies

LEMMA CallDigestBytes ==
  ASSUME ByteInv, CallDigest
  PROVE  ByteInv'
<1>1. /\ pc = "idle" /\ pc' = "pushing" /\ caller' = "finalizing"
      /\ ~(chunks = 0 /\ len <= ChunkLen)
      /\ UNCHANGED <<mode, len, chunks, buf, input, digest, written, starts>>
  BY DEF CallDigest, bufferVars
<1>2. ByteType /\ input = <<>> /\ Lies(chunks, len)
  BY <1>1 DEF ByteInv, CallInv, Base, InBuffer, Consuming
<1>3. len > 0
  <2> SUFFICES ASSUME len = 0 PROVE FALSE
    BY <1>2, Lengths DEF ByteType
  <2>1. chunks \in Nat /\ chunks > 0 /\ Offset(chunks) >= chunks /\ Offset(chunks) \in Nat
    BY <1>1, <1>2, Lengths, OffsetFacts DEF ByteType
  <2>2. Len(written) > 0
    BY <1>2, <2>1, Empty DEF Lies
  <2> QED BY <1>2, <2>2, Empty DEF Lies
<1>4. ByteType' /\ CallInv' /\ Base' = chunks /\ InBuffer' = len
  BY <1>1, <1>2, <1>3 DEF ByteType, CallInv, Base, InBuffer, Consuming
<1> QED BY <1>1, <1>2, <1>4 DEF ByteInv, Lies

LEMMA ClearBytes ==
  ASSUME ByteInv, Clear
  PROVE  ByteInv'
<1>1. /\ pc = "idle" /\ pc' = pc /\ len' = 0 /\ chunks' = 0 /\ written' = <<>>
      /\ starts' = starts + 1 /\ UNCHANGED <<buf, caller, input, digest>>
  BY DEF Clear, callVars
<1>2. ByteType /\ input = <<>>
  BY <1>1 DEF ByteInv, CallInv
<1>3. ByteType' /\ CallInv' /\ Base' = 0 /\ InBuffer' = 0
  BY <1>1, <1>2, Empty, Lengths DEF ByteType, CallInv, Base, InBuffer, Consuming
<1>4. Offset(0) = 0
  BY OffsetFacts
<1> QED BY <1>1, <1>2, <1>3, <1>4, Empty DEF ByteInv, Lies

(* Part of a sequence. *)
LEMMA Part ==
  ASSUME NEW s \in Seq(Int), NEW k \in Nat, NEW m \in Nat, k <= m, m <= Len(s)
  PROVE  /\ SubSeq(s, k + 1, m) \in Seq(Int) /\ Len(SubSeq(s, k + 1, m)) = m - k
         /\ \A j \in 1..(m - k) : SubSeq(s, k + 1, m)[j] = s[k + j]
<1>1. Len(s) \in Nat
  BY LenProperties
<1>2. \A j \in (k + 1)..m : s[j] \in Int
  BY <1>1, ElementOfSeq
<1>3. CASE k < m
  <2>1. /\ SubSeq(s, k + 1, m) \in Seq(Int) /\ Len(SubSeq(s, k + 1, m)) = m - (k + 1) + 1
        /\ \A j \in 1..(m - (k + 1) + 1) : SubSeq(s, k + 1, m)[j] = s[(k + 1) + j - 1]
    BY <1>2, <1>3, SubSeqProperties, SMTT(30)
  <2>2. m - (k + 1) + 1 = m - k /\ \A j \in 1..(m - k) : (k + 1) + j - 1 = k + j
    OBVIOUS
  <2> QED BY <2>1, <2>2
<1>4. CASE k = m
  <2>1. SubSeq(s, k + 1, m) = <<>>
    BY <1>4, <1>2, SubSeqProperties
  <2> QED BY <1>4, <2>1, Empty
<1> QED BY <1>3, <1>4

LEMMA ConsumeInputBytes ==
  ASSUME ByteInv, ConsumeInput
  PROVE  ByteInv'
<1>1. /\ pc = "writing" /\ len = 0 /\ Len(input) > BufLen
      /\ input' = SubSeq(input, BufLen + 1, Len(input))
      /\ pc' = "pushing" /\ caller' = "writing"
      /\ UNCHANGED <<mode, len, chunks, buf, written, starts, digest>>
  BY DEF ConsumeInput, Consume, Direct, bufferVars
<1>2. ByteType /\ Lies(chunks, 0)
  BY <1>1 DEF ByteInv, Base, InBuffer, Consuming
<1>3. /\ chunks \in Nat /\ Offset(chunks) \in Nat /\ Len(input) \in Nat /\ input \in Seq(Int)
      /\ BufLen \in Nat /\ Offset(chunks + Lanes) = Offset(chunks) + BufLen
  BY <1>2, OffsetFacts, LenProperties, Lengths DEF ByteType
<1>4. /\ input' \in Seq(Int) /\ Len(input') = Len(input) - BufLen
      /\ \A j \in 1..(Len(input) - BufLen) : input'[j] = input[BufLen + j]
  BY <1>1, <1>3, Part, SMTT(30)
<1>5. ByteType' /\ CallInv' /\ Base' = chunks + Lanes /\ InBuffer' = 0
  BY <1>1, <1>2, <1>4 DEF ByteType, CallInv, Base, InBuffer, Consuming
<1>6. Len(written) = Offset(chunks + Lanes) + 0 + Len(input')
  BY <1>2, <1>3, <1>4 DEF Lies
<1>7. ASSUME NEW j \in 1..Len(input') PROVE input'[j] = written[Offset(chunks + Lanes) + 0 + j]
  <2>1. BufLen + j \in 1..Len(input) /\ Offset(chunks) + 0 + (BufLen + j) = Offset(chunks + Lanes) + 0 + j
    BY <1>3, <1>4
  <2>2. input[BufLen + j] = written[Offset(chunks) + 0 + (BufLen + j)]
    BY <1>2, <2>1 DEF Lies
  <2> QED BY <1>4, <2>1, <2>2
<1>8. 0 + Len(input') > 0
  BY <1>1, <1>3, <1>4
<1>9. Lies(Base, InBuffer)'
  <2> DEFINE base == chunks + Lanes
  <2>1. /\ Len(written) = Offset(base) + 0 + Len(input')
        /\ \A j \in 1..Len(input') : input'[j] = written[Offset(base) + 0 + j]
        /\ 0 + Len(input') > 0 /\ Base' = base /\ InBuffer' = 0
    BY <1>5, <1>6, <1>7, <1>8
  <2> HIDE DEF base
  <2> QED BY <1>1, <2>1, Empty DEF Lies
<1> QED BY <1>5, <1>9 DEF ByteInv

LEMMA CopyInBytes ==
  ASSUME ByteInv, CopyIn
  PROVE  ByteInv'
<1> DEFINE n == IF Len(input) < BufLen - len THEN Len(input) ELSE BufLen - len
<1>1. /\ pc = "writing" /\ len < BufLen
      /\ buf' = [i \in DOMAIN buf |->
                   IF i \in (len + 1)..(len + n) THEN input[i - len] ELSE buf[i]]
      /\ len' = len + n
      /\ input' = SubSeq(input, n + 1, Len(input))
      /\ UNCHANGED <<mode, chunks, pc, caller, written, starts, digest>>
  BY DEF CopyIn
<1>2. ByteType /\ Lies(chunks, len)
  BY <1>1 DEF ByteInv, Base, InBuffer, Consuming
<1>3. /\ chunks \in Nat /\ Offset(chunks) \in Nat /\ Len(input) \in Nat /\ input \in Seq(Int)
      /\ BufLen \in Nat /\ len \in Nat /\ buf \in Seq(Int) /\ Len(buf) = BufLen
      /\ DOMAIN buf = 1..BufLen
  BY <1>2, OffsetFacts, LenProperties, Lengths DEF ByteType
<1>4. n \in Nat /\ n <= Len(input) /\ len + n <= BufLen
  BY <1>1, <1>3
<1> HIDE DEF n
<1>5. /\ input' \in Seq(Int) /\ Len(input') = Len(input) - n
      /\ \A j \in 1..(Len(input) - n) : input'[j] = input[n + j]
  BY <1>1, <1>3, <1>4, Part
<1>6. buf' \in Seq(Int) /\ Len(buf') = BufLen
  <2>1. \A i \in (len + 1)..(len + n) : i - len \in 1..Len(input)
    BY <1>3, <1>4
  <2>2. \A i \in 1..Len(input) : input[i] \in Int
    BY <1>3, ElementOfSeq
  <2>3. \A i \in 1..BufLen : buf[i] \in Int
    BY <1>3, ElementOfSeq
  <2>4. buf' \in [1..BufLen -> Int]
    BY <1>1, <1>3, <2>1, <2>2, <2>3
  <2> QED BY <1>3, <2>4
<1>7. ByteType' /\ CallInv' /\ Base' = chunks /\ InBuffer' = len + n
  BY <1>1, <1>2, <1>3, <1>4, <1>5, <1>6 DEF ByteType, CallInv, Base, InBuffer, Consuming
<1>8. Len(written) = Offset(chunks) + (len + n) + Len(input')
  BY <1>2, <1>3, <1>4, <1>5 DEF Lies
<1>9. ASSUME NEW j \in 1..(len + n) PROVE buf'[j] = written[Offset(chunks) + j]
  <2>1. j \in 1..BufLen
    BY <1>3, <1>4
  <2>2. CASE j <= len
    <3>1. j \notin (len + 1)..(len + n) /\ j \in 1..len
      BY <1>3, <1>4, <2>2
    <3>2. buf[j] = written[Offset(chunks) + j]
      BY <1>2, <3>1 DEF Lies
    <3> QED BY <1>1, <1>3, <2>1, <3>1, <3>2
  <2>3. CASE j > len
    <3>1. /\ j \in (len + 1)..(len + n) /\ j - len \in 1..Len(input)
          /\ Offset(chunks) + len + (j - len) = Offset(chunks) + j
      BY <1>3, <1>4, <2>3
    <3>2. input[j - len] = written[Offset(chunks) + len + (j - len)]
      BY <1>2, <3>1 DEF Lies
    <3>3. buf'[j] = input[j - len]
      BY <1>1, <1>3, <2>1, <3>1
    <3> QED BY <3>1, <3>2, <3>3
  <2> QED BY <1>3, <1>4, <2>2, <2>3
<1>10. ASSUME NEW j \in 1..Len(input') PROVE input'[j] = written[Offset(chunks) + (len + n) + j]
  <2>1. n + j \in 1..Len(input) /\ Offset(chunks) + len + (n + j) = Offset(chunks) + (len + n) + j
    BY <1>3, <1>4, <1>5
  <2>2. input[n + j] = written[Offset(chunks) + len + (n + j)]
    BY <1>2, <2>1 DEF Lies
  <2> QED BY <1>5, <2>1, <2>2
<1>11. written # <<>> => (len + n) + Len(input') > 0
  BY <1>2, <1>3, <1>4, <1>5 DEF Lies
<1>12. Lies(Base, InBuffer)'
  <2> DEFINE base == chunks
             all == len + n
  <2>1. /\ Len(written) = Offset(base) + all + Len(input')
        /\ \A j \in 1..all : buf'[j] = written[Offset(base) + j]
        /\ \A j \in 1..Len(input') : input'[j] = written[Offset(base) + all + j]
        /\ written # <<>> => all + Len(input') > 0
    BY <1>8, <1>9, <1>10, <1>11
  <2>2. Base' = base /\ InBuffer' = all
    BY <1>7
  <2> HIDE DEF base, all
  <2> QED BY <1>1, <2>1, <2>2 DEF Lies
<1> QED BY <1>7, <1>12 DEF ByteInv

LEMMA ConsumeBufferBytes ==
  ASSUME ByteInv, ConsumeBuffer
  PROVE  ByteInv'
<1>1. /\ pc = "writing" /\ len = BufLen /\ input # <<>>
      /\ pc' = "pushing" /\ caller' = "writing"
      /\ UNCHANGED <<mode, len, chunks, buf, input, written, starts, digest>>
  BY DEF ConsumeBuffer, Consume, bufferVars
<1>2. ByteType /\ Lies(chunks, BufLen)
  BY <1>1 DEF ByteInv, Base, InBuffer, Consuming
<1>3. /\ chunks \in Nat /\ Offset(chunks) \in Nat /\ Len(input) \in Nat /\ Len(input) > 0
      /\ BufLen \in Nat /\ Offset(chunks + Lanes) = Offset(chunks) + BufLen
  <2>1. input \in Seq(Int) /\ chunks \in Nat
    BY <1>2 DEF ByteType
  <2>2. Len(input) \in Nat /\ Len(input) # 0
    BY <1>1, <2>1, LenProperties, EmptySeq
  <2>3. Lanes \in Nat /\ BufLen \in Nat /\ BufLen = Offset(Lanes)
    BY Lengths
  <2>4. Offset(chunks) \in Nat /\ Offset(chunks + Lanes) = Offset(chunks) + Offset(Lanes)
    BY <2>1, <2>3, OffsetFacts
  <2>5. Len(input) > 0
    BY <2>2
  <2> QED BY <2>1, <2>2, <2>3, <2>4, <2>5
<1>4. ByteType' /\ CallInv' /\ Base' = chunks + Lanes /\ InBuffer' = 0
  BY <1>1, <1>2 DEF ByteType, CallInv, Base, InBuffer, Consuming
<1>5. /\ Len(written) = Offset(chunks + Lanes) + 0 + Len(input)
      /\ \A j \in 1..Len(input) : input[j] = written[Offset(chunks + Lanes) + 0 + j]
      /\ 0 + Len(input) > 0
  BY <1>2, <1>3 DEF Lies
<1>6. Lies(Base, InBuffer)'
  BY <1>1, <1>2, <1>4, <1>5 DEF Lies
<1> QED BY <1>4, <1>6 DEF ByteInv

(* What finalizeDigest leaves in the buffer is the last chunk. *)
LEMMA FoldBufferBytes ==
  ASSUME ByteInv, FoldBuffer
  PROVE  ByteInv'
<1> DEFINE last == SubSeq(buf, Complete * ChunkLen + 1, len)
<1>1. /\ pc = "pushing" /\ caller = "finalizing" /\ pc' = "flushing"
      /\ digest' = Tree!ChunkNode(mode, chunks + Complete, last)
      /\ chunks' = chunks + Complete
      /\ buf' = [i \in DOMAIN buf |-> IF i <= Len(last) THEN last[i] ELSE buf[i]]
      /\ len' = Len(last)
      /\ UNCHANGED <<mode, caller, input, written, starts>>
  BY DEF FoldBuffer, Pushed
<1>2. ByteType /\ Lies(chunks, len) /\ input = <<>> /\ len > 0
  BY <1>1 DEF ByteInv, CallInv, Base, InBuffer, Consuming
<1> DEFINE skip == Offset(Complete)
<1>3. /\ chunks \in Nat /\ Offset(chunks) \in Nat /\ ChunkLen \in Nat
      /\ BufLen \in Nat /\ len \in Nat /\ len <= BufLen /\ buf \in Seq(Int) /\ Len(buf) = BufLen
      /\ DOMAIN buf = 1..BufLen
  BY <1>2, OffsetFacts, LenProperties, Lengths DEF ByteType
<1>4. /\ skip \in Nat /\ skip < len /\ len - skip <= ChunkLen /\ Complete \in Nat
  BY <1>2, <1>3, CompleteFacts
<1>5. Offset(chunks + Complete) = Offset(chunks) + skip
  BY <1>3, <1>4, OffsetFacts
<1>6. last = SubSeq(buf, skip + 1, len)
  BY DEF Offset
<1> HIDE DEF last, skip
<1>7. /\ last \in Seq(Int) /\ Len(last) = len - skip
      /\ \A j \in 1..(len - skip) : last[j] = buf[skip + j]
  BY <1>3, <1>4, <1>6, Part, SMTT(30)
<1>8. buf' \in Seq(Int) /\ Len(buf') = BufLen /\ \A j \in 1..Len(last) : buf'[j] = last[j]
  <2>1. \A i \in 1..Len(last) : last[i] \in Int
    BY <1>7, ElementOfSeq
  <2>2. \A i \in 1..BufLen : buf[i] \in Int
    BY <1>3, ElementOfSeq
  <2>3. buf' \in [1..BufLen -> Int]
    BY <1>1, <1>3, <1>4, <1>7, <2>1, <2>2
  <2>4. \A j \in 1..Len(last) : j \in 1..BufLen /\ j <= Len(last)
    BY <1>3, <1>4, <1>7
  <2> QED BY <1>1, <1>3, <2>3, <2>4
<1>9. Buffered' = last
  <2>1. /\ SubSeq(buf', 0 + 1, Len(last)) \in Seq(Int) /\ Len(SubSeq(buf', 0 + 1, Len(last))) = Len(last) - 0
        /\ \A j \in 1..(Len(last) - 0) : SubSeq(buf', 0 + 1, Len(last))[j] = buf'[0 + j]
    <3>1. 0 \in Nat /\ Len(last) \in Nat /\ 0 <= Len(last) /\ Len(last) <= Len(buf')
      BY <1>3, <1>4, <1>7, <1>8
    <3> QED BY <1>8, <3>1, Part
  <2>2. Len(last) \in Nat /\ 0 + 1 = 1 /\ Len(last) - 0 = Len(last) /\ \A j \in 1..Len(last) : 0 + j = j
    BY <1>3, <1>4, <1>7
  <2>3. Buffered' = SubSeq(buf', 1, Len(last))
    BY <1>1 DEF Buffered
  <2>4. /\ Buffered' \in Seq(Int) /\ Len(Buffered') = Len(last)
        /\ \A j \in 1..Len(last) : Buffered'[j] = last[j]
    BY <1>8, <2>1, <2>2, <2>3
  <2> QED BY <1>7, <2>4, SeqEqual
<1>10. ByteType'
  BY <1>1, <1>2, <1>3, <1>4, <1>7, <1>8 DEF ByteType
<1>11. CallInv' /\ Base' = chunks + Complete /\ InBuffer' = Len(last)
  BY <1>1, <1>2, <1>3, <1>4, <1>7, <1>9 DEF CallInv, Base, InBuffer, Consuming
<1>12. Len(written) = Offset(chunks + Complete) + Len(last) + Len(input)
  BY <1>2, <1>3, <1>4, <1>5, <1>7, Empty DEF Lies
<1>13. ASSUME NEW j \in 1..Len(last) PROVE buf'[j] = written[Offset(chunks + Complete) + j]
  <2>1. skip + j \in 1..len /\ Offset(chunks) + (skip + j) = Offset(chunks + Complete) + j
    BY <1>3, <1>4, <1>5, <1>7
  <2>2. buf[skip + j] = written[Offset(chunks) + (skip + j)]
    BY <1>2, <2>1 DEF Lies
  <2>3. buf'[j] = buf[skip + j]
    BY <1>7, <1>8
  <2> QED BY <2>1, <2>2, <2>3
<1>14. Len(last) + Len(input) > 0
  BY <1>2, <1>3, <1>4, <1>7, Empty
<1>15. Lies(Base, InBuffer)'
  <2> DEFINE base == chunks + Complete
             count == Len(last)
  <2>1. /\ Len(written) = Offset(base) + count + Len(input)
        /\ \A j \in 1..count : buf'[j] = written[Offset(base) + j]
        /\ input = <<>> /\ count + Len(input) > 0
    BY <1>2, <1>12, <1>13, <1>14
  <2>2. Base' = base /\ InBuffer' = count
    BY <1>11
  <2> HIDE DEF base, count
  <2> QED BY <1>1, <2>1, <2>2, Empty DEF Lies
<1> QED BY <1>10, <1>11, <1>15 DEF ByteInv

LEMMA ByteStep == ByteInv /\ [Next]_vars => ByteInv'
<1> SUFFICES ASSUME ByteInv, [Next]_vars PROVE ByteInv'
  OBVIOUS
<1>1. CASE WriteReturns
  <2>1. /\ pc = "writing" /\ input = <<>> /\ pc' = "idle"
        /\ UNCHANGED <<mode, len, chunks, buf, caller, input, written, starts>>
    BY <1>1 DEF WriteReturns, bufferVars
  <2> QED BY <2>1 DEF ByteInv, ByteType, CallInv, Lies, Base, InBuffer, Consuming
<1>2. CASE ConsumeReturns
  <2>1. /\ pc = "pushing" /\ caller = "writing" /\ len' = 0 /\ chunks' = chunks + Lanes
        /\ pc' = "writing" /\ UNCHANGED <<mode, buf, caller, input, written, starts>>
    BY <1>2 DEF ConsumeReturns, Pushed
  <2>2. ByteType' /\ CallInv' /\ Base' = Base /\ InBuffer' = InBuffer
    BY <2>1, Lengths DEF ByteInv, ByteType, CallInv, Base, InBuffer, Consuming
  <2>3. InBuffer = 0
    BY <2>1 DEF InBuffer, Consuming
  <2> QED BY <2>1, <2>2, <2>3 DEF ByteInv, Lies
<1>3. CASE DigestReturns
  <2>1. /\ pc = "flushing" /\ pc' = "idle"
        /\ UNCHANGED <<mode, len, chunks, buf, caller, input, written, starts>>
    BY <1>3 DEF DigestReturns, bufferVars
  <2> QED BY <2>1 DEF ByteInv, ByteType, CallInv, Lies, Base, InBuffer, Consuming
<1>4. CASE PushVector \/ FlushFull \/ PushParent \/ FlushRest \/ DigestSmall
  <2>1. UNCHANGED <<mode, bufferVars, pc, caller, input, written, starts, digest>>
    BY <1>4 DEF PushVector, FlushFull, PushParent, FlushRest, DigestSmall, callVars
  <2> QED BY <2>1, ByteKept
<1>5. CASE UNCHANGED vars
  BY <1>5, ByteKept DEF vars, bufferVars
<1>6. CASE Reset \/ DeriveKey
  BY <1>6, ClearBytes DEF Reset, DeriveKey
<1> QED BY <1>1, <1>2, <1>3, <1>4, <1>5, <1>6, CallWriteBytes, CallDigestBytes, ConsumeInputBytes,
           CopyInBytes, ConsumeBufferBytes, FoldBufferBytes DEF Next, Step

-----------------------------------------------------------------------------
(* The shape of the stack and of what is still to be pushed.               *)
ShapeInv ==
  /\ IsSequence(vectors) /\ Len(vectors) <= Lanes
  /\ pc # "pushing" => vectors = <<>>
  /\ occ \subseteq Nat /\ DOMAIN stack = Levels
  /\ \A i \in 1..Len(parents) : parents[i].level \in Nat \ {0}
  /\ \A i \in 1..Len(pairs) : pairs[i].level \in Nat

(* A sequence, taken apart at its head and at its end. *)
LEMMA Entries ==
  ASSUME NEW s, IsSequence(s)
  PROVE  /\ Len(s) \in Nat /\ DOMAIN s = 1..Len(s) /\ (Len(s) = 0 <=> s = <<>>)
         /\ \A x : \A i \in 1..Len(s) : Append(s, x)[i] = s[i]
         /\ \A x : Append(s, x)[Len(s) + 1] = x
         /\ s # <<>> => /\ Head(s) = s[1] /\ Len(s) > 0
                        /\ \A i \in 1..(Len(s) - 1) : Tail(s)[i] = s[i + 1]
<1>1. PICK S : s \in Seq(S)
  BY DEF IsSequence
<1>2. Len(s) \in Nat /\ DOMAIN s = 1..Len(s) /\ (Len(s) = 0 <=> s = <<>>)
  BY <1>1, LenProperties, EmptySeq
<1>3. ASSUME NEW x
      PROVE  (\A i \in 1..Len(s) : Append(s, x)[i] = s[i]) /\ Append(s, x)[Len(s) + 1] = x
  <2>1. s \in Seq(S \union {x}) /\ x \in S \union {x}
    BY <1>1
  <2> QED BY <2>1, AppendProperties
<1>4. ASSUME s # <<>>
      PROVE  /\ Head(s) = s[1] /\ Len(s) > 0
             /\ \A i \in 1..(Len(s) - 1) : Tail(s)[i] = s[i + 1]
  <2>1. Len(Tail(s)) = Len(s) - 1 /\ \A i \in 1..Len(Tail(s)) : Tail(s)[i] = s[i + 1]
    BY <1>1, <1>4, HeadTailProperties
  <2> QED BY <1>1, <1>2, <1>4, <2>1
<1> QED BY <1>2, <1>3, <1>4

LEMMA ShapeInit == Init => ShapeInv
<1> SUFFICES ASSUME Init PROVE ShapeInv
  OBVIOUS
<1>1. vectors = <<>> /\ occ = {} /\ DOMAIN stack = Levels /\ parents = <<>> /\ pairs = <<>>
  BY DEF Init
<1> QED BY <1>1, EmptyIsSequence, Lengths DEF ShapeInv

(* The steps that push nothing. *)
LEMMA ShapeKept ==
  ASSUME ShapeInv, UNCHANGED <<stackVars, parents, vectors>>, pc' # "pushing" => vectors = <<>>
  PROVE  ShapeInv'
BY DEF ShapeInv, IsSequence, stackVars

LEMMA ShapePush ==
  ASSUME IsSequence(pairs), occ \subseteq Nat, DOMAIN stack = Levels,
         \A i \in 1..Len(pairs) : pairs[i].level \in Nat,
         NEW level \in Nat, NEW value, PushL(level, value)
  PROVE  /\ occ' \subseteq Nat /\ DOMAIN stack' = Levels
         /\ \A i \in 1..Len(pairs') : pairs'[i].level \in Nat
<1>1. CASE level \in occ
  <2> DEFINE pair == [level |-> level, left |-> stack[level], right |-> value]
  <2>1. pairs' = Append(pairs, pair) /\ occ' = occ \ {level} /\ stack' = stack
    BY <1>1 DEF PushL
  <2>2. pair.level = level
    OBVIOUS
  <2> HIDE DEF pair
  <2>3. /\ Len(pairs) \in Nat /\ Len(pairs') = Len(pairs) + 1
        /\ \A i \in 1..Len(pairs) : pairs'[i] = pairs[i]
        /\ pairs'[Len(pairs) + 1] = pair
    BY <2>1, Entries, AppendedIsSequence
  <2> QED BY <2>1, <2>2, <2>3
<1>2. CASE level \notin occ
  BY <1>2 DEF PushL
<1> QED BY <1>1, <1>2

LEMMA ShapeTake ==
  ASSUME IsSequence(pairs), \A i \in 1..Len(pairs) : pairs[i].level \in Nat, TakePairs
  PROVE  /\ \A i \in 1..Len(parents') : parents'[i].level \in Nat \ {0}
         /\ \A i \in 1..Len(pairs') : pairs'[i].level \in Nat
         /\ UNCHANGED <<occ, stack>>
<1>1. Len(pairs) \in Nat /\ Len(parents') = Len(pairs) /\ pairs' = <<>>
  BY Entries, TakePairsKeepsCount
<1>2. ASSUME NEW i \in 1..Len(pairs) PROVE parents'[i].level \in Nat \ {0}
  <2>1. parents'[i].level = pairs[i].level + 1
    BY DEF TakePairs, HashP
  <2> QED BY <2>1
<1> QED BY <1>1, <1>2, EmptyIsSequence DEF TakePairs

(* The values of some chunks, as HashF gives them. *)
LEMMA HashFIsSequence ==
  ASSUME NEW bytes, NEW count \in Nat
  PROVE  /\ IsSequence(HashF(bytes, count)) /\ Len(HashF(bytes, count)) = count
         /\ \A i \in 1..count : HashF(bytes, count)[i] = ChunkValue(bytes, i - 1)
<1> DEFINE S == {ChunkValue(bytes, i - 1) : i \in 1..count}
<1>1. HashF(bytes, count) \in [1..count -> S]
  BY DEF HashF
<1> HIDE DEF S
<1>2. HashF(bytes, count) \in Seq(S)
  BY <1>1
<1>3. Len(HashF(bytes, count)) = count
  BY DEF HashF
<1>4. \A i \in 1..count : HashF(bytes, count)[i] = ChunkValue(bytes, i - 1)
  BY DEF HashF
<1> QED BY <1>2, <1>3, <1>4 DEF IsSequence

LEMMA ShapeStep == PairsInv /\ ByteInv /\ ShapeInv /\ [Next]_vars => ShapeInv'
<1> SUFFICES ASSUME PairsInv, ByteInv, ShapeInv, [Next]_vars PROVE ShapeInv'
  OBVIOUS
<1>0. /\ IsSequence(pairs) /\ IsSequence(parents) /\ IsSequence(vectors)
      /\ occ \subseteq Nat /\ DOMAIN stack = Levels /\ Len(vectors) <= Lanes
      /\ \A i \in 1..Len(parents) : parents[i].level \in Nat \ {0}
      /\ \A i \in 1..Len(pairs) : pairs[i].level \in Nat
      /\ Lanes \in Nat /\ Len(parents) \in Nat /\ Len(vectors) \in Nat
  BY Entries, Lengths DEF PairsInv, ShapeInv
<1>1. CASE (\E n \in WriteSizes : CallWrite(n)) \/ DigestSmall \/ WriteReturns \/ CopyIn
  <2>1. UNCHANGED <<stackVars, parents, vectors>> /\ pc' # "pushing" /\ pc # "pushing"
    BY <1>1 DEF CallWrite, DigestSmall, WriteReturns, CopyIn, callVars
  <2> QED BY <2>1, ShapeKept DEF ShapeInv
<1>2. CASE ConsumeReturns \/ FoldBuffer \/ DigestReturns
  <2>1. UNCHANGED <<stackVars, parents, vectors>> /\ pc' # "pushing"
        /\ (pc # "pushing" \/ vectors = <<>>)
    BY <1>2 DEF ConsumeReturns, FoldBuffer, DigestReturns, Pushed, callVars
  <2> QED BY <2>1, ShapeKept DEF ShapeInv
<1>3. CASE UNCHANGED vars
  BY <1>3, ShapeKept DEF vars, ShapeInv, stackVars
<1>H. ASSUME ConsumeInput \/ ConsumeBuffer \/ CallDigest
      PROVE  IsSequence(vectors') /\ Len(vectors') <= Lanes
  <2>1. CASE ConsumeInput
    <3>1. vectors' = HashF(SubSeq(input, 1, BufLen), Lanes)
      BY <2>1 DEF ConsumeInput, Consume
    <3> QED BY <1>0, <3>1, HashFIsSequence
  <2>2. CASE ConsumeBuffer
    <3>1. vectors' = HashF(buf, Lanes)
      BY <2>2 DEF ConsumeBuffer, Consume
    <3> QED BY <1>0, <3>1, HashFIsSequence
  <2>3. CASE CallDigest
    <3>1. vectors' = HashF(Buffered, Complete)
      BY <2>3 DEF CallDigest
    <3>2. len \in Nat /\ len <= BufLen
      BY Lengths DEF ByteInv, ByteType
    <3>3. Complete \in Nat /\ Complete < Lanes
      BY <3>2, CompleteFacts
    <3> QED BY <1>0, <3>1, <3>3, HashFIsSequence
  <2> QED BY <1>H, <2>1, <2>2, <2>3
<1>4. CASE ConsumeInput \/ ConsumeBuffer \/ CallDigest
  <2>1. UNCHANGED <<stackVars, parents>> /\ pc' = "pushing"
    BY <1>4 DEF ConsumeInput, ConsumeBuffer, Consume, CallDigest
  <2> QED BY <1>0, <1>4, <1>H, <2>1 DEF ShapeInv, stackVars
<1>5. CASE PushVector
  <2>1. /\ PushL(0, Head(vectors)) /\ vectors # <<>> /\ vectors' = Tail(vectors)
        /\ parents' = parents /\ pc' = pc /\ pc = "pushing"
    BY <1>5 DEF PushVector
  <2>2. /\ occ' \subseteq Nat /\ DOMAIN stack' = Levels
        /\ \A i \in 1..Len(pairs') : pairs'[i].level \in Nat
    BY <1>0, <2>1, ShapePush
  <2>3. IsSequence(vectors') /\ Len(vectors') <= Lanes
    BY <1>0, <2>1, RestIsSequence
  <2> QED BY <1>0, <2>1, <2>2, <2>3 DEF ShapeInv
<1>6. CASE PushParent
  <2>1. /\ PushL(Head(parents).level, Head(parents).value)
        /\ parents # <<>> /\ parents' = Tail(parents) /\ UNCHANGED <<pc, vectors>>
    BY <1>6 DEF PushParent
  <2>2. Head(parents) = parents[1] /\ Len(parents) > 0 /\ Len(parents') = Len(parents) - 1
        /\ \A i \in 1..Len(parents') : parents'[i] = parents[i + 1]
    BY <1>0, <2>1, Entries, RestIsSequence
  <2>3. Head(parents).level \in Nat
    BY <1>0, <2>2
  <2>4. /\ occ' \subseteq Nat /\ DOMAIN stack' = Levels
        /\ \A i \in 1..Len(pairs') : pairs'[i].level \in Nat
    BY <1>0, <2>1, <2>3, ShapePush
  <2>5. \A i \in 1..Len(parents') : parents'[i].level \in Nat \ {0}
    BY <1>0, <2>2
  <2> QED BY <2>1, <2>4, <2>5 DEF ShapeInv
<1>7. CASE FlushFull \/ FlushRest
  <2>1. TakePairs /\ UNCHANGED <<pc, vectors>>
    BY <1>7 DEF FlushFull, FlushRest
  <2>2. /\ \A i \in 1..Len(parents') : parents'[i].level \in Nat \ {0}
        /\ \A i \in 1..Len(pairs') : pairs'[i].level \in Nat
        /\ UNCHANGED <<occ, stack>>
    BY <1>0, <2>1, ShapeTake
  <2> QED BY <2>1, <2>2 DEF ShapeInv
<1>8. CASE Reset \/ DeriveKey
  <2>1. occ' = {} /\ pairs' = <<>> /\ UNCHANGED <<stack, pc, vectors, parents>>
    BY <1>8 DEF Reset, DeriveKey, Clear, callVars
  <2> QED BY <2>1, EmptyIsSequence DEF ShapeInv
<1> QED BY <1>1, <1>2, <1>3, <1>4, <1>5, <1>6, <1>7, <1>8 DEF Next, Step

-----------------------------------------------------------------------------
(* The stack: the values at the places are those of complete subtrees that *)
(* tile the chunks that were hashed.                                       *)
Resting == {<<level, 0>> : level \in occ}
Waiting ==
  {<<0, Lanes - Len(vectors) + i>> : i \in DOMAIN vectors}
    \union {<<parents[i].level, Lanes - Len(parents) + i>> : i \in DOMAIN parents}
Paired == {<<pairs[i].level + 1, Lanes + i>> : i \in DOMAIN pairs}

ValueOf(at, c) == Tree!Compress(Tree!Subtree(mode, written)[Size(at)][c])

Holds(first) ==
  /\ DOMAIN first = Places
  /\ Tiling(first, Hashed)
  /\ \A at \in Places : ValueAt(at) = ValueOf(at, first[at])

StackInv == \E first : Holds(first)

(* The chunks whose values were given to the stack are all among the bytes *)
(* written, so no level is too high for the stack.                         *)
LEMMA HashedBytes ==
  ASSUME ByteInv
  PROVE  /\ Hashed \in Nat /\ Offset(Hashed) <= Len(written)
         /\ Hashed <= MaxBytes \div ChunkLen
<1>1. /\ chunks \in Nat /\ Offset(chunks) \in Nat /\ len \in Nat /\ len <= BufLen
      /\ written \in Seq(Int) /\ Len(written) \in Nat /\ Len(written) <= MaxBytes
      /\ Len(input) \in Nat /\ Lanes \in Nat /\ MaxBytes \in Nat
      /\ ChunkLen \in Nat /\ ChunkLen > 0
  <2>1. /\ chunks \in Nat /\ len \in 0..BufLen /\ written \in Seq(Int) /\ input \in Seq(Int)
        /\ Len(written) <= MaxBytes
    BY DEF ByteInv, ByteType
  <2>2. Offset(chunks) \in Nat /\ Len(written) \in Nat /\ Len(input) \in Nat
    BY <2>1, OffsetFacts, LenProperties
  <2> QED BY <2>1, <2>2, Lengths
<1>2. /\ Complete \in Nat /\ Offset(Complete) \in Nat /\ Offset(Complete) <= len
  BY <1>1, CompleteFacts
<1>3. Len(written) = Offset(Base) + InBuffer + Len(input)
  BY DEF ByteInv, Lies
<1>4. Hashed \in Nat /\ Offset(Hashed) <= Len(written)
  <2>1. CASE Hashed = Base
    <3>1. Base \in Nat /\ InBuffer \in Nat
      BY <1>1 DEF Base, InBuffer
    <3> HIDE DEF Base, InBuffer
    <3>2. Offset(Base) \in Nat
      BY <3>1, OffsetFacts
    <3> QED BY <1>1, <1>3, <2>1, <3>1, <3>2
  <2>2. CASE Hashed # Base
    <3>1. Hashed = chunks + Complete /\ Base = chunks /\ InBuffer = len
      BY <1>1, <2>2 DEF Hashed, Base, InBuffer, Consuming
    <3>2. Offset(chunks + Complete) = Offset(chunks) + Offset(Complete)
      BY <1>1, <1>2, OffsetFacts
    <3> QED BY <1>1, <1>2, <1>3, <3>1, <3>2
  <2> QED BY <2>1, <2>2
<1>5. Hashed <= MaxBytes \div ChunkLen
  <2> DEFINE q == MaxBytes \div ChunkLen
             h == Hashed
  <2>1. q \in Nat /\ MaxBytes = ChunkLen * q + (MaxBytes % ChunkLen)
        /\ MaxBytes % ChunkLen \in 0..(ChunkLen - 1)
    <3>1. q \in Int /\ MaxBytes = ChunkLen * q + (MaxBytes % ChunkLen)
          /\ MaxBytes % ChunkLen \in 0..(ChunkLen - 1)
      BY <1>1
    <3>2. q <= -1 => ChunkLen * q <= -ChunkLen
      BY <1>1, <3>1
    <3> QED BY <1>1, <3>1, <3>2
  <2>2. h \in Nat /\ Offset(h) <= MaxBytes
    <3>1. Offset(Hashed) \in Nat
      BY <1>4, OffsetFacts
    <3> QED BY <1>1, <1>4, <3>1
  <2> HIDE DEF q, h
  <2>3. ChunkLen * q = Offset(q) /\ Offset(q) \in Nat /\ Offset(h) \in Nat
    BY <1>1, <2>1, <2>2, OffsetFacts DEF Offset
  <2>4. q < h => Offset(q) + ChunkLen <= Offset(h)
    BY <2>1, <2>2, OffsetFacts
  <2>5. h <= q
    BY <1>1, <2>1, <2>2, <2>3, <2>4
  <2> QED BY <2>5 DEF q, h
<1> QED BY <1>4, <1>5

LEMMA LevelFits ==
  ASSUME ByteInv, NEW first, Tiling(first, Hashed), NEW at \in DOMAIN first
  PROVE  at[1] \in Levels
<1>1. /\ Hashed \in Nat /\ Hashed <= MaxBytes \div ChunkLen
      /\ at[1] \in Nat /\ first[at] \in Nat /\ first[at] + Size(at) <= Hashed
  BY HashedBytes DEF Tiling
<1>2. Size(at) \in Nat /\ Size(at) > at[1]
  BY <1>1, Pow2Facts DEF Size
<1>3. MaxBytes \div ChunkLen \in Int
  BY Lengths
<1> QED BY <1>1, <1>2, <1>3 DEF Levels

(* Where the values are. *)
LEMMA PlacesShape ==
  ASSUME PairsInv, ShapeInv
  PROVE  /\ Places = Resting \union Waiting \union Paired
         /\ \A x \in Resting : x \in Nat \X Nat /\ x[1] \in occ /\ x[2] = 0
         /\ \A x \in Waiting : x \in Nat \X Nat /\ x[2] \in 1..Lanes
         /\ \A x \in Paired : x \in Nat \X Nat /\ x[1] > 0 /\ x[2] > Lanes
                              /\ x[2] <= Lanes + Len(pairs)
<1>1. /\ Len(pairs) \in Nat /\ DOMAIN pairs = 1..Len(pairs)
      /\ Len(parents) \in Nat /\ DOMAIN parents = 1..Len(parents)
      /\ Len(vectors) \in Nat /\ DOMAIN vectors = 1..Len(vectors)
      /\ Len(vectors) <= Lanes /\ Len(parents) <= Lanes /\ Lanes \in Nat
      /\ occ \subseteq Nat
      /\ \A i \in 1..Len(parents) : parents[i].level \in Nat
      /\ \A i \in 1..Len(pairs) : pairs[i].level \in Nat
  BY Entries, Lengths DEF PairsInv, ShapeInv
<1>2. Places = Resting \union Waiting \union Paired
  BY DEF Places, Resting, Waiting, Paired
<1>3. \A x \in Resting : x \in Nat \X Nat /\ x[1] \in occ /\ x[2] = 0
  BY <1>1 DEF Resting
<1>4. \A x \in Waiting : x \in Nat \X Nat /\ x[2] \in 1..Lanes
  <2>1. \A i \in 1..Len(vectors) : Lanes - Len(vectors) + i \in 1..Lanes
    BY <1>1
  <2>2. \A i \in 1..Len(parents) : Lanes - Len(parents) + i \in 1..Lanes
    BY <1>1
  <2> QED BY <1>1, <2>1, <2>2, SMTT(30) DEF Waiting
<1>5. \A x \in Paired : x \in Nat \X Nat /\ x[1] > 0 /\ x[2] > Lanes
                        /\ x[2] <= Lanes + Len(pairs)
  BY <1>1 DEF Paired
<1> QED BY <1>2, <1>3, <1>4, <1>5

(* What is there. *)
LEMMA RestingValue ==
  ASSUME NEW l
  PROVE  ValueAt(<<l, 0>>) = stack[l] /\ ValueAt(<<l, 0>>)' = stack'[l]
BY DEF ValueAt

LEMMA VectorValue ==
  ASSUME NEW n \in Nat, n <= Lanes, NEW i \in 1..n
  PROVE  /\ Len(vectors) = n => ValueAt(<<0, Lanes - n + i>>) = vectors[i]
         /\ Len(vectors') = n => ValueAt(<<0, Lanes - n + i>>)' = vectors'[i]
<1> DEFINE p == Lanes - n + i
<1>1. p # 0 /\ p - Lanes + n = i
  BY Lengths
<1> HIDE DEF p
<1>2. /\ ValueAt(<<0, p>>) = vectors[p - Lanes + Len(vectors)]
      /\ ValueAt(<<0, p>>)' = vectors'[p - Lanes + Len(vectors')]
  BY <1>1 DEF ValueAt
<1>3. /\ Len(vectors) = n => ValueAt(<<0, p>>) = vectors[i]
      /\ Len(vectors') = n => ValueAt(<<0, p>>)' = vectors'[i]
  BY <1>1, <1>2
<1> QED BY <1>3 DEF p

LEMMA ParentValue ==
  ASSUME NEW n \in Nat, n <= Lanes, NEW i \in 1..n, NEW l, l # 0
  PROVE  /\ Len(parents) = n => ValueAt(<<l, Lanes - n + i>>) = parents[i].value
         /\ Len(parents') = n => ValueAt(<<l, Lanes - n + i>>)' = parents'[i].value
<1> DEFINE p == Lanes - n + i
<1>1. p # 0 /\ p - Lanes + n = i /\ p <= Lanes
  BY Lengths
<1> HIDE DEF p
<1>2. /\ ValueAt(<<l, p>>) = parents[p - Lanes + Len(parents)].value
      /\ ValueAt(<<l, p>>)' = parents'[p - Lanes + Len(parents')].value
  BY <1>1 DEF ValueAt
<1>3. /\ Len(parents) = n => ValueAt(<<l, p>>) = parents[i].value
      /\ Len(parents') = n => ValueAt(<<l, p>>)' = parents'[i].value
  BY <1>1, <1>2
<1> QED BY <1>3 DEF p

LEMMA PairValue ==
  ASSUME NEW i \in Nat \ {0}, NEW l, l # 0
  PROVE  /\ ValueAt(<<l, Lanes + i>>) = ParentOf(pairs[i])
         /\ ValueAt(<<l, Lanes + i>>)' = ParentOf(pairs[i])'
<1> DEFINE p == Lanes + i
<1>1. p # 0 /\ p - Lanes = i /\ ~ (p <= Lanes)
  BY Lengths
<1> HIDE DEF p
<1>2. /\ ValueAt(<<l, p>>) = ParentOf(pairs[p - Lanes])
      /\ ValueAt(<<l, p>>)' = ParentOf(pairs[p - Lanes])'
  BY <1>1 DEF ValueAt
<1>3. ValueAt(<<l, p>>) = ParentOf(pairs[i]) /\ ValueAt(<<l, p>>)' = ParentOf(pairs[i])'
  BY <1>1, <1>2
<1> QED BY <1>3 DEF p

(* An empty stack. *)
LEMMA StackEmpty ==
  ASSUME occ = {}, vectors = <<>>, parents = <<>>, pairs = <<>>, Hashed = 0
  PROVE  StackInv
<1> DEFINE none == [x \in {} |-> 0]
<1>1. Places = {} /\ DOMAIN none = {}
  BY DEF Places
<1>2. Tiling(none, 0)
  BY DEF Tiling
<1> QED BY <1>1, <1>2, Zenon DEF StackInv, Holds

LEMMA StackInit == Init => StackInv
<1> SUFFICES ASSUME Init PROVE StackInv
  OBVIOUS
<1>1. occ = {} /\ vectors = <<>> /\ parents = <<>> /\ pairs = <<>> /\ Hashed = 0
  BY DEF Init, Hashed
<1> QED BY <1>1, StackEmpty

(* The steps that leave the stack and the bytes alone. *)
LEMMA StackKept ==
  ASSUME StackInv, Hashed' = Hashed,
         UNCHANGED <<stackVars, parents, vectors, mode, written>>
  PROVE  StackInv'
<1>1. PICK first : Holds(first)
  BY DEF StackInv
<1>2. UNCHANGED <<occ, stack, pairs, parents, vectors, mode, written>>
  BY DEF stackVars
<1>3. Places' = Places
  BY <1>2 DEF Places
<1>4. \A at : ValueAt(at)' = ValueAt(at)
  BY <1>2 DEF ValueAt, ParentOf
<1>5. \A at, c : ValueOf(at, c)' = ValueOf(at, c)
  BY <1>2 DEF ValueOf
<1>6. Holds(first)'
  BY <1>1, <1>3, <1>4, <1>5, Zenon DEF Holds
<1> QED BY <1>6 DEF StackInv

(* A Write adds bytes behind the chunks that were hashed. *)
LEMMA StackWrite ==
  ASSUME PairsInv, ByteInv, ShapeInv, StackInv, NEW n \in WriteSizes, CallWrite(n)
  PROVE  StackInv'
<1>1. PICK first : Holds(first)
  BY DEF StackInv
<1>2. /\ UNCHANGED <<occ, stack, pairs, parents, vectors, mode, chunks>>
      /\ pc = "idle" /\ pc' = "writing" /\ written' = written \o Fresh(n)
  BY DEF CallWrite, stackVars, bufferVars
<1>3. Places' = Places /\ Hashed' = Hashed
  BY <1>2 DEF Places, Hashed
<1>4. \A at : ValueAt(at)' = ValueAt(at)
  BY <1>2 DEF ValueAt, ParentOf
<1>5. /\ written \in Seq(Int) /\ written' \in Seq(Int) /\ Len(written) \in Nat
      /\ Hashed \in Nat /\ Offset(Hashed) <= Len(written) /\ Offset(Hashed) \in Nat
      /\ ChunkLen \in Nat
  <2>1. ByteInv'
    BY CallWriteBytes
  <2>2. written \in Seq(Int) /\ written' \in Seq(Int) /\ Hashed \in Nat /\ Offset(Hashed) <= Len(written)
    BY <2>1, HashedBytes DEF ByteInv, ByteType
  <2>3. Offset(Hashed) \in Nat
    BY <2>2, OffsetFacts
  <2> QED BY <2>2, <2>3, LenProperties, Lengths
<1>6. /\ Len(written) <= Len(written') /\ Len(written') \in Nat
      /\ \A j \in 1..Len(written) : written'[j] = written[j]
  <2>1. /\ starts \in Nat /\ n \in Nat /\ MaxBytes \in Nat
    BY HasherAssumption DEF ByteInv, ByteType
  <2>2. \A i \in 1..n : starts * MaxBytes + Len(written) + i \in Int
    BY <1>5, <2>1
  <2>3. Fresh(n) \in Seq(Int)
    BY <2>1, <2>2 DEF Fresh
  <2> HIDE DEF Fresh
  <2>4. /\ Len(written') = Len(written) + Len(Fresh(n)) /\ Len(Fresh(n)) \in Nat
        /\ \A j \in 1..(Len(written) + Len(Fresh(n))) :
             written'[j] = IF j <= Len(written) THEN written[j] ELSE Fresh(n)[j - Len(written)]
    BY <1>2, <1>5, <2>3, ConcatProperties, LenProperties
  <2> QED BY <1>5, <2>4
<1>7. ASSUME NEW i \in Nat, i < Hashed
      PROVE  Tree!ChunkAt(written, i) = Tree!ChunkAt(written', i)
  <2>1. /\ Offset(i) \in Nat /\ Offset(i + 1) = Offset(i) + ChunkLen
        /\ Offset(i) + ChunkLen <= Offset(Hashed)
    BY <1>5, <1>7, OffsetFacts
  <2>2. \A j \in 1..ChunkLen : Offset(i) + j \in 1..Len(written)
    BY <1>5, <2>1, SMTT(30)
  <2>3. \A j \in 1..ChunkLen : written[Offset(i) + j] = written'[Offset(i) + j]
    BY <1>6, <2>2
  <2>4. Offset(i + 1) <= Len(written) /\ Offset(i + 1) <= Len(written')
    BY <1>5, <1>6, <2>1
  <2> QED BY <1>5, <2>3, <2>4, SameChunk
<1>8. ASSUME NEW at \in Places PROVE ValueOf(at, first[at])' = ValueOf(at, first[at])
  <2> DEFINE c == first[at]
             size == Size(at)
  <2>1. at \in Nat \X Nat /\ c \in Nat /\ c + size <= Hashed
    BY <1>1 DEF Holds, Tiling
  <2>2. size \in Nat \ {0}
    BY <2>1, SizeType
  <2> HIDE DEF c, size
  <2>3. \A i \in c..(c + size - 1) : Tree!ChunkAt(written, i) = Tree!ChunkAt(written', i)
    <3> SUFFICES ASSUME NEW i \in c..(c + size - 1)
                 PROVE  Tree!ChunkAt(written, i) = Tree!ChunkAt(written', i)
      OBVIOUS
    <3>1. i \in Nat /\ i < Hashed
      BY <1>5, <2>1, <2>2
    <3> QED BY <1>7, <3>1
  <2>4. Tree!Subtree(mode, written)[size][c] = Tree!Subtree(mode, written')[size][c]
    BY <2>1, <2>2, <2>3, SubtreeSame
  <2> QED BY <1>2, <2>4 DEF ValueOf, c, size
<1>9. Holds(first)'
  <2>1. DOMAIN first = Places' /\ Tiling(first, Hashed')
    BY <1>1, <1>3 DEF Holds
  <2>2. \A at \in Places' : ValueAt(at)' = ValueOf(at, first[at])'
    BY <1>1, <1>3, <1>4, <1>8, Zenon DEF Holds
  <2> QED BY <2>1, <2>2, Zenon DEF Holds
<1> QED BY <1>9 DEF StackInv

(* What moves a value from one place to another of its level. *)
LEMMA StackPush ==
  ASSUME PairsInv, ByteInv, ShapeInv, NEW first, Holds(first),
         NEW level \in Nat, NEW place \in 1..Lanes, NEW value,
         PushL(level, value), UNCHANGED <<mode, written>>, Hashed' = Hashed,
         <<level, place>> \in Waiting, ValueAt(<<level, place>>) = value,
         Waiting' = Waiting \ {<<level, place>>},
         \A x \in Waiting : x[1] = level => x[2] >= place,
         \A x \in Waiting' : ValueAt(x)' = ValueAt(x),
         Len(vectors') \in 0..Lanes, Len(parents') \in 0..Lanes
  PROVE  StackInv'
<1> DEFINE from == <<level, place>>
           rest == <<level, 0>>
<1>1. /\ Places = Resting \union Waiting \union Paired
      /\ \A x \in Resting : x \in Nat \X Nat /\ x[1] \in occ /\ x[2] = 0
      /\ \A x \in Waiting : x \in Nat \X Nat /\ x[2] \in 1..Lanes
      /\ \A x \in Paired : x \in Nat \X Nat /\ x[1] > 0 /\ x[2] > Lanes
                           /\ x[2] <= Lanes + Len(pairs)
  BY PlacesShape
<1>2. /\ Lanes \in Nat /\ Len(pairs) \in Nat /\ DOMAIN pairs = 1..Len(pairs)
      /\ Len(vectors) \in 0..Lanes /\ Len(parents) \in 0..Lanes
      /\ IsSequence(pairs) /\ occ \subseteq Nat /\ DOMAIN stack = Levels
      /\ \A i \in 1..Len(pairs) : pairs[i].level \in Nat
  BY Lengths, Entries DEF PairsInv, ShapeInv
<1>3. /\ DOMAIN first = Places /\ Tiling(first, Hashed)
      /\ \A x \in Places : ValueAt(x) = ValueOf(x, first[x])
      /\ Hashed \in Nat
  BY HashedBytes DEF Holds
<1>4. /\ from \in Places /\ from \in Waiting /\ from[1] = level /\ from[2] = place
      /\ rest \in Nat \X Nat /\ rest[1] = level /\ rest[2] = 0 /\ rest # from
      /\ level \in Levels
  <2>1. from \in Places /\ from[1] = level
    BY <1>1
  <2>2. level \in Levels
    BY <1>3, <2>1, LevelFits
  <2> QED BY <2>1, <2>2
<1>5. Places' = Resting' \union Waiting' \union Paired'
  BY DEF Places, Resting, Waiting, Paired
<1>6. \A at, c : ValueOf(at, c)' = ValueOf(at, c)
  BY DEF ValueOf
<1>7. CASE level \notin occ
  <2>1. /\ stack' = [stack EXCEPT ![level] = value] /\ occ' = occ \union {level}
        /\ pairs' = pairs
    BY <1>7 DEF PushL
  <2>2. /\ Resting' = Resting \union {rest} /\ Paired' = Paired /\ rest \notin Resting
        /\ rest \notin Places
    <3>1. Resting' = Resting \union {rest} /\ Paired' = Paired
      BY <2>1 DEF Resting, Paired
    <3> QED BY <1>1, <1>2, <1>4, <1>7, <3>1
  <2> DEFINE g == [x \in Places |-> IF x = from THEN rest ELSE x]
             h == [x \in Places' |-> IF x = rest THEN first[from] ELSE first[x]]
  <2>3. Places' = (Places \ {from}) \union {rest}
    <3>1. from \notin Resting /\ from \notin Paired
      BY <1>1, <1>2, <1>4
    <3>2. Waiting' = Waiting \ {from} /\ rest # from
      BY <1>4
    <3> HIDE DEF from, rest
    <3> QED BY <1>1, <1>5, <2>2, <3>1, <3>2
  <2>4. Tiling(h, Hashed)
    <3>1. g \in [Places -> Nat \X Nat] /\ \A x \in Places : g[x][1] = x[1]
      BY <1>1, <1>4
    <3>2. ASSUME NEW d \in Places, NEW e \in Places, d[1] = e[1], d[2] < e[2]
          PROVE  g[d][2] < g[e][2]
      <4>1. CASE e = from
        <5>1. d[1] = level /\ d[2] < place /\ d # rest /\ d # from
          BY <1>1, <1>2, <1>4, <2>2, <3>2, <4>1
        <5>2. d \notin Resting /\ d \notin Waiting /\ d \notin Paired
          BY <1>1, <1>2, <1>7, <5>1
        <5> QED BY <1>1, <5>2
      <4>2. CASE e # from /\ d = from
        BY <1>2, <1>4, <3>2, <4>2, <1>1
      <4>3. CASE e # from /\ d # from
        BY <3>2, <4>3
      <4> QED BY <4>1, <4>2, <4>3
    <3>3. DOMAIN h = {g[d] : d \in Places}
      BY <1>4, <2>3
    <3>4. \A d \in Places : h[g[d]] = first[d]
      BY <1>4, <2>2, <2>3
    <3> HIDE DEF g, h
    <3> QED BY <1>3, <3>1, <3>2, <3>3, <3>4, Renamed
  <2>5. ASSUME NEW x \in Places' PROVE ValueAt(x)' = ValueOf(x, h[x])
    <3>1. CASE x = rest
      <4>1. ValueAt(rest)' = stack'[level]
        BY RestingValue
      <4>2. stack'[level] = value
        BY <1>2, <1>4, <2>1
      <4>3. value = ValueOf(from, first[from])
        BY <1>3, <1>4
      <4>4. ValueOf(from, first[from]) = ValueOf(rest, first[from])
        BY <1>4 DEF ValueOf, Size
      <4> QED BY <3>1, <4>1, <4>2, <4>3, <4>4
    <3>2. CASE x # rest /\ x \in Waiting'
      BY <1>3, <2>3, <3>2
    <3>3. CASE x # rest /\ x \notin Waiting'
      <4>1. x \in Resting \union Paired /\ x \in Places
        BY <1>1, <1>5, <2>2, <3>3
      <4>2. ValueAt(x)' = ValueAt(x)
        <5>1. CASE x \in Resting
          <6>1. PICK l \in occ : x = <<l, 0>>
            BY <5>1 DEF Resting
          <6>2. ValueAt(x)' = stack'[l] /\ ValueAt(x) = stack[l]
            BY <6>1, RestingValue
          <6>3. l # level
            BY <1>7
          <6> QED BY <2>1, <6>2, <6>3
        <5>2. CASE x \in Paired
          <6>1. x[2] # 0 /\ x[1] # 0 /\ ~ (x[2] <= Lanes)
            BY <1>1, <1>2, <5>2
          <6> QED BY <2>1, <6>1, Zenon DEF ValueAt, ParentOf
        <5> QED BY <4>1, <5>1, <5>2
      <4> QED BY <1>3, <3>3, <4>1, <4>2
    <3> QED BY <3>1, <3>2, <3>3
  <2>6. PICK hh : hh = h
    OBVIOUS
  <2>7. DOMAIN hh = Places'
    BY <2>6
  <2> HIDE DEF h
  <2>8. Holds(hh)'
    BY <1>6, <2>4, <2>5, <2>6, <2>7, Zenon DEF Holds
  <2> QED BY <2>8, Zenon DEF StackInv
<1>8. CASE level \in occ
  <2> DEFINE pair == [level |-> level, left |-> stack[level], right |-> value]
             count == Len(pairs)
             m == Lanes + (count + 1)
             new == <<level + 1, m>>
  <2>1. pairs' = Append(pairs, pair) /\ occ' = occ \ {level} /\ stack' = stack
    BY <1>8 DEF PushL
  <2>2. pair.level = level /\ pair.left = stack[level] /\ pair.right = value
    OBVIOUS
  <2> HIDE DEF pair
  <2>3. /\ IsSequence(pairs') /\ Len(pairs') = count + 1 /\ DOMAIN pairs' = 1..(count + 1)
        /\ \A i \in 1..count : pairs'[i] = pairs[i]
        /\ pairs'[count + 1] = pair
    <3>1. IsSequence(pairs') /\ Len(pairs') = count + 1
      BY <1>2, <2>1, AppendedIsSequence
    <3>2. DOMAIN pairs' = 1..(count + 1)
      BY <3>1, Entries
    <3> QED BY <1>2, <2>1, <3>1, <3>2, Entries
  <2>4. /\ rest \in Resting /\ rest \in Places /\ new \in Nat \X Nat
        /\ new[1] = level + 1 /\ new[2] = m /\ m \in Nat /\ count \in Nat
        /\ \A x \in Places : x[1] = level + 1 => x[2] < m
    <3>1. rest \in Resting
      BY <1>8 DEF Resting
    <3>2. m \in Nat
      BY <1>2
    <3>3. \A x \in Places : x[2] < m
      BY <1>1, <1>2
    <3> QED BY <1>1, <1>2, <3>1, <3>2, <3>3
  <2>5. Resting' = Resting \ {rest} /\ Paired' = Paired \union {new}
    <3>1. Resting' = Resting \ {rest}
      BY <2>1 DEF Resting
    <3>2. Paired' = {<<pairs'[i].level + 1, Lanes + i>> : i \in 1..(count + 1)}
      BY <2>3 DEF Paired
    <3>3. Paired = {<<pairs[i].level + 1, Lanes + i>> : i \in 1..count}
      BY <1>2 DEF Paired
    <3>4. \A i : i \in 1..(count + 1) <=> i \in 1..count \/ i = count + 1
      BY <2>4
    <3> HIDE DEF count
    <3> QED BY <2>2, <2>3, <3>1, <3>2, <3>3, <3>4
  <2>6. Places' = (Places \ {rest, from}) \union {new}
    <3>1. from \notin Resting /\ from \notin Paired /\ rest \notin Waiting /\ rest \notin Paired
      BY <1>1, <1>2, <1>4
    <3>2. Waiting' = Waiting \ {from}
      BY <1>4
    <3> HIDE DEF from, rest, new
    <3> QED BY <1>1, <1>5, <2>5, <3>1, <3>2
  <2> DEFINE h == [x \in Places' |-> IF x = new THEN first[rest] ELSE first[x]]
  <2>7. /\ DOMAIN h = (DOMAIN first \ {rest, from}) \union {new} /\ h[new] = first[rest]
        /\ \A x \in DOMAIN first \ {rest, from} : h[x] = first[x]
    <3>1. \A x \in Places : x # new
      BY <2>4
    <3> HIDE DEF from, rest, new
    <3> QED BY <1>3, <2>6, <3>1
  <2> HIDE DEF h
  <2>8. Tiling(h, Hashed) /\ first[from] = first[rest] + Tree!Pow2[level]
    <3>1. \A x \in DOMAIN first : x[1] = level => x[2] = 0 \/ x[2] >= place
      BY <1>1, <1>2, <1>3
    <3>2. place \in Nat /\ place > 0 /\ <<level, 0>> \in DOMAIN first /\ <<level, place>> \in DOMAIN first
      BY <1>2, <1>3, <1>4, <2>4
    <3>3. \A x \in DOMAIN first : x[1] = level + 1 => x[2] < m
      BY <1>3, <2>4
    <3>4. m \in Nat
      BY <2>4
    <3>5. /\ DOMAIN h = (DOMAIN first \ {<<level, 0>>, <<level, place>>}) \union {<<level + 1, m>>}
          /\ h[<<level + 1, m>>] = first[<<level, 0>>]
          /\ \A x \in DOMAIN first \ {<<level, 0>>, <<level, place>>} : h[x] = first[x]
      BY <2>7
    <3> HIDE DEF m
    <3>6. Tiling(first, Hashed) /\ Hashed \in Nat
      BY <1>3
    <3>7. Joins(first, Hashed, level, place, m, h)
      BY <3>1, <3>2, <3>3, <3>4, <3>5, <3>6, Zenon DEF Joins
    <3> QED BY <3>7, Joined
  <2>9. ASSUME NEW x \in Places' PROVE ValueAt(x)' = ValueOf(x, h[x])
    <3>1. CASE x = new
      <4> DEFINE power == Tree!Pow2[level]
                 c == first[rest]
                 left == Tree!Compress(Tree!Subtree(mode, written)[power][c])
                 right == Tree!Compress(Tree!Subtree(mode, written)[power][c + power])
      <4>1. ValueAt(x)' = Tree!Compress(Tree!ParentNode(mode, stack[level], value))
        <5>1. PICK i \in Nat \ {0}, l \in Nat : i = count + 1 /\ l = level + 1
          BY <2>4
        <5>2. x = <<l, Lanes + i>> /\ l # 0
          BY <3>1, <5>1
        <5>3. ValueAt(x)' = ParentOf(pairs[i])'
          BY <5>2, PairValue
        <5>4. pairs'[i] = pair
          BY <2>3, <5>1
        <5>5. ParentOf(pairs[i])' = Tree!Compress(Tree!ParentNode(mode, stack[level], value))
          BY <2>2, <5>4 DEF ParentOf
        <5> QED BY <5>3, <5>5
      <4>2. stack[level] = ValueOf(rest, c)
        BY <1>3, <2>4, RestingValue
      <4>3. value = ValueOf(from, first[from])
        BY <1>3, <1>4
      <4>4. ValueOf(rest, c) = left /\ ValueOf(from, first[from]) = right
        BY <1>4, <2>8 DEF ValueOf, Size
      <4>5. power \in 1..power /\ c \in Nat /\ Tree!Pow2[level + 1] = power + power
        <5>1. power \in Nat /\ power > 0 /\ Tree!Pow2[level + 1] = 2 * power
          <6>1. /\ Tree!Pow2[level] \in Nat /\ Tree!Pow2[level] > level
                /\ Tree!Pow2[level + 1] = 2 * Tree!Pow2[level]
            BY Pow2Facts, Zenon
          <6> QED BY <6>1
        <5>2. c \in Nat
          BY <1>3, <2>4 DEF Tiling
        <5> HIDE DEF power, c
        <5> QED BY <5>1, <5>2
      <4>6. Tree!Subtree(mode, written)[power + power][c] = Tree!ParentNode(mode, left, right)
        <5>1. level \in Nat /\ c \in Nat
          BY <2>4, <4>5
        <5>2. \A k \in Nat : Tree!Subtree(mode, written)[power + power][k] =
                Tree!ParentNode(mode, Tree!Compress(Tree!Subtree(mode, written)[power][k]),
                           Tree!Compress(Tree!Subtree(mode, written)[power][k + power]))
          BY <5>1, SubtreeDouble
        <5> HIDE DEF power, c
        <5> QED BY <5>1, <5>2
      <4>7. ValueOf(new, c) = Tree!Compress(Tree!Subtree(mode, written)[power + power][c])
        BY <2>4, <4>5 DEF ValueOf, Size
      <4> HIDE DEF power, left, right
      <4> QED BY <2>7, <3>1, <4>1, <4>2, <4>3, <4>4, <4>6, <4>7
    <3>2. CASE x # new
      <4>1. x \in Places /\ x \in DOMAIN first \ {rest, from}
        BY <1>3, <2>6, <3>2
      <4>2. ValueAt(x)' = ValueAt(x)
        <5>1. CASE x \in Waiting'
          BY <5>1
        <5>2. CASE x \in Resting
          <6>1. PICK l \in occ : x = <<l, 0>>
            BY <5>2 DEF Resting
          <6> QED BY <2>1, <6>1, RestingValue
        <5>3. CASE x \in Paired
          <6>1. PICK i \in 1..count : x = <<pairs[i].level + 1, Lanes + i>>
            BY <1>2, <5>3 DEF Paired
          <6>2. PICK l \in Nat : l = pairs[i].level + 1
            BY <1>2
          <6>3. x = <<l, Lanes + i>> /\ l # 0 /\ i \in Nat \ {0} /\ pairs'[i] = pairs[i]
            BY <1>2, <2>3, <6>1, <6>2, SMTT(30)
          <6>4. ValueAt(x) = ParentOf(pairs[i]) /\ ValueAt(x)' = ParentOf(pairs[i])'
            BY <6>3, PairValue
          <6>5. ParentOf(pairs[i])' = ParentOf(pairs[i])
            BY <6>3 DEF ParentOf
          <6> QED BY <6>4, <6>5
        <5> QED BY <1>1, <1>4, <4>1, <5>1, <5>2, <5>3
      <4> QED BY <1>3, <2>7, <4>1, <4>2
    <3> QED BY <3>1, <3>2
  <2>10. PICK hh : hh = h
    OBVIOUS
  <2>11. DOMAIN hh = Places'
    BY <1>3, <2>6, <2>7, <2>10
  <2>12. Holds(hh)'
    BY <1>6, <2>8, <2>9, <2>10, <2>11, Zenon DEF Holds
  <2> QED BY <2>12, Zenon DEF StackInv
<1> QED BY <1>7, <1>8

(* What rests on the stack or waits in a pair stays what it is. *)
LEMMA OtherValues ==
  ASSUME PairsInv, ShapeInv, NEW x \in Resting \union Paired, UNCHANGED <<stack, pairs, mode>>
  PROVE  ValueAt(x)' = ValueAt(x)
<1>1. CASE x \in Resting
  <2>1. PICK l \in occ : x = <<l, 0>>
    BY <1>1 DEF Resting
  <2> QED BY <2>1, RestingValue
<1>2. CASE x \in Paired
  <2>1. PICK i \in 1..Len(pairs) : x = <<pairs[i].level + 1, Lanes + i>> /\ pairs[i].level \in Nat
    BY <1>2, Entries, SMTT(30) DEF Paired, PairsInv, ShapeInv
  <2>2. PICK l \in Nat : l = pairs[i].level + 1
    BY <2>1
  <2>3. x = <<l, Lanes + i>> /\ l # 0 /\ i \in Nat \ {0}
    BY <2>1, <2>2
  <2>4. ValueAt(x) = ParentOf(pairs[i]) /\ ValueAt(x)' = ParentOf(pairs[i])'
    BY <2>3, PairValue
  <2>5. ParentOf(pairs[i])' = ParentOf(pairs[i])
    BY DEF ParentOf
  <2> QED BY <2>4, <2>5
<1> QED BY <1>1, <1>2

(* HashF gives the values of chunks of what was written. *)
LEMMA StackConsume ==
  ASSUME PairsInv, ByteInv, ShapeInv, StackInv, vectors = <<>>, parents = <<>>,
         NEW bytes, NEW count \in 0..Lanes, vectors' = HashF(bytes, count),
         UNCHANGED <<stackVars, parents, mode, written>>,
         Hashed = chunks, Hashed' = chunks + count,
         \A i \in 1..count : Tree!ChunkAt(bytes, i - 1) = Tree!ChunkAt(written, chunks + (i - 1))
  PROVE  StackInv'
<1>1. PICK first : Holds(first)
  BY DEF StackInv
<1> DEFINE k == Lanes - count
           More == {<<0, k + i>> : i \in 1..count}
           h == [x \in Places' |-> IF x \in Places THEN first[x] ELSE chunks + (x[2] - k - 1)]
<1>2. /\ Lanes \in Nat /\ count \in Nat /\ k \in Nat /\ chunks \in Nat /\ count <= Lanes
      /\ UNCHANGED <<occ, stack, pairs>>
  BY Lengths DEF ByteInv, ByteType, stackVars
<1>3. /\ Len(vectors') = count /\ DOMAIN vectors' = 1..count
      /\ \A i \in 1..count : vectors'[i] = ChunkValue(bytes, i - 1)
  BY <1>2, HashFIsSequence, Entries
<1>4. /\ DOMAIN first = Places /\ Tiling(first, chunks)
      /\ \A x \in Places : ValueAt(x) = ValueOf(x, first[x])
  BY <1>1 DEF Holds
<1>5. Waiting = {} /\ Waiting' = More
  BY <1>3, EmptyIsSequence DEF Waiting
<1>6. /\ Places = Resting \union Paired /\ Places' = Places \union More
      /\ \A x \in Places : x[1] = 0 => x[2] = 0
      /\ \A x \in Places : x \notin More
  <2>1. /\ Places = Resting \union Waiting \union Paired
        /\ \A x \in Resting : x \in Nat \X Nat /\ x[1] \in occ /\ x[2] = 0
        /\ \A x \in Paired : x \in Nat \X Nat /\ x[1] > 0
    BY PlacesShape
  <2>2. Places' = Resting' \union Waiting' \union Paired'
    BY DEF Places, Resting, Waiting, Paired
  <2>3. Resting' = Resting /\ Paired' = Paired
    BY <1>2 DEF Resting, Paired
  <2>4. \A x \in Places : x[1] = 0 => x[2] = 0
    BY <1>5, <2>1
  <2>5. \A x \in More : x[1] = 0 /\ x[2] # 0
    BY <1>2
  <2> HIDE DEF More
  <2> QED BY <1>5, <2>1, <2>2, <2>3, <2>4, <2>5
<1>7. ASSUME NEW i \in 1..count
      PROVE  <<0, k + i>> \in More /\ <<0, k + i>> \notin Places /\ h[<<0, k + i>>] = chunks + (i - 1)
  <2>1. <<0, k + i>> \in More
    OBVIOUS
  <2>2. (k + i) - k - 1 = i - 1
    BY <1>2
  <2> HIDE DEF k, More
  <2> QED BY <1>6, <2>1, <2>2
<1>8. \A x \in Places : h[x] = first[x]
  BY <1>6
<1>9. Tiling(h, chunks + count)
  <2>1. \A x \in DOMAIN first : x[1] = 0 => x[2] <= k
    BY <1>2, <1>4, <1>6
  <2>2. DOMAIN h = DOMAIN first \union {<<0, k + i>> : i \in 1..count}
    BY <1>4, <1>6
  <2>3. \A x \in DOMAIN first : h[x] = first[x]
    BY <1>4, <1>8
  <2>4. \A i \in 1..count : h[<<0, k + i>>] = chunks + (i - 1)
    BY <1>7
  <2> HIDE DEF h, k, More
  <2> QED BY <1>2, <1>4, <2>1, <2>2, <2>3, <2>4, Extended
<1>10. ASSUME NEW x \in Places' PROVE ValueAt(x)' = ValueOf(x, h[x])
  <2>1. CASE x \in Places
    <3>1. ValueAt(x)' = ValueAt(x)
      BY <1>2, <1>6, <2>1, OtherValues
    <3> QED BY <1>4, <1>8, <2>1, <3>1
  <2>2. CASE x \in More
    <3>1. PICK i \in 1..count : x = <<0, k + i>>
      BY <2>2
    <3>2. ValueAt(x)' = vectors'[i]
      BY <1>2, <1>3, <3>1, VectorValue
    <3> DEFINE c == chunks + (i - 1)
    <3>3. c \in Nat /\ h[x] = c
      <4>1. c \in Nat
        BY <1>2
      <4>2. h[<<0, k + i>>] = c
        BY <1>7
      <4> HIDE DEF h, k, c
      <4> QED BY <3>1, <4>1, <4>2
    <3>4. vectors'[i] = Tree!Compress(Tree!ChunkNode(mode, c, Tree!ChunkAt(written, c)))
      BY <1>3 DEF ChunkValue, ChunkOf
    <3> HIDE DEF c, h
    <3>5. Tree!Subtree(mode, written)[1][c] = Tree!ChunkNode(mode, c, Tree!ChunkAt(written, c))
      BY <3>3, SubtreeOne
    <3>6. Size(x) = 1
      BY <3>1, Pow2Facts DEF Size
    <3> QED BY <3>2, <3>3, <3>4, <3>5, <3>6 DEF ValueOf
  <2> QED BY <1>6, <2>1, <2>2
<1>11. \A at, c : ValueOf(at, c)' = ValueOf(at, c)
  BY DEF ValueOf
<1>12. PICK hh : hh = h
  OBVIOUS
<1>13. DOMAIN hh = Places'
  BY <1>12
<1> HIDE DEF h
<1>14. Holds(hh)'
  BY <1>9, <1>10, <1>11, <1>12, <1>13, Zenon DEF Holds
<1> QED BY <1>14, Zenon DEF StackInv

(* A flush turns the pairs into parents in the same order. *)
LEMMA StackTake ==
  ASSUME PairsInv, ByteInv, ShapeInv, StackInv, TakePairs, parents = <<>>,
         UNCHANGED <<vectors, mode, written>>, Hashed' = Hashed
  PROVE  StackInv'
<1>1. PICK first : Holds(first)
  BY DEF StackInv
<1> DEFINE n == Len(pairs)
           V == {<<0, Lanes - Len(vectors) + i>> : i \in DOMAIN vectors}
           P == {<<pairs[i].level + 1, Lanes - n + i>> : i \in 1..n}
<1>2. /\ Lanes \in Nat /\ n \in Nat /\ n <= Lanes /\ DOMAIN pairs = 1..n
      /\ \A i \in 1..n : pairs[i].level \in Nat
      /\ Len(vectors) \in Nat /\ Len(vectors) <= Lanes /\ DOMAIN vectors = 1..Len(vectors)
      /\ Len(parents) = 0 /\ IsSequence(pairs)
  BY Lengths, Entries, EmptyIsSequence DEF PairsInv, ShapeInv
<1>3. /\ DOMAIN first = Places /\ Tiling(first, Hashed) /\ Hashed \in Nat
      /\ \A x \in Places : ValueAt(x) = ValueOf(x, first[x])
  BY <1>1, HashedBytes DEF Holds
<1>4. /\ UNCHANGED <<occ, stack>> /\ Len(parents') = n /\ DOMAIN parents' = 1..n /\ pairs' = <<>>
      /\ \A i \in 1..n : parents'[i].level = pairs[i].level + 1 /\ parents'[i].value = ParentOf(pairs[i])
  <2>1. IsSequence(parents') /\ Len(parents') = n /\ pairs' = <<>>
    BY <1>2, TakePairsKeepsCount
  <2>2. DOMAIN parents' = 1..n
    BY <2>1, Entries
  <2> QED BY <2>1, <2>2 DEF TakePairs, HashP, ParentOf
<1>5. /\ Places = Resting \union V \union Paired
      /\ \A x \in Resting : x \in Nat \X Nat /\ x[2] = 0
      /\ \A x \in V : x \in Nat \X Nat /\ x[1] = 0 /\ x[2] \in 1..Lanes
      /\ \A x \in Paired : x \in Nat \X Nat /\ x[1] > 0 /\ x[2] > Lanes
  <2>1. Waiting = V
    BY <1>2 DEF Waiting
  <2>2. \A x \in V : x[1] = 0
    OBVIOUS
  <2> HIDE DEF V
  <2> QED BY <2>1, <2>2, PlacesShape
<1>6. Places' = Resting \union V \union P
  <2>1. Places' = Resting' \union Waiting' \union Paired'
    BY DEF Places, Resting, Waiting, Paired
  <2>2. Resting' = Resting /\ Paired' = {}
    BY <1>4, EmptyIsSequence DEF Resting, Paired
  <2>3. Waiting' = V \union P
    BY <1>4 DEF Waiting
  <2> HIDE DEF V, P
  <2> QED BY <2>1, <2>2, <2>3
<1> DEFINE g == [x \in Places |-> IF x \in Paired THEN <<x[1], x[2] - n>> ELSE x]
           h == [x \in Places' |-> IF x[1] > 0 /\ x[2] > 0 THEN first[<<x[1], x[2] + n>>] ELSE first[x]]
<1>7. /\ Paired = {<<pairs[i].level + 1, Lanes + i>> : i \in 1..n}
      /\ P = {<<x[1], x[2] - n>> : x \in Paired}
  <2>1. Paired = {<<pairs[i].level + 1, Lanes + i>> : i \in 1..n}
    BY <1>2 DEF Paired
  <2> DEFINE f(i) == <<pairs[i].level + 1, Lanes + i>>
             q(i) == <<pairs[i].level + 1, Lanes - n + i>>
  <2>2. \A i \in 1..n : <<f(i)[1], f(i)[2] - n>> = q(i)
    <3>1. \A i \in 1..n : (Lanes + i) - n = Lanes - n + i
      BY <1>2
    <3> HIDE DEF n
    <3> QED BY <3>1
  <2>3. Paired = {f(i) : i \in 1..n} /\ P = {q(i) : i \in 1..n}
    BY <2>1
  <2> HIDE DEF n, f, q, P
  <2>4. P = {<<x[1], x[2] - n>> : x \in Paired}
    BY <2>2, <2>3
  <2> QED BY <2>1, <2>4
<1>8. ASSUME NEW x \in Paired
      PROVE  /\ g[x] = <<x[1], x[2] - n>> /\ g[x] \in P /\ x[2] - n \in Nat /\ x[2] - n > 0
             /\ (x[2] - n) + n = x[2] /\ x = <<x[1], x[2]>> /\ x \in Places
  <2>1. x \in Places /\ x[2] \in Nat /\ x[2] > Lanes /\ x = <<x[1], x[2]>>
    BY <1>5
  <2>2. g[x] = <<x[1], x[2] - n>> /\ g[x] \in P
    BY <1>7, <2>1
  <2> HIDE DEF g, P
  <2> QED BY <1>2, <2>1, <2>2
<1>9. \A x \in Resting \union V : x \notin Paired /\ x \in Places /\ g[x] = x
  <2>1. \A x \in Resting \union V : x \notin Paired /\ x \in Places
    BY <1>2, <1>5
  <2> QED BY <2>1
<1>10. Tiling(h, Hashed)
  <2>1. g \in [Places -> Nat \X Nat] /\ \A x \in Places : g[x][1] = x[1]
    <3> HIDE DEF V, P
    <3>1. \A x \in Places : g[x] \in Nat \X Nat /\ g[x][1] = x[1]
      BY <1>5, <1>8, <1>9
    <3> QED BY <3>1
  <2>2. ASSUME NEW d \in Places, NEW e \in Places, d[1] = e[1], d[2] < e[2]
        PROVE  g[d][2] < g[e][2]
    <3> HIDE DEF V, P, g
    <3>1. CASE d \in Paired /\ e \in Paired
      <4>1. g[d][2] = d[2] - n /\ g[e][2] = e[2] - n /\ d[2] \in Nat /\ e[2] \in Nat
        BY <1>5, <1>8, <3>1
      <4> QED BY <1>2, <2>2, <4>1
    <3>2. CASE d \in Paired /\ e \notin Paired
      BY <1>2, <1>5, <2>2, <3>2
    <3>3. CASE d \notin Paired /\ e \in Paired
      <4>1. d \in Resting /\ d[2] = 0
        BY <1>5, <2>2, <3>3
      <4> QED BY <1>8, <1>9, <3>3, <4>1
    <3>4. CASE d \notin Paired /\ e \notin Paired
      BY <1>5, <1>9, <2>2, <3>4
    <3> QED BY <3>1, <3>2, <3>3, <3>4
  <2>3. DOMAIN h = {g[d] : d \in Places}
    <3>1. {g[d] : d \in Places} = (Resting \union V) \union {g[d] : d \in Paired}
      <4> HIDE DEF V, P, g
      <4> QED BY <1>5, <1>9
    <3>2. {g[d] : d \in Paired} = P
      <4> HIDE DEF g, V
      <4>1. \A d \in Paired : g[d] = <<d[1], d[2] - n>>
        BY <1>8
      <4> HIDE DEF P
      <4> QED BY <1>7, <4>1, SMTT(30)
    <3>3. DOMAIN h = Places'
      OBVIOUS
    <3> HIDE DEF V, P, g, h
    <3> QED BY <1>6, <3>1, <3>2, <3>3
  <2>4. ASSUME NEW d \in Places PROVE h[g[d]] = first[d]
    <3>0. g[d] \in Places'
      BY <2>3
    <3>1. CASE d \in Paired
      <4>1. g[d][1] > 0 /\ g[d][2] > 0 /\ <<g[d][1], g[d][2] + n>> = d
        <5> HIDE DEF g, P
        <5> QED BY <1>5, <1>8, <3>1
      <4> HIDE DEF g
      <4> QED BY <3>0, <4>1
    <3>2. CASE d \notin Paired
      <4>1. g[d] = d /\ ~ (d[1] > 0 /\ d[2] > 0)
        <5> HIDE DEF g, V
        <5> QED BY <1>5, <1>9, <3>2
      <4> HIDE DEF g
      <4> QED BY <3>0, <4>1
    <3> QED BY <3>1, <3>2
  <2> HIDE DEF g, h
  <2> QED BY <1>3, <2>1, <2>2, <2>3, <2>4, Renamed
<1>11. ASSUME NEW x \in Places' PROVE ValueAt(x)' = ValueOf(x, h[x])
  <2>1. CASE x \in Resting
    <3>1. PICK l \in occ : x = <<l, 0>>
      BY <2>1 DEF Resting
    <3>2. ValueAt(x)' = ValueAt(x)
      BY <1>4, <3>1, RestingValue
    <3>3. h[x] = first[x] /\ x \in Places
      BY <1>5, <2>1
    <3> HIDE DEF h
    <3> QED BY <1>3, <3>2, <3>3
  <2>2. CASE x \in V
    <3>1. PICK i \in 1..Len(vectors) : x = <<0, Lanes - Len(vectors) + i>>
      BY <1>2, <2>2
    <3>2. PICK m \in Nat : m = Len(vectors)
      BY <1>2
    <3>3. ValueAt(x)' = vectors'[i] /\ ValueAt(x) = vectors[i]
      BY <1>2, <3>1, <3>2, VectorValue
    <3>4. h[x] = first[x] /\ x \in Places
      BY <1>5, <2>2
    <3> HIDE DEF h
    <3> QED BY <1>3, <3>3, <3>4
  <2>3. CASE x \in P
    <3>1. PICK i \in 1..n : x = <<pairs[i].level + 1, Lanes - n + i>>
      BY <2>3
    <3>2. PICK m \in Nat, l \in Nat : m = n /\ l = pairs[i].level + 1
      <4>1. n \in Nat /\ pairs[i].level + 1 \in Nat
        BY <1>2
      <4> HIDE DEF n
      <4> QED BY <4>1
    <3> DEFINE old == <<l, Lanes + i>>
    <3>3. l # 0 /\ x = <<l, Lanes - m + i>> /\ m <= Lanes /\ i \in 1..m /\ Len(parents') = m
          /\ i \in Nat \ {0}
      BY <1>2, <1>4, <3>1, <3>2
    <3>4. ValueAt(x)' = parents'[i].value
      BY <3>3, ParentValue
    <3>5. ValueAt(old) = ParentOf(pairs[i])
      BY <3>3, PairValue
    <3>6. old \in Places /\ old[1] = x[1]
      BY <1>5, <1>7, <3>2, <3>3
    <3>7. h[x] = first[old]
      <4>1. x[1] > 0 /\ x[2] > 0 /\ <<x[1], x[2] + n>> = old
        BY <1>2, <3>2, <3>3
      <4> HIDE DEF old
      <4> QED BY <4>1
    <3> HIDE DEF old, h
    <3>8. ValueOf(old, first[old]) = ValueOf(x, first[old])
      BY <3>6 DEF ValueOf, Size
    <3> QED BY <1>3, <1>4, <3>2, <3>3, <3>4, <3>5, <3>6, <3>7, <3>8
  <2> QED BY <1>6, <2>1, <2>2, <2>3
<1>12. \A at, c : ValueOf(at, c)' = ValueOf(at, c)
  BY DEF ValueOf
<1>13. PICK hh : hh = h
  OBVIOUS
<1>14. DOMAIN hh = Places'
  BY <1>13
<1> HIDE DEF h
<1>15. Holds(hh)'
  BY <1>10, <1>11, <1>12, <1>13, <1>14, Zenon DEF Holds
<1> QED BY <1>15, Zenon DEF StackInv

LEMMA StackPushVector ==
  ASSUME PairsInv, ByteInv, ShapeInv, StackInv, PushVector
  PROVE  StackInv'
<1>1. PICK first : Holds(first)
  BY DEF StackInv
<1>2. /\ parents = <<>> /\ vectors # <<>> /\ PushL(0, Head(vectors)) /\ vectors' = Tail(vectors)
      /\ UNCHANGED <<mode, len, chunks, pc, caller, parents, written>>
  BY DEF PushVector, bufferVars
<1>3. PICK n \in Nat : n = Len(vectors)
  BY Entries DEF ShapeInv
<1>4. /\ Lanes \in Nat /\ n <= Lanes /\ n > 0 /\ DOMAIN vectors = 1..n /\ Len(parents) = 0
      /\ Len(vectors') = n - 1 /\ DOMAIN vectors' = 1..(n - 1) /\ Head(vectors) = vectors[1]
      /\ \A i \in 1..(n - 1) : vectors'[i] = vectors[i + 1]
  <2>1. IsSequence(vectors) /\ Len(vectors) <= Lanes /\ IsSequence(vectors') /\ Len(vectors') = Len(vectors) - 1
    BY <1>2, RestIsSequence DEF ShapeInv
  <2>2. DOMAIN vectors' = 1..Len(vectors') /\ DOMAIN vectors = 1..Len(vectors)
    BY <2>1, Entries
  <2> QED BY <1>2, <1>3, <2>1, <2>2, Entries, EmptyIsSequence, Lengths
<1> DEFINE place == Lanes - n + 1
           from == <<0, place>>
<1>5. /\ Waiting = {<<0, Lanes - n + i>> : i \in 1..n}
      /\ Waiting' = {<<0, Lanes - (n - 1) + i>> : i \in 1..(n - 1)}
  <2>1. /\ Waiting = {<<0, Lanes - Len(vectors) + i>> : i \in DOMAIN vectors}
        /\ Waiting' = {<<0, Lanes - Len(vectors') + i>> : i \in DOMAIN vectors'}
    BY <1>2, EmptyIsSequence DEF Waiting
  <2>2. /\ Len(vectors) = n /\ DOMAIN vectors = 1..n
        /\ Len(vectors') = n - 1 /\ DOMAIN vectors' = 1..(n - 1)
    BY <1>3, <1>4
  <2> QED BY <2>1, <2>2, Zenon
<1>6. /\ place \in 1..Lanes /\ from \in Waiting /\ \A x \in Waiting : x[2] >= place
  BY <1>4, <1>5
<1>7. Waiting' = Waiting \ {from}
  <2>1. ASSUME NEW i \in 1..(n - 1) PROVE <<0, Lanes - (n - 1) + i>> \in Waiting \ {from}
    <3>1. i + 1 \in 1..n /\ Lanes - (n - 1) + i = Lanes - n + (i + 1)
          /\ Lanes - (n - 1) + i # Lanes - n + 1
      BY <1>4
    <3> QED BY <1>5, <3>1
  <2>2. ASSUME NEW i \in 1..n, i # 1 PROVE <<0, Lanes - n + i>> \in Waiting'
    <3>1. i - 1 \in 1..(n - 1) /\ Lanes - (n - 1) + (i - 1) = Lanes - n + i
      BY <1>4, <2>2
    <3> QED BY <1>5, <3>1
  <2>3. \A x \in Waiting' : x \in Waiting \ {from}
    BY <1>5, <2>1
  <2>4. \A x \in Waiting \ {from} : x \in Waiting'
    BY <1>5, <2>2
  <2> QED BY <2>3, <2>4
<1>8. ASSUME NEW x \in Waiting' PROVE ValueAt(x)' = ValueAt(x)
  <2>1. PICK i \in 1..(n - 1) : x = <<0, Lanes - (n - 1) + i>>
    BY <1>5
  <2>2. PICK m \in Nat : m = n - 1 /\ m <= Lanes
    BY <1>4
  <2>3. ValueAt(x)' = vectors'[i]
    <3>1. x = <<0, Lanes - m + i>> /\ i \in 1..m /\ Len(vectors') = m
      BY <1>4, <2>1, <2>2
    <3> QED BY <2>2, <3>1, VectorValue
  <2>4. PICK j \in 1..n : j = i + 1 /\ x = <<0, Lanes - n + j>>
    <3>1. i + 1 \in 1..n /\ Lanes - (n - 1) + i = Lanes - n + (i + 1)
      BY <1>4
    <3> QED BY <2>1, <3>1
  <2>5. ValueAt(x) = vectors[j]
    BY <1>3, <1>4, <2>4, VectorValue
  <2> QED BY <1>4, <2>3, <2>4, <2>5
<1>9. ValueAt(from) = Head(vectors)
  <2>1. 1 \in 1..n
    BY <1>4
  <2> QED BY <1>3, <1>4, <2>1, VectorValue
<1>10. Hashed' = Hashed
  BY <1>2 DEF Hashed, Complete
<1>11. Len(vectors') \in 0..Lanes /\ Len(parents') \in 0..Lanes
  BY <1>2, <1>4
<1> DEFINE value == Head(vectors)
<1>12. /\ PushL(0, value) /\ ValueAt(<<0, place>>) = value /\ <<0, place>> \in Waiting
       /\ Waiting' = Waiting \ {<<0, place>>} /\ UNCHANGED <<mode, written>>
  BY <1>2, <1>6, <1>7, <1>9
<1> HIDE DEF place, value
<1> QED BY <1>1, <1>6, <1>8, <1>10, <1>11, <1>12, StackPush

LEMMA StackPushParent ==
  ASSUME PairsInv, ByteInv, ShapeInv, StackInv, PushParent
  PROVE  StackInv'
<1>1. PICK first : Holds(first)
  BY DEF StackInv
<1>2. /\ parents # <<>> /\ PushL(Head(parents).level, Head(parents).value)
      /\ parents' = Tail(parents)
      /\ UNCHANGED <<mode, len, chunks, pc, caller, vectors, written>>
  BY DEF PushParent, bufferVars
<1>3. PICK n \in Nat : n = Len(parents)
  BY Entries DEF PairsInv
<1>4. /\ Lanes \in Nat /\ n <= Lanes /\ n > 0 /\ DOMAIN parents = 1..n
      /\ Len(vectors) \in 0..Lanes /\ DOMAIN vectors = 1..Len(vectors)
      /\ Len(parents') = n - 1 /\ DOMAIN parents' = 1..(n - 1) /\ Head(parents) = parents[1]
      /\ \A i \in 1..(n - 1) : parents'[i] = parents[i + 1]
      /\ \A i \in 1..n : parents[i].level \in Nat \ {0}
  <2>1. /\ IsSequence(parents) /\ Len(parents) <= Lanes /\ IsSequence(parents')
        /\ Len(parents') = Len(parents) - 1 /\ IsSequence(vectors) /\ Len(vectors) <= Lanes
        /\ \A i \in 1..Len(parents) : parents[i].level \in Nat \ {0}
    <3>1. Len(pairs) \in Nat /\ Len(parents) \in Nat /\ Len(pairs) + Len(parents) <= Lanes /\ Lanes \in Nat
      BY Entries, Lengths DEF PairsInv
    <3> QED BY <1>2, <3>1, RestIsSequence DEF PairsInv, ShapeInv
  <2>2. DOMAIN parents' = 1..Len(parents') /\ DOMAIN parents = 1..Len(parents)
        /\ DOMAIN vectors = 1..Len(vectors) /\ Len(vectors) \in Nat
    BY <2>1, Entries
  <2> QED BY <1>2, <1>3, <2>1, <2>2, Entries, Lengths
<1>5. PICK level \in Nat \ {0} : level = parents[1].level
  BY <1>4
<1> DEFINE value == parents[1].value
           V == {<<0, Lanes - Len(vectors) + i>> : i \in DOMAIN vectors}
           P == {<<parents[i].level, Lanes - n + i>> : i \in 1..n}
           Q == {<<parents[i + 1].level, Lanes - (n - 1) + i>> : i \in 1..(n - 1)}
           place == Lanes - n + 1
           from == <<level, place>>
<1>6. Waiting = V \union P /\ Waiting' = V \union Q
  <2>1. Waiting = V \union P
    BY <1>3, <1>4 DEF Waiting
  <2>2. Waiting' = V \union {<<parents'[i].level, Lanes - (n - 1) + i>> : i \in 1..(n - 1)}
    BY <1>2, <1>4 DEF Waiting
  <2>3. {<<parents'[i].level, Lanes - (n - 1) + i>> : i \in 1..(n - 1)} = Q
    BY <1>4
  <2> QED BY <2>1, <2>2, <2>3
<1>7. /\ place \in 1..Lanes /\ from \in P /\ \A x \in P : x[2] >= place
      /\ \A x \in V : x[1] # level
  BY <1>4, <1>5
<1>8. Q = P \ {from}
  <2>1. ASSUME NEW i \in 1..(n - 1) PROVE <<parents[i + 1].level, Lanes - (n - 1) + i>> \in P \ {from}
    <3>1. i + 1 \in 1..n /\ Lanes - (n - 1) + i = Lanes - n + (i + 1)
          /\ Lanes - (n - 1) + i # place
      BY <1>4
    <3>2. <<parents[i + 1].level, Lanes - n + (i + 1)>> \in P
      BY <3>1
    <3> HIDE DEF P, place
    <3> QED BY <3>1, <3>2
  <2>2. ASSUME NEW i \in 1..n, i # 1 PROVE <<parents[i].level, Lanes - n + i>> \in Q
    <3>1. i - 1 \in 1..(n - 1) /\ Lanes - (n - 1) + (i - 1) = Lanes - n + i /\ (i - 1) + 1 = i
      BY <1>4, <2>2
    <3>2. <<parents[(i - 1) + 1].level, Lanes - (n - 1) + (i - 1)>> \in Q
      BY <3>1
    <3> HIDE DEF Q
    <3> QED BY <3>1, <3>2
  <2>3. \A x \in Q : x \in P \ {from}
    BY <2>1
  <2>4. \A x \in P \ {from} : x \in Q
    <3> SUFFICES ASSUME NEW i \in 1..n, <<parents[i].level, Lanes - n + i>> # from
                 PROVE  <<parents[i].level, Lanes - n + i>> \in Q
      OBVIOUS
    <3>1. i # 1
      BY <1>5
    <3> QED BY <2>2, <3>1
  <2> HIDE DEF P, Q
  <2> QED BY <2>3, <2>4
<1>9. ASSUME NEW x \in Waiting' PROVE ValueAt(x)' = ValueAt(x)
  <2>1. CASE x \in V
    <3>1. PICK i \in 1..Len(vectors) : x = <<0, Lanes - Len(vectors) + i>>
      BY <1>4, <2>1
    <3>2. PICK m \in Nat : m = Len(vectors) /\ m <= Lanes
      <4>1. Len(vectors) \in Nat /\ Len(vectors) <= Lanes
        BY <1>4
      <4> QED BY <4>1
    <3>3. x = <<0, Lanes - m + i>> /\ i \in 1..m
      BY <3>1, <3>2
    <3>4. ValueAt(x)' = vectors'[i] /\ ValueAt(x) = vectors[i]
      BY <1>2, <3>2, <3>3, VectorValue
    <3> QED BY <1>2, <3>4
  <2>2. CASE x \in Q
    <3>1. PICK i \in 1..(n - 1) : x = <<parents[i + 1].level, Lanes - (n - 1) + i>>
      BY <2>2
    <3>2. PICK m \in Nat : m = n - 1 /\ m <= Lanes
      BY <1>4
    <3>3. PICK j \in 1..n : j = i + 1 /\ Lanes - (n - 1) + i = Lanes - n + j
      <4>1. i + 1 \in 1..n /\ Lanes - (n - 1) + i = Lanes - n + (i + 1)
        BY <1>4
      <4> QED BY <4>1
    <3>4. PICK l \in Nat \ {0} : l = parents[j].level
      BY <1>4
    <3>5. /\ x = <<l, Lanes - m + i>> /\ i \in 1..m /\ Len(parents') = m
          /\ x = <<l, Lanes - n + j>> /\ l # 0
      BY <1>4, <3>1, <3>2, <3>3, <3>4
    <3>6. ValueAt(x)' = parents'[i].value
      BY <3>2, <3>5, ParentValue
    <3>7. ValueAt(x) = parents[j].value
      <4>1. Len(parents) = n /\ n \in Nat /\ n <= Lanes /\ j \in 1..n /\ l # 0
        BY <1>3, <1>4, <3>5
      <4>2. ValueAt(<<l, Lanes - n + j>>) = parents[j].value
        BY <4>1, ParentValue
      <4>3. x = <<l, Lanes - n + j>>
        BY <3>5
      <4> QED BY <4>2, <4>3
    <3> QED BY <1>4, <3>3, <3>6, <3>7
  <2> HIDE DEF V, Q
  <2> QED BY <1>6, <2>1, <2>2
<1>10. ValueAt(from) = value
  <2>1. 1 \in 1..n
    BY <1>4
  <2> QED BY <1>3, <1>4, <1>5, <2>1, ParentValue
<1>11. Hashed' = Hashed
  BY <1>2 DEF Hashed, Complete
<1>12. Len(vectors') \in 0..Lanes /\ Len(parents') \in 0..Lanes
  BY <1>2, <1>4
<1>13. from \in Waiting /\ Waiting' = Waiting \ {from} /\ \A x \in Waiting : x[1] = level => x[2] >= place
  <2>1. from \notin V
    BY <1>7
  <2> HIDE DEF V, P, Q, from, place
  <2> QED BY <1>6, <1>7, <1>8, <2>1
<1>14. /\ PushL(level, value) /\ ValueAt(<<level, place>>) = value /\ <<level, place>> \in Waiting
       /\ Waiting' = Waiting \ {<<level, place>>} /\ UNCHANGED <<mode, written>>
  BY <1>2, <1>4, <1>5, <1>10, <1>13
<1> HIDE DEF place, value
<1> QED BY <1>1, <1>7, <1>9, <1>11, <1>12, <1>13, <1>14, StackPush

(* Bytes that lie in order behind those that were hashed are in the same   *)
(* chunks.                                                                 *)
LEMMA ChunksOfWritten ==
  ASSUME ByteInv, NEW bytes \in Seq(Int), NEW count \in Nat, Offset(count) <= Len(bytes),
         Offset(chunks) + Len(bytes) <= Len(written),
         \A j \in 1..Len(bytes) : bytes[j] = written[Offset(chunks) + j]
  PROVE  \A i \in 1..count : Tree!ChunkAt(bytes, i - 1) = Tree!ChunkAt(written, chunks + (i - 1))
<1> SUFFICES ASSUME NEW i \in 1..count
             PROVE  Tree!ChunkAt(bytes, i - 1) = Tree!ChunkAt(written, chunks + (i - 1))
  OBVIOUS
<1> DEFINE e == i - 1
<1>1. /\ written \in Seq(Int) /\ chunks \in Nat /\ Len(written) \in Nat /\ Len(bytes) \in Nat
      /\ ChunkLen \in Nat
  BY LenProperties, Lengths DEF ByteInv, ByteType
<1>2. e \in Nat /\ e + 1 = i /\ i \in Nat /\ e < count /\ chunks + e \in Nat
  BY <1>1
<1> HIDE DEF e
<1>3. /\ Offset(e) \in Nat /\ Offset(chunks) \in Nat /\ Offset(chunks + e) = Offset(chunks) + Offset(e)
      /\ Offset(e) + ChunkLen <= Offset(count) /\ Offset(e + 1) = Offset(e) + ChunkLen
  BY <1>1, <1>2, OffsetFacts
<1>4. Offset((chunks + e) + 1) = Offset(chunks + e) + ChunkLen /\ Offset(count) \in Nat
  BY <1>2, OffsetFacts
<1>5. Offset(e + 1) <= Len(bytes) /\ Offset((chunks + e) + 1) <= Len(written)
  BY <1>1, <1>3, <1>4
<1>6. ASSUME NEW j \in 1..ChunkLen PROVE bytes[Offset(e) + j] = written[Offset(chunks + e) + j]
  <2>1. Offset(e) + j \in 1..Len(bytes)
    <3>1. Offset(e) + ChunkLen <= Len(bytes) /\ Offset(e) \in Nat
      BY <1>3, <1>5
    <3> QED BY <1>1, <3>1
  <2>2. Offset(chunks) + (Offset(e) + j) = Offset(chunks + e) + j
    BY <1>3
  <2>3. bytes[Offset(e) + j] = written[Offset(chunks) + (Offset(e) + j)]
    BY <2>1
  <2> QED BY <2>2, <2>3
<1>7. Tree!ChunkAt(bytes, e) = Tree!ChunkAt(written, chunks + e)
  BY <1>1, <1>2, <1>5, <1>6, SameChunk
<1> QED BY <1>7 DEF e

LEMMA StackConsumes ==
  ASSUME PairsInv, ByteInv, ShapeInv, StackInv, ConsumeInput \/ ConsumeBuffer \/ CallDigest
  PROVE  StackInv'
<1>1. /\ chunks \in Nat /\ len \in Nat /\ len <= BufLen /\ buf \in Seq(Int) /\ Len(buf) = BufLen
      /\ written \in Seq(Int) /\ input \in Seq(Int) /\ Len(input) \in Nat /\ Lanes \in Nat
      /\ BufLen \in Nat /\ BufLen = Offset(Lanes) /\ Offset(chunks) \in Nat
  <2>1. /\ chunks \in Nat /\ len \in 0..BufLen /\ buf \in Seq(Int) /\ Len(buf) = BufLen
        /\ written \in Seq(Int) /\ input \in Seq(Int)
    BY DEF ByteInv, ByteType
  <2>2. Len(input) \in Nat /\ Offset(chunks) \in Nat
    BY <2>1, LenProperties, OffsetFacts
  <2>3. Lanes \in Nat /\ BufLen \in Nat /\ BufLen = Offset(Lanes)
    BY Lengths
  <2> QED BY <2>1, <2>2, <2>3
<1>2. /\ pc \in {"idle", "writing"} /\ vectors = <<>> /\ parents = <<>> /\ Hashed = chunks
      /\ UNCHANGED <<stackVars, parents, mode, written, chunks, len>> /\ pc' = "pushing"
  <2>1. /\ pc \in {"idle", "writing"} /\ pc' = "pushing"
        /\ UNCHANGED <<stackVars, parents, mode, written, chunks, len>>
    BY DEF ConsumeInput, ConsumeBuffer, Consume, CallDigest, bufferVars
  <2> QED BY <1>1, <2>1 DEF PairsInv, ShapeInv, Hashed
<1>3. Lies(chunks, len)
  BY <1>2 DEF ByteInv, Base, InBuffer, Consuming
<1>4. CASE ConsumeInput
  <2> DEFINE bytes == SubSeq(input, 0 + 1, BufLen)
  <2>1. /\ len = 0 /\ Len(input) > BufLen /\ caller' = "writing" /\ vectors' = HashF(bytes, Lanes)
    BY <1>4 DEF ConsumeInput, Direct, Consume
  <2>2. /\ bytes \in Seq(Int) /\ Len(bytes) = BufLen - 0
        /\ \A j \in 1..(BufLen - 0) : bytes[j] = input[0 + j]
    <3>1. 0 \in Nat /\ 0 <= BufLen /\ BufLen <= Len(input)
      BY <1>1, <2>1
    <3> QED BY <1>1, <3>1, Part
  <2> HIDE DEF bytes
  <2>3. /\ Len(written) = Offset(chunks) + 0 + Len(input)
        /\ \A j \in 1..Len(input) : input[j] = written[Offset(chunks) + 0 + j]
    BY <1>3, <2>1 DEF Lies
  <2>4. Len(bytes) = BufLen /\ Offset(chunks) + Len(bytes) <= Len(written)
    BY <1>1, <2>1, <2>2, <2>3
  <2>5. ASSUME NEW j \in 1..Len(bytes) PROVE bytes[j] = written[Offset(chunks) + j]
    <3>0. j \in 1..BufLen
      BY <2>4
    <3>1. j \in 1..(BufLen - 0) /\ 0 + j = j /\ j \in 1..Len(input)
          /\ Offset(chunks) + 0 + j = Offset(chunks) + j
      BY <1>1, <2>1, <3>0, SMTT(30)
    <3>2. bytes[j] = input[j] /\ input[j] = written[Offset(chunks) + 0 + j]
      BY <2>2, <2>3, <3>1
    <3> QED BY <3>1, <3>2
  <2>6. Hashed' = chunks + Lanes
    BY <1>2, <2>1 DEF Hashed
  <2>7. \A i \in 1..Lanes : Tree!ChunkAt(bytes, i - 1) = Tree!ChunkAt(written, chunks + (i - 1))
    <3>1. Offset(Lanes) <= Len(bytes)
      BY <1>1, <2>4
    <3> QED BY <1>1, <2>2, <2>4, <2>5, <3>1, ChunksOfWritten
  <2>8. Lanes \in 0..Lanes
    BY <1>1
  <2> QED BY <1>2, <2>1, <2>6, <2>7, <2>8, StackConsume
<1>5. CASE ConsumeBuffer
  <2>1. /\ len = BufLen /\ caller' = "writing" /\ vectors' = HashF(buf, Lanes)
    BY <1>5 DEF ConsumeBuffer, Consume
  <2>2. /\ Offset(chunks) + Len(buf) <= Len(written)
        /\ \A j \in 1..Len(buf) : buf[j] = written[Offset(chunks) + j]
    BY <1>1, <1>3, <2>1 DEF Lies
  <2>3. Hashed' = chunks + Lanes
    BY <1>2, <2>1 DEF Hashed
  <2>4. \A i \in 1..Lanes : Tree!ChunkAt(buf, i - 1) = Tree!ChunkAt(written, chunks + (i - 1))
    <3>1. Offset(Lanes) <= Len(buf)
      BY <1>1
    <3> QED BY <1>1, <2>2, <3>1, ChunksOfWritten
  <2>5. Lanes \in 0..Lanes
    BY <1>1
  <2> QED BY <1>2, <2>1, <2>3, <2>4, <2>5, StackConsume
<1>6. CASE CallDigest
  <2>1. caller' = "finalizing" /\ vectors' = HashF(Buffered, Complete)
    BY <1>6 DEF CallDigest
  <2> DEFINE bytes == SubSeq(buf, 0 + 1, len)
  <2>2. Buffered = bytes
    BY DEF Buffered
  <2>3. /\ bytes \in Seq(Int) /\ Len(bytes) = len - 0
        /\ \A j \in 1..(len - 0) : bytes[j] = buf[0 + j]
    <3>1. 0 \in Nat /\ 0 <= len /\ len <= Len(buf)
      BY <1>1
    <3> QED BY <1>1, <3>1, Part
  <2> HIDE DEF bytes
  <2>4. /\ Len(bytes) = len /\ Offset(chunks) + Len(bytes) <= Len(written)
    BY <1>1, <1>3, <2>3 DEF Lies
  <2>5. ASSUME NEW j \in 1..Len(bytes) PROVE bytes[j] = written[Offset(chunks) + j]
    <3>1. j \in 1..(len - 0) /\ 0 + j = j /\ j \in 1..len
      BY <1>1, <2>4
    <3>2. bytes[j] = buf[j] /\ buf[j] = written[Offset(chunks) + j]
      BY <1>3, <2>3, <3>1 DEF Lies
    <3> QED BY <3>2
  <2>6. Complete \in Nat /\ Complete \in 0..Lanes /\ Offset(Complete) <= Len(bytes)
    BY <1>1, <2>4, CompleteFacts
  <2>7. Hashed' = chunks + Complete
    BY <1>2, <2>1 DEF Hashed, Complete
  <2>8. \A i \in 1..Complete : Tree!ChunkAt(bytes, i - 1) = Tree!ChunkAt(written, chunks + (i - 1))
    BY <1>1, <2>3, <2>4, <2>5, <2>6, ChunksOfWritten
  <2>9. vectors' = HashF(bytes, Complete)
    BY <2>1, <2>2
  <2> QED BY <1>2, <2>6, <2>7, <2>8, <2>9, StackConsume
<1> QED BY <1>4, <1>5, <1>6

LEMMA StackStep ==
  PairsInv /\ ByteInv /\ ShapeInv /\ StackInv /\ [Next]_vars => StackInv'
<1> SUFFICES ASSUME PairsInv, ByteInv, ShapeInv, StackInv, [Next]_vars PROVE StackInv'
  OBVIOUS
<1>0. chunks \in Nat /\ len \in Nat /\ Lanes \in Nat /\ Complete \in Nat
  <2>1. chunks \in Nat /\ len \in Nat
    BY Lengths DEF ByteInv, ByteType
  <2> QED BY <2>1, Lengths, CompleteFacts
<1>1. CASE DigestSmall \/ WriteReturns \/ CopyIn \/ DigestReturns
  <2>1. /\ UNCHANGED <<stackVars, parents, vectors, mode, written, chunks>>
        /\ pc # "pushing" /\ pc' # "pushing"
    BY <1>1 DEF DigestSmall, WriteReturns, CopyIn, DigestReturns, callVars, bufferVars
  <2>2. Hashed' = Hashed
    BY <2>1 DEF Hashed
  <2> QED BY <2>1, <2>2, StackKept
<1>2. CASE ConsumeReturns
  <2>1. /\ UNCHANGED <<stackVars, parents, vectors, mode, written>> /\ pc = "pushing"
        /\ caller = "writing" /\ pc' = "writing" /\ chunks' = chunks + Lanes
    BY <1>2 DEF ConsumeReturns, Pushed
  <2>2. Hashed' = Hashed
    BY <1>0, <2>1 DEF Hashed
  <2> QED BY <2>1, <2>2, StackKept
<1>3. CASE FoldBuffer
  <2>1. /\ UNCHANGED <<stackVars, parents, vectors, mode, written>> /\ pc = "pushing"
        /\ caller = "finalizing" /\ pc' = "flushing" /\ chunks' = chunks + Complete
    BY <1>3 DEF FoldBuffer, Pushed
  <2>2. Hashed' = Hashed
    BY <1>0, <2>1 DEF Hashed
  <2> QED BY <2>1, <2>2, StackKept
<1>4. CASE UNCHANGED vars
  <2>1. UNCHANGED <<stackVars, parents, vectors, mode, written, chunks, len, pc, caller>>
    BY <1>4 DEF vars, stackVars
  <2>2. Hashed' = Hashed
    BY <2>1 DEF Hashed, Complete
  <2> QED BY <2>1, <2>2, StackKept
<1>5. CASE FlushFull \/ FlushRest
  <2>1. /\ TakePairs /\ parents = <<>>
        /\ UNCHANGED <<vectors, mode, written, chunks, len, pc, caller>>
    BY <1>5 DEF FlushFull, FlushRest, bufferVars
  <2>2. Hashed' = Hashed
    BY <2>1 DEF Hashed, Complete
  <2> QED BY <2>1, <2>2, StackTake
<1>6. CASE Reset \/ DeriveKey
  <2>1. /\ occ' = {} /\ pairs' = <<>> /\ chunks' = 0 /\ pc = "idle"
        /\ UNCHANGED <<pc, vectors, parents>>
    BY <1>6 DEF Reset, DeriveKey, Clear, callVars
  <2>2. vectors' = <<>> /\ parents' = <<>> /\ Hashed' = 0
    BY <2>1 DEF PairsInv, ShapeInv, Hashed
  <2> DEFINE none == [x \in {} |-> 0]
  <2>3. Places' = {} /\ DOMAIN none = {}
    BY <2>1, <2>2 DEF Places
  <2>4. Tiling(none, 0)
    BY DEF Tiling
  <2> HIDE DEF none
  <2>5. Holds(none)'
    BY <2>2, <2>3, <2>4, Zenon DEF Holds
  <2> QED BY <2>5 DEF StackInv
<1> QED BY <1>1, <1>2, <1>3, <1>4, <1>5, <1>6, StackWrite, StackConsumes, StackPushVector,
           StackPushParent DEF Next, Step

-----------------------------------------------------------------------------
(* The inductive invariant: the shape of the pairs and of the stack, where *)
(* the bytes are, and the subtrees whose values the stack holds.           *)
HasherInv == PairsInv /\ ByteInv /\ ShapeInv /\ StackInv

LEMMA HasherAlways == Spec => []HasherInv
<1>1. Init => HasherInv
  BY PairsInit, ByteInit, ShapeInit, StackInit DEF HasherInv
<1>2. HasherInv /\ [Next]_vars => HasherInv'
  BY PairsStep, ByteStep, ShapeStep, StackStep DEF HasherInv
<1> QED BY <1>1, <1>2, PTL DEF Spec

(* The chunks that a value is over are determined by the value. *)
LEMMA FirstChunksAre ==
  ASSUME ByteInv, NEW first, Holds(first), NEW at \in Places
  PROVE  FirstChunks(at) = {first[at]}
<1> DEFINE size == Tree!Pow2[at[1]]
           tree == Tree!Subtree(mode, written)
<1>1. /\ at \in Nat \X Nat /\ at[1] \in Nat /\ first[at] \in Nat /\ first[at] + size <= Hashed
      /\ ValueAt(at) = Tree!Compress(tree[size][first[at]]) /\ Hashed \in Nat
  BY HashedBytes DEF Holds, Tiling, ValueOf, Size
<1>2. size \in Nat
  BY <1>1, Pow2Facts
<1>3. FirstChunks(at) = {f \in 0..(Hashed - size) : ValueAt(at) = Tree!Compress(tree[size][f])}
  BY DEF FirstChunks
<1>4. ASSUME NEW f \in Nat, Tree!Compress(tree[size][f]) = Tree!Compress(tree[size][first[at]])
      PROVE  f = first[at]
  <2>1. tree[size][f] = tree[size][first[at]]
    <3> HIDE DEF tree, size
    <3> QED BY <1>4 DEF Tree!Compress
  <2> QED BY <1>1, <2>1, SubtreeFirst
<1> HIDE DEF tree, size
<1>5. first[at] \in 0..(Hashed - size)
  BY <1>1, <1>2
<1>6. \A f \in 0..(Hashed - size) : f \in Nat
  BY <1>1, <1>2
<1> QED BY <1>1, <1>3, <1>4, <1>5, <1>6

(* Between any two pushes the values of the stack, and those still to be   *)
(* combined, are the values of complete subtrees over what was written,    *)
(* side by side in the order of the places: pushL, pushN and flush         *)
(* reorder work, never chunks.                                             *)
THEOREM StackIsTheTree == Spec => []StackHoldsTheTree
<1>1. ASSUME HasherInv PROVE StackHoldsTheTree
  <2>1. PICK first : Holds(first)
    BY <1>1 DEF HasherInv, StackInv
  <2>2. \A at \in Places : FirstChunks(at) = {first[at]}
    BY <1>1, <2>1, FirstChunksAre DEF HasherInv
  <2>3. \A at, than \in Places : Older(at, than) => first[at] + Tree!Pow2[at[1]] <= first[than]
    BY <2>1 DEF Holds, Tiling, Size
  <2> QED BY <2>2, <2>3 DEF StackHoldsTheTree
<1> QED BY <1>1, HasherAlways, PTL

(* Whatever the sizes of the writes, the chunks counted are all on the     *)
(* stack and the bytes behind them are in the buffer and in what Write has *)
(* still to take, in order and once; the last byte stays off the stack.    *)
THEOREM NoByteIsLost == Spec => []EveryByteKept
<1>1. ASSUME HasherInv PROVE EveryByteKept
  <2> SUFFICES ASSUME pc \in {"idle", "writing"}
               PROVE  /\ \A n \in 0..(chunks - 1) :
                           \E at \in Places : \E first \in FirstChunks(at) :
                             n \in first..(first + Tree!Pow2[at[1]] - 1)
                      /\ SubSeq(written, chunks * ChunkLen + 1, Len(written)) = Buffered \o input
                      /\ written # <<>> => len + Len(input) > 0
    BY DEF EveryByteKept
  <2>1. /\ chunks \in Nat /\ len \in Nat /\ len <= BufLen /\ buf \in Seq(Int) /\ Len(buf) = BufLen
        /\ written \in Seq(Int) /\ Len(written) \in Nat /\ input \in Seq(Int) /\ Len(input) \in Nat
        /\ Offset(chunks) \in Nat
    <3>1. /\ chunks \in Nat /\ len \in 0..BufLen /\ buf \in Seq(Int) /\ Len(buf) = BufLen
          /\ written \in Seq(Int) /\ input \in Seq(Int)
      BY <1>1 DEF HasherInv, ByteInv, ByteType
    <3>2. Len(input) \in Nat /\ Len(written) \in Nat /\ Offset(chunks) \in Nat /\ BufLen \in Nat
      BY <3>1, LenProperties, OffsetFacts, Lengths
    <3> QED BY <3>1, <3>2
  <2>2. Lies(chunks, len) /\ Hashed = chunks
    BY <1>1, <2>1 DEF HasherInv, ByteInv, Base, InBuffer, Consuming, Hashed
  <2>3. ASSUME NEW n \in 0..(chunks - 1)
        PROVE  \E at \in Places : \E first \in FirstChunks(at) :
                 n \in first..(first + Tree!Pow2[at[1]] - 1)
    <3>1. PICK first : Holds(first)
      BY <1>1 DEF HasherInv, StackInv
    <3>2. PICK at \in Places : first[at] <= n /\ n < first[at] + Size(at)
      BY <2>2, <3>1 DEF Holds, Tiling
    <3>3. first[at] \in FirstChunks(at)
      BY <1>1, <3>1, FirstChunksAre DEF HasherInv
    <3>4. first[at] \in Nat /\ at[1] \in Nat
      BY <3>1 DEF Holds, Tiling
    <3>5. Size(at) \in Nat /\ Size(at) = Tree!Pow2[at[1]]
      BY <3>4, Pow2Facts DEF Size
    <3>6. n \in first[at]..(first[at] + Tree!Pow2[at[1]] - 1)
      BY <3>2, <3>4, <3>5
    <3> QED BY <3>3, <3>6
  <2>4. SubSeq(written, chunks * ChunkLen + 1, Len(written)) = Buffered \o input
    <3> DEFINE rest == SubSeq(written, Offset(chunks) + 1, Len(written))
               all == Buffered \o input
    <3>1. Len(written) = Offset(chunks) + len + Len(input)
      BY <2>2 DEF Lies
    <3>2. /\ rest \in Seq(Int) /\ Len(rest) = Len(written) - Offset(chunks)
          /\ \A j \in 1..(Len(written) - Offset(chunks)) : rest[j] = written[Offset(chunks) + j]
      <4>1. Offset(chunks) <= Len(written) /\ Len(written) <= Len(written)
        BY <2>1, <3>1
      <4> QED BY <2>1, <4>1, Part
    <3>3. /\ SubSeq(buf, 0 + 1, len) \in Seq(Int) /\ Len(SubSeq(buf, 0 + 1, len)) = len - 0
          /\ \A j \in 1..(len - 0) : SubSeq(buf, 0 + 1, len)[j] = buf[0 + j]
      <4>1. 0 \in Nat /\ 0 <= len /\ len <= Len(buf)
        BY <2>1
      <4> QED BY <2>1, <4>1, Part
    <3>4. /\ Buffered \in Seq(Int) /\ Len(Buffered) = len
          /\ \A j \in 1..len : Buffered[j] = buf[j]
      <4>1. len - 0 = len /\ \A j \in 1..len : 0 + j = j
        BY <2>1
      <4>2. Buffered = SubSeq(buf, 0 + 1, len)
        BY DEF Buffered
      <4> QED BY <3>3, <4>1, <4>2
    <3>5. /\ all \in Seq(Int) /\ Len(all) = len + Len(input)
          /\ \A j \in 1..(len + Len(input)) :
               all[j] = IF j <= len THEN Buffered[j] ELSE input[j - len]
      BY <2>1, <3>4, ConcatProperties
    <3> HIDE DEF rest, all
    <3>6. Len(rest) = Len(all) /\ Len(all) = len + Len(input)
      BY <2>1, <3>1, <3>2, <3>5
    <3>7. ASSUME NEW j \in 1..Len(all) PROVE rest[j] = all[j]
      <4>1. rest[j] = written[Offset(chunks) + j] /\ j \in 1..(len + Len(input))
        BY <2>1, <3>1, <3>2, <3>6
      <4>2. CASE j <= len
        <5>1. j \in 1..len
          BY <2>1, <4>1, <4>2
        <5> QED BY <2>2, <3>4, <3>5, <4>1, <4>2, <5>1 DEF Lies
      <4>3. CASE ~ (j <= len)
        <5>1. j - len \in 1..Len(input) /\ Offset(chunks) + len + (j - len) = Offset(chunks) + j
          BY <2>1, <4>1, <4>3
        <5>2. input[j - len] = written[Offset(chunks) + len + (j - len)]
          BY <2>2, <5>1 DEF Lies
        <5>3. all[j] = input[j - len]
          BY <3>5, <4>1, <4>3
        <5> QED BY <4>1, <5>1, <5>2, <5>3
      <4> QED BY <4>2, <4>3
    <3>8. rest = all
      BY <3>2, <3>5, <3>6, <3>7, SeqEqual
    <3> QED BY <3>8 DEF rest, all, Offset
  <2> QED BY <2>2, <2>3, <2>4 DEF Lies
<1> QED BY <1>1, HasherAlways, PTL

-----------------------------------------------------------------------------
(* The fold of finalizeDigest, level by level. *)
FoldOver(node, l) ==
  IF l = 0 THEN digest
  ELSE IF l - 1 \in occ
       THEN Tree!ParentNode(mode, stack[l - 1], Tree!Compress(node[l - 1]))
       ELSE node[l - 1]

IsFold(node, n) == node = [l \in 0..n |-> FoldOver(node, l)]

LEMMA FoldUpto ==
  ASSUME NEW n \in Nat
  PROVE  \E node : IsFold(node, n)
<1> DEFINE T == {k \in Nat : \E node : IsFold(node, k)}
<1>1. 0 \in T
  <2> DEFINE f == [l \in 0..0 |-> digest]
  <2>1. \A l \in 0..0 : f[l] = FoldOver(f, l)
    BY DEF FoldOver
  <2>2. IsFold(f, 0)
    BY <2>1 DEF IsFold
  <2> QED BY <2>2
<1>2. ASSUME NEW k \in Nat, k \in T PROVE k + 1 \in T
  <2>1. PICK f : IsFold(f, k)
    BY <1>2
  <2> DEFINE g == [l \in 0..(k + 1) |-> IF l = k + 1 THEN FoldOver(f, k + 1) ELSE f[l]]
  <2>2. \A l \in 0..k : f[l] = FoldOver(f, l)
    BY <2>1, Zenon DEF IsFold
  <2>3. g[k + 1] = FoldOver(f, k + 1) /\ \A l \in 0..k : g[l] = f[l]
    OBVIOUS
  <2>4. ASSUME NEW l \in 0..(k + 1) PROVE g[l] = FoldOver(g, l)
    <3> HIDE DEF g
    <3>1. FoldOver(f, l) = FoldOver(g, l)
      <4>1. l # 0 => l - 1 \in 0..k
        OBVIOUS
      <4> QED BY <2>3, <4>1 DEF FoldOver
    <3>2. CASE l = k + 1
      BY <2>3, <3>1, <3>2
    <3>3. CASE l \in 0..k
      BY <2>2, <2>3, <3>1, <3>3
    <3> QED BY <3>2, <3>3
  <2>5. IsFold(g, k + 1)
    BY <2>4, Zenon DEF IsFold
  <2> QED BY <2>5
<1> HIDE DEF T
<1>3. Nat \subseteq T
  BY <1>1, <1>2, Induction
<1> QED BY <1>3 DEF T

LEMMA Height == MaxBytes \div ChunkLen \in Nat
<1>1. /\ MaxBytes \div ChunkLen \in Int /\ MaxBytes = ChunkLen * (MaxBytes \div ChunkLen) + (MaxBytes % ChunkLen)
      /\ MaxBytes % ChunkLen \in 0..(ChunkLen - 1) /\ ChunkLen \in Nat /\ ChunkLen > 0 /\ MaxBytes \in Nat
  BY Lengths
<1>2. MaxBytes \div ChunkLen <= -1 => ChunkLen * (MaxBytes \div ChunkLen) <= -ChunkLen
  BY <1>1
<1> QED BY <1>1, <1>2

LEMMA FoldedIs ==
  \E node : IsFold(node, MaxBytes \div ChunkLen + 1) /\ Folded = node[MaxBytes \div ChunkLen + 1]
<1> DEFINE n == MaxBytes \div ChunkLen + 1
           Whole(f) == f = [l \in 0..n |-> FoldOver(f, l)]
           node == CHOOSE f : Whole(f)
<1>1. n \in Nat
  BY Height
<1> HIDE DEF n
<1>2. \E f : Whole(f)
  BY <1>1, FoldUpto DEF IsFold
<1>3. Whole(node)
  BY <1>2, Zenon
<1>4. IsFold(node, n)
  BY <1>3, Zenon DEF IsFold
<1>5. Folded = node[n]
  BY Zenon DEF Folded, FoldOver, n
<1> HIDE DEF node
<1> QED BY <1>4, <1>5 DEF n

(* What the fold has joined at a level: the digest is the node over all    *)
(* chunks from some chunk on, and the values of the levels above are those *)
(* of the chunks before it.                                                *)
FoldedFrom(first, node, l, c) ==
  /\ c \in 0..chunks /\ chunks - c < Tree!Pow2[l]
  /\ node[l] = Tree!Subtree(mode, written)[chunks + 1 - c][c]
  /\ \A at \in Places : IF at[1] < l THEN first[at] >= c ELSE first[at] + Size(at) <= c

(* One level up. *)
LEMMA FoldLevel ==
  ASSUME PairsInv, ByteInv, ShapeInv, NEW first, Holds(first), Places = Resting, Hashed = chunks,
         NEW n \in Nat, NEW node, IsFold(node, n), NEW l \in Nat, l + 1 <= n,
         NEW c, FoldedFrom(first, node, l, c)
  PROVE  \E d : FoldedFrom(first, node, l + 1, d)
<1>1. /\ chunks \in Nat /\ c \in Nat /\ c <= chunks /\ chunks - c < Tree!Pow2[l]
      /\ Tree!Pow2[l] \in Nat /\ Tree!Pow2[l] > 0 /\ Tree!Pow2[l + 1] = 2 * Tree!Pow2[l]
  <2>1. chunks \in Nat
    BY DEF ByteInv, ByteType
  <2>2. /\ Tree!Pow2[l] \in Nat /\ Tree!Pow2[l] > l /\ Tree!Pow2[l + 1] = 2 * Tree!Pow2[l]
    BY Pow2Facts, Zenon
  <2>3. c \in 0..chunks /\ chunks - c < Tree!Pow2[l]
    BY DEF FoldedFrom
  <2> QED BY <2>1, <2>2, <2>3
<1>2. node[l + 1] = FoldOver(node, l + 1)
  <2>1. l + 1 \in 0..n
    OBVIOUS
  <2>2. \A x \in 0..n : node[x] = FoldOver(node, x)
    BY Zenon DEF IsFold
  <2> QED BY <2>1, <2>2
<1>3. /\ DOMAIN first = Places /\ Tiling(first, chunks)
      /\ \A x \in Places : ValueAt(x) = ValueOf(x, first[x])
      /\ \A x \in Places : /\ x \in Nat \X Nat /\ first[x] \in Nat /\ Size(x) \in Nat /\ Size(x) > 0
                           /\ x[1] \in Nat /\ x[2] = 0 /\ x = <<x[1], 0>> /\ x[1] \in occ
      /\ \A x \in Places : IF x[1] < l THEN first[x] >= c ELSE first[x] + Size(x) <= c
  <2>1. \A x \in Places : x \in Nat \X Nat /\ x[2] = 0 /\ x[1] \in occ
    BY PlacesShape
  <2>2. \A x \in Places : x[1] \in Nat /\ x = <<x[1], 0>> /\ Size(x) \in Nat /\ Size(x) > 0
    BY <2>1, SizeType
  <2> QED BY <2>1, <2>2 DEF Holds, Tiling, FoldedFrom
<1>4. CASE l \notin occ
  <2>1. node[l + 1] = node[l]
    <3>1. l + 1 # 0 /\ (l + 1) - 1 = l
      OBVIOUS
    <3> QED BY <1>2, <1>4, <3>1 DEF FoldOver
  <2>2. \A x \in Places : IF x[1] < l + 1 THEN first[x] >= c ELSE first[x] + Size(x) <= c
    <3>1. \A x \in Places : x[1] # l
      BY <1>3, <1>4
    <3> QED BY <1>3, <3>1
  <2>3. FoldedFrom(first, node, l + 1, c)
    BY <1>1, <2>1, <2>2 DEF FoldedFrom
  <2> QED BY <2>3
<1>5. CASE l \in occ
  <2> DEFINE here == <<l, 0>>
             size == Tree!Pow2[l]
             d == first[here]
             tree == Tree!Subtree(mode, written)
             rest == chunks + 1 - c
  <2>1. here \in Places /\ here[1] = l /\ Size(here) = size
    BY <1>5 DEF Resting, Size
  <2>2. d \in Nat /\ d + size <= c
    BY <1>3, <2>1
  <2>3. d + size = c
    <3>1. PICK x \in Places : first[x] <= c - 1 /\ c - 1 < first[x] + Size(x)
      <4>1. c - 1 \in 0..(chunks - 1)
        BY <1>1, <2>2
      <4> QED BY <1>3, <4>1 DEF Tiling
    <3>2. ~ (x[1] < l)
      BY <1>1, <1>3, <3>1
    <3>3. ~ (x[1] > l)
      <4>1. x[1] > l => Older(x, here)
        BY <1>3, <2>1 DEF Older
      <4>2. Older(x, here) => first[x] + Size(x) <= d
        BY <1>3, <2>1 DEF Tiling
      <4>3. size \in Nat /\ size > 0
        BY <1>1
      <4> HIDE DEF d, size, here
      <4> QED BY <1>1, <1>3, <2>2, <3>1, <4>1, <4>2, <4>3
    <3>4. x = here
      BY <1>3, <3>2, <3>3
    <3> HIDE DEF d, size, here
    <3> QED BY <1>1, <1>3, <2>1, <2>2, <3>1, <3>4 DEF d
  <2>4. node[l + 1] = Tree!ParentNode(mode, stack[l], Tree!Compress(node[l]))
    <3>1. l + 1 # 0 /\ (l + 1) - 1 = l
      OBVIOUS
    <3> QED BY <1>2, <1>5, <3>1 DEF FoldOver
  <2>5. stack[l] = Tree!Compress(tree[size][d])
    BY <1>3, <2>1, RestingValue DEF ValueOf
  <2>6. node[l] = tree[rest][d + size]
    BY <2>3 DEF FoldedFrom
  <2>7. rest \in 1..size /\ size + rest = chunks + 1 - d /\ chunks - d < 2 * size
        /\ d \in 0..chunks
    <3> HIDE DEF d
    <3> QED BY <1>1, <2>2, <2>3
  <2>8. tree[size + rest][d] =
          Tree!ParentNode(mode, Tree!Compress(tree[size][d]), Tree!Compress(tree[rest][d + size]))
    <3> HIDE DEF d, rest
    <3> QED BY <2>2, <2>7, SubtreeJoin
  <2>9. node[l + 1] = tree[chunks + 1 - d][d]
    <3> HIDE DEF d, rest, tree, size
    <3> QED BY <2>4, <2>5, <2>6, <2>7, <2>8
  <2>10. ASSUME NEW x \in Places
         PROVE  IF x[1] < l + 1 THEN first[x] >= d ELSE first[x] + Size(x) <= d
    <3>1. CASE x[1] < l
      <4> HIDE DEF d
      <4> QED BY <1>1, <1>3, <2>2, <3>1
    <3>2. CASE x[1] = l
      <4>1. x = here
        BY <1>3, <3>2
      <4> HIDE DEF here
      <4> QED BY <1>3, <2>2, <3>2, <4>1
    <3>3. CASE x[1] > l
      <4>1. Older(x, here) /\ ~ (x[1] < l + 1)
        BY <1>3, <2>1, <3>3 DEF Older
      <4> HIDE DEF here
      <4> QED BY <1>3, <2>1, <4>1 DEF Tiling
    <3> QED BY <1>3, <3>1, <3>2, <3>3
  <2>11. FoldedFrom(first, node, l + 1, d)
    <3>1. chunks - d < Tree!Pow2[l + 1]
      BY <1>1, <2>7
    <3> HIDE DEF d, size, rest
    <3> QED BY <2>7, <2>9, <2>10, <3>1 DEF FoldedFrom
  <2> HIDE DEF d
  <2> QED BY <2>11
<1> QED BY <1>4, <1>5

(* The buffer holds the last chunk. *)
LEMMA LastIsBuffered ==
  ASSUME ByteInv, ~ Consuming, input = <<>>, len <= ChunkLen
  PROVE  Tree!ChunkAt(written, chunks) = Buffered
<1>1. /\ chunks \in Nat /\ len \in Nat /\ len <= BufLen /\ buf \in Seq(Int) /\ Len(buf) = BufLen
      /\ written \in Seq(Int) /\ Len(written) \in Nat /\ Offset(chunks) \in Nat /\ ChunkLen \in Nat
      /\ BufLen \in Nat
  <2>1. /\ chunks \in Nat /\ len \in 0..BufLen /\ written \in Seq(Int)
        /\ buf \in Seq(Int) /\ Len(buf) = BufLen
    BY DEF ByteInv, ByteType
  <2>2. Len(written) \in Nat /\ Offset(chunks) \in Nat
    BY <2>1, LenProperties, OffsetFacts
  <2> QED BY <2>1, <2>2, Lengths
<1>2. /\ Len(written) = Offset(chunks) + len
      /\ \A j \in 1..len : buf[j] = written[Offset(chunks) + j]
  BY <1>1, Empty DEF ByteInv, Lies, Base, InBuffer
<1> DEFINE last == SubSeq(written, Offset(chunks) + 1, Len(written))
           held == SubSeq(buf, 0 + 1, len)
<1>3. Tree!ChunkAt(written, chunks) = last
  <2>1. Len(written) <= Offset(chunks) + ChunkLen
    BY <1>1, <1>2
  <2> QED BY <1>1, <2>1, LastChunk
<1>4. /\ last \in Seq(Int) /\ Len(last) = Len(written) - Offset(chunks)
      /\ \A j \in 1..(Len(written) - Offset(chunks)) : last[j] = written[Offset(chunks) + j]
  <2>1. Offset(chunks) <= Len(written) /\ Len(written) <= Len(written)
    BY <1>1, <1>2
  <2> QED BY <1>1, <2>1, Part
<1>5. /\ held \in Seq(Int) /\ Len(held) = len - 0
      /\ \A j \in 1..(len - 0) : held[j] = buf[0 + j]
  <2>1. 0 \in Nat /\ 0 <= len /\ len <= Len(buf)
    BY <1>1
  <2> QED BY <1>1, <2>1, Part
<1>6. Buffered = held
  BY DEF Buffered
<1> HIDE DEF last, held
<1>7. Len(last) = len /\ Len(held) = len
  BY <1>1, <1>2, <1>4, <1>5
<1>8. \A j \in 1..len : last[j] = held[j]
  <2> SUFFICES ASSUME NEW j \in 1..len PROVE last[j] = held[j]
    OBVIOUS
  <2>1. j \in 1..(Len(written) - Offset(chunks)) /\ j \in 1..(len - 0) /\ 0 + j = j
    BY <1>1, <1>2, SMTT(30)
  <2> QED BY <1>2, <1>4, <1>5, <2>1
<1>9. last = held
  BY <1>4, <1>5, <1>7, <1>8, SeqEqual
<1> QED BY <1>3, <1>6, <1>9

(* The fold over all levels is the node over all chunks. *)
LEMMA FoldIsTheTree ==
  ASSUME HasherInv, pc = "flushing", parents = <<>>, pairs = <<>>
  PROVE  Folded = Tree!Subtree(mode, written)[chunks + 1][0]
<1>1. PairsInv /\ ByteInv /\ ShapeInv /\ vectors = <<>>
  BY DEF HasherInv, ShapeInv
<1>2. PICK first : Holds(first)
  BY DEF HasherInv, StackInv
<1>3. Places = Resting /\ Hashed = chunks /\ chunks \in Nat
  <2>1. chunks \in Nat
    BY <1>1 DEF ByteInv, ByteType
  <2>2. Places = Resting
    BY <1>1, EmptyIsSequence DEF Places, Resting
  <2> QED BY <2>1, <2>2 DEF Hashed
<1> DEFINE top == MaxBytes \div ChunkLen
           n == top + 1
<1>4. top \in Nat /\ n \in Nat
  BY Height
<1>5. PICK node : IsFold(node, n) /\ Folded = node[n]
  BY FoldedIs
<1>6. ASSUME NEW x \in Places
      PROVE  x[1] \in 0..top /\ first[x] \in Nat /\ Size(x) \in Nat /\ first[x] + Size(x) <= chunks
  <2>1. x[1] \in 0..top
    BY <1>1, <1>2, LevelFits DEF Holds, Levels
  <2>2. x \in Nat \X Nat /\ first[x] \in Nat /\ first[x] + Size(x) <= chunks
    BY <1>2, <1>3 DEF Holds, Tiling
  <2> QED BY <2>1, <2>2, SizeType
<1>7. FoldedFrom(first, node, 0, chunks)
  <2>1. digest = Tree!ChunkNode(mode, chunks, Buffered)
    BY <1>1 DEF ByteInv, CallInv
  <2>2. Tree!ChunkAt(written, chunks) = Buffered
    BY <1>1, LastIsBuffered DEF ByteInv, CallInv, Consuming
  <2>3. node[0] = digest
    <3>1. 0 \in 0..n
      BY <1>4
    <3> HIDE DEF n
    <3>2. node[0] = FoldOver(node, 0)
      BY <1>5, <3>1, Zenon DEF IsFold
    <3> QED BY <3>2 DEF FoldOver
  <2>4. node[0] = Tree!Subtree(mode, written)[1][chunks]
    BY <1>3, <2>1, <2>2, <2>3, SubtreeOne
  <2>5. chunks + 1 - chunks = 1 /\ chunks - chunks < Tree!Pow2[0] /\ chunks \in 0..chunks
    BY <1>3, Pow2Facts
  <2>6. \A at \in Places : ~ (at[1] < 0) /\ first[at] + Size(at) <= chunks
    BY <1>6
  <2> QED BY <2>4, <2>5, <2>6 DEF FoldedFrom
<1> DEFINE T == {l \in Nat : l <= n => \E c : FoldedFrom(first, node, l, c)}
<1>8. 0 \in T
  BY <1>7
<1> HIDE DEF n
<1>9. ASSUME NEW l \in Nat, l \in T PROVE l + 1 \in T
  <2> SUFFICES ASSUME l + 1 <= n PROVE \E c : FoldedFrom(first, node, l + 1, c)
    OBVIOUS
  <2>1. l <= n
    BY <1>4
  <2>2. PICK c : FoldedFrom(first, node, l, c)
    BY <1>9, <2>1
  <2> QED BY <1>1, <1>2, <1>3, <1>4, <1>5, <2>2, FoldLevel
<1> HIDE DEF T
<1>10. n \in T
  BY <1>4, <1>8, <1>9, Induction
<1>11. PICK c : FoldedFrom(first, node, n, c)
  BY <1>4, <1>10 DEF T
<1>12. c = 0
  <2>1. c \in 0..chunks /\ \A x \in Places : first[x] >= c
    <3>1. \A x \in Places : x[1] < n
      BY <1>4, <1>6 DEF n
    <3> QED BY <1>11, <3>1 DEF FoldedFrom
  <2> SUFFICES ASSUME c > 0 PROVE FALSE
    BY <1>3, <2>1
  <2>2. PICK x \in Places : first[x] <= 0
    <3>1. 0 \in 0..(chunks - 1)
      BY <1>3, <2>1
    <3> QED BY <1>2, <1>3, <3>1 DEF Holds, Tiling
  <2> QED BY <1>3, <1>6, <2>1, <2>2
<1>13. chunks + 1 - 0 = chunks + 1
  BY <1>3
<1> QED BY <1>5, <1>11, <1>12, <1>13 DEF FoldedFrom

(* The tree over what was written has its last chunk in the buffer. *)
LEMMA TreeOverAll ==
  ASSUME ByteInv, ~ Consuming, input = <<>>, len <= ChunkLen, len > 0 \/ chunks = 0
  PROVE  Tree!ChunkCount(written) = chunks + 1
<1>1. /\ chunks \in Nat /\ len \in Nat /\ written \in Seq(Int) /\ Len(written) \in Nat
      /\ ChunkLen \in Nat /\ ChunkLen > 0 /\ Offset(chunks) \in Nat /\ Offset(0) = 0
  <2>1. chunks \in Nat /\ len \in Nat /\ written \in Seq(Int)
    BY Lengths DEF ByteInv, ByteType
  <2> QED BY <2>1, Lengths, LenProperties, OffsetFacts
<1>2. Len(written) = Offset(chunks) + len
  BY <1>1, Empty DEF ByteInv, Lies, Base, InBuffer
<1>3. CASE written = <<>>
  <2>1. Len(written) = 0
    BY <1>3, Empty
  <2>2. chunks = 0
    BY <1>1, <1>2, <2>1
  <2> QED BY <1>3, <2>2 DEF Tree!ChunkCount
<1>4. CASE written # <<>>
  <2>1. len > 0
    <3> SUFFICES ASSUME len = 0, chunks = 0 PROVE FALSE
      BY <1>1
    <3>1. Len(written) = 0
      BY <1>1, <1>2
    <3> QED BY <1>1, <1>4, <3>1, EmptySeq
  <2> DEFINE x == Len(written) + ChunkLen - 1
             q == x \div ChunkLen
  <2>2. x = Offset(chunks + 1) + (len - 1) /\ len - 1 \in 0..(ChunkLen - 1)
    <3>1. Offset(chunks + 1) = Offset(chunks) + ChunkLen
      BY <1>1, OffsetFacts
    <3> QED BY <1>1, <1>2, <2>1, <3>1
  <2>3. Offset(chunks + 1) = (chunks + 1) * ChunkLen
    BY DEF Offset
  <2>4. q = chunks + 1
    <3> DEFINE k == chunks + 1
               r == len - 1
    <3>1. k \in Nat /\ r \in 0..(ChunkLen - 1)
      BY <1>1, <2>2
    <3> HIDE DEF x, k, r
    <3>0. x = k * ChunkLen + r
      BY <2>2, <2>3, Zenon DEF k, r
    <3>2. (k * ChunkLen + r) \div ChunkLen = k
      BY <1>1, <3>1
    <3> QED BY <3>0, <3>2 DEF k
  <2> QED BY <1>4, <2>4 DEF Tree!ChunkCount
<1> QED BY <1>3, <1>4

(* Sum and Digest give the root of the tree. *)
LEMMA DigestIsTheRoot ==
  ASSUME HasherInv, DigestReturns
  PROVE  answer' = Tree!RootOf(mode, written)
<1>1. /\ pc = "flushing" /\ parents = <<>> /\ pairs = <<>> /\ answer' = Tree!AsRoot(Folded)
  BY DEF DigestReturns
<1>2. Folded = Tree!Subtree(mode, written)[chunks + 1][0]
  BY <1>1, FoldIsTheTree
<1>3. Tree!ChunkCount(written) = chunks + 1
  BY <1>1, TreeOverAll DEF HasherInv, ByteInv, CallInv, Consuming
<1> QED BY <1>1, <1>2, <1>3 DEF Tree!RootOf

LEMMA SmallIsTheRoot ==
  ASSUME HasherInv, DigestSmall
  PROVE  answer' = Tree!RootOf(mode, written)
<1>1. /\ pc = "idle" /\ chunks = 0 /\ len <= ChunkLen
      /\ answer' = Tree!AsRoot(Tree!ChunkNode(mode, 0, Buffered))
  BY DEF DigestSmall
<1>2. ByteInv /\ ~ Consuming /\ input = <<>>
  BY <1>1 DEF HasherInv, ByteInv, CallInv, Consuming
<1>3. Tree!ChunkAt(written, 0) = Buffered
  BY <1>1, <1>2, LastIsBuffered
<1>4. Tree!ChunkCount(written) = 1
  BY <1>1, <1>2, TreeOverAll
<1>5. Tree!Subtree(mode, written)[1][0] = Tree!ChunkNode(mode, 0, Buffered)
  BY <1>3, SubtreeOne
<1> QED BY <1>1, <1>4, <1>5 DEF Tree!RootOf

(* A Write extends what was written. *)
LEMMA WriteExtends ==
  ASSUME HasherInv, NEW n \in WriteSizes, CallWrite(n)
  PROVE  Tree!Write
<1>1. written' = written \o Fresh(n) /\ UNCHANGED <<mode, answer>>
  BY DEF CallWrite
<1>2. written \in Seq(Int) /\ written' \in Seq(Int) /\ Fresh(n) \in Seq(Int)
  <2>1. ByteInv' /\ ByteInv
    BY CallWriteBytes DEF HasherInv
  <2>2. /\ starts \in Nat /\ n \in Nat /\ MaxBytes \in Nat /\ written \in Seq(Int)
    BY <2>1, HasherAssumption DEF ByteInv, ByteType
  <2>3. Len(written) \in Nat
    BY <2>2, LenProperties
  <2>4. \A i \in 1..n : starts * MaxBytes + Len(written) + i \in Int
    BY <2>2, <2>3
  <2>5. Fresh(n) \in Seq(Int)
    BY <2>2, <2>4 DEF Fresh
  <2> QED BY <2>1, <2>5 DEF ByteInv, ByteType
<1>3. /\ Len(written) \in Nat /\ Len(Fresh(n)) \in Nat
      /\ Len(written') = Len(written) + Len(Fresh(n))
      /\ \A j \in 1..(Len(written) + Len(Fresh(n))) :
           written'[j] = IF j <= Len(written) THEN written[j] ELSE Fresh(n)[j - Len(written)]
  <2> HIDE DEF Fresh
  <2> QED BY <1>1, <1>2, ConcatProperties, LenProperties
<1> DEFINE k == Len(written)
           front == SubSeq(written', 0 + 1, k)
<1>4. /\ front \in Seq(Int) /\ Len(front) = k - 0
      /\ \A j \in 1..(k - 0) : front[j] = written'[0 + j]
  <2>1. 0 \in Nat /\ 0 <= k /\ k <= Len(written') /\ k \in Nat
    BY <1>3
  <2> QED BY <1>2, <2>1, Part
<1> HIDE DEF front
<1>5. front = written
  <2>1. \A j \in 1..k : front[j] = written[j]
    <3> SUFFICES ASSUME NEW j \in 1..k PROVE front[j] = written[j]
      OBVIOUS
    <3>1. j \in 1..(k - 0) /\ 0 + j = j /\ j \in 1..(Len(written) + Len(Fresh(n))) /\ j <= Len(written)
      BY <1>3
    <3> QED BY <1>3, <1>4, <3>1
  <2>2. Len(front) = Len(written)
    BY <1>3, <1>4
  <2> QED BY <1>2, <1>4, <2>1, <2>2, SeqEqual
<1>6. k \in 0..Len(written') /\ written = SubSeq(written', 1, k)
  BY <1>3, <1>5 DEF front
<1> QED BY <1>1, <1>6 DEF Tree!Write

(* The hasher promises what Blake3Tree says: every digest is the root of   *)
(* the tree of the bytes written since the last start, whatever the sizes  *)
(* of the writes, the digests taken between them and what was hashed       *)
(* before a Reset.                                                         *)
THEOREM HasherRefinesTree == Spec => RefinesTree
<1>1. Init => Tree!Init
  BY DEF Init, Tree!Init
<1>2. ASSUME HasherInv, [Next]_vars PROVE [Tree!Next]_(Tree!vars)
  <2>1. CASE \E n \in WriteSizes : CallWrite(n)
    BY <1>2, <2>1, WriteExtends DEF Tree!Next
  <2>2. CASE DigestSmall
    <3>1. UNCHANGED <<mode, written>>
      BY <2>2 DEF DigestSmall
    <3> QED BY <1>2, <2>2, <3>1, SmallIsTheRoot DEF Tree!Next, Tree!Digest
  <2>3. CASE DigestReturns
    <3>1. UNCHANGED <<mode, written>>
      BY <2>3 DEF DigestReturns
    <3> QED BY <1>2, <2>3, <3>1, DigestIsTheRoot DEF Tree!Next, Tree!Digest
  <2>4. CASE Reset
    BY <2>4 DEF Reset, Clear, Tree!Next, Tree!Reset
  <2>5. CASE DeriveKey
    BY <2>5 DEF DeriveKey, InContext, Clear, Tree!Next, Tree!Derive
  <2>6. CASE \/ CallDigest \/ WriteReturns \/ ConsumeInput \/ CopyIn \/ ConsumeBuffer
             \/ ConsumeReturns \/ PushVector \/ FlushFull \/ PushParent \/ FoldBuffer \/ FlushRest
             \/ UNCHANGED vars
    <3>1. UNCHANGED <<mode, written, answer>>
      BY <2>6 DEF CallDigest, WriteReturns, ConsumeInput, CopyIn, ConsumeBuffer, Consume,
                  ConsumeReturns, PushVector, FlushFull, PushParent, FoldBuffer, FlushRest, vars
    <3> QED BY <3>1 DEF Tree!vars
  <2> QED BY <1>2, <2>1, <2>2, <2>3, <2>4, <2>5, <2>6 DEF Next, Step
<1> QED BY <1>1, <1>2, HasherAlways, PTL DEF Spec, RefinesTree, Tree!Spec

=============================================================================
