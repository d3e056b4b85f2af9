------------------------------ MODULE PcgProofs ------------------------------
(***************************************************************************)
(* Proofs about the generators of pcgUtils.  For the parallel one, with    *)
(* any number of threads, slots and calls and any width of a word: its     *)
(* types, that the stream of every slot is unbroken, and that it           *)
(* implements PcgStreams.  For a T, with any widths that fit together as   *)
(* those of the code do: that its numbers are uniform, by counting the     *)
(* states and the outputs behind each of them.                             *)
(***************************************************************************)
EXTENDS PcgParallel, PcgNumbers, FiniteSetTheorems, WellFoundedInduction, TLAPS

(* Inside a call a thread has a state left to draw. *)
DrawsLeft == \A t \in Threads : pc[t] # "idle" => left[t] \in 1..2

IInv == TypeOK /\ DrawsLeft /\ StreamUnbroken

(* A word advances to a word. *)
LEMMA AdvanceInWord ==
  ASSUME NEW slot \in Slots, NEW w \in Word
  PROVE  Advance(slot, w) \in Word
<1>1. w * Multiplier + Increment[slot] \in Nat
  <2>1. w \in Nat /\ Multiplier \in Nat /\ Increment[slot] \in Nat
    BY WordAssumption DEF Word
  <2>2. w * Multiplier \in Nat
    BY <2>1
  <2> QED BY <2>1, <2>2
<1>2. WordSize \in Nat \ {0}
  BY WordAssumption
<1> DEFINE sum == w * Multiplier + Increment[slot]
<1>3. sum \in Nat
  BY <1>1
<1> HIDE DEF sum
<1>4. sum % WordSize \in 0..(WordSize - 1)
  BY <1>2, <1>3
<1> QED BY <1>4 DEF Advance, Word, sum

LEMMA InitialState == ParInit => IInv
<1> SUFFICES ASSUME ParInit PROVE IInv
  OBVIOUS
<1> USE DEF ParInit, Init
<1>1. TypeOK
  <2>1. state \in [Slots -> Word]
    BY WordAssumption DEF Word
  <2>2. handed \in [Slots -> Seq(Word)]
    OBVIOUS
  <2>3. drawn \in [Threads -> {NotDrawn} \union (Slots \X Word)]
    BY DEF NotDrawn
  <2>4. pc \in [Threads -> {"idle", "load", "swap"}]
    OBVIOUS
  <2>5. left \in [Threads -> 0..2] /\ calls \in [Threads -> 0..MaxCalls]
    BY CallsAssumption
  <2>6. index \in [Threads -> Slots]
    <3>1. (CHOOSE slot \in Slots : TRUE) \in Slots
      BY WordAssumption
    <3> QED BY <3>1
  <2>7. orig \in [Threads -> Word]
    BY WordAssumption DEF Word
  <2> QED BY <2>1, <2>2, <2>3, <2>4, <2>5, <2>6, <2>7 DEF TypeOK
<1>2. DrawsLeft
  BY DEF DrawsLeft
<1>3. StreamUnbroken
  <2> SUFFICES ASSUME NEW slot \in Slots
               PROVE  /\ \A i \in 1..Len(handed[slot]) :
                           handed[slot][i] = Advance(slot, IF i = 1 THEN Seed[slot] ELSE handed[slot][i - 1])
                      /\ state[slot] = IF Len(handed[slot]) + 1 = 1 THEN Seed[slot]
                                       ELSE handed[slot][Len(handed[slot]) + 1 - 1]
    BY DEF StreamUnbroken
  <2>1. Len(handed[slot]) = 0
    OBVIOUS
  <2> QED BY <2>1
<1> QED BY <1>1, <1>2, <1>3 DEF IInv

(* A successful swap appends to the stream of one slot. *)
LEMMA SwapKeepsStream ==
  ASSUME IInv, NEW t \in Threads, SwapSucceeds(t)
  PROVE  StreamUnbroken'
<1> DEFINE s == index[t]
           next == Advance(s, orig[t])
           h == handed[s]
<1>1. s \in Slots /\ state[s] = orig[t] /\ next \in Word /\ h \in Seq(Word)
  BY AdvanceInWord DEF IInv, TypeOK, SwapSucceeds
<1>2. state' = [state EXCEPT ![s] = next] /\ handed' = [handed EXCEPT ![s] = Append(@, next)]
  BY DEF SwapSucceeds
<1> SUFFICES ASSUME NEW slot \in Slots
             PROVE  /\ \A i \in 1..Len(handed'[slot]) :
                         handed'[slot][i] = Advance(slot, IF i = 1 THEN Seed[slot] ELSE handed'[slot][i - 1])
                    /\ state'[slot] = IF Len(handed'[slot]) + 1 = 1 THEN Seed[slot]
                                      ELSE handed'[slot][Len(handed'[slot]) + 1 - 1]
  BY DEF StreamUnbroken
<1>3. /\ \A i \in 1..Len(handed[slot]) :
           handed[slot][i] = Advance(slot, IF i = 1 THEN Seed[slot] ELSE handed[slot][i - 1])
      /\ state[slot] = IF Len(handed[slot]) + 1 = 1 THEN Seed[slot]
                       ELSE handed[slot][Len(handed[slot]) + 1 - 1]
  BY DEF IInv, StreamUnbroken
<1>4. CASE slot # s
  <2>1. handed'[slot] = handed[slot] /\ state'[slot] = state[slot]
    BY <1>1, <1>2, <1>4 DEF IInv, TypeOK
  <2> QED BY <1>3, <2>1
<1>5. CASE slot = s
  <2>1. handed'[slot] = Append(h, next) /\ state'[slot] = next
    BY <1>1, <1>2, <1>5 DEF IInv, TypeOK
  <2> HIDE DEF h, next
  <2>2. Len(h) \in Nat /\ Len(Append(h, next)) = Len(h) + 1
    BY <1>1
  <2>3. \A i \in 1..Len(h) : Append(h, next)[i] = h[i]
    BY <1>1
  <2>4. Append(h, next)[Len(h) + 1] = next
    BY <1>1
  <2>5. next = Advance(s, IF Len(h) + 1 = 1 THEN Seed[s] ELSE h[Len(h)])
    <3>1. state[s] = IF Len(h) + 1 = 1 THEN Seed[s] ELSE h[Len(h)]
      BY <1>3, <1>5, <2>2 DEF h
    <3>2. next = Advance(s, state[s])
      BY <1>1 DEF next
    <3> QED BY <3>1, <3>2
  <2>6. ASSUME NEW i \in 1..(Len(h) + 1)
        PROVE  Append(h, next)[i] =
                 Advance(slot, IF i = 1 THEN Seed[slot] ELSE Append(h, next)[i - 1])
    <3>1. CASE i = Len(h) + 1
      <4>1. CASE Len(h) = 0
        <5>1. i = 1 /\ Len(h) + 1 = 1
          BY <3>1, <4>1
        <5> QED BY <5>1, <2>4, <2>5, <1>5, <3>1
      <4>2. CASE Len(h) # 0
        <5>1. i # 1 /\ i - 1 = Len(h) /\ Len(h) \in 1..Len(h) /\ Len(h) + 1 # 1
          BY <3>1, <4>2, <2>2
        <5>2. Append(h, next)[i - 1] = h[Len(h)]
          BY <5>1, <2>3
        <5> QED BY <5>1, <5>2, <2>4, <2>5, <1>5, <3>1
      <4> QED BY <4>1, <4>2
    <3>2. CASE i # Len(h) + 1
      <4>1. i \in 1..Len(h) /\ (i # 1 => i - 1 \in 1..Len(h))
        BY <3>2, <2>2
      <4>2. Append(h, next)[i] = h[i] /\ (i # 1 => Append(h, next)[i - 1] = h[i - 1])
        BY <4>1, <2>3
      <4>3. h[i] = Advance(slot, IF i = 1 THEN Seed[slot] ELSE h[i - 1])
        BY <4>1, <1>3, <1>5 DEF h
      <4> QED BY <4>2, <4>3
    <3> QED BY <3>1, <3>2
  <2>7. Len(h) + 1 + 1 # 1 /\ Len(h) + 1 + 1 - 1 = Len(h) + 1
    BY <2>2
  <2> QED BY <2>1, <2>2, <2>4, <2>6, <2>7
<1> QED BY <1>4, <1>5

(* Every step keeps the types and leaves a thread in a call with a state   *)
(* to draw.                                                                *)
LEMMA TypesKept ==
  ASSUME IInv, [ParNext]_vars
  PROVE  TypeOK' /\ DrawsLeft'
<1> USE DEF IInv
<1>1. ASSUME NEW t \in Threads, NEW draws \in 1..2, Call(t, draws)
      PROVE  TypeOK' /\ DrawsLeft'
  <2>1. calls' \in [Threads -> 0..MaxCalls]
    BY <1>1, CallsAssumption DEF Call, TypeOK
  <2>2. pc' \in [Threads -> {"idle", "load", "swap"}] /\ left' \in [Threads -> 0..2]
    BY <1>1 DEF Call, TypeOK
  <2>3. DrawsLeft'
    BY <1>1 DEF Call, TypeOK, DrawsLeft
  <2> QED BY <1>1, <2>1, <2>2, <2>3 DEF Call, TypeOK
<1>2. ASSUME NEW t \in Threads, NEW slot \in Slots, Load(t, slot)
      PROVE  TypeOK' /\ DrawsLeft'
  <2>1. index' \in [Threads -> Slots] /\ orig' \in [Threads -> Word]
    BY <1>2 DEF Load, TypeOK
  <2>2. pc' \in [Threads -> {"idle", "load", "swap"}]
    BY <1>2 DEF Load, TypeOK
  <2>3. DrawsLeft'
    BY <1>2 DEF Load, TypeOK, DrawsLeft
  <2> QED BY <1>2, <2>1, <2>2, <2>3 DEF Load, TypeOK
<1>3. ASSUME NEW t \in Threads, SwapSucceeds(t)
      PROVE  TypeOK' /\ DrawsLeft'
  <2> DEFINE s == index[t]
             next == Advance(s, orig[t])
  <2>1. s \in Slots /\ next \in Word
    BY AdvanceInWord DEF TypeOK
  <2>2. left[t] \in 1..2 /\ pc[t] = "swap"
    BY <1>3 DEF SwapSucceeds, DrawsLeft, TypeOK
  <2>3. state' \in [Slots -> Word]
    BY <1>3, <2>1 DEF SwapSucceeds, TypeOK
  <2>4. handed' \in [Slots -> Seq(Word)]
    <3>1. handed' = [handed EXCEPT ![s] = Append(handed[s], next)]
      BY <1>3 DEF SwapSucceeds
    <3>2. Append(handed[s], next) \in Seq(Word)
      BY <2>1 DEF TypeOK
    <3> QED BY <3>1, <3>2 DEF TypeOK
  <2>5. drawn' \in [Threads -> {NotDrawn} \union (Slots \X Word)]
    <3>1. drawn' = [drawn EXCEPT ![t] = <<s, next>>]
      BY <1>3 DEF SwapSucceeds
    <3>2. <<s, next>> \in Slots \X Word
      BY <2>1
    <3> QED BY <3>1, <3>2 DEF TypeOK
  <2>6. left' \in [Threads -> 0..2]
    <3>1. left' = [left EXCEPT ![t] = left[t] - 1] /\ left[t] - 1 \in 0..2
      BY <1>3, <2>2 DEF SwapSucceeds
    <3> QED BY <3>1 DEF TypeOK
  <2>7. pc' \in [Threads -> {"idle", "load", "swap"}]
    BY <1>3 DEF SwapSucceeds, TypeOK
  <2>8. UNCHANGED <<calls, index, orig>>
    BY <1>3 DEF SwapSucceeds
  <2>9. DrawsLeft'
    <3> SUFFICES ASSUME NEW u \in Threads, pc'[u] # "idle"
                 PROVE  left'[u] \in 1..2
      BY DEF DrawsLeft
    <3>1. CASE u # t
      BY <1>3, <3>1 DEF SwapSucceeds, TypeOK, DrawsLeft
    <3>2. CASE u = t
      BY <1>3, <2>2, <3>2 DEF SwapSucceeds, TypeOK
    <3> QED BY <3>1, <3>2
  <2> QED BY <2>3, <2>4, <2>5, <2>6, <2>7, <2>8, <2>9 DEF TypeOK
<1>4. ASSUME NEW t \in Threads, SwapFails(t)
      PROVE  TypeOK' /\ DrawsLeft'
  <2>1. pc' \in [Threads -> {"idle", "load", "swap"}]
    BY <1>4 DEF SwapFails, TypeOK
  <2>2. DrawsLeft'
    BY <1>4 DEF SwapFails, TypeOK, DrawsLeft
  <2> QED BY <1>4, <2>1, <2>2 DEF SwapFails, TypeOK
<1>5. CASE UNCHANGED vars
  BY <1>5 DEF vars, threadVars, TypeOK, DrawsLeft
<1> QED BY <1>1, <1>2, <1>3, <1>4, <1>5 DEF ParNext, Step

LEMMA InvariantKept == IInv /\ [ParNext]_vars => IInv'
<1> SUFFICES ASSUME IInv, [ParNext]_vars
             PROVE  IInv'
  OBVIOUS
<1>1. TypeOK' /\ DrawsLeft'
  BY TypesKept
<1>2. StreamUnbroken'
  <2>1. CASE \E t \in Threads : SwapSucceeds(t)
    BY <2>1, SwapKeepsStream
  <2>2. CASE UNCHANGED <<state, handed>>
    BY <2>2 DEF IInv, StreamUnbroken
  <2>3. UNCHANGED <<state, handed>> \/ \E t \in Threads : SwapSucceeds(t)
    BY DEF ParNext, Step, Call, Load, SwapFails, vars
  <2> QED BY <2>1, <2>2, <2>3
<1> QED BY <1>1, <1>2 DEF IInv

LEMMA Invariant == ParSpec => []IInv
BY InitialState, InvariantKept, PTL DEF ParSpec

(* The variables keep their types: every state is a word again after the   *)
(* arithmetic of Advance.                                                  *)
THEOREM TypeCorrect == ParSpec => []TypeOK
<1>1. IInv => TypeOK
  BY DEF IInv
<1> QED BY <1>1, Invariant, PTL

(* No update of a slot is lost and no state is handed out twice, whatever  *)
(* the interleaving of the compare-and-swap loops.                         *)
THEOREM NoStateHandedTwice == ParSpec => []StreamUnbroken
<1>1. IInv => StreamUnbroken
  BY DEF IInv
<1> QED BY <1>1, Invariant, PTL

(* PcgParallel implements PcgStreams: the successful swap is the step at   *)
(* which a draw takes effect, and all other steps change nothing a caller  *)
(* sees.                                                                   *)
THEOREM DrawsAreAtomic == ParSpec => ImplementsStreams
<1>1. ParInit => Streams!Init
  BY DEF ParInit, Init, Streams!Init, NotDrawn, Streams!NotDrawn
<1>2. ASSUME IInv, [ParNext]_vars
      PROVE  [Streams!Next]_<<state, handed, drawn>>
  <2>1. ASSUME NEW t \in Threads, SwapSucceeds(t)
        PROVE  Streams!Next
    <3>1. index[t] \in Slots
      BY <1>2 DEF IInv, TypeOK
    <3>2. state[index[t]] = orig[t]
      BY <2>1 DEF SwapSucceeds
    <3>3. Streams!Take(t, index[t])
      BY <2>1, <3>2, <3>1 DEF SwapSucceeds, Streams!Take, Advance, Streams!Advance
    <3> QED BY <3>1, <3>3 DEF Streams!Next
  <2>2. UNCHANGED <<state, handed, drawn>> \/ \E t \in Threads : SwapSucceeds(t)
    BY <1>2 DEF ParNext, Step, Call, Load, SwapFails, vars
  <2> QED BY <2>1, <2>2
<1> QED BY <1>1, <1>2, Invariant, PTL DEF ParSpec, ImplementsStreams, Streams!Spec

-----------------------------------------------------------------------------
(* The natural numbers. *)

(* A nonempty set of naturals has a least element. *)
LEMMA LeastNatural ==
  ASSUME NEW T, T \subseteq Nat, T # {}
  PROVE  \E x \in T : \A y \in T : x <= y
<1> DEFINE Less == {ss \in Nat \X Nat : ss[1] < ss[2]}
<1>1. OpToRel(<, Nat) = Less
  BY DEF OpToRel
<1>2. IsWellFoundedOn(Less, Nat)
  BY <1>1, NatLessThanWellFounded
<1>3. PICK x \in T : \A y \in T : ~ (<<y, x>> \in Less)
  BY <1>2, WFMin
<1>4. \A y \in T : x <= y
  <2> SUFFICES ASSUME NEW y \in T, y < x PROVE FALSE
    OBVIOUS
  <2>1. <<y, x>> \in Less
    OBVIOUS
  <2> QED BY <2>1, <1>3
<1> QED BY <1>4

LEMMA Induction ==
  ASSUME NEW T, 0 \in T, \A k \in Nat : k \in T => k + 1 \in T
  PROVE  Nat \subseteq T
<1> SUFFICES ASSUME Nat \ T # {} PROVE FALSE
  OBVIOUS
<1>1. PICK k \in Nat \ T : \A i \in Nat \ T : k <= i
  BY LeastNatural
<1>2. k - 1 \in Nat /\ (k - 1) + 1 = k
  OBVIOUS
<1>3. k - 1 \in T
  BY <1>1, <1>2
<1> QED BY <1>2, <1>3

-----------------------------------------------------------------------------
(* Recursion over the naturals. *)

(* The first values of a recursion that begins with base. *)
Begins(f, m, base, next) ==
  /\ f \in [0..m -> Nat]
  /\ f[0] = base
  /\ \A k \in 0..(m - 1) : f[k + 1] = next[<<k, f[k]>>]

LEMMA BeginningExists ==
  ASSUME NEW base \in Nat, NEW next \in [Nat \X Nat -> Nat], NEW m \in Nat
  PROVE  \E f : Begins(f, m, base, next)
<1> DEFINE T == {k \in Nat : \E f : Begins(f, k, base, next)}
<1>1. 0 \in T
  <2>1. Begins([k \in 0..0 |-> base], 0, base, next)
    BY DEF Begins
  <2> QED BY <2>1
<1>2. ASSUME NEW k \in Nat, k \in T PROVE k + 1 \in T
  <2>1. PICK f : Begins(f, k, base, next)
    BY <1>2
  <2> DEFINE last == next[<<k, f[k]>>]
             g == [i \in 0..(k + 1) |-> IF i = k + 1 THEN last ELSE f[i]]
  <2>2. f[k] \in Nat /\ last \in Nat
    BY <2>1 DEF Begins
  <2> HIDE DEF last
  <2>3. g \in [0..(k + 1) -> Nat] /\ g[k + 1] = last /\ \A i \in 0..k : g[i] = f[i]
    BY <2>1, <2>2 DEF Begins
  <2> HIDE DEF g
  <2>4. ASSUME NEW i \in 0..((k + 1) - 1) PROVE g[i + 1] = next[<<i, g[i]>>]
    <3>1. CASE i = k
      <4>1. k \in 0..k
        OBVIOUS
      <4>2. g[k + 1] = last /\ g[k] = f[k]
        BY <2>3, <4>1
      <4> QED BY <3>1, <4>2, Zenon DEF last
    <3>2. CASE i \in 0..(k - 1)
      <4>1. i \in 0..k /\ i + 1 \in 0..k
        BY <3>2
      <4> QED BY <2>1, <2>3, <3>2, <4>1 DEF Begins
    <3> QED BY <3>1, <3>2
  <2>5. Begins(g, k + 1, base, next)
    BY <2>1, <2>3, <2>4 DEF Begins
  <2> QED BY <2>5
<1> HIDE DEF T
<1>3. Nat \subseteq T
  BY <1>1, <1>2, Induction
<1> QED BY <1>3 DEF T

LEMMA BeginningsAgree ==
  ASSUME NEW base \in Nat, NEW next, NEW m \in Nat, NEW p \in Nat, NEW f, NEW g,
         Begins(f, m, base, next), Begins(g, p, base, next),
         NEW k \in Nat, k <= m, k <= p
  PROVE  f[k] = g[k]
<1> DEFINE T == {i \in Nat : i <= m /\ i <= p => f[i] = g[i]}
<1>1. 0 \in T
  BY DEF Begins
<1>2. ASSUME NEW i \in Nat, i \in T PROVE i + 1 \in T
  <2> SUFFICES ASSUME i + 1 <= m, i + 1 <= p PROVE f[i + 1] = g[i + 1]
    OBVIOUS
  <2>1. f[i] = g[i] /\ i \in 0..(m - 1) /\ i \in 0..(p - 1)
    BY <1>2
  <2> QED BY <2>1 DEF Begins
<1> HIDE DEF T
<1>3. Nat \subseteq T
  BY <1>1, <1>2, Induction
<1> QED BY <1>3 DEF T

(* What a recursion defines exists. *)
LEMMA Recursion ==
  ASSUME NEW base \in Nat, NEW next \in [Nat \X Nat -> Nat]
  PROVE  \E f \in [Nat -> Nat] :
           f[0] = base /\ \A k \in Nat : f[k + 1] = next[<<k, f[k]>>]
<1> DEFINE upto == [m \in Nat |-> CHOOSE f : Begins(f, m, base, next)]
           whole == [m \in Nat |-> upto[m][m]]
<1>1. ASSUME NEW m \in Nat PROVE Begins(upto[m], m, base, next)
  BY BeginningExists
<1> HIDE DEF upto
<1>2. \A m \in Nat : whole[m] = upto[m][m]
  OBVIOUS
<1>3. whole \in [Nat -> Nat]
  <2> SUFFICES ASSUME NEW m \in Nat PROVE upto[m][m] \in Nat
    OBVIOUS
  <2>1. m \in 0..m
    OBVIOUS
  <2> QED BY <1>1, <2>1 DEF Begins
<1> HIDE DEF whole
<1>4. whole[0] = base
  BY <1>1, <1>2 DEF Begins
<1>5. ASSUME NEW k \in Nat PROVE whole[k + 1] = next[<<k, whole[k]>>]
  <2>1. k + 1 \in Nat /\ k <= k /\ k <= k + 1 /\ k \in 0..((k + 1) - 1)
    OBVIOUS
  <2>2. upto[k + 1][k + 1] = next[<<k, upto[k + 1][k]>>]
    BY <1>1, <2>1 DEF Begins
  <2>3. upto[k + 1][k] = upto[k][k]
    <3>1. Begins(upto[k + 1], k + 1, base, next) /\ Begins(upto[k], k, base, next)
      BY <1>1, <2>1
    <3> DEFINE f == upto[k + 1]
               g == upto[k]
               m == k + 1
    <3> HIDE DEF f, g, m
    <3>2. Begins(f, m, base, next) /\ Begins(g, k, base, next) /\ m \in Nat /\ k <= m /\ k <= k
      BY <3>1 DEF f, g, m
    <3>3. f[k] = g[k]
      BY <3>2, BeginningsAgree
    <3> QED BY <3>3 DEF f, g, m
  <2> QED BY <1>2, <2>1, <2>2, <2>3
<1> QED BY <1>3, <1>4, <1>5

LEMMA Pow2Facts ==
  /\ Pow2[0] = 1
  /\ \A k \in Nat : Pow2[k] \in Nat /\ Pow2[k] > 0 /\ Pow2[k + 1] = 2 * Pow2[k]
<1> DEFINE Whole(f) == f = [k \in Nat |-> IF k = 0 THEN 1 ELSE 2 * f[k - 1]]
           next == [p \in Nat \X Nat |-> 2 * p[2]]
<1>1. next \in [Nat \X Nat -> Nat]
  OBVIOUS
<1>2. \A k \in Nat, v \in Nat : next[<<k, v>>] = 2 * v
  OBVIOUS
<1> HIDE DEF next
<1>3. PICK f \in [Nat -> Nat] : f[0] = 1 /\ \A k \in Nat : f[k + 1] = next[<<k, f[k]>>]
  <2>1. 1 \in Nat
    OBVIOUS
  <2> QED BY <1>1, <2>1, Recursion, Zenon
<1>4. Whole(f)
  <2>1. ASSUME NEW k \in Nat PROVE f[k] = IF k = 0 THEN 1 ELSE 2 * f[k - 1]
    <3>1. CASE k = 0
      BY <1>3, <3>1
    <3>2. CASE k # 0
      <4>1. k - 1 \in Nat /\ (k - 1) + 1 = k /\ f[k - 1] \in Nat
        BY <3>2
      <4> QED BY <1>2, <1>3, <3>2, <4>1
    <3> QED BY <3>1, <3>2
  <2> QED BY <2>1
<1>5. Pow2 = CHOOSE g : Whole(g)
  BY Zenon DEF Pow2
<1>6. Whole(Pow2)
  BY <1>4, <1>5, Zenon
<1>7. Pow2[0] = 1 /\ \A k \in Nat : Pow2[k + 1] = 2 * Pow2[k]
  <2>1. \A k \in Nat : k + 1 \in Nat /\ k + 1 # 0 /\ (k + 1) - 1 = k
    OBVIOUS
  <2> QED BY <1>6, <2>1
<1> DEFINE T == {k \in Nat : Pow2[k] \in Nat /\ Pow2[k] > 0}
<1>8. 0 \in T
  BY <1>7
<1>9. \A k \in Nat : k \in T => k + 1 \in T
  BY <1>7
<1> HIDE DEF T, Whole
<1>10. Nat \subseteq T
  BY <1>8, <1>9, Induction
<1> QED BY <1>7, <1>10 DEF T

LEMMA Pow2Sum ==
  ASSUME NEW a \in Nat, NEW b \in Nat
  PROVE  Pow2[a + b] = Pow2[a] * Pow2[b]
<1> DEFINE T == {k \in Nat : Pow2[a + k] = Pow2[a] * Pow2[k]}
<1>1. 0 \in T
  BY Pow2Facts
<1>2. ASSUME NEW k \in Nat, k \in T PROVE k + 1 \in T
  <2>1. a + k \in Nat /\ a + (k + 1) = (a + k) + 1
    OBVIOUS
  <2>2. PICK p, q \in Nat : p = Pow2[a] /\ q = Pow2[k]
    BY Pow2Facts
  <2>3. 2 * (p * q) = p * (2 * q)
    OBVIOUS
  <2> QED BY <1>2, <2>1, <2>2, <2>3, Pow2Facts
<1> HIDE DEF T
<1>3. b \in T
  BY <1>1, <1>2, Induction
<1> QED BY <1>3 DEF T

(* The recursion of WordOf. *)
LEMMA WordOfRecursion ==
  ASSUME NEW len \in Nat, NEW bits \in [0..(len - 1) -> 0..1]
  PROVE  \E high \in [0..len -> Nat] :
           /\ high[0] = 0
           /\ \A k \in 0..(len - 1) : high[k + 1] = bits[len - (k + 1)] + 2 * high[k]
           /\ WordOf(bits, len) = high[len]
<1> DEFINE Whole(f) == f = [k \in 0..len |-> IF k = 0 THEN 0 ELSE bits[len - k] + 2 * f[k - 1]]
           next == [p \in Nat \X Nat |->
                      IF p[1] \in 0..(len - 1) THEN bits[len - (p[1] + 1)] + 2 * p[2] ELSE 0]
<1>1. next \in [Nat \X Nat -> Nat]
  <2> SUFFICES ASSUME NEW k \in 0..(len - 1), NEW v \in Nat
               PROVE  bits[len - (k + 1)] + 2 * v \in Nat
    OBVIOUS
  <2>1. len - (k + 1) \in 0..(len - 1)
    OBVIOUS
  <2> QED BY <2>1
<1>2. \A k \in 0..(len - 1), v \in Nat : next[<<k, v>>] = bits[len - (k + 1)] + 2 * v
  OBVIOUS
<1> HIDE DEF next
<1>3. PICK f \in [Nat -> Nat] : f[0] = 0 /\ \A k \in Nat : f[k + 1] = next[<<k, f[k]>>]
  <2>1. 0 \in Nat
    OBVIOUS
  <2> QED BY <1>1, <2>1, Recursion, Zenon
<1> DEFINE high == [k \in 0..len |-> f[k]]
<1>4. /\ high \in [0..len -> Nat] /\ high[0] = 0
      /\ \A k \in 0..(len - 1) : high[k + 1] = bits[len - (k + 1)] + 2 * high[k]
  <2>1. ASSUME NEW k \in 0..(len - 1)
        PROVE  high[k + 1] = bits[len - (k + 1)] + 2 * high[k]
    <3>1. k \in Nat /\ k \in 0..len /\ k + 1 \in 0..len /\ f[k] \in Nat
      OBVIOUS
    <3>2. f[k + 1] = bits[len - (k + 1)] + 2 * f[k]
      BY <1>2, <1>3, <3>1
    <3>3. high[k + 1] = f[k + 1] /\ high[k] = f[k]
      BY <3>1
    <3> QED BY <3>2, <3>3
  <2>2. high[0] = 0
    <3>1. 0 \in 0..len
      OBVIOUS
    <3> QED BY <1>3, <3>1
  <2>3. high \in [0..len -> Nat]
    OBVIOUS
  <2> HIDE DEF high
  <2> QED BY <2>1, <2>2, <2>3
<1> HIDE DEF high
<1>5. Whole(high)
  <2>1. ASSUME NEW k \in 0..len
        PROVE  high[k] = IF k = 0 THEN 0 ELSE bits[len - k] + 2 * high[k - 1]
    <3>1. CASE k = 0
      BY <1>4, <3>1
    <3>2. CASE k # 0
      <4>1. k - 1 \in 0..(len - 1) /\ (k - 1) + 1 = k
        BY <3>2
      <4> QED BY <1>4, <3>2, <4>1
    <3> QED BY <3>1, <3>2
  <2> QED BY <1>4, <2>1
<1> DEFINE word0 == CHOOSE g : Whole(g)
<1>6. WordOf(bits, len) = word0[len]
  BY Zenon DEF WordOf
<1>7. Whole(word0)
  BY <1>5, Zenon
<1> HIDE DEF word0
<1>8. /\ word0 \in [0..len -> Nat] /\ word0[0] = 0
      /\ \A k \in 0..(len - 1) : word0[k + 1] = bits[len - (k + 1)] + 2 * word0[k]
  <2>1. /\ DOMAIN word0 = 0..len /\ word0 = [k \in 0..len |-> word0[k]]
        /\ \A k \in 0..len : word0[k] = IF k = 0 THEN 0 ELSE bits[len - k] + 2 * word0[k - 1]
    BY <1>7
  <2> HIDE DEF Whole
  <2>2. word0[0] = 0
    <3>1. 0 \in 0..len
      OBVIOUS
    <3> QED BY <2>1, <3>1
  <2>3. ASSUME NEW k \in 0..(len - 1)
        PROVE  word0[k + 1] = bits[len - (k + 1)] + 2 * word0[k]
    <3>1. k + 1 \in 0..len /\ k + 1 # 0 /\ (k + 1) - 1 = k
      OBVIOUS
    <3> QED BY <2>1, <3>1
  <2> DEFINE T == {k \in Nat : k <= len => word0[k] \in Nat}
  <2>4. 0 \in T
    BY <2>2
  <2>5. ASSUME NEW k \in Nat, k \in T PROVE k + 1 \in T
    <3> SUFFICES ASSUME k + 1 <= len PROVE word0[k + 1] \in Nat
      OBVIOUS
    <3>1. k \in 0..(len - 1) /\ len - (k + 1) \in 0..(len - 1) /\ word0[k] \in Nat
      BY <2>5
    <3>2. bits[len - (k + 1)] + 2 * word0[k] \in Nat
      <4>1. PICK j \in 0..(len - 1) : j = len - (k + 1)
        BY <3>1
      <4>2. bits[j] \in 0..1
        OBVIOUS
      <4>3. PICK v \in Nat : v = word0[k]
        BY <3>1
      <4>4. PICK b \in Nat : b = bits[len - (k + 1)]
        BY <4>1, <4>2
      <4>5. b + 2 * v \in Nat
        OBVIOUS
      <4> QED BY <4>3, <4>4, <4>5
    <3> QED BY <2>3, <3>1, <3>2
  <2> HIDE DEF T
  <2>6. Nat \subseteq T
    BY <2>4, <2>5, Induction
  <2>7. \A k \in 0..len : word0[k] \in Nat
    BY <2>6 DEF T
  <2> QED BY <2>1, <2>2, <2>3, <2>7
<1> QED BY <1>6, <1>8

-----------------------------------------------------------------------------
(* Quotients, remainders and bits. *)

(* A quotient and a remainder. *)
LEMMA Division ==
  ASSUME NEW a \in Nat, NEW m \in Nat, m > 0
  PROVE  /\ a \div m \in Nat /\ a % m \in 0..(m - 1)
         /\ a = (a \div m) * m + (a % m)
<1>1. a \div m \in Int /\ a % m \in 0..(m - 1) /\ a = m * (a \div m) + (a % m)
  OBVIOUS
<1>2. PICK q, r \in Int : q = a \div m /\ r = a % m
  BY <1>1
<1>3. m * q = q * m /\ (q <= -1 => m * q <= -m)
  OBVIOUS
<1> QED BY <1>1, <1>2, <1>3

(* There is one way to divide with a remainder below the divisor. *)
LEMMA DivisionUnique ==
  ASSUME NEW a \in Nat, NEW m \in Nat, m > 0,
         NEW q \in Int, NEW r \in 0..(m - 1), a = q * m + r
  PROVE  a \div m = q /\ a % m = r
<1>1. PICK p \in Nat, s \in 0..(m - 1) : a = p * m + s /\ a \div m = p /\ a % m = s
  BY Division
<1>2. PICK d \in Int : d = p - q
  OBVIOUS
<1>3. d * m = r - s
  <2>1. d * m = p * m - q * m
    BY <1>2
  <2>2. p * m \in Int /\ q * m \in Int
    OBVIOUS
  <2> QED BY <1>1, <2>1, <2>2
<1>4. (d >= 1 => d * m >= m) /\ (d <= -1 => d * m <= -m) /\ (d = 0 => d * m = 0)
  OBVIOUS
<1> QED BY <1>1, <1>2, <1>3, <1>4

(* Dividing twice is dividing by the product. *)
LEMMA DivisionTwice ==
  ASSUME NEW a \in Nat, NEW m \in Nat, m > 0, NEW p \in Nat, p > 0
  PROVE  (a \div m) \div p = a \div (m * p)
<1>1. PICK q \in Nat, r \in 0..(m - 1) : a = q * m + r /\ a \div m = q
  BY Division
<1>2. PICK u \in Nat, v \in 0..(p - 1) : q = u * p + v /\ q \div p = u
  BY Division
<1>3. PICK w \in Int : w = v * m + r
  OBVIOUS
<1>4. a = u * (m * p) + w
  <2>1. q * m = u * (m * p) + v * m
    BY <1>2
  <2>2. q * m \in Int /\ u * (m * p) \in Int /\ v * m \in Int
    OBVIOUS
  <2> QED BY <1>1, <1>3, <2>1, <2>2
<1>5. m * p \in Nat /\ m * p > 0 /\ w \in 0..(m * p - 1)
  <2>1. v * m <= (p - 1) * m /\ (p - 1) * m = m * p - m /\ v * m >= 0 /\ m * p >= m
    OBVIOUS
  <2>2. PICK x, y \in Int : x = v * m /\ y = m * p
    OBVIOUS
  <2> QED BY <1>3, <2>1, <2>2
<1>6. a \div (m * p) = u
  <2>1. PICK y \in Nat : y = m * p
    BY <1>5
  <2> QED BY <1>4, <1>5, <2>1, DivisionUnique
<1> QED BY <1>1, <1>2, <1>6

(* A bit is 0 or 1. *)
LEMMA BitType ==
  ASSUME NEW w \in Nat, NEW i \in Nat
  PROVE  Bit(w, i) \in 0..1
<1>1. Pow2[i] \in Nat /\ Pow2[i] > 0
  BY Pow2Facts
<1>2. w \div Pow2[i] \in Nat
  BY <1>1, Division
<1>3. PICK q \in Nat : q = w \div Pow2[i]
  BY <1>2
<1>4. q % 2 \in 0..1
  OBVIOUS
<1> QED BY <1>3, <1>4 DEF Bit

(* A shift to the right moves the bits down. *)
LEMMA BitShiftRight ==
  ASSUME NEW w \in Nat, NEW d \in Nat, NEW i \in Nat
  PROVE  /\ w \div Pow2[d] \in Nat
         /\ (w \div Pow2[d]) \div Pow2[i] = w \div Pow2[d + i]
         /\ Bit(w \div Pow2[d], i) = Bit(w, d + i)
<1>1. PICK p, q \in Nat : p = Pow2[d] /\ q = Pow2[i] /\ p > 0 /\ q > 0
  BY Pow2Facts
<1>2. Pow2[d + i] = p * q
  BY <1>1, Pow2Sum
<1>3. w \div p \in Nat /\ (w \div p) \div q = w \div (p * q)
  BY <1>1, Division, DivisionTwice
<1> QED BY <1>1, <1>2, <1>3 DEF Bit

(* A word without its low bits, and with one of them. *)
LEMMA NextBit ==
  ASSUME NEW w \in Nat, NEW i \in Nat
  PROVE  /\ w \div Pow2[i] \in Nat /\ w \div Pow2[i + 1] \in Nat
         /\ w \div Pow2[i] = 2 * (w \div Pow2[i + 1]) + Bit(w, i)
<1>1. Pow2[1] = 2
  <2>1. 0 + 1 = 1 /\ 0 \in Nat /\ 2 * 1 = 2
    OBVIOUS
  <2> QED BY <2>1, Pow2Facts
<1>2. w \div Pow2[i] \in Nat /\ (w \div Pow2[i]) \div 2 = w \div Pow2[i + 1]
  <2>1. 1 \in Nat
    OBVIOUS
  <2>2. (w \div Pow2[i]) \div Pow2[1] = w \div Pow2[i + 1] /\ w \div Pow2[i] \in Nat
    BY <2>1, BitShiftRight
  <2> QED BY <1>1, <2>2
<1>3. PICK q \in Nat : q = w \div Pow2[i]
  BY <1>2
<1>4. q \div 2 \in Nat /\ q = 2 * (q \div 2) + (q % 2)
  OBVIOUS
<1> QED BY <1>2, <1>3, <1>4 DEF Bit

(* A word has no bits above its width. *)
LEMMA BitAbove ==
  ASSUME NEW k \in Nat, NEW w \in 0..(Pow2[k] - 1), NEW i \in Nat, i >= k
  PROVE  w \div Pow2[i] = 0 /\ Bit(w, i) = 0
<1>1. PICK p, c \in Nat : p = Pow2[k] /\ c = Pow2[i - k] /\ p > 0 /\ c > 0
  BY Pow2Facts
<1>2. Pow2[i] = p * c
  <2>1. i - k \in Nat /\ k + (i - k) = i
    OBVIOUS
  <2> QED BY <1>1, <2>1, Pow2Sum
<1>3. p * c >= p /\ p * c \in Nat
  BY <1>1
<1>4. PICK y \in Nat : y = p * c
  BY <1>3
<1>5. w \in Nat /\ w \in 0..(y - 1) /\ y > 0 /\ w = 0 * y + w
  BY <1>1, <1>3, <1>4
<1>6. w \div y = 0
  BY <1>5, DivisionUnique
<1>7. 0 % 2 = 0
  OBVIOUS
<1> QED BY <1>2, <1>4, <1>6, <1>7 DEF Bit

(* A remainder by a power of two keeps the bits below. *)
LEMMA BitRemainder ==
  ASSUME NEW w \in Nat, NEW k \in Nat, NEW i \in Nat, i < k
  PROVE  w % Pow2[k] \in 0..(Pow2[k] - 1) /\ Bit(w % Pow2[k], i) = Bit(w, i)
<1>1. PICK p, c \in Nat : p = Pow2[i] /\ c = Pow2[k - (i + 1)] /\ p > 0 /\ c > 0
  BY Pow2Facts
<1>2. Pow2[k] = p * (2 * c)
  <2>1. k - (i + 1) \in Nat /\ (i + 1) + (k - (i + 1)) = k /\ i + 1 \in Nat
    OBVIOUS
  <2>2. Pow2[k] = Pow2[i + 1] * Pow2[k - (i + 1)]
    BY <2>1, Pow2Sum
  <2>3. Pow2[k] = (2 * p) * c
    BY <1>1, <2>2, Pow2Facts
  <2> QED BY <2>3
<1>3. PICK y \in Nat : y = p * (2 * c) /\ y > 0
  <2>1. p * (2 * c) \in Nat /\ p * (2 * c) > 0
    BY <1>1
  <2> QED BY <2>1
<1>4. PICK q \in Nat, r \in 0..(y - 1) : w = q * y + r /\ w % y = r
  BY <1>3, Division
<1>5. PICK u \in Nat, v \in 0..(p - 1) : r = u * p + v /\ r \div p = u
  <2>1. r \in Nat
    OBVIOUS
  <2> QED BY <1>1, <2>1, Division
<1>6. PICK e \in Nat : e = q * c
  OBVIOUS
<1>7. w \div p = 2 * e + u
  <2>1. q * y = (2 * e) * p
    BY <1>3, <1>6
  <2>2. (2 * e + u) * p = (2 * e) * p + u * p
    OBVIOUS
  <2>3. (2 * e) * p \in Int /\ u * p \in Int /\ q * y \in Int
    OBVIOUS
  <2>4. w = (2 * e + u) * p + v
    BY <1>4, <1>5, <2>1, <2>2, <2>3
  <2> QED BY <1>1, <2>4, DivisionUnique
<1>8. (2 * e + u) % 2 = u % 2
  OBVIOUS
<1> QED BY <1>1, <1>2, <1>3, <1>4, <1>5, <1>7, <1>8 DEF Bit

(* A shift to the left moves the bits up. *)
LEMMA BitShiftLeft ==
  ASSUME NEW w \in Nat, NEW d \in Nat, NEW i \in Nat
  PROVE  /\ w * Pow2[d] \in Nat
         /\ Bit(w * Pow2[d], i) = IF i < d THEN 0 ELSE Bit(w, i - d)
<1>1. PICK p \in Nat : p = Pow2[d] /\ p > 0
  BY Pow2Facts
<1>2. PICK z \in Nat : z = w * p
  OBVIOUS
<1>3. CASE i < d
  <2>1. PICK o, c \in Nat : o = Pow2[i] /\ c = Pow2[d - (i + 1)] /\ o > 0
    BY <1>3, Pow2Facts
  <2>2. p = (2 * o) * c
    <3>1. d - (i + 1) \in Nat /\ (i + 1) + (d - (i + 1)) = d /\ i + 1 \in Nat
      BY <1>3
    <3>2. Pow2[d] = Pow2[i + 1] * Pow2[d - (i + 1)]
      BY <3>1, Pow2Sum
    <3> QED BY <1>1, <2>1, <3>2, Pow2Facts
  <2>3. PICK e \in Nat : e = w * c
    OBVIOUS
  <2>4. z = (2 * e) * o + 0
    BY <1>2, <2>2, <2>3
  <2>5. z \div o = 2 * e
    <3>1. 2 * e \in Int /\ 0 \in 0..(o - 1)
      BY <2>1
    <3> QED BY <2>1, <2>4, <3>1, DivisionUnique
  <2>6. (2 * e) % 2 = 0
    OBVIOUS
  <2> QED BY <1>1, <1>2, <1>3, <2>1, <2>5, <2>6 DEF Bit
<1>4. CASE i >= d
  <2>1. i - d \in Nat /\ d + (i - d) = i
    BY <1>4
  <2>2. z \div p = w
    <3>1. z = w * p + 0 /\ 0 \in 0..(p - 1) /\ w \in Int
      BY <1>1, <1>2
    <3> QED BY <1>1, <3>1, DivisionUnique
  <2>3. Bit(z \div Pow2[d], i - d) = Bit(z, d + (i - d))
    BY <2>1, BitShiftRight
  <2> QED BY <1>1, <1>2, <1>4, <2>1, <2>2, <2>3
<1> QED BY <1>1, <1>2, <1>3, <1>4

(* Two words are the same from a bit on. *)
SameFrom(a, b, i) == a \div Pow2[i] = b \div Pow2[i]

(* Where two words are the same above a bit they are the same in it. *)
SameDownTo(a, b, low, high) ==
  \A i \in low..(high - 1) : SameFrom(a, b, i + 1) => Bit(a, i) = Bit(b, i)

LEMMA SameBits ==
  ASSUME NEW a \in Nat, NEW b \in Nat, NEW low \in Nat, NEW high \in Nat, low <= high,
         SameFrom(a, b, high), SameDownTo(a, b, low, high)
  PROVE  SameFrom(a, b, low)
<1> DEFINE T == {k \in Nat : k <= high - low => SameFrom(a, b, high - k)}
<1>1. 0 \in T
  <2>1. high - 0 = high
    OBVIOUS
  <2> QED BY <2>1
<1>2. ASSUME NEW k \in Nat, k \in T PROVE k + 1 \in T
  <2> SUFFICES ASSUME k + 1 <= high - low PROVE SameFrom(a, b, high - (k + 1))
    OBVIOUS
  <2>1. PICK i \in low..(high - 1) : i = high - (k + 1) /\ i + 1 = high - k
    OBVIOUS
  <2>2. i \in Nat /\ SameFrom(a, b, i + 1)
    BY <1>2, <2>1
  <2>3. Bit(a, i) = Bit(b, i)
    BY <2>2 DEF SameDownTo
  <2>4. SameFrom(a, b, i)
    BY <2>2, <2>3, NextBit DEF SameFrom
  <2> QED BY <2>1, <2>4
<1> HIDE DEF T
<1>3. high - low \in T
  BY <1>1, <1>2, Induction
<1>4. high - (high - low) = low
  OBVIOUS
<1> QED BY <1>3, <1>4 DEF T

(* Words are the same if all their bits are. *)
LEMMA SameWord ==
  ASSUME NEW k \in Nat, NEW a \in Nat, NEW b \in Nat, a < Pow2[k], b < Pow2[k],
         \A i \in 0..(k - 1) : Bit(a, i) = Bit(b, i)
  PROVE  a = b
<1>1. a \in 0..(Pow2[k] - 1) /\ b \in 0..(Pow2[k] - 1)
  BY Pow2Facts
<1>2. SameFrom(a, b, k)
  BY <1>1, BitAbove DEF SameFrom
<1>3. SameDownTo(a, b, 0, k)
  BY DEF SameDownTo
<1>4. SameFrom(a, b, 0)
  <2>1. 0 \in Nat /\ 0 <= k
    OBVIOUS
  <2> QED BY <1>2, <1>3, <2>1, SameBits
<1>5. a \div 1 = a /\ b \div 1 = b
  OBVIOUS
<1> QED BY <1>4, <1>5, Pow2Facts DEF SameFrom

(* WordOf makes a word of these bits. *)
LEMMA WordOfBits ==
  ASSUME NEW len \in Nat, NEW bits \in [0..(len - 1) -> 0..1]
  PROVE  /\ WordOf(bits, len) \in 0..(Pow2[len] - 1)
         /\ \A i \in 0..(len - 1) : Bit(WordOf(bits, len), i) = bits[i]
<1>1. PICK high \in [0..len -> Nat] :
        /\ high[0] = 0
        /\ \A k \in 0..(len - 1) : high[k + 1] = bits[len - (k + 1)] + 2 * high[k]
        /\ WordOf(bits, len) = high[len]
  BY WordOfRecursion
<1> DEFINE Holds(k) == /\ high[k] \in 0..(Pow2[k] - 1)
                       /\ \A i \in 0..(k - 1) : Bit(high[k], i) = bits[len - k + i]
           T == {k \in Nat : k <= len => Holds(k)}
<1>2. 0 \in T
  <2>1. high[0] \in 0..(Pow2[0] - 1)
    BY <1>1, Pow2Facts
  <2>2. 0..(0 - 1) = {}
    OBVIOUS
  <2> QED BY <2>1, <2>2
<1>3. ASSUME NEW k \in Nat, k \in T PROVE k + 1 \in T
  <2> SUFFICES ASSUME k + 1 <= len PROVE Holds(k + 1)
    OBVIOUS
  <2>1. k \in 0..(len - 1) /\ len - (k + 1) \in 0..(len - 1) /\ Holds(k)
    BY <1>3
  <2>2. PICK b \in 0..1 : b = bits[len - (k + 1)]
    BY <2>1
  <2>3. PICK h \in Nat : h = high[k]
    BY <2>1
  <2>4. PICK p \in Nat : p = Pow2[k] /\ Pow2[k + 1] = 2 * p
    BY Pow2Facts
  <2>5. high[k + 1] = 2 * h + b
    BY <1>1, <2>1, <2>2, <2>3
  <2>6. 2 * h + b \in 0..(2 * p - 1)
    <3>1. h \in 0..(p - 1)
      BY <2>1, <2>3, <2>4
    <3> QED BY <3>1
  <2>7. 2 * h + b \in Nat /\ (2 * h + b) \div 1 = 2 * h + b
        /\ (2 * h + b) \div 2 = h /\ (2 * h + b) % 2 = b
    OBVIOUS
  <2>8. Bit(2 * h + b, 0) = b
    BY <2>7, Pow2Facts DEF Bit
  <2>9. ASSUME NEW i \in 0..((k + 1) - 1)
        PROVE  Bit(2 * h + b, i) = bits[len - (k + 1) + i]
    <3>1. CASE i = 0
      <4>1. len - (k + 1) + i = len - (k + 1)
        BY <3>1
      <4> QED BY <2>2, <2>8, <3>1, <4>1
    <3>2. CASE i # 0
      <4>1. PICK j \in 0..(k - 1) : i = 1 + j /\ len - (k + 1) + i = len - k + j
        <5>1. i - 1 \in 0..(k - 1) /\ i = 1 + (i - 1) /\ len - (k + 1) + i = len - k + (i - 1)
          BY <3>2
        <5> QED BY <5>1
      <4>2. Pow2[1] = 2
        <5>1. 0 + 1 = 1 /\ 0 \in Nat /\ 2 * 1 = 2
          OBVIOUS
        <5> QED BY <5>1, Pow2Facts
      <4>3. Bit((2 * h + b) \div Pow2[1], j) = Bit(2 * h + b, 1 + j)
        <5>1. 1 \in Nat /\ j \in Nat
          OBVIOUS
        <5> QED BY <2>7, <5>1, BitShiftRight
      <4>4. Bit(h, j) = bits[len - k + j]
        BY <2>1, <2>3
      <4> QED BY <2>7, <4>1, <4>2, <4>3, <4>4
    <3> QED BY <3>1, <3>2
  <2> QED BY <2>4, <2>5, <2>6, <2>9
<1> HIDE DEF T
<1>4. len \in T
  BY <1>2, <1>3, Induction
<1>5. len <= len /\ \A i \in 0..(len - 1) : len - len + i = i
  OBVIOUS
<1> QED BY <1>1, <1>4, <1>5 DEF T

-----------------------------------------------------------------------------
(* Outputs. *)

LEMMA Widths ==
  /\ OutBits \in Nat /\ OutBits > 0 /\ XorShift \in Nat /\ XorShift > 0
  /\ DropBits \in Nat /\ DropBits <= OutBits /\ RotateShift = DropBits + OutBits
  /\ Fraction64 \in Nat /\ Fraction64 <= 2 * OutBits
  /\ Fraction32 \in Nat /\ Fraction32 <= OutBits
  /\ mul \in Nat /\ inc \in Nat
BY WidthAssumption

LEMMA Words ==
  /\ \A x \in OutWord : x \in Nat /\ x < Pow2[OutBits]
  /\ \A s \in StateWord : s \in Nat /\ s < Pow2[2 * OutBits]
  /\ \A x \in Nat : (x < Pow2[OutBits] => x \in OutWord) /\ (x < Pow2[2 * OutBits] => x \in StateWord)
BY Widths, Pow2Facts DEF OutWord, StateWord

LEMMA XorBits ==
  ASSUME NEW a \in Nat, NEW b \in Nat
  PROVE  /\ Xor(a, b) \in Nat
         /\ \A i \in 0..(2 * OutBits - 1) : Bit(Xor(a, b), i) = (Bit(a, i) + Bit(b, i)) % 2
<1> DEFINE len == 2 * OutBits
           bits == [i \in 0..(2 * OutBits - 1) |-> (Bit(a, i) + Bit(b, i)) % 2]
<1>1. len \in Nat /\ 0..(len - 1) = 0..(2 * OutBits - 1)
  BY Widths
<1>2. bits \in [0..(len - 1) -> 0..1]
  <2> SUFFICES ASSUME NEW i \in 0..(len - 1) PROVE (Bit(a, i) + Bit(b, i)) % 2 \in 0..1
    BY <1>1
  <2>1. Bit(a, i) \in 0..1 /\ Bit(b, i) \in 0..1
    BY <1>1, BitType
  <2> QED BY <2>1
<1>3. Xor(a, b) = WordOf(bits, len)
  BY Zenon DEF Xor
<1>4. \A i \in 0..(2 * OutBits - 1) : bits[i] = (Bit(a, i) + Bit(b, i)) % 2
  OBVIOUS
<1> HIDE DEF bits, len
<1>5. WordOf(bits, len) \in Nat /\ \A i \in 0..(len - 1) : Bit(WordOf(bits, len), i) = bits[i]
  <2>1. /\ WordOf(bits, len) \in 0..(Pow2[len] - 1)
        /\ \A i \in 0..(len - 1) : Bit(WordOf(bits, len), i) = bits[i]
    BY <1>1, <1>2, WordOfBits
  <2> QED BY <1>1, <2>1, Pow2Facts
<1> QED BY <1>1, <1>3, <1>4, <1>5

LEMMA OrBits ==
  ASSUME NEW a \in Nat, NEW b \in Nat
  PROVE  /\ Or(a, b) \in OutWord
         /\ \A i \in 0..(OutBits - 1) :
              Bit(Or(a, b), i) = IF Bit(a, i) = 1 THEN 1 ELSE Bit(b, i)
<1> DEFINE bits == [i \in 0..(OutBits - 1) |-> IF Bit(a, i) = 1 THEN 1 ELSE Bit(b, i)]
<1>1. OutBits \in Nat
  BY Widths
<1>2. bits \in [0..(OutBits - 1) -> 0..1]
  BY <1>1, BitType
<1>3. Or(a, b) = WordOf(bits, OutBits)
  BY Zenon DEF Or
<1>4. \A i \in 0..(OutBits - 1) : bits[i] = IF Bit(a, i) = 1 THEN 1 ELSE Bit(b, i)
  OBVIOUS
<1> HIDE DEF bits
<1>5. /\ WordOf(bits, OutBits) \in 0..(Pow2[OutBits] - 1)
      /\ \A i \in 0..(OutBits - 1) : Bit(WordOf(bits, OutBits), i) = bits[i]
  BY <1>1, <1>2, WordOfBits
<1> QED BY <1>3, <1>4, <1>5 DEF OutWord

(* What Output rotates, and the rotation. *)
Mix(s) == (Xor(s \div Pow2[XorShift], s) \div Pow2[DropBits]) % Pow2[OutBits]
Rotate(x, shift) == Or(x \div Pow2[shift], (x * Pow2[OutBits - shift]) % Pow2[OutBits])
Shift(s) == (s \div Pow2[RotateShift]) % OutBits

LEMMA MixBits ==
  ASSUME NEW s \in Nat
  PROVE  /\ Mix(s) \in OutWord
         /\ \A i \in 0..(OutBits - 1) :
              Bit(Mix(s), i) = (Bit(s, XorShift + (DropBits + i)) + Bit(s, DropBits + i)) % 2
<1> DEFINE a == s \div Pow2[XorShift]
           x == Xor(a, s)
           y == x \div Pow2[DropBits]
<1>1. a \in Nat
  BY Widths, BitShiftRight
<1>2. x \in Nat
  BY <1>1, XorBits
<1>3. y \in Nat
  BY <1>2, Widths, BitShiftRight
<1>4. Mix(s) = y % Pow2[OutBits] /\ y % Pow2[OutBits] \in 0..(Pow2[OutBits] - 1)
  <2>1. Pow2[OutBits] \in Nat /\ Pow2[OutBits] > 0
    BY Widths, Pow2Facts
  <2> QED BY <1>3, <2>1, Division, Zenon DEF Mix
<1>5. ASSUME NEW i \in 0..(OutBits - 1)
      PROVE  Bit(Mix(s), i) = (Bit(s, XorShift + (DropBits + i)) + Bit(s, DropBits + i)) % 2
  <2>1. i \in Nat /\ i < OutBits /\ DropBits + i \in 0..(2 * OutBits - 1) /\ DropBits + i \in Nat
    BY Widths
  <2>2. Bit(s \div Pow2[XorShift], DropBits + i) = Bit(s, XorShift + (DropBits + i))
    BY <2>1, Widths, BitShiftRight
  <2>3. Bit(x, DropBits + i) = (Bit(a, DropBits + i) + Bit(s, DropBits + i)) % 2
    BY <1>1, <2>1, XorBits
  <2> HIDE DEF x, y
  <2>4. Bit(y, i) = Bit(x, DropBits + i)
    BY <1>2, <2>1, Widths, BitShiftRight DEF y
  <2>5. Bit(y % Pow2[OutBits], i) = Bit(y, i)
    BY <1>3, <2>1, Widths, BitRemainder
  <2> QED BY <1>4, <2>2, <2>3, <2>4, <2>5
<1> QED BY <1>4, <1>5 DEF OutWord

(* States with the same rotation that mix to the same word are the same    *)
(* above the bits that are dropped.                                        *)
LEMMA MixInjective ==
  ASSUME NEW a \in Nat, NEW b \in Nat, SameFrom(a, b, RotateShift), Mix(a) = Mix(b)
  PROVE  SameFrom(a, b, DropBits)
<1>1. ASSUME NEW i \in DropBits..(RotateShift - 1), SameFrom(a, b, i + 1)
      PROVE  Bit(a, i) = Bit(b, i)
  <2>1. PICK k \in 0..(OutBits - 1) : DropBits + k = i
    <3>1. i - DropBits \in 0..(OutBits - 1) /\ DropBits + (i - DropBits) = i
      BY Widths
    <3> QED BY <3>1
  <2>2. i \in Nat /\ XorShift + i \in Nat
    BY Widths
  <2>3. Bit(a, XorShift + i) = Bit(b, XorShift + i)
    <3>1. PICK up, j \in Nat : up = i + 1 /\ XorShift + i = up + j
      <4>1. XorShift - 1 \in Nat /\ XorShift + i = (i + 1) + (XorShift - 1)
        BY <2>2, Widths
      <4> QED BY <2>2, <4>1
    <3>2. Bit(a \div Pow2[up], j) = Bit(a, up + j)
      BY BitShiftRight
    <3>3. Bit(b \div Pow2[up], j) = Bit(b, up + j)
      BY BitShiftRight
    <3> QED BY <1>1, <3>1, <3>2, <3>3 DEF SameFrom
  <2>4. (Bit(a, XorShift + i) + Bit(a, i)) % 2 = (Bit(b, XorShift + i) + Bit(b, i)) % 2
    <3>1. Bit(Mix(a), k) = (Bit(a, XorShift + (DropBits + k)) + Bit(a, DropBits + k)) % 2
      BY MixBits
    <3>2. Bit(Mix(b), k) = (Bit(b, XorShift + (DropBits + k)) + Bit(b, DropBits + k)) % 2
      BY MixBits
    <3> QED BY <2>1, <3>1, <3>2
  <2>5. /\ Bit(a, i) \in 0..1 /\ Bit(b, i) \in 0..1
        /\ Bit(a, XorShift + i) \in 0..1 /\ Bit(b, XorShift + i) \in 0..1
    BY <2>2, BitType
  <2>6. \A u, v, w \in 0..1 : (u + v) % 2 = (u + w) % 2 => v = w
    OBVIOUS
  <2> QED BY <2>3, <2>4, <2>5, <2>6
<1>2. SameDownTo(a, b, DropBits, RotateShift)
  BY <1>1 DEF SameDownTo
<1>3. DropBits \in Nat /\ RotateShift \in Nat /\ DropBits <= RotateShift
  BY Widths
<1> QED BY <1>2, <1>3, SameBits

(* A rotation moves the bits of a word, so that no two words become one.   *)
LEMMA RotateBits ==
  ASSUME NEW x \in OutWord, NEW shift \in 0..(OutBits - 1), NEW i \in 0..(OutBits - 1)
  PROVE  /\ Rotate(x, shift) \in OutWord
         /\ Bit(x, i) = Bit(Rotate(x, shift), IF i < shift THEN i + (OutBits - shift) ELSE i - shift)
<1> DEFINE back == OutBits - shift
           a == x \div Pow2[shift]
           b == x * Pow2[back]
           c == b % Pow2[OutBits]
           y == Or(a, c)
<1>1. x \in Nat /\ x \in 0..(Pow2[OutBits] - 1) /\ shift \in Nat /\ back \in Nat /\ i \in Nat
      /\ back + shift = OutBits /\ back > 0 /\ OutBits \in Nat
  BY Words, Widths DEF OutWord
<1>2. a \in Nat /\ b \in Nat
  BY <1>1, BitShiftRight, BitShiftLeft
<1>3. c \in Nat
  <2>1. Pow2[OutBits] \in Nat /\ Pow2[OutBits] > 0
    BY <1>1, Pow2Facts
  <2> HIDE DEF b
  <2>2. b % Pow2[OutBits] \in 0..(Pow2[OutBits] - 1)
    BY <1>2, <2>1, Division
  <2> QED BY <2>1, <2>2
<1>4. Rotate(x, shift) = y
  BY Zenon DEF Rotate
<1>5. /\ y \in OutWord
      /\ \A k \in 0..(OutBits - 1) : Bit(y, k) = IF Bit(a, k) = 1 THEN 1 ELSE Bit(c, k)
  <2> HIDE DEF a, c
  <2> QED BY <1>2, <1>3, OrBits
<1>6. ASSUME NEW k \in 0..(OutBits - 1)
      PROVE  /\ Bit(a, k) = Bit(x, shift + k)
             /\ Bit(c, k) = IF k < back THEN 0 ELSE Bit(x, k - back)
  <2>1. k \in Nat /\ k < OutBits
    BY <1>1
  <2>2. Bit(a, k) = Bit(x, shift + k)
    BY <1>1, <2>1, BitShiftRight
  <2>3. Bit(b, k) = IF k < back THEN 0 ELSE Bit(x, k - back)
    BY <1>1, <2>1, BitShiftLeft
  <2> HIDE DEF b
  <2>4. Bit(c, k) = Bit(b, k)
    BY <1>1, <1>2, <2>1, BitRemainder
  <2> QED BY <2>2, <2>3, <2>4
<1> HIDE DEF a, b, c, y, back
<1>7. CASE i < shift
  <2>1. PICK k \in 0..(OutBits - 1) : k = i + back /\ ~(k < back) /\ k - back = i
    BY <1>1, <1>7
  <2>2. shift + k \in Nat /\ shift + k >= OutBits
    BY <1>1, <2>1
  <2>3. Bit(x, shift + k) = 0
    BY <1>1, <2>2, BitAbove
  <2>4. Bit(y, k) = Bit(x, i)
    BY <1>5, <1>6, <2>1, <2>3
  <2> QED BY <1>4, <1>5, <1>7, <2>1, <2>4 DEF back
<1>8. CASE ~(i < shift)
  <2>1. PICK k \in 0..(OutBits - 1) : k = i - shift /\ k < back /\ shift + k = i
    BY <1>1, <1>8
  <2>2. Bit(a, k) = Bit(x, i) /\ Bit(c, k) = 0 /\ Bit(x, i) \in 0..1
    BY <1>1, <1>6, <2>1, BitType
  <2>3. Bit(y, k) = Bit(x, i)
    BY <1>5, <2>2
  <2> QED BY <1>4, <1>5, <1>8, <2>1, <2>3
<1> QED BY <1>7, <1>8

LEMMA RotateInjective ==
  ASSUME NEW x \in OutWord, NEW y \in OutWord, NEW shift \in 0..(OutBits - 1),
         Rotate(x, shift) = Rotate(y, shift)
  PROVE  x = y
<1>1. ASSUME NEW i \in 0..(OutBits - 1) PROVE Bit(x, i) = Bit(y, i)
  BY RotateBits
<1>2. x \in Nat /\ y \in Nat /\ x < Pow2[OutBits] /\ y < Pow2[OutBits] /\ OutBits \in Nat
  BY Words, Widths
<1> QED BY <1>1, <1>2, SameWord

(* A state is determined by its rotation, its output and its low bits.     *)
LEMMA OutputType ==
  ASSUME NEW s \in Nat
  PROVE  /\ Mix(s) \in OutWord /\ Shift(s) \in 0..(OutBits - 1)
         /\ Output(s) = Rotate(Mix(s), Shift(s)) /\ Output(s) \in OutWord
<1>1. Mix(s) \in OutWord
  BY MixBits
<1>2. Shift(s) \in 0..(OutBits - 1)
  <2>1. s \div Pow2[RotateShift] \in Nat
    <3>1. RotateShift \in Nat
      BY Widths
    <3> QED BY <3>1, BitShiftRight
  <2> QED BY <2>1, Widths, Division DEF Shift
<1>3. Output(s) = Rotate(Mix(s), Shift(s))
  BY Zenon DEF Output, Rotate, Mix, Shift
<1>4. 0 \in 0..(OutBits - 1)
  BY Widths
<1> QED BY <1>1, <1>2, <1>3, <1>4, RotateBits

LEMMA OutputInjective ==
  ASSUME NEW a \in Nat, NEW b \in Nat,
         SameFrom(a, b, RotateShift), Output(a) = Output(b),
         a % Pow2[DropBits] = b % Pow2[DropBits]
  PROVE  a = b
<1>1. Shift(a) = Shift(b)
  BY DEF Shift, SameFrom
<1>2. Mix(a) = Mix(b)
  BY <1>1, OutputType, RotateInjective
<1>3. SameFrom(a, b, DropBits)
  BY <1>2, MixInjective
<1>4. PICK p \in Nat : p = Pow2[DropBits] /\ p > 0
  BY Widths, Pow2Facts
<1>5. a = (a \div p) * p + (a % p) /\ b = (b \div p) * p + (b % p)
  BY <1>4, Division
<1> QED BY <1>3, <1>4, <1>5 DEF SameFrom

(* There are 2^k words of k bits. *)
LEMMA BitWords ==
  ASSUME NEW k \in Nat
  PROVE  IsFiniteSet(0..(Pow2[k] - 1)) /\ Cardinality(0..(Pow2[k] - 1)) = Pow2[k]
<1>1. PICK p \in Nat : p = Pow2[k] /\ p > 0
  BY Pow2Facts
<1>2. 0 \in Int /\ p - 1 \in Int /\ ~(0 > p - 1) /\ (p - 1) - 0 + 1 = p
  BY <1>1
<1> QED BY <1>1, <1>2, FS_Interval

LEMMA WordCount ==
  /\ IsFiniteSet(OutWord) /\ Cardinality(OutWord) = Pow2[OutBits]
  /\ IsFiniteSet(StateWord) /\ Cardinality(StateWord) = Pow2[2 * OutBits]
<1>1. OutBits \in Nat /\ 2 * OutBits \in Nat
  BY Widths
<1> QED BY <1>1, BitWords DEF OutWord, StateWord

(* The parts of a state that an output leaves open: the bits that select   *)
(* the rotation and those that are dropped.                                *)
Rest == (0..(Pow2[OutBits - DropBits] - 1)) \X (0..(Pow2[DropBits] - 1))
RestOf(s) == <<s \div Pow2[RotateShift], s % Pow2[DropBits]>>

LEMMA RestCount == IsFiniteSet(Rest) /\ Cardinality(Rest) = Pow2[OutBits]
<1>1. PICK a, b \in Nat : a = OutBits - DropBits /\ b = DropBits /\ a + b = OutBits
  BY Widths
<1> DEFINE A == 0..(Pow2[a] - 1)
           B == 0..(Pow2[b] - 1)
<1>2. Rest = A \X B
  BY <1>1 DEF Rest
<1>3. /\ IsFiniteSet(A) /\ Cardinality(A) = Pow2[a]
      /\ IsFiniteSet(B) /\ Cardinality(B) = Pow2[b]
  BY BitWords
<1> HIDE DEF A, B
<1>4. IsFiniteSet(A \X B) /\ Cardinality(A \X B) = Cardinality(A) * Cardinality(B)
  BY <1>3, FS_Product
<1>5. Pow2[a + b] = Pow2[a] * Pow2[b]
  BY Pow2Sum
<1> QED BY <1>1, <1>2, <1>3, <1>4, <1>5

LEMMA RestType ==
  ASSUME NEW s \in StateWord
  PROVE  RestOf(s) \in Rest
<1>1. s \in Nat
  BY Words
<1>2. s % Pow2[DropBits] \in 0..(Pow2[DropBits] - 1)
  BY <1>1, Widths, Pow2Facts, Division
<1>3. s \div Pow2[RotateShift] \in 0..(Pow2[OutBits - DropBits] - 1)
  <2>1. PICK k, r \in Nat : k = OutBits - DropBits /\ r = RotateShift /\ k + r = 2 * OutBits
    BY Widths
  <2>2. PICK p, q \in Nat : p = Pow2[k] /\ q = Pow2[r] /\ p > 0 /\ q > 0
    BY Pow2Facts
  <2>3. Pow2[2 * OutBits] = p * q
    <3>1. Pow2[k + r] = Pow2[k] * Pow2[r]
      BY Pow2Sum
    <3> QED BY <2>1, <2>2, <3>1
  <2>4. PICK d \in Nat, m \in 0..(q - 1) : s = d * q + m /\ s \div q = d
    BY <1>1, <2>2, Division
  <2>5. d < p
    <3>1. d >= p => d * q >= p * q
      OBVIOUS
    <3>2. d * q \in Nat /\ p * q \in Nat /\ s < p * q
      BY <2>3, Words
    <3> QED BY <2>4, <3>1, <3>2
  <2> QED BY <2>1, <2>2, <2>4, <2>5
<1> QED BY <1>2, <1>3 DEF Rest, RestOf

(* An output, with the rest, determines the state, and each output comes   *)
(* with every rest: there are as many pairs as states.                     *)
LEMMA OutputCount ==
  ASSUME NEW v \in OutWord
  PROVE  Cardinality({s \in StateWord : Output(s) = v}) = Pow2[OutBits]
<1> DEFINE Pairs == Rest \X OutWord
           split == [s \in StateWord |-> <<RestOf(s), Output(s)>>]
           States == {s \in StateWord : Output(s) = v}
           rest == [s \in States |-> RestOf(s)]
<1>1. ASSUME NEW a \in StateWord, NEW b \in StateWord,
             RestOf(a) = RestOf(b), Output(a) = Output(b)
      PROVE  a = b
  <2>1. a \in Nat /\ b \in Nat
    BY Words
  <2>2. SameFrom(a, b, RotateShift) /\ a % Pow2[DropBits] = b % Pow2[DropBits]
    BY <1>1 DEF RestOf, SameFrom
  <2> QED BY <1>1, <2>1, <2>2, OutputInjective
<1>2. ASSUME NEW s \in StateWord PROVE RestOf(s) \in Rest /\ Output(s) \in OutWord
  BY Words, RestType, OutputType
<1>3. split \in Injection(StateWord, Pairs)
  <2>1. split \in [StateWord -> Pairs]
    BY <1>2
  <2>2. \A a, b \in StateWord : split[a] = split[b] => a = b
    BY <1>1
  <2> HIDE DEF split, Pairs
  <2> QED BY <2>1, <2>2 DEF Injection, IsInjective
<1>4. IsFiniteSet(Pairs) /\ Cardinality(Pairs) = Cardinality(StateWord)
  <2>1. Pow2[2 * OutBits] = Pow2[OutBits] * Pow2[OutBits]
    <3>1. OutBits \in Nat /\ OutBits + OutBits = 2 * OutBits
      BY Widths
    <3> QED BY <3>1, Pow2Sum
  <2> QED BY <2>1, WordCount, RestCount, FS_Product
<1>5. split \in Surjection(StateWord, Pairs)
  <2> HIDE DEF split, Pairs
  <2> QED BY <1>3, <1>4, FS_Injection
<1>6. ASSUME NEW r \in Rest PROVE \E s \in States : RestOf(s) = r
  <2>1. <<r, v>> \in Pairs
    OBVIOUS
  <2>2. PICK s \in StateWord : split[s] = <<r, v>>
    <3> HIDE DEF split, Pairs
    <3> QED BY <1>5, <2>1 DEF Surjection
  <2>3. RestOf(s) = r /\ Output(s) = v
    BY <2>2
  <2> QED BY <2>3
<1>7. rest \in Injection(States, Rest)
  <2>1. rest \in [States -> Rest]
    BY <1>2
  <2>2. \A a, b \in States : rest[a] = rest[b] => a = b
    BY <1>1
  <2> HIDE DEF rest, States
  <2> QED BY <2>1, <2>2 DEF Injection, IsInjective
<1>8. rest \in Surjection(States, Rest)
  <2>1. rest \in [States -> Rest]
    BY <1>2
  <2>2. \A r \in Rest : \E s \in States : rest[s] = r
    BY <1>6
  <2> HIDE DEF rest, States
  <2> QED BY <2>1, <2>2 DEF Surjection
<1>9. Cardinality(States) = Cardinality(Rest)
  <2> HIDE DEF rest, States
  <2> QED BY <1>7, <1>8, RestCount, FS_Injection
<1> QED BY <1>9, RestCount

-----------------------------------------------------------------------------
(* Bounded numbers. *)

(* The subtractions of Uint32n leave the remainder of all outputs. *)
LEMMA ThresholdIsRemainder ==
  ASSUME NEW bound \in OutWord \ {0}
  PROVE  Threshold(bound) = Pow2[OutBits] % bound
<1>1. PICK w \in Nat : w = Pow2[OutBits] /\ w > 0
  BY Widths, Pow2Facts
<1>2. bound \in Nat /\ bound > 0 /\ bound < w
  BY <1>1, Words
<1>3. PICK t \in Nat : t = w - bound
  BY <1>2
<1>4. (w - bound) % w = t
  BY <1>2, <1>3
<1>5. PICK q \in Nat, r \in 0..(bound - 1) : w = q * bound + r /\ w % bound = r
  BY <1>2, Division
<1>6. ASSUME NEW x \in Nat, NEW y \in Nat, x = y + bound
      PROVE  x % bound = y % bound
  <2>1. PICK u \in Nat, v \in 0..(bound - 1) : y = u * bound + v /\ y % bound = v
    BY <1>2, Division
  <2>2. (u + 1) * bound = u * bound + bound /\ u * bound \in Int /\ u + 1 \in Int
    BY <1>2
  <2>3. x = (u + 1) * bound + v
    BY <1>2, <1>6, <2>1, <2>2
  <2> QED BY <1>2, <2>1, <2>2, <2>3, DivisionUnique
<1>7. w % bound = t % bound
  <2>1. w = t + bound
    BY <1>2, <1>3
  <2> QED BY <1>6, <2>1
<1>8. ASSUME NEW x \in Nat, x < bound PROVE x % bound = x
  BY <1>2, <1>8
<1>9. CASE t < bound
  BY <1>1, <1>4, <1>7, <1>8, <1>9 DEF Threshold
<1>10. CASE ~(t < bound)
  <2>1. t - bound \in Nat /\ t = (t - bound) + bound
    BY <1>2, <1>10
  <2>2. t % bound = (t - bound) % bound
    BY <2>1, <1>6
  <2> QED BY <1>1, <1>4, <1>7, <1>8, <1>10, <2>1, <2>2 DEF Threshold
<1> QED BY <1>9, <1>10

(* An interval as long as q times a step holds q multiples of the step.    *)
LEMMA MultiplesIn ==
  ASSUME NEW step \in Nat, step > 0, NEW from \in Nat, NEW q \in Nat
  PROVE  \E first \in Nat :
           \A x \in Int : from <= x * step /\ x * step < from + q * step <=> x \in first..(first + q - 1)
<1>1. PICK d \in Nat, r \in 0..(step - 1) : from = d * step + r
  BY Division
<1>2. PICK first \in Nat : first = IF r = 0 THEN d ELSE d + 1
  OBVIOUS
<1>3. ASSUME NEW x \in Int PROVE from <= x * step <=> first <= x
  <2>1. (x >= d + 1 => x * step >= (d + 1) * step) /\ (x <= d => x * step <= d * step)
    OBVIOUS
  <2>2. (d + 1) * step = d * step + step
    OBVIOUS
  <2>3. PICK y, z \in Int : y = x * step /\ z = d * step
    OBVIOUS
  <2>4. (x = d => y = z)
    BY <2>3
  <2> QED BY <1>1, <1>2, <2>1, <2>2, <2>3, <2>4
<1>4. ASSUME NEW x \in Int PROVE x * step < from + q * step <=> x < first + q
  <2>1. x - q \in Int /\ (x - q) * step = x * step - q * step
    OBVIOUS
  <2>2. from <= (x - q) * step <=> first <= x - q
    BY <1>3, <2>1
  <2>3. PICK y, z \in Int : y = x * step /\ z = q * step
    OBVIOUS
  <2> QED BY <2>1, <2>2, <2>3
<1>5. ASSUME NEW x \in Int
      PROVE  from <= x * step /\ x * step < from + q * step <=> x \in first..(first + q - 1)
  <2>1. x \in first..(first + q - 1) <=> first <= x /\ x < first + q
    OBVIOUS
  <2> QED BY <1>3, <1>4, <2>1, Zenon
<1> QED BY <1>5, Zenon

(* For every number below the bound equally many outputs are accepted.     *)
LEMMA AcceptedCount ==
  ASSUME NEW bound \in OutWord \ {0}, NEW value \in 0..(bound - 1)
  PROVE  Cardinality({x \in OutWord : Accepts(bound, x) /\ Scaled(bound, x) = value})
           = Pow2[OutBits] \div bound
<1>1. PICK w \in Nat : w = Pow2[OutBits] /\ w > 0 /\ OutWord = 0..(w - 1)
  BY Widths, Pow2Facts DEF OutWord
<1>2. bound \in Nat /\ bound > 0
  BY Words
<1>3. PICK q \in Nat, t \in 0..(bound - 1) :
        w = q * bound + t /\ w \div bound = q /\ w % bound = t
  BY <1>2, Division
<1>4. Threshold(bound) = t
  BY <1>1, <1>3, ThresholdIsRemainder
<1>5. PICK from \in Nat : from = value * w + t
  OBVIOUS
<1>6. ASSUME NEW x \in OutWord
      PROVE  Accepts(bound, x) /\ Scaled(bound, x) = value
               <=> from <= x * bound /\ x * bound < from + q * bound
  <2>1. x \in Nat /\ x * bound \in Nat
    BY <1>2, Words
  <2>2. PICK p \in Nat : p = x * bound
    BY <2>1
  <2>3. PICK h \in Nat, l \in 0..(w - 1) : p = h * w + l /\ p \div w = h /\ p % w = l
    BY <1>1, Division
  <2>4. Accepts(bound, x) <=> l >= t
    <3>1. (x * bound) % Pow2[OutBits] = l
      BY <1>1, <2>2, <2>3
    <3>2. Accepts(bound, x) <=> ~(l < bound /\ l < t)
      BY <1>4, <3>1, Zenon DEF Accepts
    <3> QED BY <1>2, <3>2
  <2>5. Scaled(bound, x) = h
    BY <1>1, <2>2, <2>3 DEF Scaled
  <2>6. from + q * bound = (value + 1) * w
    <3>1. (value + 1) * w = value * w + w
      OBVIOUS
    <3>2. PICK y, z \in Int : y = value * w /\ z = q * bound
      BY <1>2
    <3> QED BY <1>3, <1>5, <3>1, <3>2
  <2>7. (h >= value + 1 => h * w >= (value + 1) * w) /\ (h + 1 <= value => (h + 1) * w <= value * w)
    OBVIOUS
  <2>8. (h + 1) * w = h * w + w /\ (value + 1) * w = value * w + w
    OBVIOUS
  <2>9. PICK y, z \in Int : y = h * w /\ z = value * w
    OBVIOUS
  <2>10. h = value => y = z
    BY <2>9
  <2> QED BY <1>5, <2>2, <2>3, <2>4, <2>5, <2>6, <2>7, <2>8, <2>9, <2>10
<1>7. PICK first \in Nat :
        \A x \in Int : from <= x * bound /\ x * bound < from + q * bound
                         <=> x \in first..(first + q - 1)
  BY <1>2, MultiplesIn
<1>8. ASSUME NEW x \in first..(first + q - 1) PROVE x \in OutWord
  <2>1. x \in Nat /\ x * bound < from + q * bound
    BY <1>7
  <2>2. from + q * bound <= bound * w
    <3>1. (value + 1) * w = value * w + w /\ (value + 1) * w <= bound * w
      BY <1>2
    <3>2. PICK y, z, u \in Int : y = value * w /\ z = q * bound /\ u = bound * w
      BY <1>2
    <3> QED BY <1>3, <1>5, <3>1, <3>2
  <2>3. x >= w => x * bound >= w * bound
    BY <1>2, <2>1
  <2>4. PICK y, z \in Int : y = x * bound /\ z = w * bound /\ z = bound * w
    BY <1>2, <2>1
  <2> QED BY <1>1, <2>1, <2>2, <2>3, <2>4
<1>9. {x \in OutWord : Accepts(bound, x) /\ Scaled(bound, x) = value} = first..(first + q - 1)
  <2>1. \A x \in OutWord : x \in Int
    BY Words
  <2> QED BY <1>6, <1>7, <1>8, <2>1
<1>10. Cardinality(first..(first + q - 1)) = q
  BY FS_Interval
<1> QED BY <1>1, <1>3, <1>9, <1>10

(* The number is below the bound. *)
LEMMA ScaledRange ==
  ASSUME NEW bound \in OutWord \ {0}, NEW x \in OutWord
  PROVE  Scaled(bound, x) \in 0..(bound - 1)
<1>1. PICK w \in Nat : w = Pow2[OutBits] /\ w > 0
  BY Widths, Pow2Facts
<1>2. bound \in Nat /\ bound > 0 /\ x \in Nat /\ x < w
  BY <1>1, Words
<1>3. PICK p \in Nat : p = x * bound
  BY <1>2
<1>4. PICK h \in Nat, l \in 0..(w - 1) : p = h * w + l /\ p \div w = h
  BY <1>1, Division
<1>5. p < w * bound
  <2>1. x * bound <= (w - 1) * bound /\ (w - 1) * bound = w * bound - bound
    BY <1>1, <1>2
  <2>2. w * bound \in Int
    BY <1>2
  <2> QED BY <1>2, <1>3, <2>1, <2>2
<1>6. h >= bound => h * w >= w * bound
  BY <1>2
<1>7. h < bound
  <2>1. PICK y, z \in Int : y = h * w /\ z = w * bound
    BY <1>2
  <2>2. y + l < z /\ (h >= bound => y >= z)
    BY <1>4, <1>5, <1>6, <2>1
  <2> QED BY <1>2, <2>2
<1> QED BY <1>1, <1>2, <1>3, <1>4, <1>7 DEF Scaled

-----------------------------------------------------------------------------
(* Fractions. *)

(* A fraction of a float32 is an output without its low bits. *)
LEMMA Float32Range ==
  ASSUME NEW x \in OutWord
  PROVE  Float32Of(x) \in 0..(Pow2[Fraction32] - 1)
<1>1. PICK k \in Nat : k = OutBits - Fraction32 /\ Fraction32 + k = OutBits
  BY Widths
<1>2. PICK p, d \in Nat : p = Pow2[Fraction32] /\ d = Pow2[k] /\ p > 0 /\ d > 0
  BY Widths, Pow2Facts
<1>3. Pow2[OutBits] = p * d
  <2>1. Pow2[Fraction32 + k] = Pow2[Fraction32] * Pow2[k]
    BY Widths, Pow2Sum
  <2> QED BY <1>1, <1>2, <2>1
<1>4. x \in Nat /\ x < p * d
  BY <1>3, Words
<1>5. PICK v \in Nat, r \in 0..(d - 1) : x = v * d + r /\ x \div d = v
  BY <1>2, <1>4, Division
<1>6. v >= p => v * d >= p * d
  OBVIOUS
<1>7. PICK y, z \in Int : y = v * d /\ z = p * d
  OBVIOUS
<1>8. v < p
  BY <1>4, <1>5, <1>6, <1>7
<1> QED BY <1>1, <1>2, <1>5, <1>8 DEF Float32Of

LEMMA Float32Count ==
  ASSUME NEW value \in 0..(Pow2[Fraction32] - 1)
  PROVE  Cardinality({x \in OutWord : Float32Of(x) = value}) = Pow2[OutBits - Fraction32]
<1>1. PICK k \in Nat : k = OutBits - Fraction32 /\ Fraction32 + k = OutBits
  BY Widths
<1>2. PICK p, d \in Nat : p = Pow2[Fraction32] /\ d = Pow2[k] /\ p > 0 /\ d > 0
  BY Widths, Pow2Facts
<1>3. Pow2[OutBits] = p * d /\ OutWord = 0..(p * d - 1)
  <2>1. Pow2[Fraction32 + k] = Pow2[Fraction32] * Pow2[k]
    BY Widths, Pow2Sum
  <2> QED BY <1>1, <1>2, <2>1 DEF OutWord
<1>4. value \in Nat /\ value < p
  BY <1>2
<1>5. PICK from, size \in Nat : from = value * d /\ size = p * d
  BY <1>4
<1>6. from + d <= size
  <2>1. (value + 1) * d = value * d + d /\ (value + 1) * d <= p * d
    BY <1>4
  <2> QED BY <1>5, <2>1
<1>7. ASSUME NEW x \in Nat PROVE x \div d = value <=> x \in from..(from + d - 1)
  <2>1. PICK v \in Nat, r \in 0..(d - 1) : x = v * d + r /\ x \div d = v
    BY <1>2, Division
  <2>2. (v >= value + 1 => v * d >= (value + 1) * d) /\ (v + 1 <= value => (v + 1) * d <= value * d)
    BY <1>4
  <2>3. (value + 1) * d = value * d + d /\ (v + 1) * d = v * d + d
    BY <1>4
  <2>4. PICK y \in Int : y = v * d
    OBVIOUS
  <2>5. v = value => y = from
    BY <1>5, <2>4
  <2> QED BY <1>4, <1>5, <2>1, <2>2, <2>3, <2>4, <2>5
<1>8. {x \in OutWord : Float32Of(x) = value} = from..(from + d - 1)
  <2>1. \A x \in OutWord : x \in Nat /\ Float32Of(x) = x \div d
    BY <1>1, <1>2, Words DEF Float32Of
  <2>2. from..(from + d - 1) \subseteq OutWord
    BY <1>3, <1>5, <1>6
  <2> QED BY <1>7, <2>1, <2>2
<1>9. Cardinality(from..(from + d - 1)) = d
  BY <1>2, FS_Interval
<1> QED BY <1>1, <1>2, <1>8, <1>9

(* Two outputs that are joined without a shift are below one output in     *)
(* their fraction.                                                         *)
LEMMA Float64Small ==
  ASSUME NEW x1 \in OutWord, NEW x2 \in OutWord
  PROVE  /\ Float64Of(x1, x2) \in Nat
         /\ Float64Of(x1, x2) * Pow2[OutBits] < Pow2[Fraction64]
<1>1. PICK x \in Nat : x = Or(x1, x2) /\ x < Pow2[OutBits]
  BY OrBits, Words
<1>2. PICK k \in Nat : k = 2 * OutBits - Fraction64 /\ Fraction64 + k = OutBits + OutBits
  <2>1. /\ 2 * OutBits - Fraction64 \in Nat
        /\ Fraction64 + (2 * OutBits - Fraction64) = OutBits + OutBits
    BY Widths
  <2> QED BY <2>1
<1>3. PICK p, d, w \in Nat : /\ p = Pow2[Fraction64] /\ d = Pow2[k] /\ w = Pow2[OutBits]
                             /\ p > 0 /\ d > 0 /\ w > 0
  BY Widths, Pow2Facts
<1>4. p * d = w * w
  <2>1. Pow2[Fraction64 + k] = Pow2[Fraction64] * Pow2[k]
    BY Widths, Pow2Sum
  <2>2. Pow2[OutBits + OutBits] = Pow2[OutBits] * Pow2[OutBits]
    BY Widths, Pow2Sum
  <2> QED BY <1>2, <1>3, <2>1, <2>2
<1>5. PICK v \in Nat, r \in 0..(d - 1) : x = v * d + r /\ x \div d = v
  BY <1>3, Division
<1>6. v * d < w
  <2>1. v * d \in Nat
    OBVIOUS
  <2> QED BY <1>1, <1>3, <1>5, <2>1
<1>7. v * w < p
  <2>1. (v * d) * w < w * w
    <3>1. PICK y \in Nat : y = v * d
      OBVIOUS
    <3>2. y * w <= (w - 1) * w /\ (w - 1) * w = w * w - w
      BY <1>3, <1>6, <3>1
    <3> QED BY <1>3, <3>1, <3>2
  <2>2. (v * w) * d = (v * d) * w
    OBVIOUS
  <2>3. v * w >= p => (v * w) * d >= p * d
    OBVIOUS
  <2> QED BY <1>4, <2>1, <2>2, <2>3
<1>8. Float64Of(x1, x2) = v
  BY <1>1, <1>2, <1>3, <1>5 DEF Float64Of
<1> QED BY <1>3, <1>7, <1>8

-----------------------------------------------------------------------------
(* The numbers of a T. *)

(* A float64 is below 2^-32, or as far below 1 as an output has bits.      *)
Float64BelowOutput ==
  answer.op = "Float64" => answer.value * Pow2[OutBits] < Pow2[Fraction64]

(* The state and the bound are words, and every answer is in the range of  *)
(* its operation.                                                          *)
NumbersInv ==
  /\ word \in StateWord
  /\ n \in OutWord
  /\ answer.op = "Uint32" => answer.value \in OutWord
  /\ answer.op = "Uint32n" /\ answer.n # 0 =>
       answer.n \in OutWord \ {0} /\ answer.value \in 0..(answer.n - 1)
  /\ answer.op = "Float32" => answer.value \in 0..(Pow2[Fraction32] - 1)
  /\ Float64BelowOutput

LEMMA NextStateType ==
  ASSUME NEW s \in StateWord
  PROVE  NextState(s) \in StateWord /\ Output(NextState(s)) \in OutWord
<1>1. s \in Nat /\ mul \in Nat /\ inc \in Nat
  BY Words, Widths
<1>2. PICK p \in Nat : p = Pow2[2 * OutBits] /\ p > 0
  BY Widths, Pow2Facts
<1>3. s * mul + inc \in Nat
  BY <1>1
<1>4. NextState(s) \in 0..(p - 1)
  BY <1>2, <1>3, Division DEF NextState
<1>5. NextState(s) \in StateWord /\ NextState(s) \in Nat
  BY <1>2, <1>4 DEF StateWord
<1> QED BY <1>5, OutputType

LEMMA NumbersStart == TInit => NumbersInv
<1> SUFFICES ASSUME TInit PROVE NumbersInv
  OBVIOUS
<1>1. 0 \in OutWord
  BY Widths, Pow2Facts DEF OutWord
<1> QED BY <1>1 DEF TInit, NumbersInv, Float64BelowOutput

LEMMA NumbersKept == NumbersInv /\ [TNext]_numberVars => NumbersInv'
<1> SUFFICES ASSUME NumbersInv, [TNext]_numberVars PROVE NumbersInv'
  OBVIOUS
<1>1. word \in StateWord /\ n \in OutWord
  BY DEF NumbersInv
<1>2. /\ NextState(word) \in StateWord /\ Output(NextState(word)) \in OutWord
      /\ NextState(NextState(word)) \in StateWord
      /\ Output(NextState(NextState(word))) \in OutWord
  BY <1>1, NextStateType
<1>3. CASE Uint32
  BY <1>1, <1>2, <1>3 DEF Uint32, Return, NumbersInv, Float64BelowOutput
<1>4. CASE Uint64
  BY <1>1, <1>2, <1>4 DEF Uint64, Return, NumbersInv, Float64BelowOutput
<1>5. CASE Float32
  <2>1. Float32Of(Output(NextState(word))) \in 0..(Pow2[Fraction32] - 1)
    BY <1>2, Float32Range
  <2> QED BY <1>1, <1>2, <1>5, <2>1 DEF Float32, Return, NumbersInv, Float64BelowOutput
<1>6. CASE Float64
  <2>1. Float64Of(Output(NextState(word)), Output(NextState(NextState(word)))) * Pow2[OutBits]
          < Pow2[Fraction64]
    BY <1>2, Float64Small
  <2> QED BY <1>1, <1>2, <1>6, <2>1 DEF Float64, Return, NumbersInv, Float64BelowOutput
<1>7. CASE Uint32nZero
  BY <1>1, <1>7 DEF Uint32nZero, Return, NumbersInv, Float64BelowOutput
<1>8. ASSUME NEW bound \in OutWord \ {0}, Uint32n(bound)
      PROVE  NumbersInv'
  BY <1>1, <1>8 DEF Uint32n, NumbersInv, Float64BelowOutput
<1>9. CASE DrawAgain
  BY <1>1, <1>2, <1>9 DEF DrawAgain, NumbersInv, Float64BelowOutput
<1>10. CASE DrawLast
  <2>1. n \in OutWord \ {0} /\ 0 \in OutWord
    BY <1>1, <1>10, Widths, Pow2Facts DEF DrawLast, OutWord
  <2>2. Scaled(n, Output(NextState(word))) \in 0..(n - 1)
    BY <1>2, <2>1, ScaledRange
  <2> QED BY <1>1, <1>2, <1>10, <2>1, <2>2
          DEF DrawLast, Return, NumbersInv, Float64BelowOutput
<1>11. CASE UNCHANGED numberVars
  BY <1>11 DEF numberVars, NumbersInv, Float64BelowOutput
<1> QED BY <1>3, <1>4, <1>5, <1>6, <1>7, <1>8, <1>9, <1>10, <1>11 DEF TNext

LEMMA NumbersInvariant == TSpec => []NumbersInv
BY NumbersStart, NumbersKept, PTL DEF TSpec

(* Outputs, bounded numbers and float32 fractions are uniform for every    *)
(* width: Uint32 maps as many states to each output as to any other, and   *)
(* the draws that Uint32n accepts are as many for each number below the    *)
(* bound, namely as many as the bound allows.                              *)
THEOREM NumbersAreUniform == TSpec => []NumbersUniform
<1>1. NumbersInv => NumbersUniform
  <2> SUFFICES ASSUME NumbersInv PROVE NumbersUniform
    OBVIOUS
  <2>1. OutputBalanced
    BY OutputCount DEF NumbersInv, OutputBalanced
  <2>2. Unbiased
    <3> SUFFICES ASSUME answer.op = "Uint32n", answer.n # 0
                 PROVE  /\ answer.value < answer.n
                        /\ Cardinality({x \in OutWord : Accepts(answer.n, x) /\ Scaled(answer.n, x) = answer.value})
                             = Pow2[OutBits] \div answer.n
      BY DEF Unbiased
    <3>1. answer.n \in OutWord \ {0} /\ answer.value \in 0..(answer.n - 1)
      BY DEF NumbersInv
    <3>2. answer.n \in Nat
      BY <3>1, Words
    <3> QED BY <3>1, <3>2, AcceptedCount
  <2>3. Float32Uniform
    <3> SUFFICES ASSUME answer.op = "Float32"
                 PROVE  /\ answer.value < Pow2[Fraction32]
                        /\ Cardinality({x \in OutWord : Float32Of(x) = answer.value})
                             = Pow2[OutBits - Fraction32]
      BY DEF Float32Uniform
    <3>1. answer.value \in 0..(Pow2[Fraction32] - 1) /\ Pow2[Fraction32] \in Nat
      BY Widths, Pow2Facts DEF NumbersInv
    <3> QED BY <3>1, Float32Count
  <2> QED BY <2>1, <2>2, <2>3 DEF NumbersUniform
<1> QED BY <1>1, NumbersInvariant, PTL

(* What Float64 returns is below 2^-32 in the code, not spread over        *)
(* [0, 1): its halves are joined without a shift.                          *)
THEOREM Float64IsSmall == TSpec => []Float64BelowOutput
<1>1. NumbersInv => Float64BelowOutput
  BY DEF NumbersInv
<1> QED BY <1>1, NumbersInvariant, PTL

=============================================================================
