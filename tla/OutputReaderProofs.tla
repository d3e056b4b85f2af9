------------------------- MODULE OutputReaderProofs -------------------------
(***************************************************************************)
(* The reader of a digest implements the endless stream of OutputStream,   *)
(* for every block length, every width of the integers, and any calls of   *)
(* Read and Seek.  The invariant says where the bytes delivered so far     *)
(* come from; the rest is arithmetic on quotients and remainders.          *)
(***************************************************************************)
EXTENDS OutputReader, SequenceTheorems, TLAPS

(* The constants are what the assumption says. *)
LEMMA Constants ==
  /\ BlockLen \in Nat /\ BlockLen > 0
  /\ MaxInt \in Nat /\ MinInt = -MaxInt - 1
  /\ Lengths \subseteq Nat
  /\ MaxPosition \in Nat /\ MaxPosition <= MaxInt + 1
BY ReaderAssumption DEF MinInt

-----------------------------------------------------------------------------
(* Quotients and remainders. *)
LEMMA Division ==
  ASSUME NEW m \in Nat \ {0}, NEW a \in Int
  PROVE  /\ a \div m \in Int /\ a % m \in 0..(m - 1)
         /\ a = m * (a \div m) + (a % m)
OBVIOUS

LEMMA Multiple ==
  ASSUME NEW m \in Nat \ {0}, NEW e \in Int
  PROVE  /\ m * e \in Int
         /\ e >= 1 => m * e >= m
         /\ e <= -1 => m * e <= -m
OBVIOUS

LEMMA Distribute ==
  ASSUME NEW m \in Int, NEW d \in Int, NEW e \in Int
  PROVE  /\ m * (d - e) = m * d - m * e
         /\ m * (d + e) = m * d + m * e
         /\ m * d \in Int
OBVIOUS

(* There is one way to divide with a remainder below the divisor. *)
LEMMA DivisionUnique ==
  ASSUME NEW m \in Nat \ {0}, NEW d \in Int, NEW r \in 0..(m - 1)
  PROVE  (m * d + r) \div m = d /\ (m * d + r) % m = r
<1> DEFINE a == m * d + r
           q == a \div m
           p == a % m
<1>1. m * d \in Int /\ a \in Int
  OBVIOUS
<1>2. q \in Int /\ p \in 0..(m - 1) /\ a = m * q + p
  BY <1>1, Division
<1>3. m * d + r = m * q + p
  BY <1>2
<1> HIDE DEF a, q, p
<1>4. m * (q - d) = m * q - m * d
  BY <1>2, Distribute
<1>5. m * (q - d) = r - p
  <2>1. m * q \in Int /\ r \in Int /\ p \in Int
    BY <1>2
  <2> QED BY <1>1, <1>3, <1>4, <2>1
<1>6. q - d \in Int /\ ~(q - d >= 1) /\ ~(q - d <= -1)
  <2>1. q - d \in Int
    BY <1>2
  <2>2. /\ q - d >= 1 => m * (q - d) >= m
        /\ q - d <= -1 => m * (q - d) <= -m
    BY <2>1, Multiple
  <2>3. r - p < m /\ r - p > -m
    BY <1>2
  <2> QED BY <1>5, <2>1, <2>2, <2>3
<1>7. q = d
  BY <1>2, <1>6
<1>8. p = r
  BY <1>1, <1>2, <1>3, <1>7
<1> QED BY <1>7, <1>8 DEF a, q, p

(* Conversion to an integer of the machine does not see multiples of the   *)
(* range, keeps what fits, and makes what is too large by less than half   *)
(* of the range negative.                                                  *)
Span == 2 * (MaxInt + 1)

LEMMA ToIntShift ==
  ASSUME NEW n \in Int
  PROVE  \E k \in Int : ToInt(n) = n + Span * k
<1>1. Span \in Nat \ {0} /\ MinInt \in Int
  BY Constants DEF Span
<1> DEFINE q == (n - MinInt) \div Span
<1>2. /\ q \in Int /\ (n - MinInt) % Span \in Int
      /\ n - MinInt = Span * q + ((n - MinInt) % Span)
  BY <1>1, Division
<1>3. Span * (0 - q) = 0 - Span * q /\ Span * q \in Int
  <2>1. Span * (0 - q) = Span * 0 - Span * q /\ Span * q \in Int
    BY <1>1, <1>2, Distribute
  <2> QED BY <2>1, <1>1
<1>4. ToInt(n) = ((n - MinInt) % Span) + MinInt
  BY DEF ToInt, Span
<1> HIDE DEF q
<1>5. ToInt(n) = n + Span * (0 - q) /\ 0 - q \in Int
  BY <1>1, <1>2, <1>3, <1>4
<1> QED BY <1>5

LEMMA ToIntIgnoresSpan ==
  ASSUME NEW n \in Int, NEW k \in Int, n \in MinInt..MaxInt
  PROVE  ToInt(n + Span * k) = n
<1>1. Span \in Nat \ {0} /\ MinInt \in Int /\ MaxInt \in Int /\ Span = MaxInt - MinInt + 1
  BY Constants DEF Span
<1>2. Span * k \in Int
  BY <1>1, Distribute
<1>3. (n + Span * k) - MinInt = Span * k + (n - MinInt)
  BY <1>1, <1>2
<1>4. n - MinInt \in 0..(Span - 1)
  BY <1>1
<1>5. ((n + Span * k) - MinInt) % Span = n - MinInt
  <2>1. (Span * k + (n - MinInt)) % Span = n - MinInt
    BY <1>1, <1>4, DivisionUnique
  <2> QED BY <1>3, <2>1
<1>6. ToInt(n + Span * k) = (((n + Span * k) - MinInt) % Span) + MinInt
  BY DEF ToInt, Span
<1> QED BY <1>1, <1>5, <1>6

LEMMA ToIntOverflow ==
  ASSUME NEW n \in Int, NEW k \in Int, n > MaxInt, n <= 2 * MaxInt + 1
  PROVE  ToInt(n + Span * k) = n - Span /\ n - Span < 0
<1>1. Span \in Nat \ {0} /\ MinInt \in Int /\ MaxInt \in Int
      /\ Span = MaxInt - MinInt + 1 /\ Span = 2 * MaxInt + 2
  BY Constants DEF Span
<1>2. n - Span \in MinInt..MaxInt /\ n - Span < 0
  BY <1>1
<1>3. Span * (k + 1) = Span * k + Span /\ Span * k \in Int
  <2>1. Span * (k + 1) = Span * k + Span * 1 /\ Span * k \in Int
    BY <1>1, Distribute
  <2> QED BY <2>1, <1>1
<1>4. n + Span * k = (n - Span) + Span * (k + 1)
  BY <1>1, <1>3
<1>5. ToInt((n - Span) + Span * (k + 1)) = n - Span
  <2> DEFINE low == n - Span
             more == k + 1
  <2>1. low \in Int /\ more \in Int /\ low \in MinInt..MaxInt
    BY <1>1, <1>2
  <2> HIDE DEF low, more
  <2>2. ToInt(low + Span * more) = low
    BY <2>1, ToIntIgnoresSpan
  <2> QED BY <2>2 DEF low, more
<1> QED BY <1>2, <1>4, <1>5

-----------------------------------------------------------------------------
(* What Read has delivered lies before the position, and the unread bytes  *)
(* of the buffer behind it; a Read knows how many are still to come, and   *)
(* the position stays within what an offset can say, and one byte behind.  *)
OutputByte == [block : Int, byte : 0..(BlockLen - 1)]

ReaderType ==
  /\ counter \in Nat /\ buf \in Int /\ bufn \in 0..BlockLen
  /\ pc \in {"idle", "rest", "blocks"}
  /\ total \in Lengths \union {0} /\ want \in Nat
  /\ out \in Seq(OutputByte)

UnreadInv == bufn > 0 => counter > 0 /\ buf = counter - 1

CallInv ==
  /\ pc = "idle" => out = <<>>
  /\ pc = "rest" => out = <<>> /\ want = total /\ total \in Lengths
  /\ pc = "blocks" => want + Len(out) = total /\ total \in Lengths /\ (want > 0 => bufn = 0)

DeliveredInv ==
  \A i \in 1..Len(out) : out[i] = Stream!ByteAt(Position - Len(out) + i - 1)

PositionInv ==
  /\ Position <= MaxInt + 1
  /\ pc # "idle" => Position + want <= MaxInt + 1

Inv == ReaderType /\ UnreadInv /\ CallInv /\ DeliveredInv /\ PositionInv

(* The position is that of a byte. *)
LEMMA PositionType ==
  ASSUME ReaderType, UnreadInv
  PROVE  Position \in Nat /\ BlockLen * counter \in Nat
<1>1. BlockLen \in Nat \ {0} /\ counter \in Nat /\ bufn \in 0..BlockLen
  BY Constants DEF ReaderType
<1>2. BlockLen * counter \in Nat /\ (counter > 0 => BlockLen * counter >= BlockLen)
  BY <1>1, Multiple
<1> QED BY <1>1, <1>2 DEF Position, UnreadInv

(* Where the bytes of a block are in the stream. *)
LEMMA ByteOfBlock ==
  ASSUME NEW block \in Int, NEW byte \in 0..(BlockLen - 1)
  PROVE  Stream!ByteAt(BlockLen * block + byte) = [block |-> block, byte |-> byte]
<1>1. BlockLen \in Nat \ {0}
  BY Constants
<1>2. /\ (BlockLen * block + byte) \div BlockLen = block
      /\ (BlockLen * block + byte) % BlockLen = byte
  BY <1>1, DivisionUnique
<1> QED BY <1>2 DEF Stream!ByteAt

(* slowCopy takes the bytes from the position of the first unread one on,  *)
(* as many as are unread and wanted.                                       *)
LEMMA SlowCopyBytes ==
  ASSUME NEW block \in Int, NEW unread \in 1..BlockLen, want \in Nat
  PROVE  /\ SlowCopy(block, unread) \in Seq(OutputByte)
         /\ Len(SlowCopy(block, unread)) = LowerOf(want, unread)
         /\ \A i \in 1..LowerOf(want, unread) :
              SlowCopy(block, unread)[i]
                = Stream!ByteAt(BlockLen * block + (BlockLen - unread) + i - 1)
<1>1. BlockLen \in Nat \ {0} /\ BlockLen * block \in Int
  BY Constants, Distribute
<1>2. Offset(unread) = BlockLen - unread
  <2>1. BlockLen - unread \in 0..(BlockLen - 1)
    BY <1>1
  <2>2. (BlockLen * 0 + (BlockLen - unread)) % BlockLen = BlockLen - unread
    BY <1>1, <2>1, DivisionUnique
  <2> QED BY <1>1, <2>1, <2>2 DEF Offset
<1> DEFINE n == LowerOf(want, unread)
           copied == [i \in 1..n |-> [block |-> block, byte |-> (BlockLen - unread) + i - 1]]
<1>3. n \in Nat /\ n <= unread /\ SlowCopy(block, unread) = copied
  <2>1. BlockLen - (BlockLen - unread) = unread
    BY <1>1
  <2>2. n \in Nat /\ n <= unread
    BY <1>1 DEF LowerOf
  <2>3. LowerOf(want, BlockLen - Offset(unread)) = n
    BY <1>2, <2>1
  <2> QED BY <1>2, <2>2, <2>3 DEF SlowCopy
<1>4. \A i \in 1..n : (BlockLen - unread) + i - 1 \in 0..(BlockLen - 1)
  BY <1>1, <1>3
<1> HIDE DEF n
<1>5. copied \in Seq(OutputByte) /\ Len(copied) = n
  BY <1>3, <1>4 DEF OutputByte
<1>6. ASSUME NEW i \in 1..n
      PROVE  copied[i] = Stream!ByteAt(BlockLen * block + (BlockLen - unread) + i - 1)
  <2> DEFINE byte == (BlockLen - unread) + i - 1
  <2>1. byte \in 0..(BlockLen - 1)
    BY <1>4
  <2>2. BlockLen * block + (BlockLen - unread) + i - 1 = BlockLen * block + byte
    BY <1>1, <1>3
  <2>3. copied[i] = [block |-> block, byte |-> byte]
    OBVIOUS
  <2> HIDE DEF byte, copied
  <2> QED BY <2>1, <2>2, <2>3, ByteOfBlock
<1> QED BY <1>3, <1>5, <1>6 DEF n

(* Bytes from the position on extend what has been delivered before it.    *)
LEMMA DeliveredExtends ==
  ASSUME out \in Seq(OutputByte), DeliveredInv, Position \in Nat,
         NEW more \in Seq(OutputByte), out' = out \o more,
         Position' = Position + Len(more),
         \A i \in 1..Len(more) : more[i] = Stream!ByteAt(Position + i - 1)
  PROVE  /\ DeliveredInv' /\ out' \in Seq(OutputByte)
         /\ Len(out') = Len(out) + Len(more)
         /\ Position' - Len(out') = Position - Len(out)
<1>1. /\ Len(out) \in Nat /\ Len(more) \in Nat
      /\ out' \in Seq(OutputByte) /\ Len(out') = Len(out) + Len(more)
      /\ \A i \in 1..Len(out) + Len(more) :
           out'[i] = IF i <= Len(out) THEN out[i] ELSE more[i - Len(out)]
  BY ConcatProperties, LenProperties
<1>2. Position' - Len(out') = Position - Len(out)
  BY <1>1
<1>3. ASSUME NEW i \in 1..Len(out')
      PROVE  out'[i] = Stream!ByteAt(Position - Len(out) + i - 1)
  <2>1. CASE i <= Len(out)
    BY <1>1, <2>1 DEF DeliveredInv
  <2>2. CASE i > Len(out)
    <3>1. i - Len(out) \in 1..Len(more) /\ out'[i] = more[i - Len(out)]
      BY <1>1, <2>2
    <3>2. Position + (i - Len(out)) - 1 = Position - Len(out) + i - 1
      BY <1>1
    <3> QED BY <3>1, <3>2
  <2> QED BY <1>1, <2>1, <2>2
<1>4. \A i \in 1..Len(out') : out'[i] = Stream!ByteAt(Position' - Len(out') + i - 1)
  BY <1>2, <1>3
<1>5. DeliveredInv'
  BY <1>4 DEF DeliveredInv, Stream!ByteAt
<1> QED BY <1>1, <1>2, <1>5

(* A relative seek computes the position, or a negative number when no     *)
(* offset can say it, although the counter of bytes may have wrapped.      *)
LEMMA TargetOfCurrent ==
  ASSUME Inv, pc = "idle", NEW offset \in MinInt..MaxInt
  PROVE  /\ Position + offset <= MaxInt => Target(offset, "current") = Position + offset
         /\ Position + offset > MaxInt =>
              Target(offset, "current") \in Int /\ Target(offset, "current") < 0
<1>1. Position \in Nat /\ BlockLen * counter \in Nat /\ Position <= MaxInt + 1 /\ bufn \in Nat
  BY PositionType, Constants DEF Inv, PositionInv, ReaderType
<1> DEFINE sum == Position + offset
<1>2. sum \in Int /\ sum >= MinInt /\ sum <= 2 * MaxInt + 1 /\ MaxInt \in Int /\ MinInt \in Int
  BY <1>1, Constants
<1>3. PICK k \in Int : ToInt(BlockLen * counter) = BlockLen * counter + Span * k
  BY <1>1, ToIntShift
<1>4. Span * k \in Int /\ Span \in Int
  BY Constants, Distribute DEF Span
<1>5. offset + (ToInt(BlockLen * counter) - bufn) = sum + Span * k
  BY <1>1, <1>2, <1>3, <1>4 DEF Position
<1>6. Target(offset, "current") = ToInt(sum + Span * k)
  BY <1>5 DEF Target
<1> HIDE DEF sum
<1>7. sum <= MaxInt => ToInt(sum + Span * k) = sum
  <2> SUFFICES ASSUME sum <= MaxInt PROVE ToInt(sum + Span * k) = sum
    OBVIOUS
  <2>1. sum \in MinInt..MaxInt
    BY <1>2
  <2> QED BY <1>2, <2>1, ToIntIgnoresSpan
<1>8. sum > MaxInt => ToInt(sum + Span * k) \in Int /\ ToInt(sum + Span * k) < 0
  <2> SUFFICES ASSUME sum > MaxInt
               PROVE  ToInt(sum + Span * k) \in Int /\ ToInt(sum + Span * k) < 0
    OBVIOUS
  <2>1. ToInt(sum + Span * k) = sum - Span /\ sum - Span < 0
    BY <1>2, ToIntOverflow
  <2> QED BY <1>2, <1>4, <2>1
<1> QED BY <1>6, <1>7, <1>8 DEF sum

-----------------------------------------------------------------------------
LEMMA InitInv == Init => Inv
<1> SUFFICES ASSUME Init PROVE Inv
  OBVIOUS
<1>1. /\ counter = 0 /\ buf = -1 /\ bufn = 0 /\ pc = "idle" /\ total = 0 /\ want = 0
      /\ out = <<>>
  BY DEF Init, NoBlock
<1>2. ReaderType
  BY <1>1, Constants, EmptySeq DEF ReaderType
<1>3. UnreadInv /\ CallInv /\ DeliveredInv
  BY <1>1 DEF UnreadInv, CallInv, DeliveredInv
<1>4. Position = 0
  BY <1>1, Constants DEF Position
<1>5. PositionInv
  BY <1>1, <1>4, Constants DEF PositionInv
<1> QED BY <1>2, <1>3, <1>5 DEF Inv

(* A call of Read changes nothing that a caller sees. *)
LEMMA CallReadStep ==
  ASSUME Inv, NEW n \in Lengths, CallRead(n)
  PROVE  Inv' /\ UNCHANGED <<Position, out, answer>>
<1>1. /\ pc = "idle" /\ pc' = "rest" /\ total' = n /\ want' = n /\ n \in Nat
      /\ UNCHANGED <<counter, buf, bufn, out, answer>> /\ out = <<>>
      /\ Position + n <= MaxPosition
  BY Constants DEF CallRead, blockVars, Inv, CallInv
<1>2. Position' = Position
  BY <1>1 DEF Position
<1>3. ReaderType'
  BY <1>1 DEF Inv, ReaderType, OutputByte
<1>4. UnreadInv' /\ CallInv'
  BY <1>1 DEF Inv, UnreadInv, CallInv
<1>5. DeliveredInv'
  BY <1>1 DEF DeliveredInv
<1>6. Position \in Nat
  BY PositionType DEF Inv
<1>7. PositionInv'
  BY <1>1, <1>2, <1>6, Constants DEF Inv, PositionInv
<1> QED BY <1>1, <1>2, <1>3, <1>4, <1>5, <1>7 DEF Inv

(* What the stages of Read that deliver bytes have in common: the bytes    *)
(* come from the position on, and so do the unread ones afterwards.        *)
LEMMA DeliveryStep ==
  ASSUME Inv, pc \in {"rest", "blocks"}, NEW more \in Seq(OutputByte),
         out' = out \o more, Position' = Position + Len(more),
         \A i \in 1..Len(more) : more[i] = Stream!ByteAt(Position + i - 1),
         want' \in Nat, want' = want - Len(more), total' = total, answer' = answer,
         pc' = "blocks",
         counter' \in Nat, buf' \in Int, bufn' \in 0..BlockLen,
         bufn' > 0 => counter' > 0 /\ buf' = counter' - 1,
         want' > 0 => bufn' = 0
  PROVE  Inv' /\ UNCHANGED <<Position - Len(out), answer>>
<1>1. Position \in Nat /\ out \in Seq(OutputByte) /\ DeliveredInv /\ want \in Nat
  BY PositionType DEF Inv, ReaderType
<1>2. /\ DeliveredInv' /\ out' \in Seq(OutputByte)
      /\ Len(out') = Len(out) + Len(more)
      /\ Position' - Len(out') = Position - Len(out)
  BY <1>1, DeliveredExtends
<1>3. Len(more) \in Nat /\ Len(out) \in Nat
  BY <1>1, LenProperties
<1>4. ReaderType'
  BY <1>2 DEF Inv, ReaderType, OutputByte
<1>5. UnreadInv'
  BY DEF UnreadInv
<1>6. want + Len(out) = total /\ total \in Lengths
  <2>1. CASE pc = "rest"
    BY <1>1, <2>1, EmptySeq DEF Inv, CallInv
  <2>2. CASE pc = "blocks"
    BY <2>2 DEF Inv, CallInv
  <2> QED BY <2>1, <2>2
<1>7. CallInv'
  <2>1. want' + Len(out') = total'
    BY <1>1, <1>2, <1>3, <1>6
  <2> QED BY <1>6, <2>1 DEF CallInv
<1>8. PositionInv'
  <2>1. Position + want <= MaxInt + 1
    BY DEF Inv, PositionInv
  <2>2. Position' + want' = Position + want /\ Position' <= Position' + want'
    BY <1>1, <1>3
  <2>3. Position' + want' <= MaxInt + 1 /\ Position' <= MaxInt + 1
    BY <1>1, <1>3, <2>1, <2>2, Constants
  <2> QED BY <2>3 DEF PositionInv
<1> QED BY <1>2, <1>4, <1>5, <1>7, <1>8 DEF Inv

LEMMA ReadRestStep ==
  ASSUME Inv, ReadRest
  PROVE  Inv' /\ UNCHANGED <<Position - Len(out), answer>>
<1>1. /\ pc = "rest" /\ pc' = "blocks" /\ UNCHANGED <<counter, buf, total, answer>>
      /\ out = <<>> /\ want \in Nat /\ bufn \in 0..BlockLen /\ counter \in Nat /\ buf \in Int
  BY DEF ReadRest, Inv, CallInv, ReaderType
<1>2. Position \in Nat /\ BlockLen * counter \in Nat /\ BlockLen \in Nat /\ BlockLen > 0
  BY PositionType, Constants DEF Inv
<1>3. CASE bufn = 0
  <2>1. out' = <<>> /\ want' = want - Len(<<>>) /\ bufn' = bufn - Len(<<>>)
    BY <1>1, <1>3 DEF ReadRest
  <2>2. <<>> \in Seq(OutputByte) /\ Len(<<>>) = 0
    BY EmptySeq
  <2>3. want' = want /\ bufn' = 0
    <3>1. want' = want - 0 /\ bufn' = bufn - 0
      BY <2>1, <2>2, Zenon
    <3> QED BY <1>1, <1>3, <3>1
  <2>4. out' = out \o <<>>
    BY <1>1, <2>1, <2>2, ConcatEmptySeq
  <2>5. Position' = Position + Len(<<>>)
    BY <1>1, <1>2, <1>3, <2>2, <2>3 DEF Position
  <2> DEFINE none == <<>>
  <2>6. /\ none \in Seq(OutputByte) /\ Len(none) = 0 /\ out' = out \o none
        /\ Position' = Position + Len(none)
    BY <2>2, <2>4, <2>5
  <2> HIDE DEF none
  <2>7. /\ \A i \in 1..Len(none) : none[i] = Stream!ByteAt(Position + i - 1)
        /\ want' = want - Len(none) /\ want' \in Nat
        /\ bufn' \in 0..BlockLen /\ ~(bufn' > 0) /\ (want' > 0 => bufn' = 0)
        /\ counter' \in Nat /\ buf' \in Int
    BY <1>1, <1>2, <2>3, <2>6
  <2> QED BY <1>1, <2>6, <2>7, DeliveryStep
<1>4. CASE bufn > 0
  <2> DEFINE more == SlowCopy(buf, bufn)
             n == LowerOf(want, bufn)
  <2>1. out' = more /\ want' = want - Len(more) /\ bufn' = bufn - Len(more)
    BY <1>4 DEF ReadRest
  <2>2. bufn \in 1..BlockLen /\ counter > 0 /\ buf = counter - 1
    BY <1>1, <1>4 DEF Inv, UnreadInv
  <2>3. /\ more \in Seq(OutputByte) /\ Len(more) = n
        /\ \A i \in 1..n : more[i] = Stream!ByteAt(BlockLen * buf + (BlockLen - bufn) + i - 1)
    BY <1>1, <2>2, SlowCopyBytes
  <2>4. n \in Nat /\ n <= want /\ n <= bufn /\ (n = want \/ n = bufn)
    BY <1>1 DEF LowerOf
  <2> HIDE DEF more, n
  <2>5. out' = out \o more
    BY <1>1, <2>1, <2>3, ConcatEmptySeq
  <2>6. BlockLen * buf + (BlockLen - bufn) = Position
    <3>1. BlockLen * buf = BlockLen * counter - BlockLen * 1 /\ BlockLen * buf \in Int
      BY <1>1, <1>2, <2>2, Distribute
    <3> QED BY <1>1, <1>2, <3>1 DEF Position
  <2>7. \A i \in 1..Len(more) : more[i] = Stream!ByteAt(Position + i - 1)
    BY <2>3, <2>6
  <2>8. Position' = Position + Len(more)
    BY <1>1, <1>2, <2>1, <2>3, <2>4 DEF Position
  <2>9. want' \in Nat /\ bufn' \in 0..BlockLen /\ (want' > 0 => bufn' = 0)
    BY <1>1, <1>2, <2>1, <2>3, <2>4
  <2> QED BY <1>1, <2>1, <2>2, <2>3, <2>5, <2>7, <2>8, <2>9, DeliveryStep
<1> QED BY <1>1, <1>3, <1>4

(* A block is compressed while nothing is unread, and as much of it is     *)
(* copied as is wanted.                                                    *)
LEMMA ReadBlocksStep ==
  ASSUME Inv, ReadBlock \/ ReadTail
  PROVE  Inv' /\ UNCHANGED <<Position - Len(out), answer>>
<1> DEFINE more == SlowCopy(counter, BlockLen)
           n == LowerOf(want, BlockLen)
<1>1. /\ pc = "blocks" /\ UNCHANGED <<pc, total, answer>> /\ out' = out \o more
      /\ want > 0 /\ want \in Nat /\ counter \in Nat
      /\ BlockLen \in Nat /\ BlockLen > 0
  BY Constants DEF ReadBlock, ReadTail, Inv, ReaderType
<1>2. n \in 1..BlockLen /\ n <= want
  BY <1>1 DEF LowerOf
<1>3. /\ want' = want - n /\ bufn' = BlockLen - n
      /\ buf' = counter /\ counter' = counter + 1
      /\ want' > 0 => n = BlockLen
  BY <1>1 DEF ReadBlock, ReadTail, FillBuf, LowerOf
<1>4. /\ more \in Seq(OutputByte) /\ Len(more) = n
      /\ \A i \in 1..n : more[i] = Stream!ByteAt(BlockLen * counter + (BlockLen - BlockLen) + i - 1)
  BY <1>1, SlowCopyBytes
<1>5. bufn = 0
  BY <1>1 DEF Inv, CallInv
<1>6. BlockLen * counter \in Nat /\ Position = BlockLen * counter
  BY <1>1, <1>5, PositionType DEF Inv, Position
<1> HIDE DEF more, n
<1>7. \A i \in 1..Len(more) : more[i] = Stream!ByteAt(Position + i - 1)
  <2> SUFFICES ASSUME NEW i \in 1..n PROVE more[i] = Stream!ByteAt(Position + i - 1)
    BY <1>4
  <2>1. BlockLen * counter + (BlockLen - BlockLen) + i - 1 = Position + i - 1
    BY <1>1, <1>2, <1>6
  <2> QED BY <1>4, <2>1
<1>8. Position' = Position + Len(more)
  <2>1. BlockLen * (counter + 1) = BlockLen * counter + BlockLen * 1
    BY <1>1, Distribute
  <2> QED BY <1>1, <1>2, <1>3, <1>4, <1>6, <2>1 DEF Position
<1>9. /\ want' \in Nat /\ counter' \in Nat /\ buf' \in Int /\ bufn' \in 0..BlockLen
      /\ want' > 0 => bufn' = 0
      /\ bufn' > 0 => counter' > 0 /\ buf' = counter' - 1
  BY <1>1, <1>2, <1>3
<1> QED BY <1>1, <1>3, <1>4, <1>7, <1>8, <1>9, DeliveryStep

(* A Read that has filled its slice is a Read of the stream. *)
LEMMA ReadReturnsStep ==
  ASSUME Inv, ReadReturns
  PROVE  Inv' /\ \E n \in Lengths : Stream!Read(n)
<1>1. /\ pc = "blocks" /\ pc' = "idle" /\ want = 0 /\ out' = <<>>
      /\ UNCHANGED <<counter, buf, bufn, total, want>>
      /\ answer' = Stream!Delivered(total, out)
  BY DEF ReadReturns, blockVars
<1>2. /\ out \in Seq(OutputByte) /\ Len(out) = total /\ total \in Lengths /\ total \in Nat
      /\ Position \in Nat
  BY <1>1, LenProperties, Constants, PositionType DEF Inv, ReaderType, CallInv
<1>3. Len(out') = 0 /\ out' \in Seq(OutputByte)
  BY <1>1, EmptySeq
<1>4. Position' = Position
  BY <1>1 DEF Position
<1>5. Inv'
  <2>1. ReaderType'
    BY <1>1, <1>3 DEF Inv, ReaderType, OutputByte
  <2>2. UnreadInv' /\ CallInv'
    BY <1>1 DEF Inv, UnreadInv, CallInv
  <2>3. DeliveredInv'
    BY <1>3 DEF DeliveredInv
  <2>4. PositionInv'
    BY <1>1, <1>4 DEF Inv, PositionInv
  <2> QED BY <2>1, <2>2, <2>3, <2>4 DEF Inv
<1>6. out = [i \in 1..total |-> Stream!ByteAt(Position - Len(out) + i - 1)]
  <2> DEFINE bytes == [i \in 1..total |-> Stream!ByteAt(Position - Len(out) + i - 1)]
  <2>1. out \in [1..total -> OutputByte]
    BY <1>2, LenProperties
  <2>2. \A i \in 1..total : out[i] = bytes[i]
    BY <1>2 DEF Inv, DeliveredInv
  <2>3. DOMAIN bytes = 1..total /\ bytes = [i \in 1..total |-> bytes[i]]
    OBVIOUS
  <2> HIDE DEF bytes
  <2>4. out = bytes
    BY <2>1, <2>2, <2>3
  <2> QED BY <2>4 DEF bytes
<1>7. Position' - Len(out') = Position - Len(out) + total
  BY <1>2, <1>3, <1>4
<1>8. Stream!Read(total)
  BY <1>1, <1>6, <1>7 DEF Stream!Read
<1> QED BY <1>2, <1>5, <1>8

(* Seek goes where the stream goes, and the block there is compressed. *)
LEMMA SeekStep ==
  ASSUME Inv, NEW offset \in MinInt..MaxInt, NEW whence \in {"start", "current"},
         Seek(offset, whence)
  PROVE  Inv' /\ Stream!Seek(offset, whence)
<1> DEFINE target == Target(offset, whence)
           q == target \div BlockLen
           r == target % BlockLen
<1>1. /\ pc = "idle" /\ target >= 0 /\ counter' = q + 1 /\ buf' = q /\ bufn' = BlockLen - r
      /\ answer' = Stream!MovedTo(offset, whence, target)
      /\ UNCHANGED <<pc, total, want, out>>
  BY DEF Seek, FillBuf
<1>2. out = <<>> /\ Len(out) = 0 /\ Position \in Nat /\ offset \in Int
  BY <1>1, EmptySeq, PositionType, Constants DEF Inv, CallInv
<1>3. target \in Int /\ target <= MaxInt /\ target = Stream!Target(offset, whence)
  <2>1. CASE whence = "start"
    <3>1. target = offset
      BY <2>1 DEF Target
    <3> QED BY <2>1, <3>1, Constants DEF Stream!Target
  <2>2. CASE whence = "current"
    <3>1. Position + offset <= MaxInt
      BY <1>1, <1>2, <2>2, TargetOfCurrent, Constants
    <3>2. target = Position + offset
      BY <1>1, <2>2, <3>1, TargetOfCurrent
    <3>3. Stream!Target(offset, whence) = Position - Len(out) + offset
      BY <2>2 DEF Stream!Target
    <3> QED BY <1>2, <3>1, <3>2, <3>3, Constants
  <2> QED BY <2>1, <2>2
<1> HIDE DEF target
<1>4. BlockLen \in Nat \ {0} /\ MaxInt \in Nat
  BY Constants
<1>5. q \in Int /\ r \in 0..(BlockLen - 1) /\ target = BlockLen * q + r
  BY <1>3, <1>4, Division
<1>6. BlockLen * (q + 1) = BlockLen * q + BlockLen * 1 /\ BlockLen * q \in Int
  BY <1>4, <1>5, Distribute
<1> HIDE DEF q, r
<1>7. q \in Nat
  <2>1. q <= -1 => BlockLen * q <= -BlockLen
    BY <1>4, <1>5, Multiple
  <2> QED BY <1>1, <1>3, <1>4, <1>5, <1>6, <2>1
<1>8. Position' = target
  BY <1>1, <1>4, <1>5, <1>6 DEF Position
<1>9. Inv'
  <2>1. ReaderType'
    BY <1>1, <1>2, <1>4, <1>5, <1>7 DEF Inv, ReaderType, OutputByte
  <2>2. UnreadInv' /\ CallInv'
    BY <1>1, <1>2, <1>7 DEF UnreadInv, CallInv
  <2>3. DeliveredInv'
    BY <1>1, <1>2 DEF DeliveredInv
  <2>4. PositionInv'
    BY <1>1, <1>3, <1>4, <1>8 DEF PositionInv
  <2> QED BY <2>1, <2>2, <2>3, <2>4 DEF Inv
<1>10. Position' - Len(out') = target
  BY <1>1, <1>2, <1>3, <1>8
<1>11. target \in 0..MaxInt
  BY <1>1, <1>3, <1>4
<1> QED BY <1>1, <1>3, <1>9, <1>10, <1>11 DEF Stream!Seek

LEMMA SeekRefusedStep ==
  ASSUME Inv, NEW offset \in MinInt..MaxInt, NEW whence \in {"start", "current", "end"},
         SeekRefused(offset, whence)
  PROVE  Inv' /\ Stream!SeekRefused(offset, whence)
<1>1. /\ pc = "idle" /\ UNCHANGED <<counter, buf, bufn, pc, total, want, out>>
      /\ answer' = Stream!Refused(offset, whence)
      /\ whence \in {"start", "current"} => Target(offset, whence) < 0
  BY DEF SeekRefused, blockVars
<1>2. out = <<>> /\ Len(out) = 0 /\ Position \in Nat /\ offset \in Int /\ MaxInt \in Nat
  BY <1>1, EmptySeq, PositionType, Constants DEF Inv, CallInv
<1>3. Inv' /\ Position' - Len(out') = Position - Len(out)
  BY <1>1 DEF Inv, ReaderType, UnreadInv, CallInv, DeliveredInv, PositionInv, Position,
              OutputByte, Stream!ByteAt
<1>4. ASSUME whence \in {"start", "current"}
      PROVE  Stream!Target(offset, whence) \notin 0..MaxInt
  <2>1. CASE whence = "start"
    <3>1. offset < 0
      BY <1>1, <2>1 DEF Target
    <3> QED BY <1>2, <2>1, <3>1 DEF Stream!Target
  <2>2. CASE whence = "current"
    <3>1. Stream!Target(offset, whence) = Position + offset
      BY <1>2, <2>2 DEF Stream!Target
    <3>2. Position + offset <= MaxInt => Position + offset < 0
      BY <1>1, <2>2, TargetOfCurrent
    <3> QED BY <1>2, <3>1, <3>2
  <2> QED BY <1>4, <2>1, <2>2
<1> QED BY <1>1, <1>3, <1>4 DEF Stream!SeekRefused

-----------------------------------------------------------------------------
(* Every step keeps the invariant, and is one of the stream or a stutter. *)
LEMMA NextStep == Inv /\ [Next]_vars => Inv' /\ [Stream!Next]_(Stream!vars)
<1> SUFFICES ASSUME Inv, [Next]_vars PROVE Inv' /\ [Stream!Next]_(Stream!vars)
  OBVIOUS
<1>1. ASSUME NEW n \in Lengths, CallRead(n) PROVE Inv' /\ [Stream!Next]_(Stream!vars)
  BY <1>1, CallReadStep DEF Stream!vars
<1>2. CASE ReadRest
  BY <1>2, ReadRestStep DEF Stream!vars
<1>3. CASE ReadBlock \/ ReadTail
  BY <1>3, ReadBlocksStep DEF Stream!vars
<1>4. CASE ReadReturns
  BY <1>4, ReadReturnsStep DEF Stream!Next
<1>5. ASSUME NEW offset \in MinInt..MaxInt, NEW whence \in {"start", "current", "end"},
             Seek(offset, whence)
      PROVE  Inv' /\ [Stream!Next]_(Stream!vars)
  <2>1. whence \in {"start", "current"}
    BY <1>5 DEF Seek
  <2>2. Inv' /\ Stream!Seek(offset, whence)
    BY <1>5, <2>1, SeekStep
  <2> QED BY <2>2 DEF Stream!Next
<1>6. ASSUME NEW offset \in MinInt..MaxInt, NEW whence \in {"start", "current", "end"},
             SeekRefused(offset, whence)
      PROVE  Inv' /\ [Stream!Next]_(Stream!vars)
  BY <1>6, SeekRefusedStep DEF Stream!Next
<1>7. CASE UNCHANGED vars
  BY <1>7 DEF vars, Inv, ReaderType, UnreadInv, CallInv, DeliveredInv, PositionInv, Position,
              OutputByte, Stream!ByteAt, Stream!vars
<1> QED
  BY <1>1, <1>2, <1>3, <1>4, <1>5, <1>6, <1>7 DEF Next, ReadStep

(* Whenever bytes are unread they are those of the block before the next   *)
(* one, and no block is asked for while some are (methods_digest.go:15).   *)
THEOREM UnreadFirst == Spec => []UnreadComesNext
<1>1. Inv => UnreadComesNext
  <2> SUFFICES ASSUME Inv PROVE UnreadComesNext
    OBVIOUS
  <2>1. pc \in {"idle", "rest", "blocks"}
    BY DEF Inv, ReaderType
  <2> QED BY <2>1 DEF Inv, UnreadInv, CallInv, UnreadComesNext
<1>2. Inv /\ [Next]_vars => Inv'
  BY NextStep
<1> QED BY InitInv, <1>1, <1>2, PTL DEF Spec

(* Read and Seek implement the endless stream: every Read fills its slice  *)
(* with the bytes from the position on, a relative Seek whose target       *)
(* overflows is refused (methods_digest.go:48-64).                         *)
THEOREM ReadsRight == Spec => ReadsTheStream
<1>1. Init => Stream!Init
  <2> SUFFICES ASSUME Init PROVE Stream!Init
    OBVIOUS
  <2>1. counter = 0 /\ bufn = 0 /\ Len(out) = 0 /\ answer = Stream!NoAnswer
    BY EmptySeq DEF Init
  <2>2. Position - Len(out) = 0
    BY <2>1, Constants DEF Position
  <2> QED BY <2>1, <2>2 DEF Stream!Init
<1>2. Inv /\ [Next]_vars => Inv'
  BY NextStep
<1>3. Inv /\ [Next]_vars => [Stream!Next]_(Stream!vars)
  BY NextStep
<1> QED BY InitInv, <1>1, <1>2, <1>3, PTL DEF Spec, ReadsTheStream, Stream!Spec
=============================================================================
