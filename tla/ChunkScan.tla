----------------------------- MODULE ChunkScan -----------------------------
(***************************************************************************)
(* The loops of findChunkLength (src/core/utils/fastCdc) against the rule  *)
(* of FastCdc by which Chunker cuts, for every window that Chunker cuts.   *)
(***************************************************************************)
EXTENDS Chunker

NormalSize(data) == IF AverageSize < Limit(data) THEN AverageSize ELSE Limit(data)

(* Mutation of Roll: the bit that leaves above comes back below. *)
RollRotated(hash, byte) ==
  (2 * hash + (hash \div Pow2[WordBits - 1]) + Gear[byte]) % WordSize

Roll(hash, byte) == (2 * hash + Gear[byte]) % WordSize

(* rollingHash when a loop has passed that many bytes of the window. *)
HashAfter(data, count) ==
  LET hash[index \in MinimumSize..Limit(data)] ==
        IF index = MinimumSize THEN 0 ELSE Roll(hash[index - 1], data[index])
  IN  hash[count]

(* Mutation of MaskAt: the strict mask stays in force in the second loop. *)
MaskAtStrict(data, index) == MaskSmall

(* The first loop ends at NormalSize, the second goes on from there. *)
MaskAt(data, index) == IF index < NormalSize(data) THEN MaskSmall ELSE MaskLarge

(* What the two loops return. *)
ScanLength(data) ==
  LET scan[index \in MinimumSize..Limit(data)] ==
        IF index = Limit(data) THEN Limit(data)
        ELSE IF HashAfter(data, index + 1) % MaskAt(data, index) = 0 THEN index + 1
        ELSE scan[index + 1]
  IN  IF Limit(data) <= MinimumSize THEN Limit(data) ELSE scan[MinimumSize]

-----------------------------------------------------------------------------
(* The two loops of findChunkLength, which share an index and a hash and   *)
(* differ in the mask, return the first boundary of the window behind its  *)
(* minimum, or else its limit, for windows that end before, at and after   *)
(* each of the sizes.                                                      *)
FindsTheCut == pc = "cutting" => ScanLength(Window) = FindChunkLength(Window)

(* Whether a chunk may end after a byte is decided by the last few bytes,  *)
(* as many as the mask in force has bits, and not by where the scan began. *)
(* So chunks fall back into step behind an insertion, a deletion or a      *)
(* replacement, as TestFastCdcResynchronizesAfterLocalChanges expects.     *)
BoundaryIsLocal ==
  \A bits \in {AverageBits + NormalizationLevel, AverageBits - NormalizationLevel} :
    pc = "cutting" =>
      \A count \in (MinimumSize + bits)..Limit(Window) :
        LET last == SubSeq(Window, count - bits + 1, count)
        IN  HashAfter(Window, count) % MaskForBits(bits)
              = RollingHash(last) % MaskForBits(bits)

=============================================================================
