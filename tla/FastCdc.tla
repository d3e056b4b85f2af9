------------------------------ MODULE FastCdc ------------------------------
(***************************************************************************)
(* The fastcdc-v1 boundary rule of src/core/utils/fastCdc: which prefix of *)
(* a window of bytes is the next chunk.  A window is a sequence of bytes.  *)
(* The Gear table and the width of the rolling hash are parameters, so the *)
(* rule can be evaluated over a small alphabet; the code's values are a    *)
(* SplitMix64 table of 256 words and 64 bits.                              *)
(***************************************************************************)
EXTENDS Integers, Sequences

CONSTANTS
  Byte,          \* the alphabet of the stream (256 values in the code)
  Gear,          \* gearTable: a word for every byte
  WordBits,      \* width of the rolling hash (64 in the code)
  MinimumSize,   \* ChunkerConfig.MinimumSize
  AverageSize,   \* ChunkerConfig.AverageSize
  MaximumSize,   \* ChunkerConfig.MaximumSize
  MaxInt         \* the largest int of the platform

(* validateChunkerConfig: the conditions under which NewChunker succeeds. *)
ValidChunkerConfig ==
  /\ MinimumSize > 0
  /\ AverageSize >= 8
  /\ MinimumSize <= AverageSize
  /\ AverageSize <= MaximumSize
  /\ MaximumSize <= MaxInt \div 2

ASSUME ConfigAssumption ==
  /\ {MinimumSize, AverageSize, MaximumSize, MaxInt} \subseteq Int
  /\ ValidChunkerConfig

(* 2^n, by recursion; the rolling hash has so many values. *)
Pow2[n \in Nat] == IF n = 0 THEN 1 ELSE 2 * Pow2[n - 1]
WordSize == Pow2[WordBits]

ASSUME WordAssumption ==
  /\ WordBits \in Nat \ {0}
  /\ 0 \in Byte                  \* a fresh buffer is filled with zero bytes
  /\ Gear \in [Byte -> 0..(WordSize - 1)]

-----------------------------------------------------------------------------
NormalizationLevel == 2

(* bits.Len(uint(AverageSize)) - 1 *)
AverageBits ==
  CHOOSE b \in 0..AverageSize : Pow2[b] <= AverageSize /\ AverageSize < Pow2[b + 1]

(* maskForBits returns the mask of the low bitCount bits, clamped to 1..64; *)
(* "hash & mask == 0" says that hash is a multiple of 2^bitCount.           *)
MaskForBits(bitCount) ==
  Pow2[IF bitCount < 1 THEN 1 ELSE IF bitCount >= WordBits THEN WordBits ELSE bitCount]

MaskSmall == MaskForBits(AverageBits + NormalizationLevel)
MaskLarge == MaskForBits(AverageBits - NormalizationLevel)

(* rollingHash after the bytes of a window: rollingHash<<1 + gearTable[b], *)
(* in WordBits-bit arithmetic.                                             *)
RollingHash(window) ==
  LET hash[i \in 0..Len(window)] ==
        IF i = 0 THEN 0 ELSE (2 * hash[i - 1] + Gear[window[i]]) % WordSize
  IN  hash[Len(window)]

(* The test made after n bytes: the hash skips the first MinimumSize bytes *)
(* and the mask switches at AverageSize.                                   *)
IsBoundary(data, n) ==
  LET mask == IF n <= AverageSize THEN MaskSmall ELSE MaskLarge
  IN  RollingHash(SubSeq(data, MinimumSize + 1, n)) % mask = 0

Limit(data) == IF Len(data) < MaximumSize THEN Len(data) ELSE MaximumSize

(* findChunkLength: the first boundary of the window, or else its limit. *)
FindChunkLength(data) ==
  LET cuts == {n \in (MinimumSize + 1)..Limit(data) : IsBoundary(data, n)}
  IN  IF cuts = {} THEN Limit(data)
      ELSE CHOOSE n \in cuts : \A m \in cuts : n <= m

=============================================================================
