---------------------------- MODULE OutputReader ----------------------------
(***************************************************************************)
(* Read and Seek of the Digest of src/core/utils/blake3: a block counter,  *)
(* the last compressed block, and how much of it is unread.  One action    *)
(* per stage and iteration of Read.                                        *)
(***************************************************************************)
EXTENDS Integers, Sequences

CONSTANTS
  BlockLen,    \* bytes of a block (64 in the code)
  MaxInt,      \* the largest integer (2^63 - 1 in the code)
  Lengths,     \* the lengths of the slices that Read fills
  MaxPosition  \* bound: reading stops there

ASSUME ReaderAssumption ==
  /\ BlockLen \in Nat \ {0} /\ MaxInt \in Nat /\ Lengths \subseteq Nat
  /\ MaxPosition \in 0..(MaxInt + 1)

VARIABLES
  counter,  \* the number of the next block
  buf,      \* the number of the block in the buffer
  bufn,     \* how many of its bytes are unread
  pc,       \* where a Read is
  total,    \* Read: the length of the slice
  want,     \* Read: bytes still to deliver
  out,      \* Read: bytes delivered so far
  answer    \* history: the last call and what it returned

blockVars == <<counter, buf, bufn>>
vars == <<counter, buf, bufn, pc, total, want, out, answer>>

MinInt == -MaxInt - 1
NoBlock == -1

(* The position of the next byte that is not delivered. *)
Position == BlockLen * counter - bufn

Stream == INSTANCE OutputStream
            WITH MaxOffset <- MaxInt, Offsets <- MinInt..MaxInt,
                 position <- Position - Len(out)

Init ==
  /\ counter = 0 /\ buf = NoBlock /\ bufn = 0
  /\ pc = "idle" /\ total = 0 /\ want = 0 /\ out = <<>>
  /\ answer = Stream!NoAnswer

-----------------------------------------------------------------------------
LowerOf(a, b) == IF a < b THEN a ELSE b

Offset(unread) == (BlockLen - unread) % BlockLen

(* slowCopy: the bytes of a block behind those already read, as many as    *)
(* there is room for.                                                      *)
SlowCopy(block, unread) ==
  [i \in 1..LowerOf(want, BlockLen - Offset(unread)) |->
     [block |-> block, byte |-> Offset(unread) + i - 1]]

CallRead(n) ==
  /\ pc = "idle"
  /\ Position + n <= MaxPosition
  /\ total' = n /\ want' = n
  /\ pc' = "rest"
  /\ UNCHANGED <<blockVars, out, answer>>

(* What is left of the buffer comes first. *)
ReadRest ==
  /\ pc = "rest"
  /\ LET copied == IF bufn > 0 THEN SlowCopy(buf, bufn) ELSE <<>>
     IN  /\ out' = copied
         /\ want' = want - Len(copied)
         /\ bufn' = bufn - Len(copied)
  /\ pc' = "blocks"
  /\ UNCHANGED <<counter, buf, total, answer>>

(* Mutation of FillBuf: the block is compressed with the next counter. *)
FillBufLate(block, unread) ==
  /\ buf' = block + 1
  /\ counter' = block + 1
  /\ bufn' = unread

(* fillBuf, with the bytes that are unread when the caller is done. *)
FillBuf(block, unread) ==
  /\ buf' = block
  /\ counter' = block + 1
  /\ bufn' = unread

ReadBlock ==
  /\ pc = "blocks" /\ want >= BlockLen
  /\ FillBuf(counter, 0)
  /\ out' = out \o SlowCopy(counter, BlockLen)
  /\ want' = want - BlockLen
  /\ UNCHANGED <<pc, total, answer>>

ReadTail ==
  /\ pc = "blocks" /\ want \in 1..(BlockLen - 1)
  /\ FillBuf(counter, BlockLen - want)
  /\ out' = out \o SlowCopy(counter, BlockLen)
  /\ want' = 0
  /\ UNCHANGED <<pc, total, answer>>

ReadReturns ==
  /\ pc = "blocks" /\ want = 0
  /\ answer' = Stream!Delivered(total, out)
  /\ out' = <<>>
  /\ pc' = "idle"
  /\ UNCHANGED <<blockVars, total, want>>

-----------------------------------------------------------------------------
(* Conversion of an integer to int64: two's complement. *)
ToInt(n) == ((n - MinInt) % (2 * (MaxInt + 1))) + MinInt

(* Mutation of Target: the unread bytes are taken for read. *)
TargetOfBlock(offset, whence) ==
  IF whence = "current"
  THEN ToInt(offset + ToInt(BlockLen * counter))
  ELSE offset

Target(offset, whence) ==
  IF whence = "current"
  THEN ToInt(offset + (ToInt(BlockLen * counter) - bufn))
  ELSE offset

(* setPosition: the block at the position is compressed at once. *)
Seek(offset, whence) ==
  /\ pc = "idle"
  /\ whence \in {"start", "current"}
  /\ Target(offset, whence) >= 0
  /\ LET target == Target(offset, whence)
     IN  /\ FillBuf(target \div BlockLen, BlockLen - (target % BlockLen))
         /\ answer' = Stream!MovedTo(offset, whence, target)
  /\ UNCHANGED <<pc, total, want, out>>

(* The errors leave the reader as it is. *)
SeekRefused(offset, whence) ==
  /\ pc = "idle"
  /\ whence \in {"start", "current"} => Target(offset, whence) < 0
  /\ answer' = Stream!Refused(offset, whence)
  /\ UNCHANGED <<blockVars, pc, total, want, out>>

ReadStep == ReadRest \/ ReadBlock \/ ReadTail \/ ReadReturns

Next == \/ \E n \in Lengths : CallRead(n)
        \/ ReadStep
        \/ \E offset \in MinInt..MaxInt, whence \in {"start", "current", "end"} :
             Seek(offset, whence) \/ SeekRefused(offset, whence)

Spec == Init /\ [][Next]_vars

-----------------------------------------------------------------------------
(* Unread bytes are those of the block before the next one, so that a Read *)
(* goes on without a gap or a repetition; no full block is asked for while *)
(* some are unread, and no call leaves half of its output behind.          *)
UnreadComesNext ==
  /\ bufn > 0 => buf = counter - 1
  /\ pc = "blocks" /\ want > 0 => bufn = 0
  /\ pc # "blocks" => out = <<>>

(* Whatever lengths Read is called with and however Seek moves, every Read *)
(* fills its slice with the bytes from the position on, and every Seek     *)
(* gets to the position that was asked for, or refuses and stays.          *)
ReadsTheStream == Stream!Spec

=============================================================================
