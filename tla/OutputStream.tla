---------------------------- MODULE OutputStream ----------------------------
(***************************************************************************)
(* What a Digest of src/core/utils/blake3 promises: an endless sequence of *)
(* bytes with a position, from which Read goes on and which Seek moves.    *)
(***************************************************************************)
EXTENDS Integers, Sequences

CONSTANTS
  BlockLen,   \* bytes of a block (64 in the code)
  Lengths,    \* of the slices that Read fills
  Offsets,    \* that Seek is called with
  MaxOffset   \* the largest offset that Seek can return (2^63 - 1)

VARIABLES
  position,   \* of the next byte
  answer      \* the last call and what it gave: bytes, an offset, or an error

vars == <<position, answer>>

(* The byte at a position: a byte of the block that is compressed with its *)
(* number as the counter.                                                  *)
ByteAt(p) == [block |-> p \div BlockLen, byte |-> p % BlockLen]

NoAnswer == [kind |-> "none"]
Delivered(n, bytes) == [kind |-> "bytes", call |-> n, bytes |-> bytes]
MovedTo(offset, whence, p) == [kind |-> "offset", call |-> <<offset, whence>>, offset |-> p]
Refused(offset, whence) == [kind |-> "error", call |-> <<offset, whence>>]

Init == position = 0 /\ answer = NoAnswer

Read(n) ==
  /\ answer' = Delivered(n, [i \in 1..n |-> ByteAt(position + i - 1)])
  /\ position' = position + n

Target(offset, whence) == IF whence = "start" THEN offset ELSE position + offset

Seek(offset, whence) ==
  /\ whence \in {"start", "current"}
  /\ Target(offset, whence) \in 0..MaxOffset
  /\ position' = Target(offset, whence)
  /\ answer' = MovedTo(offset, whence, position')

(* From the end, before the start, or to where no offset reaches. *)
SeekRefused(offset, whence) ==
  /\ whence \in {"start", "current"} => Target(offset, whence) \notin 0..MaxOffset
  /\ position' = position
  /\ answer' = Refused(offset, whence)

Next == \/ \E n \in Lengths : Read(n)
        \/ \E offset \in Offsets, whence \in {"start", "current", "end"} :
             Seek(offset, whence) \/ SeekRefused(offset, whence)

Spec == Init /\ [][Next]_vars

=============================================================================
