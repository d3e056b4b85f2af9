----------------------------- MODULE MCChunker -----------------------------
(***************************************************************************)
(* Chunker over three byte values and a 7-bit rolling hash.  The Gear      *)
(* table is chosen so that the chunks of the streams below end at the      *)
(* minimum plus one, in the middle, at the average size, behind it under   *)
(* the large mask, at the maximum size, and at the end of the stream.      *)
(***************************************************************************)
EXTENDS ChunkScan, TLC

MCByte == 0..2
MCGear == (0 :> 1) @@ (1 :> 2) @@ (2 :> 32)

(* A stream that is 1 except for a 0 at every fifth place and a 2 at some; *)
(* and one without a boundary.                                             *)
Bytes(length, twos) ==
  [i \in 1..length |-> IF i \in twos THEN 2 ELSE IF i % 5 = 0 THEN 0 ELSE 1]
Zeros(length) == [i \in 1..length |-> 0]

(* Streams in which all three values mix without a period. *)
Mixed(k) == [i \in 1..24 |-> ((i * i) \div k) % 3]

MCStreams ==
  [bytes : {Bytes(n, twos) : n \in {0, 1, 3, 10, 11, 22, 25},
                             twos \in {{}, {3, 9}, {7, 14, 21}, 3..25}}
           \union {Zeros(n) : n \in {2, 9, 10, 20, 21, 31}}
           \union {Mixed(k) : k \in 2..5},
   end : {"EOF", "ErrUnexpectedEOF", "failure"}]

MCFewStreams ==
  [bytes : {<<>>, Zeros(2), Zeros(11), Bytes(12, {3, 9}), Bytes(23, {7, 14, 21})},
   end : {"EOF", "ErrUnexpectedEOF", "failure"}]

=============================================================================
