----------------------------- MODULE Blake3Tree -----------------------------
(***************************************************************************)
(* What a BLAKE3 hasher promises: the digest is the root of the tree that  *)
(* the bytes written since the last Reset determine, whatever the sizes of *)
(* the writes and however many digests were taken between them.  The       *)
(* compression function is symbolic: a chaining value is the input it was  *)
(* computed from, so two values are equal when all that was hashed is.     *)
(***************************************************************************)
EXTENDS Integers, Sequences

CONSTANTS
  BlockLen,   \* bytes of a block (64 in the code)
  ChunkLen,   \* bytes of a chunk (1024 in the code)
  Keys        \* the keys of new hashers, each with its mode flag

ValidLengths ==
  /\ BlockLen \in Nat \ {0} /\ ChunkLen \in Nat \ {0}
  /\ ChunkLen % BlockLen = 0

VARIABLES
  mode,     \* the key and the mode flag of the hasher
  written,  \* the bytes written since the last Reset
  answer    \* the last digest

vars == <<mode, written, answer>>

-----------------------------------------------------------------------------
(* The input of a compression, and its output as a chaining value.         *)
Node(chain, block, counter, blen, flags) ==
  [chain |-> chain, block |-> block, counter |-> counter, blen |-> blen, flags |-> flags]
Compress(node) == <<"value", node>>

Bytes(s) == <<"bytes", s>>
NoNode == Node(<<>>, Bytes(<<>>), 0, 0, {})
ParentNode(m, left, right) ==
  Node(m.key, <<"parents", left, right>>, 0, BlockLen, {m.flag, "Parent"})

(* The n-th block of a chunk, counted from 1; the last one may be short.   *)
BlockCount(chunk) ==
  IF chunk = <<>> THEN 1 ELSE (Len(chunk) + BlockLen - 1) \div BlockLen
Block(chunk, n) ==
  SubSeq(chunk, (n - 1) * BlockLen + 1,
         IF n * BlockLen < Len(chunk) THEN n * BlockLen ELSE Len(chunk))

(* The n-th block of the chunk with a number, compressed after a chain.    *)
BlockNode(m, counter, chunk, n, chain) ==
  Node(chain, Bytes(Block(chunk, n)), counter, Len(Block(chunk, n)),
       {m.flag} \union (IF n = 1 THEN {"ChunkStart"} ELSE {})
                \union (IF n = BlockCount(chunk) THEN {"ChunkEnd"} ELSE {}))

(* The chaining value before the last block of a chunk, and that block.    *)
ChainBeforeLast(m, counter, chunk) ==
  LET chain[n \in 0..(BlockCount(chunk) - 1)] ==
        IF n = 0 THEN m.key ELSE Compress(BlockNode(m, counter, chunk, n, chain[n - 1]))
  IN  chain[BlockCount(chunk) - 1]

ChunkNode(m, counter, chunk) ==
  BlockNode(m, counter, chunk, BlockCount(chunk), ChainBeforeLast(m, counter, chunk))

-----------------------------------------------------------------------------
ChunkCount(bytes) ==
  IF bytes = <<>> THEN 1 ELSE (Len(bytes) + ChunkLen - 1) \div ChunkLen
ChunkAt(bytes, i) ==
  SubSeq(bytes, i * ChunkLen + 1,
         IF (i + 1) * ChunkLen < Len(bytes) THEN (i + 1) * ChunkLen ELSE Len(bytes))

(* 2^n, by recursion. *)
Pow2[n \in Nat] == IF n = 0 THEN 1 ELSE 2 * Pow2[n - 1]

(* The largest power of two below n. *)
LeftSize(n) == CHOOSE k \in 1..(n - 1) :
                 n <= 2 * k /\ \E e \in 0..n : k = Pow2[e]

(* The node over count chunks, the first of which has the given number.    *)
Subtree(m, bytes) ==
  LET node[count \in Nat \ {0}] ==
        [first \in Nat |->
           IF count = 1 THEN ChunkNode(m, first, ChunkAt(bytes, first))
           ELSE ParentNode(m, Compress(node[LeftSize(count)][first]),
                              Compress(node[count - LeftSize(count)][first + LeftSize(count)]))]
  IN  node

AsRoot(node) == [node EXCEPT !.flags = @ \union {"Root"}]
RootOf(m, bytes) == AsRoot(Subtree(m, bytes)[ChunkCount(bytes)][0])

(* The key that NewDeriveKey derives from the digest of its context. *)
DerivedMode(root) == [key |-> <<"derived", root>>, flag |-> "DeriveKeyMaterial"]

-----------------------------------------------------------------------------
Init == mode \in Keys /\ written = <<>> /\ answer = NoNode

Write == /\ \E n \in 0..Len(written') : written = SubSeq(written', 1, n)
         /\ UNCHANGED <<mode, answer>>

Digest == /\ answer' = RootOf(mode, written)
          /\ UNCHANGED <<mode, written>>

Reset == /\ written' = <<>>
         /\ UNCHANGED <<mode, answer>>

(* NewDeriveKey, once it has the digest of its context. *)
Derive == /\ mode.flag = "DeriveKeyContext"
          /\ mode' = DerivedMode(RootOf(mode, written))
          /\ written' = <<>>
          /\ answer' = NoNode

Next == Write \/ Digest \/ Reset \/ Derive

Spec == Init /\ [][Next]_vars

=============================================================================
