---------------------------- MODULE Blake3Hasher ----------------------------
(***************************************************************************)
(* The hasher of src/core/utils/blake3: Write over a buffer of Lanes       *)
(* chunks, Sum and Digest, Reset, and the stack of chaining values, which  *)
(* keeps pairs of equal level back until Lanes of them can be compressed   *)
(* at once.  One action per iteration of the loops, so that the stack is   *)
(* seen between any two pushes.                                            *)
(***************************************************************************)
EXTENDS Integers, Sequences

CONSTANTS
  BlockLen, ChunkLen, Keys,   \* as in Blake3Tree
  Lanes,       \* chunks of the buffer, and pairs compressed at once (8 in the code)
  WriteSizes,  \* the sizes of the writes
  MaxBytes,    \* bound: bytes written between two resets
  MaxStarts    \* bound: how often one hasher starts anew

VARIABLES
  mode,                \* key and flags
  len, chunks, buf,    \* the buffer: bytes in it, and chunks before it
  occ, stack,          \* which levels of the stack are occupied, and by what
  pairs,               \* lvls, buf and bufn of cvstack: pairs not yet compressed
  pc,                  \* where the current call is
  caller,              \* which call pushes: "writing" or "finalizing"
  input,               \* Write: what is left of its input
  vectors,             \* pushN: chaining values it has still to push
  parents,             \* flush: compressed parents it has still to push
  digest,              \* finalizeDigest: the node built so far
  written, answer,     \* history: the bytes since the last start, the last digest
  starts               \* history: how often the hasher started anew

bufferVars == <<len, chunks, buf>>
stackVars  == <<occ, stack, pairs>>
callVars   == <<pc, caller, input, vectors, parents, digest>>
vars == <<mode, len, chunks, buf, occ, stack, pairs, pc, caller, input, vectors,
          parents, digest, written, answer, starts>>

Tree == INSTANCE Blake3Tree

ASSUME HasherAssumption ==
  /\ Tree!ValidLengths
  /\ Lanes \in Nat \ {0, 1}
  /\ WriteSizes \subseteq Nat /\ MaxBytes \in Nat /\ MaxStarts \in Nat

BufLen == Lanes * ChunkLen
NoValue == <<"none">>

(* Levels enough for the bounded input (64 in the code).                   *)
Levels == 0..(MaxBytes \div ChunkLen)

Init ==
  /\ mode \in Keys
  /\ len = 0 /\ chunks = 0 /\ buf = [i \in 1..BufLen |-> 0]
  /\ occ = {} /\ stack = [l \in Levels |-> NoValue] /\ pairs = <<>>
  /\ pc = "idle" /\ caller = "writing" /\ input = <<>> /\ vectors = <<>>
  /\ parents = <<>> /\ digest = Tree!NoNode
  /\ written = <<>> /\ answer = Tree!NoNode /\ starts = 1

-----------------------------------------------------------------------------
(* HashF: the values of the chunks of a block of bytes, and the chain      *)
(* before the last block of its last chunk.                                *)
ChunkOf(bytes, i) == Tree!ChunkAt(bytes, i)
ChunkValue(bytes, i) == Tree!Compress(Tree!ChunkNode(mode, chunks + i, ChunkOf(bytes, i)))
HashF(bytes, count) == [i \in 1..count |-> ChunkValue(bytes, i - 1)]

(* Mutation of PushL: the older value becomes the right half. *)
PushLSwapped(level, value) ==
  IF level \in occ
  THEN /\ pairs' = Append(pairs, [level |-> level, left |-> value, right |-> stack[level]])
       /\ occ' = occ \ {level}
       /\ stack' = stack
  ELSE /\ stack' = [stack EXCEPT ![level] = value]
       /\ occ' = occ \union {level}
       /\ pairs' = pairs

(* pushL: the value rests on its level of the stack, or pairs up with what *)
(* rests there.                                                            *)
PushL(level, value) ==
  IF level \in occ
  THEN /\ pairs' = Append(pairs, [level |-> level, left |-> stack[level], right |-> value])
       /\ occ' = occ \ {level}
       /\ stack' = stack
  ELSE /\ stack' = [stack EXCEPT ![level] = value]
       /\ occ' = occ \union {level}
       /\ pairs' = pairs

(* HashP: the parents of the pairs, one level up. *)
HashP == [i \in 1..Len(pairs) |->
            [level |-> pairs[i].level + 1,
             value |-> Tree!Compress(Tree!ParentNode(mode, pairs[i].left, pairs[i].right))]]

(* flush, first part: the pairs are compressed and taken out. *)
TakePairs ==
  /\ parents' = HashP
  /\ pairs' = <<>>
  /\ UNCHANGED <<occ, stack>>

(* flush, second part: the parents go back to the stack in order. *)
PushParent ==
  /\ pc \in {"pushing", "flushing"}
  /\ parents # <<>>
  /\ PushL(Head(parents).level, Head(parents).value)
  /\ parents' = Tail(parents)
  /\ UNCHANGED <<mode, bufferVars, pc, caller, input, vectors, digest, written, answer, starts>>

(* pushN: one value after the other, and a flush whenever Lanes pairs wait. *)
PushVector ==
  /\ pc = "pushing"
  /\ parents = <<>> /\ Len(pairs) # Lanes /\ vectors # <<>>
  /\ PushL(0, Head(vectors))
  /\ vectors' = Tail(vectors)
  /\ UNCHANGED <<mode, bufferVars, pc, caller, input, parents, digest, written, answer, starts>>

FlushFull ==
  /\ pc = "pushing"
  /\ parents = <<>> /\ Len(pairs) = Lanes
  /\ TakePairs
  /\ UNCHANGED <<mode, bufferVars, pc, caller, input, vectors, digest, written, answer, starts>>

(* Mutation of Pushed: no flush after the last push. *)
PushedUnflushed == pc = "pushing" /\ parents = <<>> /\ vectors = <<>>

(* All values are pushed. *)
Pushed == pc = "pushing" /\ parents = <<>> /\ Len(pairs) # Lanes /\ vectors = <<>>

-----------------------------------------------------------------------------
(* Write and updateString.  Every byte ever written is a different one.    *)
Fresh(n) == [i \in 1..n |-> starts * MaxBytes + Len(written) + i]

(* NewDeriveKey writes its context once before it derives the key. *)
InContext == mode.flag = "DeriveKeyContext"

CallWrite(n) ==
  /\ pc = "idle"
  /\ InContext => written = <<>>
  /\ Len(written) + n <= MaxBytes
  /\ input' = Fresh(n)
  /\ written' = written \o Fresh(n)
  /\ pc' = "writing"
  /\ UNCHANGED <<mode, bufferVars, stackVars, caller, vectors, parents, digest, answer, starts>>

WriteReturns ==
  /\ pc = "writing"
  /\ input = <<>>
  /\ pc' = "idle"
  /\ UNCHANGED <<mode, bufferVars, stackVars, caller, input, vectors, parents, digest,
                 written, answer, starts>>

Consume(bytes) ==
  /\ vectors' = HashF(bytes, Lanes)
  /\ pc' = "pushing"
  /\ caller' = "writing"
  /\ UNCHANGED <<mode, bufferVars, stackVars, parents, digest, written, answer, starts>>

(* A long input is hashed where it lies. *)
Direct == len = 0 /\ Len(input) > BufLen
ConsumeInput ==
  /\ pc = "writing" /\ input # <<>>
  /\ Direct
  /\ input' = SubSeq(input, BufLen + 1, Len(input))
  /\ Consume(SubSeq(input, 1, BufLen))

(* What fits is copied behind what the buffer holds. *)
CopyIn ==
  /\ pc = "writing" /\ input # <<>>
  /\ ~Direct /\ len < BufLen
  /\ LET n == IF Len(input) < BufLen - len THEN Len(input) ELSE BufLen - len
     IN  /\ buf' = [i \in DOMAIN buf |->
                      IF i \in (len + 1)..(len + n) THEN input[i - len] ELSE buf[i]]
         /\ len' = len + n
         /\ input' = SubSeq(input, n + 1, Len(input))
  /\ UNCHANGED <<mode, chunks, stackVars, pc, caller, vectors, parents, digest, written,
                 answer, starts>>

ConsumeBuffer ==
  /\ pc = "writing" /\ input # <<>>
  /\ ~Direct /\ len = BufLen
  /\ input' = input
  /\ Consume(buf)

ConsumeReturns ==
  /\ Pushed /\ caller = "writing"
  /\ len' = 0
  /\ chunks' = chunks + Lanes
  /\ pc' = "writing"
  /\ UNCHANGED <<mode, buf, stackVars, caller, input, vectors, parents, digest, written,
                 answer, starts>>

-----------------------------------------------------------------------------
(* finalizeDigest, called by Sum and Digest. *)
Buffered == SubSeq(buf, 1, len)

(* compressAll: all that was written is one chunk. *)
DigestSmall ==
  /\ pc = "idle"
  /\ chunks = 0 /\ len <= ChunkLen
  /\ answer' = Tree!AsRoot(Tree!ChunkNode(mode, 0, Buffered))
  /\ UNCHANGED <<mode, bufferVars, stackVars, callVars, written, starts>>

(* Mutation of Complete: a full last chunk goes to the stack as well. *)
CompleteAll == len \div ChunkLen

(* The chunks of the buffer but the last go to the stack. *)
Complete == IF len > ChunkLen THEN (len - 1) \div ChunkLen ELSE 0

CallDigest ==
  /\ pc = "idle"
  /\ ~(chunks = 0 /\ len <= ChunkLen)
  /\ vectors' = HashF(Buffered, Complete)
  /\ pc' = "pushing"
  /\ caller' = "finalizing"
  /\ UNCHANGED <<mode, bufferVars, stackVars, input, parents, digest, written, answer, starts>>

(* Mutation of FoldBuffer: the counter is taken before the chunks are      *)
(* counted.                                                                *)
FoldBufferEarlyCounter ==
  /\ Pushed /\ caller = "finalizing"
  /\ LET last == SubSeq(buf, Complete * ChunkLen + 1, len)
     IN  /\ digest' = Tree!ChunkNode(mode, chunks, last)
         /\ chunks' = chunks + Complete
         /\ buf' = [i \in DOMAIN buf |-> IF i <= Len(last) THEN last[i] ELSE buf[i]]
         /\ len' = Len(last)
  /\ pc' = "flushing"
  /\ UNCHANGED <<mode, stackVars, caller, input, vectors, parents, written, answer, starts>>

(* The last chunk moves to the front of the buffer; its node starts the    *)
(* digest.                                                                 *)
FoldBuffer ==
  /\ Pushed /\ caller = "finalizing"
  /\ LET last == SubSeq(buf, Complete * ChunkLen + 1, len)
     IN  /\ digest' = Tree!ChunkNode(mode, chunks + Complete, last)
         /\ chunks' = chunks + Complete
         /\ buf' = [i \in DOMAIN buf |-> IF i <= Len(last) THEN last[i] ELSE buf[i]]
         /\ len' = Len(last)
  /\ pc' = "flushing"
  /\ UNCHANGED <<mode, stackVars, caller, input, vectors, parents, written, answer, starts>>

(* for h.stack.bufn > 0 *)
FlushRest ==
  /\ pc = "flushing"
  /\ parents = <<>> /\ pairs # <<>>
  /\ TakePairs
  /\ UNCHANGED <<mode, bufferVars, pc, caller, input, vectors, digest, written, answer, starts>>

(* The digest is folded with the occupied levels, from the lowest up. *)
Folded ==
  LET node[l \in 0..(MaxBytes \div ChunkLen + 1)] ==
        IF l = 0 THEN digest
        ELSE IF l - 1 \in occ
             THEN Tree!ParentNode(mode, stack[l - 1], Tree!Compress(node[l - 1]))
             ELSE node[l - 1]
  IN  node[MaxBytes \div ChunkLen + 1]

(* Mutation of DigestReturns: the loop over the levels does not advance. *)
DigestReturnsNever ==
  /\ pc = "flushing"
  /\ parents = <<>> /\ pairs = <<>>
  /\ UNCHANGED vars

DigestReturns ==
  /\ pc = "flushing"
  /\ parents = <<>> /\ pairs = <<>>
  /\ answer' = Tree!AsRoot(Folded)
  /\ pc' = "idle"
  /\ UNCHANGED <<mode, bufferVars, stackVars, caller, input, vectors, parents, digest,
                 written, starts>>

-----------------------------------------------------------------------------
(* reset: the buffer and the values of the stack stay where they are. *)
Clear ==
  /\ pc = "idle" /\ starts < MaxStarts
  /\ len' = 0 /\ chunks' = 0 /\ occ' = {} /\ pairs' = <<>>
  /\ written' = <<>>
  /\ starts' = starts + 1
  /\ UNCHANGED <<buf, stack, callVars>>

Reset == ~InContext /\ Clear /\ UNCHANGED <<mode, answer>>

(* NewDeriveKey: the digest of the context becomes the key of a hasher     *)
(* that starts anew.                                                       *)
DeriveKey ==
  /\ InContext
  /\ answer = Tree!RootOf(mode, written)
  /\ mode' = Tree!DerivedMode(answer)
  /\ answer' = Tree!NoNode
  /\ Clear

-----------------------------------------------------------------------------
(* What the current call does next. *)
Step == \/ WriteReturns \/ ConsumeInput \/ CopyIn \/ ConsumeBuffer \/ ConsumeReturns
        \/ PushVector \/ FlushFull \/ PushParent
        \/ FoldBuffer \/ FlushRest \/ DigestReturns

Next == \/ \E n \in WriteSizes : CallWrite(n)
        \/ DigestSmall \/ CallDigest
        \/ Reset \/ DeriveKey
        \/ Step

Spec == Init /\ [][Next]_vars

(* A call that was made runs to its end. *)
FairSpec == Spec /\ WF_vars(Step)

-----------------------------------------------------------------------------
(* Every digest that Sum and Digest give is the root of the tree of the    *)
(* bytes written since the hasher started, whatever the sizes of the       *)
(* writes, the digests taken between them, and what was hashed before a    *)
(* Reset.                                                                  *)
RefinesTree == Tree!Spec

(* No pair is written over another one: at most Lanes pairs wait, and a    *)
(* value is pushed only while there is room for one more.                  *)
PairsFit ==
  /\ Len(pairs) <= Lanes
  /\ pc \in {"idle", "writing"} => Len(pairs) < Lanes

(* The chaining values that are still to be combined, each at its level    *)
(* and its place among the values of the level: first the one that rests   *)
(* on the stack, then those that are still to be pushed, then the parents  *)
(* that waiting pairs of the level below will get.                         *)
Places ==
  {<<level, 0>> : level \in occ}
    \union {<<0, Lanes - Len(vectors) + i>> : i \in DOMAIN vectors}
    \union {<<parents[i].level, Lanes - Len(parents) + i>> : i \in DOMAIN parents}
    \union {<<pairs[i].level + 1, Lanes + i>> : i \in DOMAIN pairs}

ParentOf(pair) == Tree!Compress(Tree!ParentNode(mode, pair.left, pair.right))
ValueAt(at) ==
  LET level == at[1]
      place == at[2]
  IN  IF place = 0 THEN stack[level]
      ELSE IF level = 0 THEN vectors[place - Lanes + Len(vectors)]
      ELSE IF place <= Lanes THEN parents[place - Lanes + Len(parents)].value
      ELSE ParentOf(pairs[place - Lanes])

(* The values of higher levels, and earlier ones of a level, are older.    *)
Older(at, than) == at[1] > than[1] \/ (at[1] = than[1] /\ at[2] < than[2])

(* The chunks whose values were given to the stack so far. *)
Hashed ==
  chunks + (IF pc # "pushing" THEN 0 ELSE IF caller = "writing" THEN Lanes ELSE Complete)

(* Where the complete subtrees begin whose value is the one at a place.    *)
FirstChunks(at) ==
  LET size == Tree!Pow2[at[1]]
  IN  {first \in 0..(Hashed - size) :
         ValueAt(at) = Tree!Compress(Tree!Subtree(mode, written)[size][first])}

(* Between any two pushes, the values of the stack are those of complete   *)
(* subtrees over what was written, each over as many chunks as its level   *)
(* says and over later ones than the older values.                         *)
StackHoldsTheTree ==
  LET firsts == [at \in Places |-> FirstChunks(at)]
  IN  /\ \A at \in Places : firsts[at] # {}
      /\ \A at, than \in Places :
           Older(at, than) =>
             \A first \in firsts[at], next \in firsts[than] : first + Tree!Pow2[at[1]] <= next

(* Between two steps of a Write no byte is lost or taken twice: the stack  *)
(* holds every chunk that was counted, and the bytes after them            *)
(* are in the buffer and in the input.  The last byte of what was written  *)
(* is never on the stack, for it belongs to the last chunk.                *)
EveryByteKept ==
  pc \in {"idle", "writing"} =>
    /\ \A n \in 0..(chunks - 1) :
         \E at \in Places : \E first \in FirstChunks(at) :
           n \in first..(first + Tree!Pow2[at[1]] - 1)
    /\ SubSeq(written, chunks * ChunkLen + 1, Len(written)) = Buffered \o input
    /\ written # <<>> => len + Len(input) > 0

(* Every call of Write, Sum and Digest returns. *)
CallsReturn == pc # "idle" ~> pc = "idle"

=============================================================================
