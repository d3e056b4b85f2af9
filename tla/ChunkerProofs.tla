--------------------------- MODULE ChunkerProofs ---------------------------
(***************************************************************************)
(* Proofs about the chunker: for every alphabet, Gear table, chunk sizes   *)
(* and streams that satisfy the assumptions of FastCdc and Chunker.        *)
(***************************************************************************)
EXTENDS ChunkScan, SequenceTheorems, WellFoundedInduction, TLAPS

(* What the invariants of Chunker need to be inductive: how far the reader *)
(* is wherever Next is, what ended the stream, what the hasher has seen.   *)
ReadState ==
  /\ Available <= MaximumSize
  /\ pc # "filling" => got = 0
  /\ pc = "filling" => ~readEOF /\ readError = "nil"
  /\ pc # "idle" => ~finished
  /\ readEOF => readPos = Len(stream.bytes) /\ stream.end # "failure" /\ readError = "nil"
  /\ readError # "nil" => readPos = Len(stream.bytes) /\ stream.end = "failure"
  /\ pc = "cutting" => Available = MaximumSize \/ readEOF \/ readError # "nil"

CutState ==
  /\ bodyHasher = SubSeq(stream.bytes, 1, totalSize)
  /\ chunkCount = Len(chunks)
  /\ Promise!Position = totalSize
  /\ finished /\ readError = "nil" =>
       readEOF /\ Available = 0 /\ bodyDigest = Digest(bodyHasher)

IInv == TypeOK /\ ReadFitsBuffer /\ BufferMirrorsStream /\ ReadState /\ CutState

-----------------------------------------------------------------------------
(* The chunk sizes are what validateChunkerConfig lets through. *)
LEMMA Sizes ==
  /\ MinimumSize \in Nat /\ AverageSize \in Nat /\ MaximumSize \in Nat
  /\ MinimumSize > 0 /\ MinimumSize <= MaximumSize /\ AverageSize <= MaximumSize
BY ConfigAssumption DEF ValidChunkerConfig

(* A stream is a finite sequence of bytes with an ending. *)
LEMMA StreamType ==
  ASSUME NEW s \in Streams
  PROVE  /\ s.bytes \in Seq(Byte) /\ Len(s.bytes) \in Nat
         /\ s.end \in {"EOF", "ErrUnexpectedEOF", "failure"}
         /\ \A i \in 1..Len(s.bytes) : s.bytes[i] \in Byte
<1>1. s \in Promise!Stream
  BY StreamsAssumption
<1>2. s.bytes \in Seq(Byte) /\ s.end \in {"EOF", "ErrUnexpectedEOF", "failure"}
  BY <1>1 DEF Promise!Stream, Promise!Ending
<1> QED BY <1>2, ElementOfSeq, LenProperties

-----------------------------------------------------------------------------
(* The boundary rule. *)

(* A nonempty set of naturals has a least element. *)
LEMMA LeastNatural ==
  ASSUME NEW T, T \subseteq Nat, T # {}
  PROVE  \E x \in T : \A y \in T : x <= y
<1> DEFINE Less == {ss \in Nat \X Nat : ss[1] < ss[2]}
<1>1. OpToRel(<, Nat) = Less
  BY DEF OpToRel
<1>2. IsWellFoundedOn(Less, Nat)
  BY <1>1, NatLessThanWellFounded
<1>3. PICK x \in T : \A y \in T : ~ (<<y, x>> \in Less)
  BY <1>2, WFMin
<1>4. \A y \in T : x <= y
  <2> SUFFICES ASSUME NEW y \in T, y < x PROVE FALSE
    OBVIOUS
  <2>1. <<y, x>> \in Less
    OBVIOUS
  <2> QED BY <2>1, <1>3
<1> QED BY <1>4

(* findChunkLength returns the length of a nonempty prefix of a nonempty   *)
(* window, no longer than the maximum size.                                *)
LEMMA FindChunkLengthRange ==
  ASSUME NEW data \in Seq(Byte), Len(data) > 0
  PROVE  /\ FindChunkLength(data) \in 1..Len(data)
         /\ FindChunkLength(data) <= MaximumSize
<1> DEFINE cuts == {n \in (MinimumSize + 1)..Limit(data) : IsBoundary(data, n)}
<1>1. Limit(data) \in 1..Len(data) /\ Limit(data) <= MaximumSize
  BY Sizes, LenProperties DEF Limit
<1>2. CASE cuts = {}
  BY <1>1, <1>2 DEF FindChunkLength
<1>3. CASE cuts # {}
  <2>1. cuts \subseteq Nat
    BY <1>1, Sizes, LenProperties
  <2>2. \E n \in cuts : \A k \in cuts : n <= k
    BY <2>1, <1>3, LeastNatural
  <2>3. FindChunkLength(data) \in cuts
    BY <2>2, <1>3 DEF FindChunkLength
  <2> QED BY <2>3, <1>1, Sizes, LenProperties
<1> QED BY <1>2, <1>3

(* Two windows with the same limit and the same boundaries are cut at the  *)
(* same place.                                                             *)
LEMMA SameCuts ==
  ASSUME NEW a, NEW b, Limit(a) = Limit(b),
         {n \in (MinimumSize + 1)..Limit(a) : IsBoundary(a, n)}
           = {n \in (MinimumSize + 1)..Limit(b) : IsBoundary(b, n)}
  PROVE  FindChunkLength(a) = FindChunkLength(b)
<1> DEFINE A == {n \in (MinimumSize + 1)..Limit(a) : IsBoundary(a, n)}
           B == {n \in (MinimumSize + 1)..Limit(b) : IsBoundary(b, n)}
<1>1. FindChunkLength(a) = IF A = {} THEN Limit(a) ELSE CHOOSE n \in A : \A m \in A : n <= m
  BY Zenon DEF FindChunkLength
<1>2. FindChunkLength(b) = IF B = {} THEN Limit(b) ELSE CHOOSE n \in B : \A m \in B : n <= m
  BY Zenon DEF FindChunkLength
<1>3. A = B
  OBVIOUS
<1> HIDE DEF A, B
<1> QED BY <1>1, <1>2, <1>3

(* A window that holds a maximum chunk, or all the rest of the stream, has *)
(* the same first chunk as the rest of the stream.                         *)
LEMMA WindowDetermines ==
  ASSUME NEW rest \in Seq(Byte), NEW w \in 0..Len(rest),
         w >= MaximumSize \/ w = Len(rest)
  PROVE  FindChunkLength(SubSeq(rest, 1, w)) = FindChunkLength(rest)
<1> DEFINE window == SubSeq(rest, 1, w)
<1>1. /\ Len(rest) \in Nat
      /\ \A i \in 1..Len(rest) : rest[i] \in Byte
  BY LenProperties, ElementOfSeq
<1>2. window \in Seq(Byte) /\ Len(window) = w
  BY <1>1, SubSeqProperties
<1>3. Limit(window) = Limit(rest)
  BY <1>1, <1>2, Sizes DEF Limit
<1>4. \A n \in (MinimumSize + 1)..Limit(rest) : IsBoundary(window, n) <=> IsBoundary(rest, n)
  <2> SUFFICES ASSUME NEW n \in (MinimumSize + 1)..Limit(rest)
               PROVE  SubSeq(window, MinimumSize + 1, n) = SubSeq(rest, MinimumSize + 1, n)
    BY DEF IsBoundary
  <2>1. n <= w
    BY <1>1, <1>2, <1>3, Sizes DEF Limit
  <2>2. w \in 1..Len(rest) /\ MinimumSize + 1 \in 1..w /\ n \in 1..w /\ 1 \in 1..Len(rest)
    BY <2>1, <1>1, Sizes
  <2> QED BY <2>2, <1>1, SubSeqOfSubSeq, SMTT(30)
<1>5. {n \in (MinimumSize + 1)..Limit(window) : IsBoundary(window, n)}
        = {n \in (MinimumSize + 1)..Limit(rest) : IsBoundary(rest, n)}
  BY <1>3, <1>4
<1> QED BY <1>3, <1>5, SameCuts

-----------------------------------------------------------------------------
(* A new chunker, whose window is empty, satisfies IInv. *)
LEMMA InitInv == Init => IInv
<1> SUFFICES ASSUME Init PROVE IInv
  OBVIOUS
<1> USE Sizes, StreamType, MaxStreamsAssumption, WordAssumption DEF Init
<1>1. TypeOK
  <2>1. stream \in Streams /\ Len(stream.bytes) \in Nat
    OBVIOUS
  <2>2. <<>> \in Seq(Byte) /\ <<>> \in Seq(Promise!Chunk)
    BY EmptySeq
  <2>3. buffer \in [0..(BufferSize - 1) -> Byte] /\ BufferSize \in Nat
    BY DEF BufferSize
  <2>4. opened \in 1..MaxStreams
    OBVIOUS
  <2>5. /\ readPos \in 0..Len(stream.bytes)
        /\ bufferStart \in 0..bufferEnd /\ bufferEnd \in 0..BufferSize
        /\ got \in 0..MaximumSize
    BY <2>1, <2>3
  <2>6. bodyDigest \in Seq(Byte) /\ bodyHasher \in Seq(Byte) /\ chunks \in Seq(Promise!Chunk)
    BY <2>2, Zenon DEF NoDigest
  <2> QED BY <2>1, <2>3, <2>4, <2>5, <2>6 DEF TypeOK
<1>2. ReadFitsBuffer /\ BufferMirrorsStream
  BY DEF ReadFitsBuffer, BufferMirrorsStream, Available
<1>3. ReadState
  BY DEF ReadState, Available
<1>4. CutState
  <2>1. SubSeq(stream.bytes, 1, 0) = <<>>
    BY SubSeqEmpty
  <2> QED BY <2>1 DEF CutState, Promise!Position
<1> QED BY <1>1, <1>2, <1>3, <1>4 DEF IInv

(* A reset empties the window, wherever in the old stream it happens. *)
LEMMA ResetInv ==
  ASSUME IInv, NEW s \in Streams, Reset(s)
  PROVE  IInv'
<1> USE Sizes, StreamType DEF Reset, ClearStream
<1>1. TypeOK'
  <2>1. stream' \in Streams /\ Len(stream'.bytes) \in Nat
    OBVIOUS
  <2>2. <<>> \in Seq(Byte) /\ <<>> \in Seq(Promise!Chunk)
    BY EmptySeq
  <2>3. BufferSize \in Nat /\ buffer' = buffer /\ pc' = pc /\ got' = got
    BY DEF BufferSize
  <2>4. opened' \in 1..MaxStreams
    BY MaxStreamsAssumption DEF IInv, TypeOK
  <2>5. /\ readPos' \in 0..Len(stream'.bytes)
        /\ bufferStart' \in 0..bufferEnd' /\ bufferEnd' \in 0..BufferSize
    BY <2>1, <2>3
  <2>6. /\ bodyDigest' \in Seq(Byte) /\ bodyHasher' \in Seq(Byte)
        /\ chunks' \in Seq(Promise!Chunk)
    BY <2>2, Zenon DEF NoDigest
  <2> QED BY <2>1, <2>3, <2>4, <2>5, <2>6 DEF IInv, TypeOK
<1>2. ReadFitsBuffer' /\ BufferMirrorsStream' /\ ReadState'
  BY DEF IInv, ReadState, ReadFitsBuffer, BufferMirrorsStream, Available
<1>3. CutState'
  <2>1. SubSeq(stream'.bytes, 1, 0) = <<>>
    BY SubSeqEmpty
  <2> QED BY <2>1 DEF CutState, Promise!Position
<1> QED BY <1>1, <1>2, <1>3 DEF IInv

(* Moving the window keeps its bytes and makes room for the rest of it. *)
LEMMA MoveWindowKeeps ==
  ASSUME TypeOK, MustFill, MoveWindow
  PROVE  /\ buffer' \in [0..(BufferSize - 1) -> Byte]
         /\ bufferEnd' \in 0..BufferSize /\ bufferStart' \in 0..bufferEnd'
         /\ Available' = Available
         /\ Available < MaximumSize
         /\ bufferEnd' + Needed' <= BufferSize
         /\ \A i \in 1..Available : buffer'[bufferStart' + i - 1] = buffer[bufferStart + i - 1]
<1> USE Sizes DEF TypeOK, MustFill, MoveWindow, Available, Needed, BufferSize, bufferVars
<1>1. CASE BufferSize - bufferEnd < Needed
  <2>1. /\ buffer' = [i \in 0..(BufferSize - 1) |->
                        IF i < Available THEN buffer[bufferStart + i] ELSE buffer[i]]
        /\ bufferEnd' = Available /\ bufferStart' = 0
    BY <1>1
  <2>2. Available \in Nat /\ Available < MaximumSize /\ bufferStart + Available <= BufferSize
    OBVIOUS
  <2>3. buffer' \in [0..(BufferSize - 1) -> Byte]
    BY <2>1, <2>2
  <2>4. \A i \in 1..Available : buffer'[bufferStart' + i - 1] = buffer[bufferStart + i - 1]
    BY <2>1, <2>2
  <2>5. bufferEnd' \in 0..BufferSize /\ bufferStart' \in 0..bufferEnd'
    BY <2>1, <2>2
  <2>6. Available' = Available /\ bufferEnd' + Needed' <= BufferSize
    BY <2>1, <2>2
  <2> HIDE DEF Available, Needed, BufferSize, TypeOK, MoveWindow, MustFill
  <2> QED BY <2>2, <2>3, <2>4, <2>5, <2>6
<1>2. CASE ~(BufferSize - bufferEnd < Needed)
  BY <1>2
<1> QED BY <1>1, <1>2

(* Next moves the window, or goes on to the cut when it is long enough. *)
LEMMA CallNextInv ==
  ASSUME IInv, CallNext
  PROVE  IInv'
<1> USE DEF CallNext, readerVars, bufferVars, statusVars, summaryVars
<1>1. CASE MustFill
  <2>1. /\ buffer' \in [0..(BufferSize - 1) -> Byte]
        /\ bufferEnd' \in 0..BufferSize /\ bufferStart' \in 0..bufferEnd'
        /\ Available' = Available /\ Available < MaximumSize
        /\ bufferEnd' + Needed' <= BufferSize
        /\ \A i \in 1..Available : buffer'[bufferStart' + i - 1] = buffer[bufferStart + i - 1]
    BY <1>1, MoveWindowKeeps DEF IInv
  <2>2. pc' = "filling" /\ got = 0 /\ Available \in Nat
    BY <1>1, Sizes DEF IInv, ReadState, TypeOK, Available
  <2>3. TypeOK'
    BY <1>1, <2>1 DEF IInv, TypeOK
  <2>4. ReadFitsBuffer'
    BY <2>1, <2>2, Sizes DEF ReadFitsBuffer, Needed
  <2>5. BufferMirrorsStream'
    <3>1. /\ readPos' = readPos /\ stream' = stream /\ got' = 0 /\ got = 0
          /\ totalSize' = totalSize /\ Available' = Available
      BY <2>1, <2>2
    <3>2. \A i \in 1..Available : buffer[bufferStart + i - 1] = stream.bytes[totalSize + i]
      BY <2>2 DEF IInv, BufferMirrorsStream
    <3>3. readPos = totalSize + Available + got /\ totalSize \in Nat
      BY DEF IInv, BufferMirrorsStream, TypeOK
    <3>4. \A i \in 1..Available : buffer'[bufferStart' + i - 1] = stream.bytes[totalSize + i]
      BY <2>1, <3>2
    <3>5. Available' + got' = Available /\ readPos' = totalSize' + Available' + got'
      BY <2>2, <3>1, <3>3
    <3> HIDE DEF CallNext
    <3> QED BY <3>1, <3>4, <3>5, Zenon DEF BufferMirrorsStream
  <2>6. ReadState'
    BY <1>1, <2>1, <2>2, Sizes DEF IInv, ReadState, MustFill
  <2>7. CutState'
    BY <2>1 DEF IInv, CutState, Promise!Position, Promise!EndOf
  <2> QED BY <2>3, <2>4, <2>5, <2>6, <2>7 DEF IInv
<1>2. CASE ~MustFill
  <2>1. pc' = "cutting" /\ UNCHANGED bufferVars
    BY <1>2
  <2>2. TypeOK' /\ ReadFitsBuffer' /\ BufferMirrorsStream'
    BY <2>1 DEF IInv, TypeOK, ReadFitsBuffer, BufferMirrorsStream, Available
  <2>3. ReadState'
    BY <1>2, <2>1, Sizes DEF IInv, ReadState, MustFill, Available, TypeOK
  <2>4. CutState'
    BY <2>1 DEF IInv, CutState, Promise!Position, Promise!EndOf, Available
  <2> QED BY <2>2, <2>3, <2>4 DEF IInv
<1> QED BY <1>1, <1>2

(* A read puts the next bytes of the stream behind those of the window. *)
LEMMA CopyInMirrors ==
  ASSUME IInv, pc = "filling", NEW k \in Nat, CopyIn(k)
  PROVE  /\ buffer' \in [0..(BufferSize - 1) -> Byte]
         /\ readPos' = readPos + k /\ readPos' \in 0..Len(stream.bytes)
         /\ \A i \in 1..(Available + got + k) :
              buffer'[bufferStart + i - 1] = stream.bytes[totalSize + i]
<1> USE Sizes, StreamType
<1>1. /\ stream \in Streams /\ readPos \in Nat /\ got \in Nat
      /\ bufferStart \in Nat /\ bufferEnd \in Nat /\ bufferStart <= bufferEnd
      /\ totalSize \in Nat /\ Available \in Nat /\ Needed \in Int
      /\ buffer \in [0..(BufferSize - 1) -> Byte] /\ BufferSize \in Nat
  BY SMTT(30) DEF IInv, TypeOK, Available, Needed, BufferSize
<1>2. /\ k <= Needed - got /\ readPos + k <= Len(stream.bytes)
      /\ readPos' = readPos + k
      /\ bufferEnd + Needed <= BufferSize
      /\ readPos = totalSize + Available + got
      /\ bufferEnd = bufferStart + Available
  BY <1>1 DEF CopyIn, IInv, ReadFitsBuffer, BufferMirrorsStream, Available
<1>3. buffer' = [i \in 0..(BufferSize - 1) |->
                   IF i \in (bufferEnd + got)..(bufferEnd + got + k - 1)
                   THEN stream.bytes[readPos + i - (bufferEnd + got) + 1]
                   ELSE buffer[i]]
  BY <1>1 DEF CopyIn
<1>4. buffer' \in [0..(BufferSize - 1) -> Byte]
  <2> SUFFICES ASSUME NEW i \in 0..(BufferSize - 1),
                      i \in (bufferEnd + got)..(bufferEnd + got + k - 1)
               PROVE  stream.bytes[readPos + i - (bufferEnd + got) + 1] \in Byte
    BY <1>1, <1>3
  <2>1. readPos + i - (bufferEnd + got) + 1 \in 1..Len(stream.bytes)
    BY <1>1, <1>2
  <2> QED BY <2>1, <1>1
<1>5. ASSUME NEW i \in 1..(Available + got + k)
      PROVE  buffer'[bufferStart + i - 1] = stream.bytes[totalSize + i]
  <2>1. bufferStart + i - 1 \in 0..(BufferSize - 1)
    BY <1>1, <1>2
  <2>2. CASE i <= Available + got
    <3>1. buffer'[bufferStart + i - 1] = buffer[bufferStart + i - 1]
      BY <1>1, <1>2, <1>3, <2>1, <2>2
    <3>2. i \in 1..(Available + got)
      BY <2>2, <1>1
    <3>3. buffer[bufferStart + i - 1] = stream.bytes[totalSize + i]
      BY <3>2 DEF IInv, BufferMirrorsStream
    <3> QED BY <3>1, <3>3
  <2>3. CASE i > Available + got
    <3>1. bufferStart + i - 1 \in (bufferEnd + got)..(bufferEnd + got + k - 1)
      BY <1>1, <1>2, <2>3
    <3>2. readPos + (bufferStart + i - 1) - (bufferEnd + got) + 1 = totalSize + i
      BY <1>1, <1>2
    <3>3. buffer'[bufferStart + i - 1]
            = stream.bytes[readPos + (bufferStart + i - 1) - (bufferEnd + got) + 1]
      BY <3>1, <2>1, <1>3
    <3> QED BY <3>2, <3>3
  <2> QED BY <2>2, <2>3, <1>1
<1> QED BY <1>1, <1>2, <1>4, <1>5

(* A read that does not end io.ReadFull extends the window. *)
LEMMA ReadMoreInv ==
  ASSUME IInv, NEW k \in Nat, ReadMore(k)
  PROVE  IInv'
<1> USE DEF ReadMore, statusVars, summaryVars
<1>1. /\ buffer' \in [0..(BufferSize - 1) -> Byte]
      /\ readPos' = readPos + k /\ readPos' \in 0..Len(stream.bytes)
      /\ \A i \in 1..(Available + got + k) :
           buffer'[bufferStart + i - 1] = stream.bytes[totalSize + i]
  BY CopyInMirrors
<1>2. /\ Available' = Available /\ Needed' = Needed /\ got' = got + k
      /\ Available \in Nat /\ got' < Needed /\ Needed <= MaximumSize
      /\ got \in Nat /\ Needed \in Int
  BY Sizes DEF IInv, TypeOK, Available, Needed, BufferSize
<1>3. TypeOK'
  <2>1. got' \in 0..MaximumSize
    BY <1>2, Sizes
  <2> QED BY <1>1, <2>1 DEF IInv, TypeOK
<1>4. ReadFitsBuffer'
  BY <1>2 DEF IInv, ReadFitsBuffer
<1>5. BufferMirrorsStream'
  <2>1. readPos' = totalSize' + Available' + got'
    BY <1>1, <1>2 DEF IInv, TypeOK, BufferMirrorsStream
  <2> QED BY <2>1, <1>1, <1>2 DEF IInv, TypeOK, BufferMirrorsStream
<1>6. ReadState' /\ CutState'
  BY <1>2 DEF IInv, ReadState, CutState, Promise!Position, Promise!EndOf
<1> QED BY <1>3, <1>4, <1>5, <1>6 DEF IInv

(* The read that ends io.ReadFull fills the window or ends the stream. *)
LEMMA ReadLastInv ==
  ASSUME IInv, NEW k \in Nat, ReadLast(k)
  PROVE  IInv'
<1> USE DEF ReadLast, summaryVars
<1>1. /\ buffer' \in [0..(BufferSize - 1) -> Byte]
      /\ readPos' = readPos + k /\ readPos' \in 0..Len(stream.bytes)
      /\ \A i \in 1..(Available + got + k) :
           buffer'[bufferStart + i - 1] = stream.bytes[totalSize + i]
  BY CopyInMirrors
<1>2. /\ Available \in Nat /\ got \in Nat /\ Available + got + k <= MaximumSize
      /\ Available' = Available + got + k /\ got' = 0
      /\ Needed = MaximumSize - Available /\ bufferEnd + Needed <= BufferSize
      /\ bufferEnd' = bufferEnd + got + k
  BY Sizes DEF IInv, TypeOK, Available, Needed, BufferSize, CopyIn, ReadFitsBuffer
<1>3. /\ stream \in Streams /\ stream.end \in {"EOF", "ErrUnexpectedEOF", "failure"}
      /\ ~readEOF /\ readError = "nil" /\ ~finished
  BY StreamType DEF IInv, TypeOK, ReadState
<1>4. \/ /\ got + k = Needed
         /\ ~readEOF' /\ readError' = "nil"
      \/ /\ readPos' = Len(stream.bytes) /\ stream.end # "failure"
         /\ readEOF' /\ readError' = "nil"
      \/ /\ readPos' = Len(stream.bytes) /\ stream.end = "failure"
         /\ ~readEOF' /\ readError' = "failure"
  BY <1>1, <1>3 DEF ReadFullError
<1>5. TypeOK'
  <2>1. readEOF' \in BOOLEAN /\ readError' \in {"nil", "failure"}
    <3> DEFINE err == ReadFullError(got + k, stream.end)
    <3>1. readEOF' = (err \in {"EOF", "ErrUnexpectedEOF"})
      OBVIOUS
    <3>2. readError' = IF err = "failure" THEN err ELSE "nil"
      OBVIOUS
    <3> HIDE DEF err
    <3> QED BY <3>1, <3>2
  <2>2. bufferEnd' \in 0..BufferSize /\ bufferStart' \in 0..bufferEnd' /\ got' \in 0..MaximumSize
    BY <1>2, Sizes DEF IInv, TypeOK, BufferSize
  <2> QED BY <1>1, <2>1, <2>2 DEF IInv, TypeOK
<1>6. ReadFitsBuffer'
  BY DEF ReadFitsBuffer
<1>7. BufferMirrorsStream'
  BY <1>1, <1>2 DEF IInv, TypeOK, BufferMirrorsStream
<1>8. ReadState'
  BY <1>2, <1>3, <1>4, Sizes DEF ReadState
<1>9. CutState'
  BY <1>3 DEF IInv, CutState, Promise!Position, Promise!EndOf
<1> QED BY <1>5, <1>6, <1>7, <1>8, <1>9 DEF IInv

(* What is in the window when Next cuts: the bytes of the stream that      *)
(* follow those already cut.                                               *)
LEMMA WindowIsStream ==
  ASSUME IInv, pc = "cutting"
  PROVE  /\ Window \in Seq(Byte) /\ Len(Window) = Available
         /\ totalSize + Available = readPos /\ readPos <= Len(stream.bytes)
         /\ Window = SubSeq(stream.bytes, totalSize + 1, totalSize + Available)
<1>1. /\ stream \in Streams /\ totalSize \in Nat /\ Available \in Nat
      /\ got = 0 /\ readPos \in 0..Len(stream.bytes)
  BY DEF IInv, TypeOK, ReadState, Available
<1>2. /\ stream.bytes \in Seq(Byte) /\ Len(stream.bytes) \in Nat
      /\ \A i \in 1..Len(stream.bytes) : stream.bytes[i] \in Byte
  BY <1>1, StreamType
<1>3. /\ totalSize + Available = readPos
      /\ \A i \in 1..Available : buffer[bufferStart + i - 1] = stream.bytes[totalSize + i]
  BY <1>1 DEF IInv, BufferMirrorsStream
<1> DEFINE slice == SubSeq(stream.bytes, totalSize + 1, totalSize + Available)
<1>4. /\ slice \in Seq(Byte) /\ Len(slice) = Available
      /\ \A i \in 1..Available : slice[i] = stream.bytes[totalSize + i]
  <2>1. \A i \in (totalSize + 1)..(totalSize + Available) : stream.bytes[i] \in Byte
    BY <1>1, <1>2, <1>3
  <2> QED BY <2>1, <1>1, SubSeqProperties
<1>5. slice = [i \in 1..Available |-> slice[i]]
  BY <1>4, LenProperties
<1>6. Window = slice
  BY <1>3, <1>4, <1>5 DEF Window
<1> QED BY <1>1, <1>3, <1>4, <1>6

(* The chunk that Next cuts is the one that the rest of the stream starts  *)
(* with.                                                                   *)
LEMMA CutIsCanonical ==
  ASSUME IInv, NextChunk
  PROVE  /\ FindChunkLength(Window) \in 1..Available
         /\ FindChunkLength(Window)
              = FindChunkLength(SubSeq(stream.bytes, totalSize + 1, Len(stream.bytes)))
         /\ SubSeq(Window, 1, FindChunkLength(Window))
              = SubSeq(stream.bytes, totalSize + 1, totalSize + FindChunkLength(Window))
<1> DEFINE bytes == stream.bytes
           rest  == SubSeq(bytes, totalSize + 1, Len(bytes))
           cut   == FindChunkLength(Window)
<1>1. /\ pc = "cutting" /\ Available > 0
      /\ readError # "nil" => Available >= MaximumSize
  BY DEF NextChunk
<1>2. /\ Window \in Seq(Byte) /\ Len(Window) = Available
      /\ totalSize + Available = readPos /\ readPos <= Len(bytes)
      /\ Window = SubSeq(bytes, totalSize + 1, totalSize + Available)
  BY <1>1, WindowIsStream
<1>3. /\ bytes \in Seq(Byte) /\ Len(bytes) \in Nat /\ totalSize \in Nat /\ Available \in Nat
      /\ \A i \in 1..Len(bytes) : bytes[i] \in Byte
  BY StreamType DEF IInv, TypeOK, Available
<1>4. rest \in Seq(Byte) /\ Len(rest) = Len(bytes) - totalSize
  <2>1. \A i \in (totalSize + 1)..Len(bytes) : bytes[i] \in Byte
    BY <1>3
  <2> QED BY <2>1, <1>1, <1>2, <1>3, SubSeqProperties
<1>5. cut \in 1..Available
  BY <1>1, <1>2, <1>3, FindChunkLengthRange
<1>6. cut = FindChunkLength(rest)
  <2>1. Window = SubSeq(rest, 1, Available)
    <3>1. /\ totalSize + 1 \in 1..Len(bytes) /\ Len(bytes) \in 1..Len(bytes)
          /\ 1 \in 1..(Len(bytes) - (totalSize + 1) + 1)
          /\ Available \in 1..(Len(bytes) - (totalSize + 1) + 1)
      BY <1>1, <1>2, <1>3
    <3>2. SubSeq(rest, 1, Available) = SubSeq(bytes, (totalSize + 1) + 1 - 1, (totalSize + 1) + Available - 1)
      BY <3>1, <1>3, SubSeqOfSubSeq
    <3>3. (totalSize + 1) + 1 - 1 = totalSize + 1 /\ (totalSize + 1) + Available - 1 = totalSize + Available
      BY <1>3
    <3> QED BY <3>2, <3>3, <1>2
  <2>2. Available >= MaximumSize \/ Available = Len(rest)
    BY <1>1, <1>2, <1>3, <1>4, Sizes DEF IInv, ReadState
  <2>3. Available \in 0..Len(rest)
    BY <1>2, <1>3, <1>4
  <2> HIDE DEF rest
  <2> QED BY <2>1, <2>2, <2>3, <1>4, WindowDetermines
<1>7. SubSeq(Window, 1, cut) = SubSeq(bytes, totalSize + 1, totalSize + cut)
  <2> HIDE DEF cut
  <2>1. /\ totalSize + 1 \in 1..Len(bytes) /\ totalSize + Available \in 1..Len(bytes)
        /\ 1 \in 1..((totalSize + Available) - (totalSize + 1) + 1)
        /\ cut \in 1..((totalSize + Available) - (totalSize + 1) + 1)
    BY <1>1, <1>2, <1>3, <1>5
  <2>2. SubSeq(SubSeq(bytes, totalSize + 1, totalSize + Available), 1, cut)
          = SubSeq(bytes, (totalSize + 1) + 1 - 1, (totalSize + 1) + cut - 1)
    BY <2>1, <1>3, SubSeqOfSubSeq
  <2>3. (totalSize + 1) + 1 - 1 = totalSize + 1 /\ (totalSize + 1) + cut - 1 = totalSize + cut
    BY <1>3, <1>5
  <2> QED BY <2>2, <2>3, <1>2
<1> QED BY <1>5, <1>6, <1>7

(* Next returns the error of the reader. *)
LEMMA NextFailsInv ==
  ASSUME IInv, NextFails
  PROVE  IInv'
<1> USE DEF NextFails, readerVars, bufferVars, summaryVars
<1>1. TypeOK' /\ ReadFitsBuffer' /\ BufferMirrorsStream'
  BY DEF IInv, TypeOK, ReadFitsBuffer, BufferMirrorsStream, Available
<1>2. ReadState' /\ CutState'
  BY DEF IInv, ReadState, CutState, Available, Promise!Position, Promise!EndOf
<1> QED BY <1>1, <1>2 DEF IInv

(* Next returns io.EOF, and the summary is complete. *)
LEMMA NextEndsInv ==
  ASSUME IInv, NextEnds
  PROVE  IInv'
<1> USE DEF NextEnds, readerVars, bufferVars
<1>1. TypeOK' /\ ReadFitsBuffer' /\ BufferMirrorsStream'
  BY DEF IInv, TypeOK, ReadFitsBuffer, BufferMirrorsStream, Available, Digest
<1>2. ReadState'
  BY DEF IInv, ReadState, Available
<1>3. readEOF
  BY Sizes DEF IInv, ReadState
<1>4. CutState'
  BY <1>3 DEF IInv, CutState, Available, Promise!Position, Promise!EndOf, Digest
<1> QED BY <1>1, <1>2, <1>4 DEF IInv

(* Next cuts a chunk off the window. *)
LEMMA NextChunkInv ==
  ASSUME IInv, NextChunk
  PROVE  IInv'
<1> DEFINE cut  == FindChunkLength(Window)
           data == SubSeq(Window, 1, cut)
           chunk == [offset |-> totalSize, length |-> cut, digest |-> Digest(data)]
<1>1. /\ cut \in 1..Available
      /\ data = SubSeq(stream.bytes, totalSize + 1, totalSize + cut)
  BY CutIsCanonical
<1>2. /\ pc = "cutting" /\ pc' = "idle"
      /\ chunks' = Append(chunks, chunk)
      /\ bodyHasher' = bodyHasher \o data
      /\ bufferStart' = bufferStart + cut /\ totalSize' = totalSize + cut
      /\ chunkCount' = chunkCount + 1
      /\ readPos' = readPos /\ stream' = stream /\ buffer' = buffer /\ bufferEnd' = bufferEnd
      /\ readEOF' = readEOF /\ readError' = readError /\ finished' = finished
      /\ bodyDigest' = bodyDigest /\ got' = got /\ opened' = opened
  BY DEF NextChunk, readerVars, statusVars
<1>3. /\ Window \in Seq(Byte) /\ Len(Window) = Available
      /\ totalSize + Available = readPos /\ readPos <= Len(stream.bytes)
  BY <1>2, WindowIsStream
<1> HIDE DEF cut
<1>4. /\ stream \in Streams /\ stream.bytes \in Seq(Byte) /\ Len(stream.bytes) \in Nat
      /\ totalSize \in Nat /\ Available \in Nat /\ got = 0
      /\ bufferStart \in 0..bufferEnd /\ bufferEnd \in 0..BufferSize /\ BufferSize \in Nat
      /\ ~finished
  BY <1>2, StreamType, Sizes, SMTT(30) DEF IInv, TypeOK, ReadState, Available, BufferSize
<1>5. data \in Seq(Byte)
  <2>1. \A i \in 1..cut : Window[i] \in Byte
    BY <1>1, <1>3, ElementOfSeq
  <2> QED BY <2>1, <1>1, SubSeqProperties
<1>6. chunk \in Promise!Chunk
  BY <1>1, <1>4, <1>5 DEF Promise!Chunk, Digest
<1>7. /\ chunks \in Seq(Promise!Chunk) /\ Len(chunks) \in Nat
      /\ chunks' \in Seq(Promise!Chunk) /\ chunks' # <<>>
      /\ Len(chunks') = Len(chunks) + 1 /\ chunks'[Len(chunks')] = chunk
  <2> HIDE DEF chunk
  <2>1. chunks \in Seq(Promise!Chunk)
    BY DEF IInv, TypeOK
  <2> QED BY <2>1, <1>2, <1>6, AppendProperties, LenProperties, SMTT(30)
<1>8. Available' = Available - cut
  BY <1>2, <1>4, <1>1 DEF Available
<1>9. TypeOK'
  <2>1. bufferStart' \in 0..bufferEnd' /\ totalSize' \in Nat /\ chunkCount' \in Nat
    BY <1>1, <1>2, <1>4 DEF IInv, TypeOK, Available
  <2>2. bodyHasher' \in Seq(Byte)
    BY <1>2, <1>5, ConcatProperties DEF IInv, TypeOK
  <2> QED BY <1>2, <1>7, <2>1, <2>2 DEF IInv, TypeOK
<1>10. ReadFitsBuffer'
  BY <1>2 DEF ReadFitsBuffer
<1>11. BufferMirrorsStream'
  <2>1. readPos' = totalSize' + Available' + got'
    BY <1>1, <1>2, <1>3, <1>4, <1>8
  <2>2. ASSUME NEW i \in 1..(Available' + got')
        PROVE  buffer'[bufferStart' + i - 1] = stream'.bytes[totalSize' + i]
    <3>1. cut + i \in 1..(Available + got)
      BY <1>1, <1>2, <1>4, <1>8
    <3>2. buffer[bufferStart + (cut + i) - 1] = stream.bytes[totalSize + (cut + i)]
      BY <3>1 DEF IInv, BufferMirrorsStream
    <3>3. /\ bufferStart + (cut + i) - 1 = bufferStart' + i - 1
          /\ totalSize + (cut + i) = totalSize' + i
      BY <1>1, <1>2, <1>4, <1>8, <3>1
    <3> QED BY <3>2, <3>3, <1>2
  <2> QED BY <2>1, <2>2 DEF BufferMirrorsStream
<1>12. ReadState'
  BY <1>1, <1>2, <1>4, <1>8, Sizes DEF IInv, ReadState
<1>13. CutState'
  <2>1. bodyHasher' = SubSeq(stream'.bytes, 1, totalSize')
    <3>1. /\ 1 \in 1..(Len(stream.bytes) + 1)
          /\ totalSize \in (1 - 1)..Len(stream.bytes)
          /\ totalSize + cut \in totalSize..Len(stream.bytes)
      BY <1>1, <1>3, <1>4
    <3>2. SubSeq(stream.bytes, 1, totalSize)
            \o SubSeq(stream.bytes, totalSize + 1, totalSize + cut)
              = SubSeq(stream.bytes, 1, totalSize + cut)
      BY <3>1, <1>4, ConcatAdjacentSubSeq
    <3> QED BY <3>2, <1>1, <1>2 DEF IInv, CutState
  <2>2. chunkCount' = Len(chunks')
    BY <1>2, <1>7 DEF IInv, CutState
  <2>3. Promise!Position' = totalSize'
    BY <1>2, <1>7 DEF Promise!Position, Promise!EndOf
  <2> QED BY <2>1, <2>2, <2>3, <1>2, <1>4 DEF CutState
<1> QED BY <1>9, <1>10, <1>11, <1>12, <1>13 DEF IInv

(* Every step of the chunker keeps IInv. *)
LEMMA StepInv == IInv /\ [Next]_vars => IInv'
<1> SUFFICES ASSUME IInv, [Next]_vars PROVE IInv'
  OBVIOUS
<1>1. CASE CallNext
  BY <1>1, CallNextInv
<1>2. CASE Read
  <2>1. PICK k \in 0..Needed : ReadMore(k) \/ ReadLast(k)
    BY <1>2 DEF Read
  <2>2. k \in Nat
    BY Sizes DEF IInv, TypeOK, Needed, Available, BufferSize
  <2> QED BY <2>1, <2>2, ReadMoreInv, ReadLastInv
<1>3. CASE NextFails
  BY <1>3, NextFailsInv
<1>4. CASE NextEnds
  BY <1>4, NextEndsInv
<1>5. CASE NextChunk
  BY <1>5, NextChunkInv
<1>6. CASE \E s \in Streams : Reset(s)
  BY <1>6, ResetInv
<1>7. CASE CallNextFinished \/ UNCHANGED vars
  <2>1. UNCHANGED vars
    BY <1>7 DEF CallNextFinished
  <2>2. TypeOK' /\ ReadFitsBuffer' /\ BufferMirrorsStream'
    BY <2>1 DEF vars, IInv, TypeOK, ReadFitsBuffer, BufferMirrorsStream, Available, Needed
  <2>3. ReadState' /\ CutState'
    BY <2>1 DEF vars, IInv, ReadState, CutState, Available, Promise!Position, Promise!EndOf
  <2> QED BY <2>2, <2>3 DEF IInv
<1> QED BY <1>1, <1>2, <1>3, <1>4, <1>5, <1>6, <1>7 DEF Next

(* IInv is an invariant of the chunker. *)
LEMMA Invariant == Spec => []IInv
<1> QED BY InitInv, StepInv, PTL DEF Spec

-----------------------------------------------------------------------------
(* Every state of the chunker has its type: in particular, the window      *)
(* stays inside the buffer.                                                *)
THEOREM TypeCorrect == Spec => []TypeOK
<1>1. IInv => TypeOK
  BY DEF IInv
<1> QED BY <1>1, Invariant, PTL

(* fillBuffer never asks for more than the buffer has room for. *)
THEOREM ReadsFit == Spec => []ReadFitsBuffer
<1>1. IInv => ReadFitsBuffer
  BY DEF IInv
<1> QED BY <1>1, Invariant, PTL

(* The buffer mirrors the stream, whatever reads, moves, cuts and resets   *)
(* came before.                                                            *)
THEOREM BufferMirrors == Spec => []BufferMirrorsStream
<1>1. IInv => BufferMirrorsStream
  BY DEF IInv
<1> QED BY <1>1, Invariant, PTL

(* A summary that is said to be complete is the summary of a whole stream  *)
(* that did not fail.                                                      *)
THEOREM SummaryCorrect == Spec => []SummarySound
<1>1. IInv => SummarySound
  <2> SUFFICES ASSUME IInv, Status = "complete" PROVE SummarySound
    BY DEF SummarySound
  <2>1. finished /\ readError = "nil"
    BY DEF Status
  <2>2. /\ readEOF /\ Available = 0 /\ got = 0 /\ readPos = Len(stream.bytes)
        /\ stream.end # "failure" /\ totalSize \in Nat /\ stream \in Streams
        /\ bodyDigest = Digest(bodyHasher) /\ pc = "idle"
    BY <2>1 DEF IInv, TypeOK, ReadState, CutState
  <2>3. totalSize = Len(stream.bytes)
    BY <2>2 DEF IInv, BufferMirrorsStream
  <2>4. bodyHasher = stream.bytes
    BY <2>2, <2>3, StreamType, SubSeqFull DEF IInv, CutState
  <2> QED BY <2>2, <2>3, <2>4 DEF SummarySound, IInv, CutState
<1> QED BY <1>1, Invariant, PTL

-----------------------------------------------------------------------------
(* Refinement.  The rule that the promise is stated with is the rule that  *)
(* the chunker evaluates.                                                  *)
LEMMA SameRule ==
  ASSUME NEW data
  PROVE  Promise!FindChunkLength(data) = FindChunkLength(data)
<1>1. Promise!Limit(data) = Limit(data)
  BY DEF Promise!Limit, Limit
<1>0. Promise!Pow2 = Pow2 /\ Promise!WordSize = WordSize
  BY DEF Promise!Pow2, Pow2, Promise!WordSize, WordSize
<1>2. Promise!MaskSmall = MaskSmall /\ Promise!MaskLarge = MaskLarge
  BY <1>0 DEF Promise!MaskSmall, MaskSmall, Promise!MaskLarge, MaskLarge, Promise!MaskForBits,
         MaskForBits, Promise!AverageBits, AverageBits,
         Promise!NormalizationLevel, NormalizationLevel
<1>3. ASSUME NEW window PROVE Promise!RollingHash(window) = RollingHash(window)
  BY <1>0 DEF Promise!RollingHash, RollingHash
<1>4. ASSUME NEW n PROVE Promise!IsBoundary(data, n) <=> IsBoundary(data, n)
  BY <1>2, <1>3 DEF Promise!IsBoundary, IsBoundary
<1> DEFINE theirs == {n \in (MinimumSize + 1)..Promise!Limit(data) : Promise!IsBoundary(data, n)}
           ours   == {n \in (MinimumSize + 1)..Limit(data) : IsBoundary(data, n)}
<1>5. Promise!FindChunkLength(data)
        = IF theirs = {} THEN Promise!Limit(data)
          ELSE CHOOSE n \in theirs : \A m \in theirs : n <= m
  BY Zenon DEF Promise!FindChunkLength
<1>6. FindChunkLength(data)
        = IF ours = {} THEN Limit(data) ELSE CHOOSE n \in ours : \A m \in ours : n <= m
  BY Zenon DEF FindChunkLength
<1>7. theirs = ours
  BY <1>1, <1>4
<1> HIDE DEF theirs, ours
<1> QED BY <1>1, <1>5, <1>6, <1>7, Zenon

(* Cutting a chunk is a step of the promise. *)
LEMMA NextChunkEmits ==
  ASSUME IInv, NextChunk
  PROVE  Promise!Emit
<1> DEFINE cut == FindChunkLength(Window)
<1>1. /\ cut \in 1..Available
      /\ cut = Promise!FindChunkLength(Promise!Rest(stream, totalSize))
      /\ SubSeq(Window, 1, cut) = Promise!Slice(stream, totalSize, cut)
  BY CutIsCanonical, SameRule DEF Promise!Rest, Promise!Slice
<1>2. /\ pc = "cutting" /\ Available > 0 /\ (readError # "nil" => Available >= MaximumSize)
      /\ chunks' = Append(chunks, [offset |-> totalSize, length |-> cut,
                                   digest |-> Digest(SubSeq(Window, 1, cut))])
      /\ stream' = stream /\ finished' = finished /\ readError' = readError
  BY DEF NextChunk, readerVars, statusVars
<1>3. /\ totalSize + Available = readPos /\ readPos <= Len(stream.bytes)
      /\ totalSize \in Nat /\ Available \in Nat /\ Len(stream.bytes) \in Nat
      /\ Promise!Position = totalSize /\ ~finished
  BY <1>2, WindowIsStream, StreamType DEF IInv, TypeOK, ReadState, CutState, Available
<1> HIDE DEF cut
<1>4. Promise!ChunkAt(stream, totalSize)
        = [offset |-> totalSize, length |-> cut, digest |-> Digest(SubSeq(Window, 1, cut))]
  BY <1>1 DEF Promise!ChunkAt, Promise!Digest, Digest
<1>5. stream.end = "failure" => Len(stream.bytes) - totalSize >= MaximumSize
  BY <1>2, <1>3, Sizes DEF IInv, ReadState
<1>6. Status = "open" /\ Status' = Status
  BY <1>2, <1>3 DEF Status
<1> QED BY <1>2, <1>3, <1>4, <1>5, <1>6 DEF Promise!Emit

(* The chunker implements ChunkStream: chunks, completion and failure are  *)
(* functions of the bytes and the end of the stream, whatever the reads.   *)
THEOREM Refinement == Spec => PromiseKept
<1>1. Init => Promise!Init
  BY DEF Init, Promise!Init, Status
<1>2. IInv /\ [Next]_vars => [Promise!Next]_(Promise!vars)
  <2> SUFFICES ASSUME IInv, [Next]_vars
               PROVE  Promise!Next \/ UNCHANGED Promise!vars
    OBVIOUS
  <2>1. CASE CallNext \/ CallNextFinished \/ UNCHANGED vars
    BY <2>1 DEF CallNext, CallNextFinished, vars, readerVars, statusVars, Promise!vars, Status
  <2>2. CASE Read
    <3>1. stream' = stream /\ chunks' = chunks /\ finished' = finished /\ pc = "filling"
      BY <2>2 DEF Read, ReadMore, ReadLast, statusVars
    <3>2. ~finished
      BY <3>1 DEF IInv, ReadState
    <3> QED BY <3>1, <3>2 DEF Promise!vars, Status
  <2>3. CASE NextFails
    <3>1. /\ pc = "cutting" /\ ~finished /\ got = 0 /\ Available \in Nat /\ Available < MaximumSize
          /\ stream.end = "failure" /\ readPos = Len(stream.bytes)
          /\ readPos = totalSize + Available + got /\ totalSize \in Nat
          /\ Promise!Position = totalSize
      BY <2>3 DEF NextFails, IInv, TypeOK, ReadState, CutState, BufferMirrorsStream, Available
    <3>2. Len(stream.bytes) - Promise!Position < MaximumSize
      BY <3>1, Sizes
    <3>3. Status = "open" /\ Status' = "failed" /\ UNCHANGED <<stream, chunks>>
      BY <2>3, <3>1 DEF NextFails, Status, readerVars
    <3>4. Promise!Fail
      BY <3>1, <3>2, <3>3 DEF Promise!Fail
    <3> QED BY <3>4 DEF Promise!Next
  <2>4. CASE NextEnds
    <3>1. /\ pc = "cutting" /\ ~finished /\ got = 0 /\ Available = 0 /\ readEOF
          /\ stream.end # "failure" /\ readPos = Len(stream.bytes)
          /\ readPos = totalSize + Available + got /\ totalSize \in Nat
          /\ Promise!Position = totalSize
      BY <2>4, Sizes DEF NextEnds, IInv, TypeOK, ReadState, CutState, BufferMirrorsStream
    <3>2. Status = "open" /\ Status' = "complete" /\ UNCHANGED <<stream, chunks>>
      BY <2>4, <3>1 DEF NextEnds, Status, readerVars
    <3>3. Promise!Complete
      BY <3>1, <3>2 DEF Promise!Complete
    <3> QED BY <3>3 DEF Promise!Next
  <2>5. CASE NextChunk
    BY <2>5, NextChunkEmits DEF Promise!Next
  <2>6. CASE \E s \in Streams : Reset(s)
    <3>1. Promise!Reopen
      BY <2>6 DEF Reset, ClearStream, Status, Promise!Reopen
    <3> QED BY <3>1 DEF Promise!Next
  <2> QED BY <2>1, <2>2, <2>3, <2>4, <2>5, <2>6 DEF Next
<1> QED BY <1>1, <1>2, Invariant, PTL DEF Spec, PromiseKept, Promise!Spec

-----------------------------------------------------------------------------
(* What the measurement store is given.  The ledger of the store takes the *)
(* bodies it records as they are; here is where they come from.            *)
Ledger == INSTANCE DedupLedger
            WITH Goroutines <- {}, Bodies <- {},
                 log <- <<>>, returned <- <<>>, observed <- <<>>

Ends == [i \in 0..Len(chunks) |-> IF i = 0 THEN 0 ELSE Promise!EndOf(chunks[i])]

(* measureRequestBody: the chunks of a stream as the store identifies them. *)
MeasuredBody(name) ==
  [bytes  |-> totalSize,
   chunks |-> [i \in 1..Len(chunks) |-> [digest |-> name[chunks[i].digest],
                                         length |-> chunks[i].length]],
   ends   |-> Ends]

(* Each chunk begins where the one before it ended, and its digest is that *)
(* of the bytes of the stream between its ends.                            *)
ChunksTile ==
  \A i \in 1..Len(chunks) :
    /\ chunks[i].offset = Ends[i - 1]
    /\ chunks[i].length > 0
    /\ chunks[i].digest = Digest(SubSeq(stream.bytes, Ends[i - 1] + 1, Ends[i]))

LEMMA ChunksTileKept == IInv /\ ChunksTile /\ [Next]_vars => ChunksTile'
<1> SUFFICES ASSUME IInv, ChunksTile, [Next]_vars PROVE ChunksTile'
  OBVIOUS
<1>1. CASE UNCHANGED <<stream, chunks>>
  BY <1>1 DEF ChunksTile, Ends, Promise!EndOf, Digest
<1>2. CASE \E s \in Streams : Reset(s)
  <2>1. chunks' = <<>>
    BY <1>2 DEF Reset, ClearStream
  <2>2. Len(chunks') = 0
    BY <2>1
  <2> QED BY <2>2 DEF ChunksTile
<1>3. CASE NextChunk
  <2> DEFINE cut == FindChunkLength(Window)
             new == [offset |-> totalSize, length |-> cut,
                     digest |-> Digest(SubSeq(Window, 1, cut))]
             last == Len(chunks)
  <2>1. /\ cut \in 1..Available
        /\ SubSeq(Window, 1, cut) = SubSeq(stream.bytes, totalSize + 1, totalSize + cut)
    BY <1>3, CutIsCanonical
  <2>2. chunks' = Append(chunks, new) /\ stream' = stream
    BY <1>3 DEF NextChunk, readerVars
  <2>3. chunks \in Seq(Promise!Chunk) /\ last \in Nat /\ totalSize \in Nat /\ Available \in Nat
    BY LenProperties DEF IInv, TypeOK, Available
  <2>4. Ends[last] = totalSize
    <3>1. Promise!Position = totalSize
      BY DEF IInv, CutState
    <3>2. last = 0 <=> chunks = <<>>
      BY <2>3, EmptySeq
    <3> QED BY <2>3, <3>1, <3>2 DEF Ends, Promise!Position
  <2> HIDE DEF cut
  <2>5. /\ Len(chunks') = last + 1 /\ chunks'[last + 1] = new
        /\ \A i \in 1..last : chunks'[i] = chunks[i]
    BY <2>2, <2>3, AppendProperties
  <2> HIDE DEF last, new
  <2>6. /\ \A i \in 0..last : Ends'[i] = Ends[i]
        /\ Ends'[last + 1] = totalSize + cut
    BY <2>1, <2>3, <2>5 DEF Ends, Promise!EndOf, last, new
  <2>7. ASSUME NEW i \in 1..last
        PROVE  /\ chunks'[i].offset = Ends'[i - 1]
               /\ chunks'[i].length > 0
               /\ chunks'[i].digest
                    = Digest(SubSeq(stream'.bytes, Ends'[i - 1] + 1, Ends'[i]))
    <3>1. i - 1 \in 0..last /\ i \in 0..last /\ i \in 1..Len(chunks)
      BY <2>3 DEF last
    <3>2. chunks'[i] = chunks[i] /\ Ends'[i - 1] = Ends[i - 1] /\ Ends'[i] = Ends[i]
      BY <2>5, <2>6, <3>1
    <3> QED BY <2>2, <3>1, <3>2 DEF ChunksTile
  <2>8. /\ new.offset = Ends'[last]
        /\ new.length > 0
        /\ new.digest = Digest(SubSeq(stream'.bytes, Ends'[last] + 1, Ends'[last + 1]))
    <3>1. Ends'[last] = totalSize
      BY <2>3, <2>4, <2>6 DEF last
    <3>2. new.offset = totalSize /\ new.length = cut /\ cut > 0
      BY <2>1, <2>3 DEF new
    <3>3. new.digest = Digest(SubSeq(stream.bytes, totalSize + 1, totalSize + cut))
      BY <2>1 DEF new
    <3>4. Digest(SubSeq(stream.bytes, totalSize + 1, totalSize + cut))
            = Digest(SubSeq(stream'.bytes, Ends'[last] + 1, Ends'[last + 1]))
      BY <2>2, <2>6, <3>1
    <3> QED BY <3>1, <3>2, <3>3, <3>4
  <2>9. \A i \in 1..Len(chunks') : i \in 1..last \/ (i = last + 1 /\ i - 1 = last)
    BY <2>3, <2>5 DEF last
  <2> QED BY <2>5, <2>7, <2>8, <2>9, Zenon DEF ChunksTile, Digest
<1>4. CASE CallNext \/ CallNextFinished \/ Read \/ NextFails \/ NextEnds
  BY <1>1, <1>4 DEF CallNext, CallNextFinished, vars, Read, ReadMore, ReadLast, NextFails, NextEnds,
                    readerVars
<1> QED BY <1>1, <1>2, <1>3, <1>4 DEF Next, vars

(* The chunks of any stream, finished or not, follow one another without a *)
(* gap or an overlap, and each is identified by its own bytes.             *)
THEOREM ChunksTileTheStream == Spec => []ChunksTile
<1>1. Init => ChunksTile
  BY DEF Init, ChunksTile
<1> QED BY <1>1, ChunksTileKept, Invariant, PTL DEF Spec

(* The store assumes that the chunks of a body add up to its bytes         *)
(* (IsBody).  What measureRequestBody hands it, after a summary that says  *)
(* the stream is complete, is such a body, and its bytes are those of the  *)
(* stream, whatever digests are called.                                    *)
THEOREM CompleteStreamIsBody ==
  ASSUME NEW name \in [Seq(Byte) -> STRING]
  PROVE  Spec => [](Status = "complete" =>
                      /\ Ledger!IsBody(MeasuredBody(name))
                      /\ MeasuredBody(name).bytes = Len(stream.bytes))
<1>1. ASSUME IInv, ChunksTile PROVE Ledger!IsBody(MeasuredBody(name))
  <2> DEFINE last == Len(chunks)
             identities == MeasuredBody(name).chunks
  <2>1. /\ chunks \in Seq(Promise!Chunk) /\ last \in Nat /\ totalSize \in Nat
        /\ Promise!Position = totalSize
    BY <1>1, LenProperties DEF IInv, TypeOK, CutState
  <2>2. \A i \in 1..last : /\ chunks[i].offset \in Nat /\ chunks[i].length \in Nat
                           /\ chunks[i].digest \in Seq(Byte)
    <3>1. \A i \in 1..last : chunks[i] \in Promise!Chunk
      BY <2>1, ElementOfSeq
    <3> QED BY <3>1 DEF Promise!Chunk
  <2>3. \A i \in 1..last : [digest |-> name[chunks[i].digest], length |-> chunks[i].length]
                             \in Ledger!Identity
    <3> SUFFICES ASSUME NEW i \in 1..last
                 PROVE  name[chunks[i].digest] \in STRING /\ chunks[i].length \in Nat \ {0}
      BY DEF Ledger!Identity
    <3>1. chunks[i].length \in Nat /\ chunks[i].length > 0 /\ chunks[i].digest \in Seq(Byte)
      BY <1>1, <2>2 DEF ChunksTile
    <3> QED BY <3>1
  <2>4. identities = [i \in 1..last |-> [digest |-> name[chunks[i].digest],
                                         length |-> chunks[i].length]]
    BY DEF MeasuredBody
  <2>5. identities \in Seq(Ledger!Identity) /\ Len(identities) = last
    <3> HIDE DEF identities, last
    <3>1. identities \in [1..last -> Ledger!Identity]
      BY <2>3, <2>4
    <3> QED BY <2>1, <3>1, IsASeq, LenProperties DEF last
  <2>6. Ends \in [0..last -> Nat] /\ Ends[0] = 0
    BY <2>1, <2>2 DEF Ends, Promise!EndOf
  <2>7. Ends[last] = totalSize
    <3>1. last = 0 <=> chunks = <<>>
      BY <2>1, EmptySeq
    <3> QED BY <2>1, <3>1 DEF Ends, Promise!Position
  <2>8. \A i \in 1..last : Ends[i] = Ends[i - 1] + identities[i].length
    <3> SUFFICES ASSUME NEW i \in 1..last
                 PROVE  Ends[i] = Ends[i - 1] + chunks[i].length
      BY <2>4
    <3>1. chunks[i].offset = Ends[i - 1]
      BY <1>1 DEF ChunksTile
    <3>2. Ends[i] = chunks[i].offset + chunks[i].length
      BY <2>1 DEF Ends, Promise!EndOf
    <3> QED BY <3>1, <3>2
  <2>9. MeasuredBody(name).bytes = totalSize /\ MeasuredBody(name).ends = Ends
    BY DEF MeasuredBody
  <2> HIDE DEF identities, last
  <2> QED BY <2>1, <2>5, <2>6, <2>7, <2>8, <2>9 DEF Ledger!IsBody, identities
<1>2. SummarySound /\ Status = "complete" => MeasuredBody(name).bytes = Len(stream.bytes)
  BY DEF SummarySound, MeasuredBody
<1>3. IInv /\ ChunksTile /\ SummarySound =>
        (Status = "complete" => /\ Ledger!IsBody(MeasuredBody(name))
                                /\ MeasuredBody(name).bytes = Len(stream.bytes))
  BY <1>1, <1>2
<1> QED BY <1>3, Invariant, SummaryCorrect, ChunksTileTheStream, PTL

-----------------------------------------------------------------------------
(* The loops of findChunkLength. *)

LEMMA Induction ==
  ASSUME NEW T, 0 \in T, \A n \in Nat : n \in T => n + 1 \in T
  PROVE  Nat \subseteq T
<1> SUFFICES ASSUME Nat \ T # {} PROVE FALSE
  OBVIOUS
<1>1. PICK n \in Nat \ T : \A k \in Nat \ T : n <= k
  BY LeastNatural
<1>2. n - 1 \in Nat /\ (n - 1) + 1 = n
  OBVIOUS
<1>3. n - 1 \in T
  BY <1>1, <1>2
<1> QED BY <1>2, <1>3

(* The hash behind each of the bytes from one place on. *)
Rolls(hash, bytes, first, count) ==
  hash = [n \in first..(first + count) |->
            IF n = first THEN 0 ELSE Roll(hash[n - 1], bytes[n])]

LEMMA RollsExists ==
  ASSUME NEW bytes, NEW first \in Nat, NEW count \in Nat
  PROVE  \E hash : Rolls(hash, bytes, first, count)
<1> DEFINE T == {n \in Nat : \E hash : Rolls(hash, bytes, first, n)}
<1>1. 0 \in T
  <2>1. Rolls([n \in first..(first + 0) |-> 0], bytes, first, 0)
    BY DEF Rolls
  <2> QED BY <2>1
<1>2. ASSUME NEW n \in Nat, n \in T PROVE n + 1 \in T
  <2>1. PICK f : Rolls(f, bytes, first, n)
    BY <1>2
  <2> DEFINE end == first + (n + 1)
             last == Roll(f[first + n], bytes[end])
             g == [k \in first..end |-> IF k = end THEN last ELSE f[k]]
  <2>2. \A k \in first..(first + n) : f[k] = IF k = first THEN 0 ELSE Roll(f[k - 1], bytes[k])
    BY <2>1 DEF Rolls
  <2>3. g[end] = last /\ \A k \in first..(first + n) : g[k] = f[k]
    OBVIOUS
  <2>4. \A k \in first..end : g[k] = IF k = first THEN 0 ELSE Roll(g[k - 1], bytes[k])
    <3> TAKE k \in first..end
    <3>1. CASE k = end
      <4>1. end # first /\ end - 1 = first + n /\ first + n \in first..(first + n)
        OBVIOUS
      <4> QED BY <2>3, <3>1, <4>1
    <3>2. CASE k \in first..(first + n)
      <4>1. k # first => k - 1 \in first..(first + n)
        BY <3>2
      <4> QED BY <2>2, <2>3, <3>2, <4>1
    <3> QED BY <3>1, <3>2
  <2>5. Rolls(g, bytes, first, n + 1)
    BY <2>4 DEF Rolls
  <2> QED BY <2>5
<1> HIDE DEF T
<1>3. Nat \subseteq T
  BY <1>1, <1>2, Induction
<1> QED BY <1>3 DEF T

LEMMA RollingHashRolls ==
  ASSUME NEW window \in Seq(Byte)
  PROVE  \E hash : /\ Rolls(hash, window, 0, Len(window))
                   /\ RollingHash(window) = hash[Len(window)]
<1> DEFINE hash == CHOOSE hash : hash = [n \in 0..Len(window) |->
                     IF n = 0 THEN 0 ELSE Roll(hash[n - 1], window[n])]
<1>1. Len(window) \in Nat /\ 0 + Len(window) = Len(window)
  BY LenProperties
<1>2. \E h : h = [n \in 0..Len(window) |-> IF n = 0 THEN 0 ELSE Roll(h[n - 1], window[n])]
  <2>1. PICK h : Rolls(h, window, 0, Len(window))
    BY <1>1, RollsExists
  <2> QED BY <1>1, <2>1, Zenon DEF Rolls
<1>3. hash = [n \in 0..Len(window) |-> IF n = 0 THEN 0 ELSE Roll(hash[n - 1], window[n])]
  BY <1>2, Zenon
<1>4. RollingHash(window) = hash[Len(window)]
  BY Zenon DEF RollingHash, Roll
<1> QED BY <1>1, <1>3, <1>4 DEF Rolls

LEMMA HashAfterRolls ==
  ASSUME NEW data \in Seq(Byte), Limit(data) > MinimumSize
  PROVE  \E hash : /\ Rolls(hash, data, MinimumSize, Limit(data) - MinimumSize)
                   /\ \A count : HashAfter(data, count) = hash[count]
<1> DEFINE hash == CHOOSE hash : hash = [index \in MinimumSize..Limit(data) |->
                     IF index = MinimumSize THEN 0 ELSE Roll(hash[index - 1], data[index])]
<1>1. /\ Limit(data) - MinimumSize \in Nat
      /\ MinimumSize + (Limit(data) - MinimumSize) = Limit(data)
  BY Sizes, LenProperties DEF Limit
<1>2. \E h : h = [index \in MinimumSize..Limit(data) |->
                    IF index = MinimumSize THEN 0 ELSE Roll(h[index - 1], data[index])]
  <2>1. PICK h : Rolls(h, data, MinimumSize, Limit(data) - MinimumSize)
    BY <1>1, Sizes, RollsExists
  <2> QED BY <1>1, <2>1, Zenon DEF Rolls
<1>3. hash = [index \in MinimumSize..Limit(data) |->
                IF index = MinimumSize THEN 0 ELSE Roll(hash[index - 1], data[index])]
  BY <1>2, Zenon
<1>4. \A count : HashAfter(data, count) = hash[count]
  BY Zenon DEF HashAfter
<1> QED BY <1>1, <1>3, <1>4 DEF Rolls

(* The running hash of the loops is the hash of the bytes that they have   *)
(* passed.                                                                 *)
LEMMA RunningHash ==
  ASSUME NEW data \in Seq(Byte), NEW n \in (MinimumSize + 1)..Limit(data)
  PROVE  HashAfter(data, n) = RollingHash(SubSeq(data, MinimumSize + 1, n))
<1> DEFINE part == SubSeq(data, MinimumSize + 1, n)
           m == n - MinimumSize
<1>1. /\ n \in Nat /\ m \in Nat /\ MinimumSize \in Nat /\ n = MinimumSize + m
      /\ Limit(data) \in Nat /\ Limit(data) > MinimumSize /\ n <= Limit(data)
      /\ MinimumSize + (Limit(data) - MinimumSize) = Limit(data)
  BY Sizes, LenProperties DEF Limit
<1>2. /\ part \in Seq(Byte) /\ Len(part) = m
      /\ \A k \in 1..m : part[k] = data[MinimumSize + k]
  <2>1. \A k \in (MinimumSize + 1)..n : data[k] \in Byte
    BY <1>1, ElementOfSeq, LenProperties DEF Limit
  <2> QED BY <1>1, <2>1, SubSeqProperties
<1> HIDE DEF part, m
<1>3. PICK f : Rolls(f, part, 0, m) /\ RollingHash(part) = f[m]
  BY <1>2, RollingHashRolls
<1>4. PICK g : /\ Rolls(g, data, MinimumSize, Limit(data) - MinimumSize)
               /\ HashAfter(data, n) = g[n]
  BY <1>1, HashAfterRolls
<1>5. \A k \in 0..m : f[k] = IF k = 0 THEN 0 ELSE Roll(f[k - 1], part[k])
  BY <1>1, <1>3 DEF Rolls
<1>6. \A k \in MinimumSize..Limit(data) :
        g[k] = IF k = MinimumSize THEN 0 ELSE Roll(g[k - 1], data[k])
  BY <1>1, <1>4 DEF Rolls
<1> DEFINE T == {k \in Nat : k \in 0..m => f[k] = g[MinimumSize + k]}
<1>7. 0 \in T
  BY <1>1, <1>5, <1>6
<1>8. ASSUME NEW k \in Nat, k \in T PROVE k + 1 \in T
  <2> SUFFICES ASSUME k + 1 \in 0..m PROVE f[k + 1] = g[MinimumSize + (k + 1)]
    OBVIOUS
  <2>1. /\ f[k] = g[MinimumSize + k] /\ part[k + 1] = data[MinimumSize + (k + 1)]
        /\ k + 1 # 0 /\ (k + 1) - 1 = k
        /\ MinimumSize + (k + 1) \in MinimumSize..Limit(data)
        /\ MinimumSize + (k + 1) # MinimumSize
        /\ (MinimumSize + (k + 1)) - 1 = MinimumSize + k
    BY <1>1, <1>2, <1>8
  <2> QED BY <1>5, <1>6, <2>1
<1> HIDE DEF T
<1>9. m \in T
  BY <1>1, <1>7, <1>8, Induction
<1> QED BY <1>1, <1>3, <1>4, <1>9 DEF T, part

(* What a loop tests behind the byte at an index is the rule of FastCdc.   *)
LEMMA LoopTest ==
  ASSUME NEW data \in Seq(Byte), NEW index \in MinimumSize..(Limit(data) - 1)
  PROVE  HashAfter(data, index + 1) % MaskAt(data, index) = 0 <=> IsBoundary(data, index + 1)
<1>1. /\ Limit(data) \in Nat /\ MinimumSize \in Nat /\ AverageSize \in Nat
      /\ index + 1 \in (MinimumSize + 1)..Limit(data)
      /\ index < Limit(data)
  BY Sizes, LenProperties DEF Limit
<1>2. index < NormalSize(data) <=> index + 1 <= AverageSize
  BY <1>1 DEF NormalSize
<1>3. HashAfter(data, index + 1) = RollingHash(SubSeq(data, MinimumSize + 1, index + 1))
  BY <1>1, RunningHash
<1> QED BY <1>2, <1>3, Zenon DEF MaskAt, IsBoundary

(* The loops find the first boundary behind the minimum, or the limit.     *)
LEMMA ScanFinds ==
  ASSUME NEW data \in Seq(Byte)
  PROVE  ScanLength(data) = FindChunkLength(data)
<1> DEFINE limit == Limit(data)
           Cut(n) == IsBoundary(data, n)
           Found(index) == HashAfter(data, index + 1) % MaskAt(data, index) = 0
           cuts == {n \in (MinimumSize + 1)..limit : Cut(n)}
           After(index) == {n \in cuts : n > index}
           First(index) == IF After(index) = {} THEN limit
                           ELSE CHOOSE n \in After(index) : \A m \in After(index) : n <= m
<1>1. limit \in Nat /\ MinimumSize \in Nat
  BY Sizes, LenProperties DEF Limit
<1>2. FindChunkLength(data) = First(MinimumSize)
  <2>1. After(MinimumSize) = cuts
    BY <1>1
  <2>2. FindChunkLength(data) =
          IF cuts = {} THEN limit ELSE CHOOSE n \in cuts : \A m \in cuts : n <= m
    BY Zenon DEF FindChunkLength
  <2> HIDE DEF cuts, limit
  <2> QED BY <2>1, <2>2, Zenon
<1>3. CASE limit <= MinimumSize
  <2>1. cuts = {}
    BY <1>1, <1>3
  <2> QED BY <1>2, <1>3, <2>1 DEF ScanLength
<1>4. CASE limit > MinimumSize
  <2>1. \A index \in MinimumSize..(limit - 1) : Found(index) <=> Cut(index + 1)
    BY LoopTest
  <2> HIDE DEF Cut, Found
  <2>2. ASSUME NEW index \in MinimumSize..limit
        PROVE  First(index) = IF index = limit THEN limit
                              ELSE IF Found(index) THEN index + 1 ELSE First(index + 1)
    <3>1. CASE index = limit
      <4>1. After(index) = {}
        BY <1>1, <3>1
      <4> QED BY <3>1, <4>1
    <3>2. CASE index # limit /\ Cut(index + 1)
      <4>1. /\ index + 1 \in After(index) /\ \A m \in After(index) : index + 1 <= m
            /\ After(index) \subseteq Nat
        BY <1>1, <3>2
      <4>2. Found(index)
        BY <1>1, <2>1, <3>2
      <4> HIDE DEF After
      <4>3. First(index) = index + 1
        <5> DEFINE first == CHOOSE n \in After(index) : \A m \in After(index) : n <= m
        <5>1. first \in After(index) /\ \A m \in After(index) : first <= m
          BY <4>1
        <5>2. first = index + 1
          <6> HIDE DEF first
          <6> QED BY <4>1, <5>1
        <5> QED BY <4>1, <5>2
      <4> QED BY <3>2, <4>2, <4>3
    <3>3. CASE index # limit /\ ~ Cut(index + 1)
      <4>1. After(index) = After(index + 1)
        BY <1>1, <3>3
      <4>2. ~ Found(index)
        BY <1>1, <2>1, <3>3
      <4> HIDE DEF After
      <4> QED BY <3>3, <4>1, <4>2
    <3> QED BY <3>1, <3>2, <3>3
  <2> DEFINE Scans(s) == s = [index \in MinimumSize..limit |->
                                IF index = limit THEN limit
                                ELSE IF Found(index) THEN index + 1 ELSE s[index + 1]]
             scan == CHOOSE s : Scans(s)
  <2> HIDE DEF First, cuts, After
  <2>3. Scans([index \in MinimumSize..limit |-> First(index)])
    <3> DEFINE s == [index \in MinimumSize..limit |-> First(index)]
    <3>1. ASSUME NEW index \in MinimumSize..limit
          PROVE  s[index] = IF index = limit THEN limit
                            ELSE IF Found(index) THEN index + 1 ELSE s[index + 1]
      <4>1. index # limit => index + 1 \in MinimumSize..limit
        BY <1>1
      <4> QED BY <2>2, <4>1
    <3> QED BY <3>1
  <2>4. Scans(scan)
    BY <2>3, Zenon
  <2>5. ScanLength(data) = scan[MinimumSize]
    <3>1. ~ (Limit(data) <= MinimumSize)
      BY <1>1, <1>4
    <3> QED BY <3>1, Zenon DEF ScanLength, Found
  <2> HIDE DEF scan
  <2>6. \A index \in MinimumSize..limit :
          scan[index] = IF index = limit THEN limit
                        ELSE IF Found(index) THEN index + 1 ELSE scan[index + 1]
    BY <2>4
  <2> HIDE DEF limit, Scans
  <2> DEFINE T == {k \in Nat : k <= limit - MinimumSize => scan[limit - k] = First(limit - k)}
  <2>7. 0 \in T
    <3>1. limit \in MinimumSize..limit /\ limit - 0 = limit
      BY <1>1, <1>4
    <3> QED BY <2>2, <2>6, <3>1
  <2>8. ASSUME NEW k \in Nat, k \in T PROVE k + 1 \in T
    <3> SUFFICES ASSUME k + 1 <= limit - MinimumSize
                 PROVE  scan[limit - (k + 1)] = First(limit - (k + 1))
      OBVIOUS
    <3>1. /\ limit - (k + 1) \in MinimumSize..limit /\ limit - (k + 1) # limit
          /\ (limit - (k + 1)) + 1 = limit - k
          /\ scan[limit - k] = First(limit - k)
      BY <1>1, <2>8
    <3> QED BY <2>2, <2>6, <3>1
  <2> HIDE DEF T
  <2>9. limit - MinimumSize \in T
    BY <1>1, <1>4, <2>7, <2>8, Induction
  <2>10. limit - (limit - MinimumSize) = MinimumSize
    BY <1>1
  <2> QED BY <1>1, <1>2, <1>4, <2>5, <2>9, <2>10 DEF T
<1> QED BY <1>1, <1>3, <1>4

(* The two loops of findChunkLength cut where the rule of FastCdc does, for *)
(* every window that Next cuts.                                            *)
THEOREM LoopsFindTheCut == Spec => []FindsTheCut
<1>1. IInv => FindsTheCut
  BY WindowIsStream, ScanFinds DEF FindsTheCut
<1> QED BY <1>1, Invariant, PTL

-----------------------------------------------------------------------------
(* Powers of two. *)
(* Pow2 on the numbers up to one. *)
IsPow2(f, n) == f = [k \in 0..n |-> IF k = 0 THEN 1 ELSE 2 * f[k - 1]]

LEMMA Pow2Upto ==
  ASSUME NEW n \in Nat
  PROVE  \E f : IsPow2(f, n)
<1> DEFINE T == {m \in Nat : \E f : IsPow2(f, m)}
<1>1. 0 \in T
  <2>1. IsPow2([k \in 0..0 |-> 1], 0)
    BY DEF IsPow2
  <2> QED BY <2>1
<1>2. ASSUME NEW m \in Nat, m \in T PROVE m + 1 \in T
  <2>1. PICK f : IsPow2(f, m)
    BY <1>2
  <2> DEFINE g == [k \in 0..(m + 1) |-> IF k = m + 1 THEN 2 * f[m] ELSE f[k]]
  <2>2. \A k \in 0..m : f[k] = IF k = 0 THEN 1 ELSE 2 * f[k - 1]
    BY <2>1 DEF IsPow2
  <2>3. g[m + 1] = 2 * f[m] /\ \A k \in 0..m : g[k] = f[k]
    OBVIOUS
  <2>4. ASSUME NEW k \in 0..(m + 1) PROVE g[k] = IF k = 0 THEN 1 ELSE 2 * g[k - 1]
    <3>1. CASE k = m + 1
      <4>1. m + 1 # 0 /\ (m + 1) - 1 = m /\ m \in 0..m
        OBVIOUS
      <4> HIDE DEF g
      <4> QED BY <2>3, <3>1, <4>1
    <3>2. CASE k \in 0..m
      <4>1. k # 0 => k - 1 \in 0..m
        BY <3>2
      <4> HIDE DEF g
      <4> QED BY <2>2, <2>3, <3>2, <4>1
    <3> QED BY <3>1, <3>2
  <2>5. IsPow2(g, m + 1)
    BY <2>4 DEF IsPow2
  <2> QED BY <2>5
<1> HIDE DEF T
<1>3. Nat \subseteq T
  BY <1>1, <1>2, Induction
<1> QED BY <1>3 DEF T

LEMMA Pow2Unique ==
  ASSUME NEW m \in Nat, NEW n \in Nat, NEW f, NEW g, IsPow2(f, m), IsPow2(g, n),
         NEW k \in 0..m, k \in 0..n
  PROVE  f[k] = g[k]
<1>1. /\ \A j \in 0..m : f[j] = IF j = 0 THEN 1 ELSE 2 * f[j - 1]
      /\ \A j \in 0..n : g[j] = IF j = 0 THEN 1 ELSE 2 * g[j - 1]
  BY DEF IsPow2
<1> DEFINE T == {j \in Nat : j \in 0..m /\ j \in 0..n => f[j] = g[j]}
<1>2. 0 \in T
  BY <1>1
<1>3. ASSUME NEW j \in Nat, j \in T PROVE j + 1 \in T
  <2> SUFFICES ASSUME j + 1 \in 0..m, j + 1 \in 0..n PROVE f[j + 1] = g[j + 1]
    OBVIOUS
  <2>1. j + 1 # 0 /\ (j + 1) - 1 = j /\ f[j] = g[j]
    BY <1>3
  <2> QED BY <1>1, <2>1
<1> HIDE DEF T
<1>4. Nat \subseteq T
  BY <1>2, <1>3, Induction
<1> QED BY <1>4 DEF T

LEMMA Pow2Def ==
  \A n \in Nat : Pow2[n] = IF n = 0 THEN 1 ELSE 2 * Pow2[n - 1]
<1> DEFINE upto == [n \in Nat |-> CHOOSE f : IsPow2(f, n)]
           pow == [n \in Nat |-> upto[n][n]]
           Whole(f) == f = [n \in Nat |-> IF n = 0 THEN 1 ELSE 2 * f[n - 1]]
<1>1. \A n \in Nat : IsPow2(upto[n], n)
  BY Pow2Upto
<1>2. \A n \in Nat : pow[n] = upto[n][n]
  OBVIOUS
<1> HIDE DEF upto
<1>3. ASSUME NEW n \in Nat PROVE pow[n] = IF n = 0 THEN 1 ELSE 2 * pow[n - 1]
  <2> HIDE DEF pow
  <2>1. upto[n][n] = IF n = 0 THEN 1 ELSE 2 * upto[n][n - 1]
    <3>1. IsPow2(upto[n], n) /\ n \in 0..n
      BY <1>1
    <3> QED BY <3>1 DEF IsPow2
  <2>2. n # 0 => upto[n][n - 1] = upto[n - 1][n - 1]
    <3> SUFFICES ASSUME n # 0 PROVE upto[n][n - 1] = upto[n - 1][n - 1]
      OBVIOUS
    <3>1. /\ n - 1 \in Nat /\ n - 1 \in 0..n /\ n - 1 \in 0..(n - 1)
          /\ IsPow2(upto[n], n) /\ IsPow2(upto[n - 1], n - 1)
      BY <1>1
    <3> QED BY <3>1, Pow2Unique
  <2>3. n # 0 => n - 1 \in Nat
    OBVIOUS
  <2> QED BY <1>2, <2>1, <2>2, <2>3
<1>4. Whole(pow)
  BY <1>3
<1> HIDE DEF pow
<1>5. Pow2 = CHOOSE f : Whole(f)
  BY Zenon DEF Pow2
<1>6. Whole(Pow2)
  BY <1>4, <1>5, Zenon
<1> QED BY <1>6

LEMMA Pow2Facts ==
  /\ Pow2[0] = 1
  /\ \A n \in Nat : /\ Pow2[n] \in Nat /\ Pow2[n] > n
                    /\ Pow2[n + 1] = 2 * Pow2[n]
<1>1. Pow2[0] = 1 /\ \A n \in Nat : Pow2[n + 1] = 2 * Pow2[n]
  <2>1. \A n \in Nat : n + 1 \in Nat /\ n + 1 # 0 /\ (n + 1) - 1 = n
    OBVIOUS
  <2> QED BY <2>1, Pow2Def
<1> DEFINE T == {n \in Nat : Pow2[n] \in Nat /\ Pow2[n] > n}
<1>2. 0 \in T
  BY <1>1
<1>3. \A n \in Nat : n \in T => n + 1 \in T
  BY <1>1
<1> HIDE DEF T
<1>4. Nat \subseteq T
  BY <1>2, <1>3, Induction
<1> QED BY <1>1, <1>4 DEF T

(* A power divides the greater ones. *)
LEMMA Pow2Divides ==
  ASSUME NEW m \in Nat, NEW n \in Nat, m <= n
  PROVE  \E q \in Nat : Pow2[n] = q * Pow2[m]
<1> DEFINE T == {k \in Nat : \E q \in Nat : Pow2[m + k] = q * Pow2[m]}
<1>1. 0 \in T
  <2>1. Pow2[m + 0] = 1 * Pow2[m] /\ 1 \in Nat
    BY Pow2Facts
  <2> QED BY <2>1
<1>2. ASSUME NEW k \in Nat, k \in T PROVE k + 1 \in T
  <2>1. PICK q \in Nat : Pow2[m + k] = q * Pow2[m]
    BY <1>2
  <2>2. PICK p \in Nat : p = Pow2[m]
    BY Pow2Facts
  <2>3. Pow2[m + (k + 1)] = 2 * Pow2[m + k]
    <3>1. m + k \in Nat /\ m + (k + 1) = (m + k) + 1
      OBVIOUS
    <3> QED BY <3>1, Pow2Facts
  <2>4. 2 * (q * p) = (2 * q) * p /\ 2 * q \in Nat
    OBVIOUS
  <2>5. Pow2[m + (k + 1)] = (2 * q) * Pow2[m]
    BY <2>1, <2>2, <2>3, <2>4
  <2> QED BY <2>4, <2>5
<1> HIDE DEF T
<1>3. n - m \in T
  BY <1>1, <1>2, Induction
<1>4. m + (n - m) = n
  OBVIOUS
<1> QED BY <1>3, <1>4 DEF T

(* AverageBits exists: a power of two exceeds the average size. *)
LEMMA AverageBitsRange == AverageBits \in Nat /\ AverageBits >= 3
<1> DEFINE T == {n \in Nat : Pow2[n] > AverageSize}
           Fits(b) == Pow2[b] <= AverageSize /\ AverageSize < Pow2[b + 1]
<1>1. AverageSize \in Nat /\ AverageSize >= 8
  BY ConfigAssumption DEF ValidChunkerConfig
<1>2. T \subseteq Nat /\ AverageSize \in T
  BY <1>1, Pow2Facts
<1>3. PICK n \in T : \A k \in T : n <= k
  BY <1>2, LeastNatural
<1>4. n \in Nat /\ n # 0 /\ n <= AverageSize
  BY <1>1, <1>2, <1>3, Pow2Facts
<1>5. n - 1 \in 0..AverageSize /\ n - 1 \in Nat /\ (n - 1) + 1 = n /\ n - 1 \notin T
  BY <1>1, <1>3, <1>4
<1>6. Fits(n - 1)
  BY <1>1, <1>3, <1>5, Pow2Facts
<1>7. AverageBits \in 0..AverageSize /\ Fits(AverageBits)
  <2> HIDE DEF Fits
  <2>1. AverageBits = CHOOSE b \in 0..AverageSize : Fits(b)
    BY Zenon DEF AverageBits, Fits
  <2> QED BY <1>5, <1>6, <2>1
<1>8. Pow2[1] = 2 /\ Pow2[2] = 4 /\ Pow2[3] = 8
  <2>1. Pow2[0 + 1] = 2 * Pow2[0] /\ Pow2[1 + 1] = 2 * Pow2[1] /\ Pow2[2 + 1] = 2 * Pow2[2]
    BY Pow2Facts
  <2> QED BY <2>1, Pow2Facts
<1>9. AverageBits # 0 /\ AverageBits # 1 /\ AverageBits # 2
  BY <1>1, <1>7, <1>8
<1> QED BY <1>1, <1>7, <1>9

-----------------------------------------------------------------------------
(* Where a boundary is looked for does not matter. *)

(* A quotient and a remainder. *)
LEMMA Quotient ==
  ASSUME NEW a \in Int, NEW m \in Nat, m > 0
  PROVE  \E q, r \in Int : a = q * m + r /\ a % m = r /\ r >= 0 /\ r < m
<1>1. /\ a \div m \in Int /\ a % m \in Int /\ a = m * (a \div m) + (a % m)
      /\ m * (a \div m) = (a \div m) * m /\ a % m >= 0 /\ a % m < m
  OBVIOUS
<1> QED BY <1>1

(* The width of the hash caps the exponents. *)
Exponent(j) == IF j < WordBits THEN j ELSE WordBits

LEMMA Exponents ==
  /\ Exponent(0) = 0 /\ Pow2[Exponent(0)] = 1
  /\ \A j \in Nat : Exponent(j) \in Nat /\ Pow2[Exponent(j)] \in Nat /\ Pow2[Exponent(j)] > 0
<1>1. Exponent(0) = 0 /\ \A j \in Nat : Exponent(j) \in Nat
  BY WordAssumption DEF Exponent
<1> QED BY <1>1, Pow2Facts

(* Two hashes that differ by a multiple of a power of two differ, after    *)
(* the same byte, by a multiple of the next, as far as the width goes.     *)
LEMMA RollDifference ==
  ASSUME NEW j \in Nat, NEW byte \in Byte, NEW x \in Int, NEW y \in Int,
         \E c \in Int : x - y = c * Pow2[Exponent(j)]
  PROVE  /\ Roll(x, byte) \in Int /\ Roll(y, byte) \in Int
         /\ \E d \in Int : Roll(x, byte) - Roll(y, byte) = d * Pow2[Exponent(j + 1)]
<1> DEFINE e == Exponent(j)
           next == Exponent(j + 1)
<1>1. WordBits \in Nat /\ e \in Nat /\ next \in Nat /\ next <= WordBits
      /\ (next = e + 1 \/ next = e)
  BY WordAssumption DEF Exponent
<1>2. PICK g \in Int : g = Gear[byte]
  BY WordAssumption
<1>3. PICK size \in Nat : size = WordSize /\ size > 0
  BY <1>1, Pow2Facts DEF WordSize
<1>4. PICK q \in Nat : size = q * Pow2[next]
  BY <1>1, <1>3, Pow2Divides DEF WordSize
<1>5. PICK a \in Int, r \in Int : 2 * x + g = a * size + r /\ Roll(x, byte) = r
  <2>1. Roll(x, byte) = (2 * x + g) % size
    BY <1>2, <1>3 DEF Roll
  <2>2. 2 * x + g \in Int
    OBVIOUS
  <2> QED BY <1>3, <2>1, <2>2, Quotient
<1>6. PICK b \in Int, s \in Int : 2 * y + g = b * size + s /\ Roll(y, byte) = s
  <2>1. Roll(y, byte) = (2 * y + g) % size
    BY <1>2, <1>3 DEF Roll
  <2>2. 2 * y + g \in Int
    OBVIOUS
  <2> QED BY <1>3, <2>1, <2>2, Quotient
<1>7. PICK p \in Nat : p = Pow2[next]
  BY <1>1, Pow2Facts
<1>8. PICK u \in Int : 2 * (x - y) = u * p
  <2>1. PICK o \in Nat : o = Pow2[e]
    BY <1>1, Pow2Facts
  <2>2. PICK c \in Int : x - y = c * o
    BY <2>1
  <2>3. p = 2 * o \/ p = o
    BY <1>1, <1>7, <2>1, Pow2Facts
  <2>4. 2 * (x - y) = c * (2 * o) /\ 2 * (x - y) = (2 * c) * o
    <3>1. 2 * (c * o) = c * (2 * o) /\ 2 * (c * o) = (2 * c) * o
      OBVIOUS
    <3> QED BY <2>2, <3>1
  <2>5. 2 * c \in Int
    OBVIOUS
  <2> QED BY <2>3, <2>4, <2>5
<1>9. r - s = (u + (b - a) * q) * p
  <2>1. r - s = 2 * (x - y) + (b * size - a * size)
    <3>1. PICK k \in Int, l \in Int : k = a * size /\ l = b * size
      OBVIOUS
    <3> QED BY <1>5, <1>6, <3>1
  <2>2. b * size - a * size = (b - a) * (q * p)
    <3>1. b * size - a * size = (b - a) * size
      OBVIOUS
    <3> QED BY <1>4, <1>7, <3>1
  <2>3. \A v, w \in Int : v * (w * p) = (v * w) * p /\ v * p + w * p = (v + w) * p /\ v * w \in Int
    OBVIOUS
  <2>4. b - a \in Int
    OBVIOUS
  <2> QED BY <1>8, <2>1, <2>2, <2>3, <2>4
<1>10. u + (b - a) * q \in Int
  OBVIOUS
<1> QED BY <1>5, <1>6, <1>7, <1>9, <1>10

(* Numbers that differ by a multiple have the same remainder. *)
LEMMA SameRemainder ==
  ASSUME NEW x \in Int, NEW y \in Int, NEW m \in Nat, m > 0,
         \E c \in Int : x - y = c * m
  PROVE  x % m = y % m
<1>1. PICK a \in Int, r \in Int : x = a * m + r /\ x % m = r /\ r >= 0 /\ r < m
  BY Quotient
<1>2. PICK b \in Int, s \in Int : y = b * m + s /\ y % m = s /\ s >= 0 /\ s < m
  BY Quotient
<1> PICK c \in Int : x - y = c * m
  OBVIOUS
<1>3. PICK d \in Int : d = c + b - a
  OBVIOUS
<1>4. r - s = d * m
  <2>1. d * m = c * m + b * m - a * m
    BY <1>3
  <2>2. a * m \in Int /\ b * m \in Int /\ c * m \in Int
    OBVIOUS
  <2> QED BY <1>1, <1>2, <2>1, <2>2
<1>5. (d >= 1 => d * m >= m) /\ (d <= -1 => d * m <= -m)
  OBVIOUS
<1>6. d = 0
  BY <1>1, <1>2, <1>4, <1>5
<1>7. 0 * m = 0
  OBVIOUS
<1> QED BY <1>1, <1>2, <1>4, <1>6, <1>7

(* The hashes of a loop are integers. *)
LEMMA HashIsInt ==
  ASSUME NEW hash, NEW data \in Seq(Byte), NEW first \in Nat, NEW count \in Nat,
         first + count <= Len(data), Rolls(hash, data, first, count),
         NEW n \in first..(first + count)
  PROVE  hash[n] \in Int
<1> DEFINE T == {k \in Nat : k \in 0..count => hash[first + k] \in Int}
<1>1. \A k \in first..(first + count) :
        hash[k] = IF k = first THEN 0 ELSE Roll(hash[k - 1], data[k])
  BY DEF Rolls
<1>2. 0 \in T
  BY <1>1
<1>3. ASSUME NEW k \in Nat, k \in T PROVE k + 1 \in T
  <2> SUFFICES ASSUME k + 1 \in 0..count PROVE hash[first + (k + 1)] \in Int
    OBVIOUS
  <2>1. /\ first + (k + 1) \in first..(first + count) /\ first + (k + 1) # first
        /\ (first + (k + 1)) - 1 = first + k /\ k \in 0..count
        /\ first + (k + 1) \in 1..Len(data)
    BY LenProperties
  <2>2. PICK byte \in Byte : byte = data[first + (k + 1)]
    BY <2>1, ElementOfSeq
  <2>3. PICK x \in Int : x = hash[first + k]
    BY <1>3, <2>1
  <2>4. hash[first + (k + 1)] = Roll(x, byte)
    BY <1>1, <2>1, <2>2, <2>3
  <2>5. \E c \in Int : x - x = c * Pow2[Exponent(0)]
    <3>1. x - x = 0 * Pow2[Exponent(0)]
      BY Exponents
    <3> QED BY <3>1
  <2>6. Roll(x, byte) \in Int
    BY <2>5, RollDifference, Zenon
  <2> QED BY <2>4, <2>6
<1> HIDE DEF T
<1>4. n - first \in T
  BY <1>2, <1>3, Induction
<1>5. n - first \in 0..count /\ first + (n - first) = n
  OBVIOUS
<1> QED BY <1>4, <1>5 DEF T

(* The hash behind some bytes and the hash of the last of them alone. *)
LEMMA LastBytesDecide ==
  ASSUME NEW data \in Seq(Byte), NEW bits \in Nat \ {0},
         NEW count \in (MinimumSize + bits)..Limit(data)
  PROVE  HashAfter(data, count) % MaskForBits(bits)
           = RollingHash(SubSeq(data, count - bits + 1, count)) % MaskForBits(bits)
<1> DEFINE start == count - bits
           last == SubSeq(data, start + 1, count)
<1>1. /\ MinimumSize \in Nat /\ Limit(data) \in Nat /\ Limit(data) > MinimumSize
      /\ count \in Nat /\ count <= Limit(data) /\ Limit(data) <= Len(data)
      /\ start \in Nat /\ start >= MinimumSize /\ start + bits = count
      /\ MinimumSize + (Limit(data) - MinimumSize) = Limit(data)
  BY Sizes, LenProperties DEF Limit
<1>2. /\ last \in Seq(Byte) /\ Len(last) = bits
      /\ \A k \in 1..bits : last[k] = data[start + k] /\ last[k] \in Byte
  <2>1. \A k \in (start + 1)..count : data[k] \in Byte
    BY <1>1, ElementOfSeq, LenProperties
  <2> QED BY <1>1, <2>1, SubSeqProperties
<1> HIDE DEF start, last
<1>3. PICK f : Rolls(f, last, 0, bits) /\ RollingHash(last) = f[bits]
  BY <1>2, RollingHashRolls
<1>4. PICK g : /\ Rolls(g, data, MinimumSize, Limit(data) - MinimumSize)
               /\ HashAfter(data, count) = g[count]
  BY <1>1, HashAfterRolls
<1>5. \A k \in 0..bits : f[k] = IF k = 0 THEN 0 ELSE Roll(f[k - 1], last[k])
  BY <1>1, <1>3 DEF Rolls
<1>6. \A k \in MinimumSize..Limit(data) :
        g[k] = IF k = MinimumSize THEN 0 ELSE Roll(g[k - 1], data[k])
  BY <1>1, <1>4 DEF Rolls
<1> DEFINE Apart(k) == /\ g[start + k] \in Int /\ f[k] \in Int
                       /\ \E c \in Int : g[start + k] - f[k] = c * Pow2[Exponent(k)]
           T == {k \in Nat : k \in 0..bits => Apart(k)}
<1>7. Apart(0)
  <2>1. f[0] = 0 /\ g[start] \in Int /\ start + 0 = start
    BY <1>1, <1>5, <1>4, HashIsInt
  <2>2. Pow2[Exponent(0)] = 1
    BY Exponents
  <2>3. g[start] - 0 = g[start] * 1
    BY <2>1
  <2> QED BY <2>1, <2>2, <2>3
<1>8. ASSUME NEW k \in Nat, k \in T PROVE k + 1 \in T
  <2> SUFFICES ASSUME k + 1 \in 0..bits PROVE Apart(k + 1)
    OBVIOUS
  <2>1. /\ k \in 0..bits /\ k + 1 # 0 /\ (k + 1) - 1 = k /\ k + 1 \in 1..bits
        /\ start + (k + 1) \in MinimumSize..Limit(data)
        /\ start + (k + 1) # MinimumSize
        /\ (start + (k + 1)) - 1 = start + k
    BY <1>1
  <2>2. PICK byte \in Byte : byte = last[k + 1] /\ byte = data[start + (k + 1)]
    BY <1>2, <2>1
  <2>3. f[k + 1] = Roll(f[k], byte) /\ g[start + (k + 1)] = Roll(g[start + k], byte)
    BY <1>5, <1>6, <2>1, <2>2
  <2>4. PICK x \in Int, y \in Int : x = g[start + k] /\ y = f[k]
    BY <1>8, <2>1
  <2>5. \E c \in Int : x - y = c * Pow2[Exponent(k)]
    BY <1>8, <2>1, <2>4
  <2>6. /\ Roll(x, byte) \in Int /\ Roll(y, byte) \in Int
        /\ \E d \in Int : Roll(x, byte) - Roll(y, byte) = d * Pow2[Exponent(k + 1)]
    BY <2>5, RollDifference, Zenon
  <2> QED BY <2>3, <2>4, <2>6
<1>9. Apart(bits)
  <2>1. 0 \in T
    BY <1>7
  <2> HIDE DEF Apart
  <2>2. ASSUME NEW k \in Nat, k \in T PROVE k + 1 \in T
    BY <1>8, <2>2
  <2> HIDE DEF T
  <2>3. bits \in T
    BY <2>1, <2>2, Induction
  <2> QED BY <2>3 DEF T
<1>10. MaskForBits(bits) = Pow2[Exponent(bits)]
  BY WordAssumption DEF MaskForBits, Exponent
<1>11. PICK p \in Nat : p = MaskForBits(bits) /\ p > 0
  BY <1>10, Exponents
<1>12. PICK x \in Int, y \in Int :
         x = HashAfter(data, count) /\ y = RollingHash(last) /\ \E c \in Int : x - y = c * p
  BY <1>1, <1>3, <1>4, <1>9, <1>10, <1>11
<1>13. x % p = y % p
  BY <1>11, <1>12, SameRemainder, Zenon
<1> QED BY <1>11, <1>12, <1>13 DEF last, start

(* Where a chunk may end is decided by the last few bytes, whatever was    *)
(* hashed before them, for every window that Next cuts: chunks fall back   *)
(* into step behind an edit of the stream.                                 *)
THEOREM BoundariesAreLocal == Spec => []BoundaryIsLocal
<1>1. ASSUME IInv, pc = "cutting" PROVE BoundaryIsLocal
  <2>1. Window \in Seq(Byte)
    BY <1>1, WindowIsStream
  <2>2. /\ AverageBits + NormalizationLevel \in Nat \ {0}
        /\ AverageBits - NormalizationLevel \in Nat \ {0}
    BY AverageBitsRange DEF NormalizationLevel
  <2> QED BY <2>1, <2>2, LastBytesDecide, Zenon DEF BoundaryIsLocal
<1>2. IInv => BoundaryIsLocal
  BY <1>1 DEF BoundaryIsLocal
<1> QED BY <1>2, Invariant, PTL

=============================================================================
