------------------------------ MODULE Chunker ------------------------------
(***************************************************************************)
(* The Chunker of src/core/utils/fastCdc: Next, fillBuffer, Summary and    *)
(* Reset over a buffer of twice the maximum chunk size.  The reader is an  *)
(* actor of its own: io.ReadFull calls it until the window is full or the  *)
(* stream ends, and each of its reads may return any part of what is left, *)
(* with or without the end of the stream in the same call.                 *)
(***************************************************************************)
EXTENDS FastCdc

CONSTANTS
  Streams,     \* the streams that NewChunker and Reset may be given
  MaxStreams   \* bound: how many streams one chunker is used for

ASSUME MaxStreamsAssumption == MaxStreams \in Nat \ {0}

VARIABLES
  stream,       \* reader: the bytes it will return and how it ends
  readPos,      \* how many of them it has returned
  buffer, bufferStart, bufferEnd,
  readEOF, readError, finished,
  totalSize, chunkCount, bodyDigest,   \* summary
  bodyHasher,   \* what has been written to the hasher
  pc,           \* where the current call of Next is
  got,          \* bytes io.ReadFull has obtained so far
  chunks,       \* history: what Next has returned for this stream
  opened        \* history: how many streams have been opened

readerVars  == <<stream, readPos>>
bufferVars  == <<buffer, bufferStart, bufferEnd>>
statusVars  == <<readEOF, readError, finished>>
summaryVars == <<totalSize, chunkCount, bodyDigest, bodyHasher>>
vars == <<stream, readPos, buffer, bufferStart, bufferEnd, readEOF, readError,
          finished, totalSize, chunkCount, bodyDigest, bodyHasher, pc, got,
          chunks, opened>>

BufferSize == 2 * MaximumSize
Available == bufferEnd - bufferStart
Needed == MaximumSize - Available

(* c.buffer[c.bufferStart:c.bufferEnd] *)
Window == [i \in 1..Available |-> buffer[bufferStart + i - 1]]

NoDigest == <<>>
Digest(data) == data    \* as in ChunkStream: BLAKE3 without collisions

Status == IF ~finished THEN "open"
          ELSE IF readError = "nil" THEN "complete" ELSE "failed"

Promise == INSTANCE ChunkStream WITH status <- Status

ASSUME StreamsAssumption == Streams \subseteq Promise!Stream

-----------------------------------------------------------------------------
(* NewChunker allocates the buffer and calls Reset. *)
Init ==
  /\ stream \in Streams
  /\ readPos = 0
  /\ buffer = [i \in 0..(BufferSize - 1) |-> 0] /\ bufferStart = 0 /\ bufferEnd = 0
  /\ readEOF = FALSE /\ readError = "nil" /\ finished = FALSE
  /\ totalSize = 0 /\ chunkCount = 0 /\ bodyDigest = NoDigest /\ bodyHasher = <<>>
  /\ pc = "idle" /\ got = 0
  /\ chunks = <<>>
  /\ opened = 1

(* What Reset clears, but for the end of the previous stream. *)
ClearStream(s) ==
  /\ stream' = s /\ readPos' = 0
  /\ bufferStart' = 0 /\ bufferEnd' = 0
  /\ readError' = "nil" /\ finished' = FALSE
  /\ totalSize' = 0 /\ chunkCount' = 0 /\ bodyDigest' = NoDigest /\ bodyHasher' = <<>>
  /\ chunks' = <<>>

(* Mutation of Reset: readEOF is not cleared. *)
ResetKeepsEOF(s) ==
  /\ pc = "idle" /\ opened < MaxStreams
  /\ ClearStream(s)
  /\ opened' = opened + 1
  /\ UNCHANGED <<buffer, readEOF, pc, got>>

(* Reset: the buffer keeps its old bytes. *)
Reset(s) ==
  /\ pc = "idle" /\ opened < MaxStreams
  /\ ClearStream(s)
  /\ readEOF' = FALSE
  /\ opened' = opened + 1
  /\ UNCHANGED <<buffer, pc, got>>

-----------------------------------------------------------------------------
(* Mutation of MustFill: refill only a window below the minimum size. *)
MustFillLate == Available < MinimumSize /\ ~readEOF /\ readError = "nil"

(* Next, first part: a finished chunker returns io.EOF and changes         *)
(* nothing; otherwise fillBuffer moves the window to the front of the      *)
(* buffer when the free space behind it is too small.                      *)
MustFill == Available < MaximumSize /\ ~readEOF /\ readError = "nil"

(* Mutations of MoveWindow: the bytes are not copied; nothing is moved. *)
MoveIndicesOnly ==
  IF BufferSize - bufferEnd < Needed
  THEN buffer' = buffer /\ bufferEnd' = Available /\ bufferStart' = 0
  ELSE UNCHANGED bufferVars
MoveNothing == UNCHANGED bufferVars

MoveWindow ==
  IF BufferSize - bufferEnd < Needed
  THEN /\ buffer' = [i \in DOMAIN buffer |->
                       IF i < Available THEN buffer[bufferStart + i] ELSE buffer[i]]
       /\ bufferEnd' = Available
       /\ bufferStart' = 0
  ELSE UNCHANGED bufferVars

CallNext ==
  /\ pc = "idle"
  /\ ~finished
  /\ IF MustFill THEN pc' = "filling" /\ MoveWindow
                 ELSE pc' = "cutting" /\ UNCHANGED bufferVars
  /\ UNCHANGED <<readerVars, statusVars, summaryVars, got, chunks, opened>>

CallNextFinished ==
  /\ pc = "idle"
  /\ finished
  /\ UNCHANGED vars

(* io.ReadFull: nil when the request was filled, whatever else the reader  *)
(* said; io.ErrUnexpectedEOF for an EOF after some bytes.                  *)
ReadFullError(count, end) ==
  IF count = Needed THEN "nil"
  ELSE IF end = "EOF" /\ count > 0 THEN "ErrUnexpectedEOF"
  ELSE end

(* One read of k bytes into the free part of the buffer. *)
CopyIn(k) ==
  /\ k <= Needed - got
  /\ k <= Len(stream.bytes) - readPos
  /\ buffer' = [i \in DOMAIN buffer |->
                  IF i \in (bufferEnd + got)..(bufferEnd + got + k - 1)
                  THEN stream.bytes[readPos + i - (bufferEnd + got) + 1]
                  ELSE buffer[i]]
  /\ readPos' = readPos + k

(* io.ReadFull asks for more. *)
ReadMore(k) ==
  /\ pc = "filling"
  /\ k > 0
  /\ got + k < Needed
  /\ CopyIn(k)
  /\ got' = got + k
  /\ UNCHANGED <<stream, bufferStart, bufferEnd, statusVars, summaryVars, pc,
                 chunks, opened>>

(* io.ReadFull returns to fillBuffer: the request is filled, or the reader *)
(* reports the end of its stream.                                          *)
ReadLast(k) ==
  /\ pc = "filling"
  /\ CopyIn(k)
  /\ got + k = Needed \/ readPos + k = Len(stream.bytes)
  /\ bufferEnd' = bufferEnd + got + k
  /\ LET err == ReadFullError(got + k, stream.end)
     IN  /\ readEOF' = (err \in {"EOF", "ErrUnexpectedEOF"})
         /\ readError' = IF err = "failure" THEN err ELSE "nil"
  /\ got' = 0
  /\ pc' = "cutting"
  /\ UNCHANGED <<stream, bufferStart, finished, summaryVars, chunks, opened>>

-----------------------------------------------------------------------------
(* Next, second part: an error, the end of the stream, or a chunk. *)

NextFails ==
  /\ pc = "cutting"
  /\ readError # "nil" /\ Available < MaximumSize
  /\ finished' = TRUE
  /\ pc' = "idle"
  /\ UNCHANGED <<readerVars, bufferVars, readEOF, readError, summaryVars, got,
                 chunks, opened>>

(* Mutation of NextEnds: finish forgets to set finished. *)
NextEndsUnfinished ==
  /\ pc = "cutting"
  /\ readError = "nil" /\ Available = 0
  /\ bodyDigest' = Digest(bodyHasher)
  /\ pc' = "idle"
  /\ UNCHANGED <<readerVars, bufferVars, statusVars, totalSize, chunkCount,
                 bodyHasher, got, chunks, opened>>

(* finish: the hasher's digest becomes the digest of the body. *)
NextEnds ==
  /\ pc = "cutting"
  /\ readError = "nil" /\ Available = 0
  /\ finished' = TRUE
  /\ bodyDigest' = Digest(bodyHasher)
  /\ pc' = "idle"
  /\ UNCHANGED <<readerVars, bufferVars, readEOF, readError, totalSize,
                 chunkCount, bodyHasher, got, chunks, opened>>

NextChunk ==
  /\ pc = "cutting"
  /\ Available > 0
  /\ readError # "nil" => Available >= MaximumSize
  /\ LET length == FindChunkLength(Window)
         data   == SubSeq(Window, 1, length)
     IN  /\ chunks' = Append(chunks, [offset |-> totalSize, length |-> length,
                                      digest |-> Digest(data)])
         /\ bodyHasher' = bodyHasher \o data
         /\ bufferStart' = bufferStart + length
         /\ totalSize' = totalSize + length
  /\ chunkCount' = chunkCount + 1
  /\ pc' = "idle"
  /\ UNCHANGED <<readerVars, buffer, bufferEnd, statusVars, bodyDigest, got, opened>>

Read == \E k \in 0..Needed : ReadMore(k) \/ ReadLast(k)

Next ==
  \/ CallNext \/ CallNextFinished
  \/ Read
  \/ NextFails \/ NextEnds \/ NextChunk
  \/ \E s \in Streams : Reset(s)

(* The caller loops over Next (measureRequestBody) and the reader answers  *)
(* every read; nobody has to call Reset.                                   *)
Fairness == WF_vars(CallNext) /\ WF_vars(Read)
            /\ WF_vars(NextFails \/ NextEnds \/ NextChunk)

Spec == Init /\ [][Next]_vars
FairSpec == Spec /\ Fairness

-----------------------------------------------------------------------------
(* The type of the state. *)
TypeOK ==
  /\ stream \in Streams
  /\ readPos \in 0..Len(stream.bytes)
  /\ buffer \in [0..(BufferSize - 1) -> Byte]
  /\ bufferStart \in 0..bufferEnd
  /\ bufferEnd \in 0..BufferSize
  /\ readEOF \in BOOLEAN /\ finished \in BOOLEAN
  /\ readError \in {"nil", "failure"}
  /\ totalSize \in Nat /\ chunkCount \in Nat
  /\ bodyDigest \in Seq(Byte) /\ bodyHasher \in Seq(Byte)
  /\ pc \in {"idle", "filling", "cutting"}
  /\ got \in 0..MaximumSize
  /\ chunks \in Seq(Promise!Chunk)
  /\ opened \in 1..MaxStreams

(* fillBuffer slices buffer[bufferEnd:bufferEnd+needed]: whatever chunks   *)
(* were cut before, the free part of the buffer holds what is asked for    *)
(* (the slice would panic otherwise), and something is asked for.          *)
ReadFitsBuffer ==
  pc = "filling" => got < Needed /\ bufferEnd + Needed <= BufferSize

(* After any sequence of fills, moves and cuts, and after a Reset over old *)
(* bytes, the window and the bytes read behind it are the bytes of the     *)
(* stream from totalSize on, and they end where the reader stands.         *)
BufferMirrorsStream ==
  /\ readPos = totalSize + Available + got
  /\ \A i \in 1..(Available + got) :
       buffer[bufferStart + i - 1] = stream.bytes[totalSize + i]

(* Summary returns true only for a stream that was consumed to its end and *)
(* did not fail, and then its total and its digest are those of the whole  *)
(* stream, and its count is that of the chunks returned.                   *)
SummarySound ==
  Status = "complete" =>
    /\ stream.end # "failure"
    /\ totalSize = Len(stream.bytes)
    /\ bodyDigest = Digest(stream.bytes)
    /\ chunkCount = Len(chunks)

(* The doc comment of Summary: "It returns false when the stream is        *)
(* incomplete or failed."  A reader that ends with io.ErrUnexpectedEOF     *)
(* says that its stream is incomplete.                                     *)
SummaryMeansComplete == Status = "complete" => stream.end = "EOF"

(* However the reader splits the stream and whatever streams the chunker   *)
(* was used for before, it returns the chunks that the bytes determine and *)
(* completes or fails as ChunkStream says.                                 *)
PromiseKept == Promise!Spec

(* A caller that keeps calling Next gets to the end of every stream: no    *)
(* sequence of short reads and moves of the window leaves Next without     *)
(* progress.                                                               *)
DrainsStream == <>[]finished

=============================================================================
