---------------------------- MODULE ChunkStream ----------------------------
(***************************************************************************)
(* What the chunker promises its caller: a stream is cut, from its first   *)
(* byte on, into the chunks that FindChunkLength determines from the bytes *)
(* alone.  How the reader splits the stream into reads does not appear     *)
(* here, so a chunker that implements this module cannot depend on it.     *)
(***************************************************************************)
EXTENDS FastCdc

CONSTANT Streams  \* the streams a caller may open

(* How a reader ends its stream: io.EOF, io.ErrUnexpectedEOF, or any other *)
(* error.                                                                  *)
Ending == {"EOF", "ErrUnexpectedEOF", "failure"}
Stream == [bytes : Seq(Byte), end : Ending]

(* A digest stands for the bytes it was computed from: BLAKE3 is taken to  *)
(* be free of collisions.                                                  *)
Digest(data) == data
Chunk == [offset : Nat, length : Nat, digest : Seq(Byte)]

VARIABLES
  stream,  \* the open stream
  chunks,  \* the chunks returned for it, in order
  status   \* "open", "complete" or "failed"

vars == <<stream, chunks, status>>

-----------------------------------------------------------------------------
EndOf(chunk) == chunk.offset + chunk.length
Position == IF chunks = <<>> THEN 0 ELSE EndOf(chunks[Len(chunks)])

(* The bytes of stream s from an offset on, and a slice of them. *)
Rest(s, offset) == SubSeq(s.bytes, offset + 1, Len(s.bytes))
Slice(s, offset, length) == SubSeq(s.bytes, offset + 1, offset + length)

ChunkAt(s, offset) ==
  LET length == FindChunkLength(Rest(s, offset))
  IN  [offset |-> offset, length |-> length, digest |-> Digest(Slice(s, offset, length))]

Init == /\ stream \in Streams
        /\ chunks = <<>>
        /\ status = "open"

(* The next chunk; on a stream that fails, only while a full window of its *)
(* bytes came before the failure.                                          *)
Emit == /\ status = "open"
        /\ Position < Len(stream.bytes)
        /\ stream.end = "failure" => Len(stream.bytes) - Position >= MaximumSize
        /\ chunks' = Append(chunks, ChunkAt(stream, Position))
        /\ UNCHANGED <<stream, status>>

Complete == /\ status = "open"
            /\ stream.end # "failure"
            /\ Position = Len(stream.bytes)
            /\ status' = "complete"
            /\ UNCHANGED <<stream, chunks>>

Fail == /\ status = "open"
        /\ stream.end = "failure"
        /\ Len(stream.bytes) - Position < MaximumSize
        /\ status' = "failed"
        /\ UNCHANGED <<stream, chunks>>

Reopen == /\ stream' \in Streams
          /\ chunks' = <<>>
          /\ status' = "open"

Next == Emit \/ Complete \/ Fail \/ Reopen

Spec == Init /\ [][Next]_vars

=============================================================================
