---------------------------- MODULE DedupLedger ----------------------------
(***************************************************************************)
(* What the dedup measurements of a local proxy mean: the bodies recorded  *)
(* so far, in order, determine every cumulative figure, and the figures    *)
(* returned for a body compare it with the bodies recorded before it.  The *)
(* mutex, the map of known chunks and the counters do not appear here.     *)
(***************************************************************************)
EXTENDS Integers, Sequences, FiniteSets, FiniteSetsExt

CONSTANTS
  Goroutines,  \* the goroutines that record bodies or read the snapshot
  Bodies       \* the measured bodies

(* chunkIdentity: a digest and a length. *)
Identity == [digest : STRING, length : Nat \ {0}]

(* A body as the chunker measures it: how many bytes, which chunks, and    *)
(* where they end (the chunk's Offset plus its Length, with ends[0] = 0).  *)
IsBody(body) ==
  /\ body.bytes \in Nat
  /\ body.chunks \in Seq(Identity)
  /\ body.ends \in [0..Len(body.chunks) -> Nat]
  /\ body.ends[0] = 0 /\ body.ends[Len(body.chunks)] = body.bytes
  /\ \A i \in 1..Len(body.chunks) :
       body.ends[i] = body.ends[i - 1] + body.chunks[i].length

VARIABLES
  log,       \* the bodies recorded so far
  returned,  \* what recordRequest returned last to a goroutine
  observed   \* the snapshot that a goroutine read last

vars == <<log, returned, observed>>

None == [none |-> TRUE]

-----------------------------------------------------------------------------
ChunksOf(body) == {body.chunks[i] : i \in 1..Len(body.chunks)}
Known(bodies) == UNION {ChunksOf(bodies[i]) : i \in 1..Len(bodies)}
TotalLength(identities) == MapThenSumSet(LAMBDA id : id.length, identities)

SnapshotOf(bodies) ==
  LET known      == Known(bodies)
      newBytes   == TotalLength(known)
      bodyBytes  == MapThenSumSet(LAMBDA i : bodies[i].bytes, 1..Len(bodies))
      chunkCount == MapThenSumSet(LAMBDA i : Len(bodies[i].chunks), 1..Len(bodies))
  IN  [MeasuredRequestCount |-> Len(bodies),
       BodyBytes            |-> bodyBytes,
       ChunkCount           |-> chunkCount,
       NewChunkBytes        |-> newBytes,
       ReusableChunkBytes   |-> bodyBytes - newBytes,
       NewChunkCount        |-> Cardinality(known),
       ReusableChunkCount   |-> chunkCount - Cardinality(known),
       SimulatedCacheBytes  |-> newBytes,
       SimulatedCacheChunks |-> Cardinality(known)]

(* The figures of one body recorded after some others. *)
MeasurementOf(bodies, body) ==
  LET new      == ChunksOf(body) \ Known(bodies)
      newBytes == TotalLength(new)
      known    == Known(bodies) \union new
  IN  [BodyBytes            |-> body.bytes,
       ChunkCount           |-> Len(body.chunks),
       NewChunkBytes        |-> newBytes,
       ReusableChunkBytes   |-> body.bytes - newBytes,
       NewChunkCount        |-> Cardinality(new),
       ReusableChunkCount   |-> Len(body.chunks) - Cardinality(new),
       SimulatedCacheBytes  |-> TotalLength(known),
       SimulatedCacheChunks |-> Cardinality(known)]

Init == /\ log = <<>>
        /\ returned = [g \in Goroutines |-> None]
        /\ observed = [g \in Goroutines |-> None]

Record(g, body) ==
  /\ log' = Append(log, body)
  /\ returned' = [returned EXCEPT ![g] = MeasurementOf(log, body)]
  /\ UNCHANGED observed

Observe(g) ==
  /\ observed' = [observed EXCEPT ![g] = SnapshotOf(log)]
  /\ UNCHANGED <<log, returned>>

Next == \E g \in Goroutines : Observe(g) \/ \E body \in Bodies : Record(g, body)

Spec == Init /\ [][Next]_vars

=============================================================================
