----------------------------- MODULE DedupStore -----------------------------
(***************************************************************************)
(* dedupMeasurementStore of src/localProxy: recordRequest and getSnapshot, *)
(* called by any number of goroutines.  A mutex guards the map of known    *)
(* chunks and the cumulative snapshot.  recordRequest is one step per      *)
(* chunk, since it updates the map and a part of the snapshot on the way   *)
(* and the rest of the snapshot at the end.                                *)
(***************************************************************************)
EXTENDS Integers, Sequences, FiniteSets

CONSTANTS
  Goroutines,  \* the goroutines that record bodies or read the snapshot
  Bodies,      \* the measured bodies
  MaxRecords   \* bound: how many calls of recordRequest

ASSUME MaxRecordsAssumption == MaxRecords \in Nat

VARIABLES
  mut,          \* which goroutine holds the mutex, or Nobody
  knownChunks,  \* the chunks of the store
  snapshot,     \* the cumulative snapshot of the store
  pc,           \* where each goroutine is
  body,         \* the argument of a goroutine's recordRequest
  visited,      \* how many of its chunks the loop has handled
  measurement,  \* its local requestDedupMeasurement
  calls,        \* history: how often recordRequest was called
  log,          \* history: the bodies recorded, in the order of the mutex
  returned,     \* history: what recordRequest returned last
  observed      \* history: what getSnapshot returned last

callVars    == <<body, visited, measurement>>
historyVars == <<calls, log, returned, observed>>
vars == <<mut, knownChunks, snapshot, pc, body, visited, measurement, calls,
          log, returned, observed>>

Ledger == INSTANCE DedupLedger
None == Ledger!None
Nobody == "nobody"

ASSUME StoreAssumption ==
  /\ \A b \in Bodies : Ledger!IsBody(b)
  /\ Nobody \notin Goroutines

NoFigures ==
  [BodyBytes |-> 0, ChunkCount |-> 0, NewChunkBytes |-> 0,
   ReusableChunkBytes |-> 0, NewChunkCount |-> 0, ReusableChunkCount |-> 0,
   SimulatedCacheBytes |-> 0, SimulatedCacheChunks |-> 0]

NoSnapshot ==
  [MeasuredRequestCount |-> 0, BodyBytes |-> 0, ChunkCount |-> 0,
   NewChunkBytes |-> 0, ReusableChunkBytes |-> 0, NewChunkCount |-> 0,
   ReusableChunkCount |-> 0, SimulatedCacheBytes |-> 0,
   SimulatedCacheChunks |-> 0]

-----------------------------------------------------------------------------
(* newDedupMeasurementStore *)
Init ==
  /\ mut = Nobody
  /\ knownChunks = {}
  /\ snapshot = NoSnapshot
  /\ pc = [g \in Goroutines |-> "idle"]
  /\ body = [g \in Goroutines |-> None]
  /\ visited = [g \in Goroutines |-> 0]
  /\ measurement = [g \in Goroutines |-> NoFigures]
  /\ calls = 0
  /\ log = <<>>
  /\ returned = [g \in Goroutines |-> None]
  /\ observed = [g \in Goroutines |-> None]

(* recordRequest, called by measureRequestBody. *)
CallRecord(g, b) ==
  /\ pc[g] = "idle"
  /\ calls < MaxRecords
  /\ calls' = calls + 1
  /\ pc' = [pc EXCEPT ![g] = "record"]
  /\ body' = [body EXCEPT ![g] = b]
  /\ UNCHANGED <<mut, knownChunks, snapshot, visited, measurement, log,
                 returned, observed>>

(* getSnapshot *)
CallSnapshot(g) ==
  /\ pc[g] = "idle"
  /\ pc' = [pc EXCEPT ![g] = "snapshot"]
  /\ UNCHANGED <<mut, knownChunks, snapshot, callVars, historyVars>>

(* Mutation of LockRecord: the mutex is not taken. *)
LockRecordNever(g) ==
  /\ pc[g] = "record"
  /\ mut' = mut
  /\ pc' = [pc EXCEPT ![g] = "visiting"]
  /\ visited' = [visited EXCEPT ![g] = 0]
  /\ measurement' = [measurement EXCEPT
       ![g] = [NoFigures EXCEPT !.BodyBytes = body[g].bytes,
                                !.ChunkCount = Len(body[g].chunks)]]
  /\ UNCHANGED <<knownChunks, snapshot, body, historyVars>>

(* s.mut.Lock() of recordRequest, and the fresh measurement. *)
LockRecord(g) ==
  /\ pc[g] = "record"
  /\ mut = Nobody
  /\ mut' = g
  /\ pc' = [pc EXCEPT ![g] = "visiting"]
  /\ visited' = [visited EXCEPT ![g] = 0]
  /\ measurement' = [measurement EXCEPT
       ![g] = [NoFigures EXCEPT !.BodyBytes = body[g].bytes,
                                !.ChunkCount = Len(body[g].chunks)]]
  /\ UNCHANGED <<knownChunks, snapshot, body, historyVars>>

(* The chunk that the loop handles next. *)
Current(g) == body[g].chunks[visited[g] + 1]

(* Mutations of VisitKnown: its bytes are not counted; the size of the     *)
(* cache is lowered (and runs below zero).                                 *)
VisitKnownUncounted(g) ==
  /\ pc[g] = "visiting"
  /\ visited[g] < Len(body[g].chunks)
  /\ Current(g) \in knownChunks
  /\ measurement' = [measurement EXCEPT ![g].ReusableChunkCount = @ + 1]
  /\ visited' = [visited EXCEPT ![g] = @ + 1]
  /\ UNCHANGED <<mut, knownChunks, snapshot, pc, body, historyVars>>

VisitKnownTakesOut(g) ==
  /\ pc[g] = "visiting"
  /\ visited[g] < Len(body[g].chunks)
  /\ Current(g) \in knownChunks
  /\ snapshot' = [snapshot EXCEPT !.SimulatedCacheBytes = @ - Current(g).length]
  /\ visited' = [visited EXCEPT ![g] = @ + 1]
  /\ UNCHANGED <<mut, knownChunks, measurement, pc, body, historyVars>>

VisitKnown(g) ==
  /\ pc[g] = "visiting"
  /\ visited[g] < Len(body[g].chunks)
  /\ Current(g) \in knownChunks
  /\ measurement' = [measurement EXCEPT
       ![g].ReusableChunkBytes = @ + Current(g).length,
       ![g].ReusableChunkCount = @ + 1]
  /\ visited' = [visited EXCEPT ![g] = @ + 1]
  /\ UNCHANGED <<mut, knownChunks, snapshot, pc, body, historyVars>>

(* Mutation of VisitNew: the chunk is not added to the map. *)
VisitNewForgets(g) ==
  /\ pc[g] = "visiting"
  /\ visited[g] < Len(body[g].chunks)
  /\ Current(g) \notin knownChunks
  /\ measurement' = [measurement EXCEPT
       ![g].NewChunkBytes = @ + Current(g).length,
       ![g].NewChunkCount = @ + 1]
  /\ snapshot' = [snapshot EXCEPT !.SimulatedCacheBytes = @ + Current(g).length]
  /\ visited' = [visited EXCEPT ![g] = @ + 1]
  /\ UNCHANGED <<mut, knownChunks, pc, body, historyVars>>

VisitNew(g) ==
  /\ pc[g] = "visiting"
  /\ visited[g] < Len(body[g].chunks)
  /\ Current(g) \notin knownChunks
  /\ knownChunks' = knownChunks \union {Current(g)}
  /\ measurement' = [measurement EXCEPT
       ![g].NewChunkBytes = @ + Current(g).length,
       ![g].NewChunkCount = @ + 1]
  /\ snapshot' = [snapshot EXCEPT !.SimulatedCacheBytes = @ + Current(g).length]
  /\ visited' = [visited EXCEPT ![g] = @ + 1]
  /\ UNCHANGED <<mut, pc, body, historyVars>>

(* The measurement that recordRequest returns: both totals come from the   *)
(* store.                                                                  *)
Completed(g) ==
  [measurement[g] EXCEPT !.SimulatedCacheChunks = Cardinality(knownChunks),
                         !.SimulatedCacheBytes = snapshot.SimulatedCacheBytes]

Accumulate(old, m) ==
  [old EXCEPT
     !.MeasuredRequestCount = @ + 1,
     !.BodyBytes            = @ + m.BodyBytes,
     !.ChunkCount           = @ + m.ChunkCount,
     !.NewChunkBytes        = @ + m.NewChunkBytes,
     !.ReusableChunkBytes   = @ + m.ReusableChunkBytes,
     !.NewChunkCount        = @ + m.NewChunkCount,
     !.ReusableChunkCount   = @ + m.ReusableChunkCount,
     !.SimulatedCacheChunks = m.SimulatedCacheChunks]

(* The end of recordRequest, with the deferred Unlock. *)
FinishRecord(g) ==
  /\ pc[g] = "visiting"
  /\ visited[g] = Len(body[g].chunks)
  /\ measurement' = [measurement EXCEPT ![g] = Completed(g)]
  /\ snapshot' = Accumulate(snapshot, Completed(g))
  /\ mut' = Nobody
  /\ pc' = [pc EXCEPT ![g] = "idle"]
  /\ log' = Append(log, body[g])
  /\ returned' = [returned EXCEPT ![g] = Completed(g)]
  /\ UNCHANGED <<knownChunks, body, visited, calls, observed>>

(* Mutation of LockSnapshot: getSnapshot reads without the mutex. *)
LockSnapshotNever(g) ==
  /\ pc[g] = "snapshot"
  /\ mut' = mut
  /\ pc' = [pc EXCEPT ![g] = "copying"]
  /\ UNCHANGED <<knownChunks, snapshot, callVars, historyVars>>

LockSnapshot(g) ==
  /\ pc[g] = "snapshot"
  /\ mut = Nobody
  /\ mut' = g
  /\ pc' = [pc EXCEPT ![g] = "copying"]
  /\ UNCHANGED <<knownChunks, snapshot, callVars, historyVars>>

(* Mutation of FinishSnapshot: the mutex is kept. *)
FinishSnapshotKeepsLock(g) ==
  /\ pc[g] = "copying"
  /\ observed' = [observed EXCEPT ![g] = snapshot]
  /\ mut' = mut
  /\ pc' = [pc EXCEPT ![g] = "idle"]
  /\ UNCHANGED <<knownChunks, snapshot, callVars, calls, log, returned>>

(* return s.snapshot, with the deferred Unlock. *)
FinishSnapshot(g) ==
  /\ pc[g] = "copying"
  /\ observed' = [observed EXCEPT ![g] = snapshot]
  /\ mut' = Nobody
  /\ pc' = [pc EXCEPT ![g] = "idle"]
  /\ UNCHANGED <<knownChunks, snapshot, callVars, calls, log, returned>>

-----------------------------------------------------------------------------
Lock(g) == LockRecord(g) \/ LockSnapshot(g)

(* What a goroutine does once it has the mutex. *)
Hold(g) == VisitKnown(g) \/ VisitNew(g) \/ FinishRecord(g) \/ FinishSnapshot(g)

Next == \E g \in Goroutines :
          \/ CallSnapshot(g)
          \/ \E b \in Bodies : CallRecord(g, b)
          \/ Lock(g)
          \/ Hold(g)

Spec == Init /\ [][Next]_vars

(* A goroutine keeps running, and sync.Mutex starves nobody. *)
FairSpec == Spec /\ \A g \in Goroutines : WF_vars(Hold(g)) /\ SF_vars(Lock(g))

-----------------------------------------------------------------------------
(* The type of the state. *)
Figures == [DOMAIN NoFigures -> Nat]
TypeOK ==
  /\ mut \in Goroutines \union {Nobody}
  /\ knownChunks \in SUBSET Ledger!Identity
  /\ IsFiniteSet(knownChunks)
  /\ snapshot \in [DOMAIN NoSnapshot -> Nat]
  /\ pc \in [Goroutines -> {"idle", "record", "visiting", "snapshot", "copying"}]
  /\ body \in [Goroutines -> Bodies \union {None}]
  /\ visited \in [Goroutines -> Nat]
  /\ measurement \in [Goroutines -> Figures]
  /\ calls \in Nat
  /\ log \in Seq(Bodies)

(* No two goroutines are inside the store, whatever either is doing. *)
Inside(g) == pc[g] \in {"visiting", "copying"}
MutualExclusion ==
  \A g, h \in Goroutines : Inside(g) /\ Inside(h) => g = h

(* Every byte and every chunk that was measured is counted once, as new or *)
(* as reusable ("concurrent measurements did not account for every request *)
(* byte" in proxy_integration_test.go), at any moment and not only between *)
(* the calls.                                                              *)
EveryByteCounted ==
  /\ snapshot.NewChunkBytes + snapshot.ReusableChunkBytes = snapshot.BodyBytes
  /\ snapshot.NewChunkCount + snapshot.ReusableChunkCount = snapshot.ChunkCount

(* While nobody is inside the store, the simulated cache holds what was    *)
(* counted as new: no chunk was found new twice, none went into the map    *)
(* uncounted ("simulated cache size differs from unique uploaded bytes").  *)
CacheHoldsTheNewChunks ==
  mut = Nobody =>
    /\ snapshot.SimulatedCacheBytes = snapshot.NewChunkBytes
    /\ snapshot.SimulatedCacheChunks = snapshot.NewChunkCount
    /\ Cardinality(knownChunks) = snapshot.NewChunkCount

(* What recordRequest and getSnapshot return is what the bodies recorded   *)
(* so far say, in one order for all goroutines: no call sees a record that *)
(* is half done.                                                           *)
RefinesLedger == Ledger!Spec

(* Every call of the store returns. *)
CallsReturn == \A g \in Goroutines : pc[g] # "idle" ~> pc[g] = "idle"

=============================================================================
