-------------------------- MODULE DedupStoreProofs --------------------------
(***************************************************************************)
(* Proofs about DedupStore, for any goroutines, bodies and number of       *)
(* records.  Every theorem follows from the inductive invariant IInv.      *)
(***************************************************************************)
EXTENDS DedupStore, FiniteSetTheorems, SequenceTheorems, WellFoundedInduction, TLAPS

(* What the invariants need to be inductive: who has the mutex, what       *)
(* a measurement holds after some chunks of its body, and by how much the  *)
(* map and the size of the cache are ahead of the snapshot meanwhile.      *)
LockState ==
  \A g \in Goroutines : Inside(g) <=> mut = g

RecordState ==
  \A g \in Goroutines :
    /\ pc[g] \in {"record", "visiting"} => body[g] \in Bodies
    /\ pc[g] = "visiting" =>
         LET m == measurement[g]
         IN  /\ visited[g] \in 0..Len(body[g].chunks)
             /\ m.BodyBytes = body[g].bytes
             /\ m.ChunkCount = Len(body[g].chunks)
             /\ m.NewChunkBytes + m.ReusableChunkBytes = body[g].ends[visited[g]]
             /\ m.NewChunkCount + m.ReusableChunkCount = visited[g]

CacheAhead(bytes, chunkCount) ==
  /\ snapshot.SimulatedCacheBytes = snapshot.NewChunkBytes + bytes
  /\ snapshot.SimulatedCacheChunks = snapshot.NewChunkCount
  /\ Cardinality(knownChunks) = snapshot.NewChunkCount + chunkCount

CacheState ==
  /\ (\A g \in Goroutines : pc[g] # "visiting") => CacheAhead(0, 0)
  /\ \A g \in Goroutines :
       pc[g] = "visiting" =>
         CacheAhead(measurement[g].NewChunkBytes, measurement[g].NewChunkCount)

IInv == TypeOK /\ LockState /\ RecordState /\ EveryByteCounted /\ CacheState

(* What RefinesLedger needs besides: the snapshot adds up the bodies of    *)
(* the log, and the map holds their chunks, and those of the body that is  *)
(* being recorded as far as the loop has come.                             *)
Seen(g) == {body[g].chunks[i] : i \in 1..visited[g]}

SnapshotState ==
  /\ snapshot.SimulatedCacheBytes = Ledger!TotalLength(knownChunks)
  /\ \A figure \in {"MeasuredRequestCount", "BodyBytes", "ChunkCount", "NewChunkBytes",
                     "NewChunkCount"} :
       snapshot[figure] = Ledger!SnapshotOf(log)[figure]

MapState ==
  LET recorded == Ledger!Known(log)
      added    == knownChunks \ recorded
  IN  /\ (\A g \in Goroutines : pc[g] # "visiting") => knownChunks = recorded
      /\ \A g \in Goroutines :
           pc[g] = "visiting" =>
             /\ knownChunks = recorded \union Seen(g)
             /\ measurement[g].NewChunkBytes = Ledger!TotalLength(added)
             /\ measurement[g].NewChunkCount = Cardinality(added)

LedgerState == SnapshotState /\ MapState

-----------------------------------------------------------------------------
(* What StoreAssumption says about the parts of a body. *)
LEMMA BodyType ==
  ASSUME NEW b \in Bodies
  PROVE  /\ b.bytes \in Nat /\ b.chunks \in Seq(Ledger!Identity)
         /\ Len(b.chunks) \in Nat
         /\ b.ends \in [0..Len(b.chunks) -> Nat]
         /\ b.ends[0] = 0 /\ b.ends[Len(b.chunks)] = b.bytes
         /\ \A i \in 1..Len(b.chunks) :
              /\ b.chunks[i] \in Ledger!Identity
              /\ b.chunks[i].length \in Nat
              /\ b.ends[i] = b.ends[i - 1] + b.chunks[i].length
<1>1. Ledger!IsBody(b)
  BY StoreAssumption
<1>2. \A i \in 1..Len(b.chunks) : b.chunks[i] \in Ledger!Identity
  BY <1>1 DEF Ledger!IsBody
<1>3. \A id \in Ledger!Identity : id.length \in Nat
  BY DEF Ledger!Identity
<1> QED BY <1>1, <1>2, <1>3 DEF Ledger!IsBody

(* The fields of a measurement are natural numbers. *)
LEMMA FiguresType ==
  ASSUME NEW m \in Figures
  PROVE  /\ m.BodyBytes \in Nat /\ m.ChunkCount \in Nat
         /\ m.NewChunkBytes \in Nat /\ m.ReusableChunkBytes \in Nat
         /\ m.NewChunkCount \in Nat /\ m.ReusableChunkCount \in Nat
         /\ m.SimulatedCacheBytes \in Nat /\ m.SimulatedCacheChunks \in Nat
BY DEF Figures, NoFigures

(* The fields of a snapshot are natural numbers. *)
LEMMA SnapshotType ==
  ASSUME NEW s \in [DOMAIN NoSnapshot -> Nat]
  PROVE  /\ s.MeasuredRequestCount \in Nat /\ s.BodyBytes \in Nat /\ s.ChunkCount \in Nat
         /\ s.NewChunkBytes \in Nat /\ s.ReusableChunkBytes \in Nat
         /\ s.NewChunkCount \in Nat /\ s.ReusableChunkCount \in Nat
         /\ s.SimulatedCacheBytes \in Nat /\ s.SimulatedCacheChunks \in Nat
BY DEF NoSnapshot

(* Their names. *)
LEMMA FiguresDomain ==
  DOMAIN NoFigures = {"BodyBytes", "ChunkCount", "NewChunkBytes", "ReusableChunkBytes",
                      "NewChunkCount", "ReusableChunkCount", "SimulatedCacheBytes",
                      "SimulatedCacheChunks"}
BY DEF NoFigures

(* The names of the snapshot's fields. *)
LEMMA SnapshotDomain ==
  DOMAIN NoSnapshot = {"MeasuredRequestCount", "BodyBytes", "ChunkCount", "NewChunkBytes",
                       "ReusableChunkBytes", "NewChunkCount", "ReusableChunkCount",
                       "SimulatedCacheBytes", "SimulatedCacheChunks"}
BY DEF NoSnapshot

(* A measurement after a known chunk. *)
LEMMA CountedKnown ==
  ASSUME NEW m \in Figures, NEW length \in Nat, NEW n,
         n = [m EXCEPT !.ReusableChunkBytes = m.ReusableChunkBytes + length,
                       !.ReusableChunkCount = m.ReusableChunkCount + 1]
  PROVE  /\ n \in Figures
         /\ n.ReusableChunkBytes = m.ReusableChunkBytes + length
         /\ n.ReusableChunkCount = m.ReusableChunkCount + 1
         /\ n.BodyBytes = m.BodyBytes /\ n.ChunkCount = m.ChunkCount
         /\ n.NewChunkBytes = m.NewChunkBytes /\ n.NewChunkCount = m.NewChunkCount
<1>1. m \in [DOMAIN NoFigures -> Nat]
  BY DEF Figures
<1>2. DOMAIN n = DOMAIN NoFigures /\ DOMAIN m = DOMAIN NoFigures
  BY <1>1
<1>3. /\ n.ReusableChunkBytes = m.ReusableChunkBytes + length
      /\ n.ReusableChunkCount = m.ReusableChunkCount + 1
  BY <1>2, FiguresDomain
<1>4. \A f \in DOMAIN NoFigures \ {"ReusableChunkBytes", "ReusableChunkCount"} : n[f] = m[f]
  BY <1>2, FiguresDomain
<1>5. n.ReusableChunkBytes \in Nat /\ n.ReusableChunkCount \in Nat
  BY <1>3, FiguresType
<1>6. \A f \in DOMAIN NoFigures : n[f] \in Nat
  BY <1>1, <1>4, <1>5
<1>7. n = [f \in DOMAIN NoFigures |-> n[f]]
  BY <1>2, <1>1, Zenon
<1>8. n \in Figures
  BY <1>7, <1>6, Zenon DEF Figures
<1> QED BY <1>3, <1>4, <1>8, FiguresDomain

(* A measurement after a new chunk. *)
LEMMA CountedNew ==
  ASSUME NEW m \in Figures, NEW length \in Nat, NEW n,
         n = [m EXCEPT !.NewChunkBytes = m.NewChunkBytes + length,
                       !.NewChunkCount = m.NewChunkCount + 1]
  PROVE  /\ n \in Figures
         /\ n.NewChunkBytes = m.NewChunkBytes + length
         /\ n.NewChunkCount = m.NewChunkCount + 1
         /\ n.BodyBytes = m.BodyBytes /\ n.ChunkCount = m.ChunkCount
         /\ n.ReusableChunkBytes = m.ReusableChunkBytes /\ n.ReusableChunkCount = m.ReusableChunkCount
<1>1. m \in [DOMAIN NoFigures -> Nat]
  BY DEF Figures
<1>2. DOMAIN n = DOMAIN NoFigures /\ DOMAIN m = DOMAIN NoFigures
  BY <1>1
<1>3. /\ n.NewChunkBytes = m.NewChunkBytes + length
      /\ n.NewChunkCount = m.NewChunkCount + 1
  BY <1>2, FiguresDomain
<1>4. \A f \in DOMAIN NoFigures \ {"NewChunkBytes", "NewChunkCount"} : n[f] = m[f]
  BY <1>2, FiguresDomain
<1>5. n.NewChunkBytes \in Nat /\ n.NewChunkCount \in Nat
  BY <1>3, FiguresType
<1>6. \A f \in DOMAIN NoFigures : n[f] \in Nat
  BY <1>1, <1>4, <1>5
<1>7. n = [f \in DOMAIN NoFigures |-> n[f]]
  BY <1>2, <1>1, Zenon
<1>8. n \in Figures
  BY <1>7, <1>6, Zenon DEF Figures
<1> QED BY <1>3, <1>4, <1>8, FiguresDomain

(* The snapshot after a new chunk. *)
LEMMA CacheGrown ==
  ASSUME NEW s \in [DOMAIN NoSnapshot -> Nat], NEW length \in Nat, NEW n,
         n = [s EXCEPT !.SimulatedCacheBytes = @ + length]
  PROVE  /\ n \in [DOMAIN NoSnapshot -> Nat]
         /\ n.SimulatedCacheBytes = s.SimulatedCacheBytes + length
         /\ n.BodyBytes = s.BodyBytes /\ n.ChunkCount = s.ChunkCount
         /\ n.NewChunkBytes = s.NewChunkBytes /\ n.NewChunkCount = s.NewChunkCount
         /\ n.ReusableChunkBytes = s.ReusableChunkBytes
         /\ n.ReusableChunkCount = s.ReusableChunkCount
         /\ n.SimulatedCacheChunks = s.SimulatedCacheChunks
<1>1. DOMAIN n = DOMAIN NoSnapshot /\ DOMAIN s = DOMAIN NoSnapshot
  OBVIOUS
<1>2. n.SimulatedCacheBytes = s.SimulatedCacheBytes + length
  BY <1>1, SnapshotDomain
<1>3. \A f \in DOMAIN NoSnapshot \ {"SimulatedCacheBytes"} : n[f] = s[f]
  BY <1>1, SnapshotDomain
<1>4. n.SimulatedCacheBytes \in Nat
  BY <1>2, SnapshotType
<1>5. \A f \in DOMAIN NoSnapshot : n[f] \in Nat
  BY <1>3, <1>4
<1>6. n = [f \in DOMAIN NoSnapshot |-> n[f]]
  BY <1>1, Zenon
<1>7. n \in [DOMAIN NoSnapshot -> Nat]
  BY <1>5, <1>6, Zenon
<1> QED BY <1>2, <1>3, <1>7, SnapshotDomain

(* A goroutine that visits chunks is the one with the mutex. *)
LEMMA OneVisitor ==
  ASSUME LockState, NEW g \in Goroutines, Inside(g)
  PROVE  mut = g /\ \A h \in Goroutines : Inside(h) => h = g
BY DEF LockState

-----------------------------------------------------------------------------
(* A new store satisfies IInv. *)
LEMMA InitInv == Init => IInv
<1> SUFFICES ASSUME Init PROVE IInv
  OBVIOUS
<1>1. TypeOK
  BY FS_EmptySet, MaxRecordsAssumption DEF Init, TypeOK, Figures, NoFigures, NoSnapshot
<1>2. LockState
  BY StoreAssumption DEF Init, LockState, Inside
<1>3. RecordState /\ EveryByteCounted
  BY DEF Init, RecordState, EveryByteCounted, NoSnapshot
<1>4. CacheState
  BY FS_EmptySet DEF Init, CacheState, CacheAhead, NoSnapshot
<1> QED BY <1>1, <1>2, <1>3, <1>4 DEF IInv

(* The two calls only put a goroutine in line for the mutex. *)
LEMMA CallRecordInv ==
  ASSUME IInv, NEW g \in Goroutines, NEW b \in Bodies, CallRecord(g, b)
  PROVE  IInv'
<1> USE DEF IInv
<1>1. /\ pc' = [pc EXCEPT ![g] = "record"] /\ body' = [body EXCEPT ![g] = b]
      /\ UNCHANGED <<mut, knownChunks, snapshot, visited, measurement>>
      /\ pc[g] = "idle"
  BY DEF CallRecord
<1>2. pc \in [Goroutines -> {"idle", "record", "visiting", "snapshot", "copying"}]
      /\ body \in [Goroutines -> Bodies \union {None}]
  BY DEF TypeOK
<1>3. TypeOK'
  BY DEF TypeOK, CallRecord
<1>4. LockState'
  BY <1>1, <1>2 DEF LockState, Inside
<1>5. RecordState'
  BY <1>1, <1>2 DEF RecordState
<1>6. EveryByteCounted'
  BY <1>1 DEF EveryByteCounted
<1>7. CacheState'
  BY <1>1, <1>2 DEF CacheState, CacheAhead
<1> QED BY <1>3, <1>4, <1>5, <1>6, <1>7

(* getSnapshot is called. *)
LEMMA CallSnapshotInv ==
  ASSUME IInv, NEW g \in Goroutines, CallSnapshot(g)
  PROVE  IInv'
<1> USE DEF IInv, callVars, historyVars
<1>1. /\ pc' = [pc EXCEPT ![g] = "snapshot"] /\ pc[g] = "idle"
      /\ UNCHANGED <<mut, knownChunks, snapshot, body, visited, measurement>>
      /\ pc \in [Goroutines -> {"idle", "record", "visiting", "snapshot", "copying"}]
  BY DEF CallSnapshot, TypeOK
<1>2. TypeOK'
  BY DEF TypeOK, CallSnapshot
<1>3. LockState'
  BY <1>1 DEF LockState, Inside
<1>4. RecordState'
  BY <1>1 DEF RecordState
<1>5. EveryByteCounted'
  BY <1>1 DEF EveryByteCounted
<1>6. CacheState'
  BY <1>1 DEF CacheState, CacheAhead
<1> QED BY <1>2, <1>3, <1>4, <1>5, <1>6

-----------------------------------------------------------------------------
(* Taking the mutex: nobody else is inside, so the cache is not ahead.     *)
LEMMA LockRecordInv ==
  ASSUME IInv, NEW g \in Goroutines, LockRecord(g)
  PROVE  IInv'
<1> USE DEF IInv, callVars, historyVars
<1> DEFINE fresh == [NoFigures EXCEPT !.BodyBytes = body[g].bytes,
                                      !.ChunkCount = Len(body[g].chunks)]
<1>1. /\ pc[g] = "record" /\ mut = Nobody /\ mut' = g
      /\ pc' = [pc EXCEPT ![g] = "visiting"]
      /\ visited' = [visited EXCEPT ![g] = 0]
      /\ measurement' = [measurement EXCEPT ![g] = fresh]
      /\ UNCHANGED <<knownChunks, snapshot, body, historyVars>>
  BY DEF LockRecord
<1>2. /\ pc \in [Goroutines -> {"idle", "record", "visiting", "snapshot", "copying"}]
      /\ visited \in [Goroutines -> Nat] /\ measurement \in [Goroutines -> Figures]
      /\ snapshot \in [DOMAIN NoSnapshot -> Nat]
  BY DEF TypeOK
<1>3. body[g] \in Bodies
  BY <1>1 DEF RecordState
<1>4. /\ fresh \in Figures
      /\ fresh.BodyBytes = body[g].bytes /\ fresh.ChunkCount = Len(body[g].chunks)
      /\ fresh.NewChunkBytes = 0 /\ fresh.ReusableChunkBytes = 0
      /\ fresh.NewChunkCount = 0 /\ fresh.ReusableChunkCount = 0
  <2>1. body[g].bytes \in Nat /\ Len(body[g].chunks) \in Nat
    BY <1>3, BodyType
  <2>2. /\ fresh.BodyBytes = body[g].bytes /\ fresh.ChunkCount = Len(body[g].chunks)
        /\ fresh.NewChunkBytes = 0 /\ fresh.ReusableChunkBytes = 0
        /\ fresh.NewChunkCount = 0 /\ fresh.ReusableChunkCount = 0
    BY DEF NoFigures
  <2>3. NoFigures \in Figures
    BY DEF NoFigures, Figures
  <2>4. \A f \in DOMAIN NoFigures : fresh[f] \in Nat
    BY <2>1, <2>3 DEF Figures
  <2>5. fresh \in Figures
    BY <2>3, <2>4 DEF Figures
  <2> QED BY <2>2, <2>5
<1> HIDE DEF fresh
<1>5. \A h \in Goroutines : ~Inside(h)
  BY <1>1, StoreAssumption DEF LockState
<1>6. TypeOK'
  BY <1>1, <1>2, <1>4 DEF TypeOK
<1>7. LockState'
  BY <1>1, <1>2, <1>5 DEF LockState, Inside
<1>8. RecordState'
  <2>1. \A h \in Goroutines : pc'[h] = "visiting" => h = g
    BY <1>1, <1>2, <1>5 DEF Inside
  <2>2. \A h \in Goroutines : pc'[h] = "record" => pc[h] = "record"
    BY <1>1, <1>2
  <2>3. /\ visited'[g] = 0 /\ measurement'[g] = fresh /\ body' = body
        /\ Len(body[g].chunks) \in Nat /\ body[g].ends[0] = 0
    BY <1>1, <1>2, <1>3, BodyType
  <2>4. \A h \in Goroutines : pc'[h] \in {"record", "visiting"} => body'[h] \in Bodies
    BY <2>1, <2>2, <2>3, <1>3 DEF RecordState
  <2>5. 0 \in 0..Len(body[g].chunks) /\ 0 + 0 = 0
    BY <2>3
  <2>6. ASSUME NEW h \in Goroutines, pc'[h] = "visiting"
        PROVE  LET m == measurement'[h]
               IN  /\ visited'[h] \in 0..Len(body'[h].chunks)
                   /\ m.BodyBytes = body'[h].bytes
                   /\ m.ChunkCount = Len(body'[h].chunks)
                   /\ m.NewChunkBytes + m.ReusableChunkBytes = body'[h].ends[visited'[h]]
                   /\ m.NewChunkCount + m.ReusableChunkCount = visited'[h]
    BY <2>6, <2>1, <2>3, <2>5, <1>4
  <2> QED BY <2>4, <2>6, Zenon DEF RecordState
<1>9. EveryByteCounted'
  BY <1>1 DEF EveryByteCounted
<1>10. CacheState'
  <2>1. CacheAhead(0, 0)
    BY <1>5 DEF CacheState, Inside
  <2>2. \A h \in Goroutines : pc'[h] = "visiting" <=> h = g
    BY <1>1, <1>2, <1>5 DEF Inside
  <2>3. measurement'[g].NewChunkBytes = 0 /\ measurement'[g].NewChunkCount = 0
    BY <1>1, <1>2, <1>4
  <2> QED BY <2>1, <2>2, <2>3, <1>1 DEF CacheState, CacheAhead
<1> QED BY <1>6, <1>7, <1>8, <1>9, <1>10

(* getSnapshot takes the mutex. *)
LEMMA LockSnapshotInv ==
  ASSUME IInv, NEW g \in Goroutines, LockSnapshot(g)
  PROVE  IInv'
<1> USE DEF IInv, callVars, historyVars
<1>1. /\ pc[g] = "snapshot" /\ mut = Nobody /\ mut' = g
      /\ pc' = [pc EXCEPT ![g] = "copying"]
      /\ UNCHANGED <<knownChunks, snapshot, body, visited, measurement>>
      /\ pc \in [Goroutines -> {"idle", "record", "visiting", "snapshot", "copying"}]
  BY DEF LockSnapshot, TypeOK
<1>2. \A h \in Goroutines : ~Inside(h)
  BY <1>1, StoreAssumption DEF LockState
<1>3. TypeOK'
  BY DEF TypeOK, LockSnapshot
<1>4. LockState'
  BY <1>1, <1>2 DEF LockState, Inside
<1>5. RecordState'
  BY <1>1 DEF RecordState
<1>6. EveryByteCounted'
  BY <1>1 DEF EveryByteCounted
<1>7. CacheState'
  BY <1>1 DEF CacheState, CacheAhead
<1> QED BY <1>3, <1>4, <1>5, <1>6, <1>7

-----------------------------------------------------------------------------
(* What is known of a goroutine that stands before a chunk of its body.    *)
LEMMA VisitorKnows ==
  ASSUME IInv, NEW g \in Goroutines, pc[g] = "visiting", visited[g] < Len(body[g].chunks)
  PROVE  /\ body[g] \in Bodies /\ mut = g
         /\ \A h \in Goroutines : Inside(h) => h = g
         /\ measurement[g] \in Figures
         /\ visited[g] \in Nat /\ visited[g] + 1 \in 0..Len(body[g].chunks)
         /\ Current(g) \in Ledger!Identity /\ Current(g).length \in Nat
         /\ body[g].ends[visited[g]] \in Nat
         /\ body[g].ends[visited[g] + 1] = body[g].ends[visited[g]] + Current(g).length
<1>1. body[g] \in Bodies /\ measurement[g] \in Figures /\ visited[g] \in Nat
  BY DEF IInv, TypeOK, RecordState
<1>2. mut = g /\ \A h \in Goroutines : Inside(h) => h = g
  BY OneVisitor DEF IInv, Inside
<1>3. Len(body[g].chunks) \in Nat
  BY <1>1, BodyType
<1>4. visited[g] + 1 \in 1..Len(body[g].chunks) /\ visited[g] \in 0..Len(body[g].chunks)
      /\ (visited[g] + 1) - 1 = visited[g]
  BY <1>1, <1>3
<1>5. Current(g) \in Ledger!Identity /\ Current(g).length \in Nat
  BY <1>1, <1>4, BodyType DEF Current
<1>6. body[g].ends[visited[g] + 1]
        = body[g].ends[(visited[g] + 1) - 1] + body[g].chunks[visited[g] + 1].length
  BY <1>1, <1>4, BodyType
<1>7. body[g].ends[visited[g]] \in Nat
  BY <1>1, <1>4, BodyType
<1> QED BY <1>1, <1>2, <1>3, <1>4, <1>5, <1>6, <1>7 DEF Current

(* One more chunk, counted one way or the other, keeps RecordState. *)
LEMMA StillCounted ==
  ASSUME RecordState, NEW g \in Goroutines, pc[g] = "visiting",
         measurement \in [Goroutines -> Figures], visited \in [Goroutines -> Nat],
         \A h \in Goroutines : pc[h] = "visiting" => h = g,
         visited[g] + 1 \in 0..Len(body[g].chunks),
         NEW length \in Nat,
         body[g].ends[visited[g] + 1] = body[g].ends[visited[g]] + length,
         NEW m \in Figures, NEW old \in Figures, old = measurement[g],
         m.BodyBytes = old.BodyBytes, m.ChunkCount = old.ChunkCount,
         \/ /\ m.NewChunkBytes = old.NewChunkBytes + length
            /\ m.NewChunkCount = old.NewChunkCount + 1
            /\ m.ReusableChunkBytes = old.ReusableChunkBytes
            /\ m.ReusableChunkCount = old.ReusableChunkCount
         \/ /\ m.ReusableChunkBytes = old.ReusableChunkBytes + length
            /\ m.ReusableChunkCount = old.ReusableChunkCount + 1
            /\ m.NewChunkBytes = old.NewChunkBytes
            /\ m.NewChunkCount = old.NewChunkCount,
         pc' = pc, body' = body,
         visited' = [visited EXCEPT ![g] = @ + 1],
         measurement' = [measurement EXCEPT ![g] = m]
  PROVE  RecordState'
<1>1. /\ old.BodyBytes = body[g].bytes /\ old.ChunkCount = Len(body[g].chunks)
      /\ old.NewChunkBytes + old.ReusableChunkBytes = body[g].ends[visited[g]]
      /\ old.NewChunkCount + old.ReusableChunkCount = visited[g]
  BY DEF RecordState
<1>2. /\ old.NewChunkBytes \in Nat /\ old.ReusableChunkBytes \in Nat
      /\ old.NewChunkCount \in Nat /\ old.ReusableChunkCount \in Nat
  BY FiguresType
<1>3. /\ m.NewChunkBytes + m.ReusableChunkBytes = body[g].ends[visited[g] + 1]
      /\ m.NewChunkCount + m.ReusableChunkCount = visited[g] + 1
  <2>1. \/ m.NewChunkBytes + m.ReusableChunkBytes
             = (old.NewChunkBytes + length) + old.ReusableChunkBytes
        \/ m.NewChunkBytes + m.ReusableChunkBytes
             = old.NewChunkBytes + (old.ReusableChunkBytes + length)
    OBVIOUS
  <2>2. m.NewChunkBytes + m.ReusableChunkBytes
          = (old.NewChunkBytes + old.ReusableChunkBytes) + length
    BY <2>1, <1>2
  <2>3. m.NewChunkCount + m.ReusableChunkCount
          = (old.NewChunkCount + old.ReusableChunkCount) + 1
    BY <1>2
  <2> QED BY <2>2, <2>3, <1>1, Zenon
<1>4. visited'[g] = visited[g] + 1 /\ measurement'[g] = m
  OBVIOUS
<1>5. ASSUME NEW h \in Goroutines, pc'[h] = "visiting"
      PROVE  LET n == measurement'[h]
             IN  /\ visited'[h] \in 0..Len(body'[h].chunks)
                 /\ n.BodyBytes = body'[h].bytes
                 /\ n.ChunkCount = Len(body'[h].chunks)
                 /\ n.NewChunkBytes + n.ReusableChunkBytes = body'[h].ends[visited'[h]]
                 /\ n.NewChunkCount + n.ReusableChunkCount = visited'[h]
  <2>1. h = g
    BY <1>5
  <2> QED BY <2>1, <1>1, <1>3, <1>4
<1>6. \A h \in Goroutines : pc'[h] \in {"record", "visiting"} => body'[h] \in Bodies
  BY DEF RecordState
<1> QED BY <1>5, <1>6, Zenon DEF RecordState

(* A known chunk is counted as reusable. *)
LEMMA VisitKnownInv ==
  ASSUME IInv, NEW g \in Goroutines, VisitKnown(g)
  PROVE  IInv'
<1> DEFINE length == Current(g).length
           m == [measurement[g] EXCEPT !.ReusableChunkBytes = @ + length,
                                       !.ReusableChunkCount = @ + 1]
<1>1. /\ pc[g] = "visiting" /\ visited[g] < Len(body[g].chunks)
      /\ visited' = [visited EXCEPT ![g] = @ + 1]
      /\ UNCHANGED <<mut, knownChunks, snapshot, pc, body, historyVars>>
  BY DEF VisitKnown
<1>2. measurement' = [measurement EXCEPT ![g] = m]
  BY DEF VisitKnown
<1>3. /\ measurement \in [Goroutines -> Figures] /\ visited \in [Goroutines -> Nat]
      /\ body[g] \in Bodies /\ measurement[g] \in Figures /\ length \in Nat
      /\ visited[g] \in Nat /\ visited[g] + 1 \in 0..Len(body[g].chunks)
      /\ body[g].ends[visited[g]] \in Nat
      /\ body[g].ends[visited[g] + 1] = body[g].ends[visited[g]] + length
      /\ \A h \in Goroutines : pc[h] = "visiting" => h = g
  BY <1>1, VisitorKnows DEF IInv, TypeOK, Inside
<1> HIDE DEF length
<1>4. /\ m.BodyBytes = measurement[g].BodyBytes /\ m.ChunkCount = measurement[g].ChunkCount
      /\ m.NewChunkBytes = measurement[g].NewChunkBytes
      /\ m.NewChunkCount = measurement[g].NewChunkCount
      /\ m.ReusableChunkBytes = measurement[g].ReusableChunkBytes + length
      /\ m.ReusableChunkCount = measurement[g].ReusableChunkCount + 1
      /\ m \in Figures
  <2>1. m = [measurement[g] EXCEPT !.ReusableChunkBytes = measurement[g].ReusableChunkBytes + length,
                                   !.ReusableChunkCount = measurement[g].ReusableChunkCount + 1]
    OBVIOUS
  <2> HIDE DEF m
  <2>2. measurement[g] \in Figures /\ length \in Nat
    BY <1>3
  <2>3. m \in Figures
    BY <2>1, <2>2, CountedKnown
  <2>4. m.BodyBytes = measurement[g].BodyBytes
    BY <2>1, <2>2, CountedKnown, ZenonT(40)
  <2>5. m.ChunkCount = measurement[g].ChunkCount
    BY <2>1, <2>2, CountedKnown, ZenonT(40)
  <2>6. m.ReusableChunkBytes = measurement[g].ReusableChunkBytes + length
    BY <2>1, <2>2, CountedKnown
  <2>7. m.ReusableChunkCount = measurement[g].ReusableChunkCount + 1
    BY <2>1, <2>2, CountedKnown
  <2>8. m.NewChunkBytes = measurement[g].NewChunkBytes
    BY <2>1, <2>2, FiguresDomain DEF Figures
  <2>9. m.NewChunkCount = measurement[g].NewChunkCount
    BY <2>1, <2>2, FiguresDomain DEF Figures
  <2> QED BY <2>3, <2>4, <2>5, <2>6, <2>7, <2>8, <2>9
<1> HIDE DEF m
<1>5. TypeOK'
  BY <1>1, <1>2, <1>3, <1>4 DEF IInv, TypeOK, historyVars
<1>6. LockState'
  BY <1>1 DEF IInv, LockState, Inside
<1>7. RecordState'
  BY <1>1, <1>2, <1>3, <1>4, StillCounted DEF IInv
<1>8. EveryByteCounted'
  BY <1>1 DEF IInv, EveryByteCounted
<1>9. CacheState'
  BY <1>1, <1>2, <1>3, <1>4 DEF IInv, CacheState, CacheAhead
<1> QED BY <1>5, <1>6, <1>7, <1>8, <1>9 DEF IInv

(* A new chunk enters the map: the cache gets ahead of the snapshot by it. *)
LEMMA VisitNewInv ==
  ASSUME IInv, NEW g \in Goroutines, VisitNew(g)
  PROVE  IInv'
<1> DEFINE length == Current(g).length
           m == [measurement[g] EXCEPT !.NewChunkBytes = @ + length,
                                       !.NewChunkCount = @ + 1]
<1>1. /\ pc[g] = "visiting" /\ visited[g] < Len(body[g].chunks)
      /\ visited' = [visited EXCEPT ![g] = @ + 1]
      /\ Current(g) \notin knownChunks /\ knownChunks' = knownChunks \union {Current(g)}
      /\ snapshot' = [snapshot EXCEPT !.SimulatedCacheBytes = @ + length]
      /\ UNCHANGED <<mut, pc, body, historyVars>>
  BY DEF VisitNew
<1>2. measurement' = [measurement EXCEPT ![g] = m]
  BY DEF VisitNew
<1>3. /\ measurement \in [Goroutines -> Figures] /\ visited \in [Goroutines -> Nat]
      /\ body[g] \in Bodies /\ measurement[g] \in Figures /\ length \in Nat
      /\ visited[g] \in Nat /\ visited[g] + 1 \in 0..Len(body[g].chunks)
      /\ body[g].ends[visited[g]] \in Nat
      /\ body[g].ends[visited[g] + 1] = body[g].ends[visited[g]] + length
      /\ \A h \in Goroutines : pc[h] = "visiting" => h = g
      /\ snapshot \in [DOMAIN NoSnapshot -> Nat]
      /\ Current(g) \in Ledger!Identity
  BY <1>1, VisitorKnows DEF IInv, TypeOK, Inside
<1>4. /\ IsFiniteSet(knownChunks') /\ knownChunks' \subseteq Ledger!Identity
      /\ Cardinality(knownChunks') = Cardinality(knownChunks) + 1
      /\ Cardinality(knownChunks) \in Nat
  BY <1>1, <1>3, FS_AddElement, FS_CardinalityType DEF IInv, TypeOK
<1> HIDE DEF length
<1>5. /\ m.BodyBytes = measurement[g].BodyBytes /\ m.ChunkCount = measurement[g].ChunkCount
      /\ m.NewChunkBytes = measurement[g].NewChunkBytes + length
      /\ m.NewChunkCount = measurement[g].NewChunkCount + 1
      /\ m.ReusableChunkBytes = measurement[g].ReusableChunkBytes
      /\ m.ReusableChunkCount = measurement[g].ReusableChunkCount
      /\ m \in Figures
  <2>1. m = [measurement[g] EXCEPT !.NewChunkBytes = measurement[g].NewChunkBytes + length,
                                   !.NewChunkCount = measurement[g].NewChunkCount + 1]
    OBVIOUS
  <2> HIDE DEF m
  <2>2. measurement[g] \in Figures /\ length \in Nat
    BY <1>3
  <2>3. m \in Figures
    BY <2>1, <2>2, CountedNew
  <2>4. m.BodyBytes = measurement[g].BodyBytes
    BY <2>1, <2>2, CountedNew, ZenonT(40)
  <2>5. m.ChunkCount = measurement[g].ChunkCount
    BY <2>1, <2>2, CountedNew, ZenonT(40)
  <2>6. m.NewChunkBytes = measurement[g].NewChunkBytes + length
    BY <2>1, <2>2, CountedNew
  <2>7. m.NewChunkCount = measurement[g].NewChunkCount + 1
    BY <2>1, <2>2, CountedNew
  <2>8. m.ReusableChunkBytes = measurement[g].ReusableChunkBytes
    BY <2>1, <2>2, FiguresDomain DEF Figures
  <2>9. m.ReusableChunkCount = measurement[g].ReusableChunkCount
    BY <2>1, <2>2, FiguresDomain DEF Figures
  <2> QED BY <2>3, <2>4, <2>5, <2>6, <2>7, <2>8, <2>9
<1>6. /\ snapshot' \in [DOMAIN NoSnapshot -> Nat]
      /\ snapshot'.SimulatedCacheBytes = snapshot.SimulatedCacheBytes + length
  BY <1>1, <1>3, CacheGrown, SMTT(30)
<1>7. /\ snapshot'.BodyBytes = snapshot.BodyBytes /\ snapshot'.ChunkCount = snapshot.ChunkCount
      /\ snapshot'.NewChunkBytes = snapshot.NewChunkBytes
      /\ snapshot'.NewChunkCount = snapshot.NewChunkCount
      /\ snapshot'.ReusableChunkBytes = snapshot.ReusableChunkBytes
      /\ snapshot'.ReusableChunkCount = snapshot.ReusableChunkCount
      /\ snapshot'.SimulatedCacheChunks = snapshot.SimulatedCacheChunks
  BY <1>1, <1>3, CacheGrown
<1> HIDE DEF m
<1>8. TypeOK'
  BY <1>1, <1>2, <1>3, <1>4, <1>5, <1>6, SMTT(30) DEF IInv, TypeOK, historyVars
<1>9. LockState'
  BY <1>1 DEF IInv, LockState, Inside
<1>10. RecordState'
  BY <1>1, <1>2, <1>3, <1>5, StillCounted DEF IInv
<1>11. EveryByteCounted'
  BY <1>7 DEF IInv, EveryByteCounted
<1>12. CacheState'
  <2>1. CacheAhead(measurement[g].NewChunkBytes, measurement[g].NewChunkCount)
    BY <1>1 DEF IInv, CacheState
  <2>2. measurement'[g] = m /\ pc' = pc
    BY <1>1, <1>2, <1>3
  <2>3. /\ snapshot'.SimulatedCacheBytes = snapshot'.NewChunkBytes + m.NewChunkBytes
        /\ snapshot'.SimulatedCacheChunks = snapshot'.NewChunkCount
        /\ Cardinality(knownChunks') = snapshot'.NewChunkCount + m.NewChunkCount
    <3>1. /\ measurement[g].NewChunkBytes \in Nat /\ measurement[g].NewChunkCount \in Nat
          /\ snapshot.NewChunkBytes \in Nat /\ snapshot.NewChunkCount \in Nat
      BY <1>3, FiguresType, SnapshotType
    <3>2. /\ snapshot.SimulatedCacheBytes = snapshot.NewChunkBytes + measurement[g].NewChunkBytes
          /\ snapshot.SimulatedCacheChunks = snapshot.NewChunkCount
          /\ Cardinality(knownChunks) = snapshot.NewChunkCount + measurement[g].NewChunkCount
      BY <2>1 DEF CacheAhead
    <3>3. snapshot'.SimulatedCacheBytes = snapshot'.NewChunkBytes + m.NewChunkBytes
      BY <3>1, <3>2, <1>3, <1>5, <1>6, <1>7
    <3>4. Cardinality(knownChunks') = snapshot'.NewChunkCount + m.NewChunkCount
      BY <3>1, <3>2, <1>4, <1>5, <1>7
    <3> QED BY <3>2, <3>3, <3>4, <1>7
  <2> QED BY <2>2, <2>3, <1>1, <1>3 DEF CacheState, CacheAhead
<1> QED BY <1>8, <1>9, <1>10, <1>11, <1>12 DEF IInv

-----------------------------------------------------------------------------
(* The measurement that is returned and the snapshot it is added to.       *)
LEMMA CompletedFields ==
  ASSUME NEW g, measurement[g] \in Figures, IsFiniteSet(knownChunks),
         snapshot \in [DOMAIN NoSnapshot -> Nat]
  PROVE  /\ Completed(g) \in Figures
         /\ \A f \in DOMAIN NoFigures \ {"SimulatedCacheBytes", "SimulatedCacheChunks"} :
              Completed(g)[f] = measurement[g][f]
         /\ Completed(g).SimulatedCacheChunks = Cardinality(knownChunks)
<1> DEFINE m == Completed(g)
<1>1. Cardinality(knownChunks) \in Nat /\ snapshot.SimulatedCacheBytes \in Nat
  BY FS_CardinalityType, SnapshotType
<1>2. DOMAIN m = DOMAIN NoFigures /\ DOMAIN measurement[g] = DOMAIN NoFigures
  BY DEF Completed, Figures
<1>3. /\ m.SimulatedCacheChunks = Cardinality(knownChunks)
      /\ m.SimulatedCacheBytes = snapshot.SimulatedCacheBytes
  BY <1>2, FiguresDomain DEF Completed
<1>4. \A f \in DOMAIN NoFigures \ {"SimulatedCacheBytes", "SimulatedCacheChunks"} :
        m[f] = measurement[g][f]
  BY <1>2, FiguresDomain DEF Completed
<1>5. \A f \in DOMAIN NoFigures : m[f] \in Nat
  BY <1>1, <1>3, <1>4 DEF Figures
<1>6. m = [f \in DOMAIN NoFigures |-> m[f]]
  BY <1>2, Zenon DEF Completed
<1>7. m \in Figures
  BY <1>5, <1>6, Zenon DEF Figures
<1> QED BY <1>3, <1>4, <1>7

(* What the snapshot becomes, field by field. *)
LEMMA AccumulateFields ==
  ASSUME NEW old \in [DOMAIN NoSnapshot -> Nat], NEW m \in Figures
  PROVE  LET new == Accumulate(old, m)
         IN  /\ new \in [DOMAIN NoSnapshot -> Nat]
             /\ new.BodyBytes = old.BodyBytes + m.BodyBytes
             /\ new.ChunkCount = old.ChunkCount + m.ChunkCount
             /\ new.NewChunkBytes = old.NewChunkBytes + m.NewChunkBytes
             /\ new.ReusableChunkBytes = old.ReusableChunkBytes + m.ReusableChunkBytes
             /\ new.NewChunkCount = old.NewChunkCount + m.NewChunkCount
             /\ new.ReusableChunkCount = old.ReusableChunkCount + m.ReusableChunkCount
             /\ new.SimulatedCacheChunks = m.SimulatedCacheChunks
             /\ new.SimulatedCacheBytes = old.SimulatedCacheBytes
<1> DEFINE new == Accumulate(old, m)
<1>1. DOMAIN new = DOMAIN NoSnapshot
  BY DEF Accumulate
<1>2. /\ new.MeasuredRequestCount = old.MeasuredRequestCount + 1
      /\ new.BodyBytes = old.BodyBytes + m.BodyBytes
      /\ new.ChunkCount = old.ChunkCount + m.ChunkCount
      /\ new.NewChunkBytes = old.NewChunkBytes + m.NewChunkBytes
      /\ new.ReusableChunkBytes = old.ReusableChunkBytes + m.ReusableChunkBytes
      /\ new.NewChunkCount = old.NewChunkCount + m.NewChunkCount
      /\ new.ReusableChunkCount = old.ReusableChunkCount + m.ReusableChunkCount
      /\ new.SimulatedCacheChunks = m.SimulatedCacheChunks
      /\ new.SimulatedCacheBytes = old.SimulatedCacheBytes
  BY SnapshotDomain DEF Accumulate
<1>3. \A f \in DOMAIN NoSnapshot : new[f] \in Nat
  BY <1>2, SnapshotDomain, SnapshotType, FiguresType
<1>4. new = [f \in DOMAIN NoSnapshot |-> new[f]]
  BY <1>1, Zenon DEF Accumulate
<1>5. new \in [DOMAIN NoSnapshot -> Nat]
  BY <1>3, <1>4, Zenon
<1> QED BY <1>2, <1>5

(* The end of recordRequest: what the cache was ahead by is now counted.   *)
LEMMA FinishRecordInv ==
  ASSUME IInv, NEW g \in Goroutines, FinishRecord(g)
  PROVE  IInv'
<1> DEFINE m == Completed(g)
           old == measurement[g]
<1>1. /\ pc[g] = "visiting" /\ visited[g] = Len(body[g].chunks)
      /\ measurement' = [measurement EXCEPT ![g] = m]
      /\ snapshot' = Accumulate(snapshot, m)
      /\ mut' = Nobody /\ pc' = [pc EXCEPT ![g] = "idle"]
      /\ log' = Append(log, body[g])
      /\ UNCHANGED <<knownChunks, body, visited, calls>>
  BY DEF FinishRecord
<1>2. /\ measurement \in [Goroutines -> Figures] /\ old \in Figures
      /\ pc \in [Goroutines -> {"idle", "record", "visiting", "snapshot", "copying"}]
      /\ snapshot \in [DOMAIN NoSnapshot -> Nat] /\ IsFiniteSet(knownChunks)
      /\ body[g] \in Bodies /\ log \in Seq(Bodies)
  BY <1>1 DEF IInv, TypeOK, RecordState
<1>3. mut = g /\ \A h \in Goroutines : Inside(h) => h = g
  BY <1>1, OneVisitor DEF IInv, Inside
<1>4. m \in Figures /\ m.SimulatedCacheChunks = Cardinality(knownChunks)
  BY <1>2, CompletedFields
<1>5. /\ m.BodyBytes = old.BodyBytes /\ m.ChunkCount = old.ChunkCount
      /\ m.NewChunkBytes = old.NewChunkBytes /\ m.NewChunkCount = old.NewChunkCount
      /\ m.ReusableChunkBytes = old.ReusableChunkBytes
      /\ m.ReusableChunkCount = old.ReusableChunkCount
  BY <1>2, CompletedFields, FiguresDomain
<1> HIDE DEF m
<1>6. /\ snapshot' \in [DOMAIN NoSnapshot -> Nat]
      /\ snapshot'.BodyBytes = snapshot.BodyBytes + m.BodyBytes
      /\ snapshot'.ChunkCount = snapshot.ChunkCount + m.ChunkCount
      /\ snapshot'.NewChunkBytes = snapshot.NewChunkBytes + m.NewChunkBytes
      /\ snapshot'.ReusableChunkBytes = snapshot.ReusableChunkBytes + m.ReusableChunkBytes
      /\ snapshot'.NewChunkCount = snapshot.NewChunkCount + m.NewChunkCount
      /\ snapshot'.ReusableChunkCount = snapshot.ReusableChunkCount + m.ReusableChunkCount
      /\ snapshot'.SimulatedCacheChunks = m.SimulatedCacheChunks
      /\ snapshot'.SimulatedCacheBytes = snapshot.SimulatedCacheBytes
  BY <1>1, <1>2, <1>4, AccumulateFields
<1>7. /\ old.NewChunkBytes + old.ReusableChunkBytes = old.BodyBytes
      /\ old.NewChunkCount + old.ReusableChunkCount = old.ChunkCount
  BY <1>1, <1>2, BodyType, SMTT(30) DEF IInv, RecordState
<1>8. /\ snapshot.BodyBytes \in Nat /\ snapshot.ChunkCount \in Nat
      /\ snapshot.NewChunkBytes \in Nat /\ snapshot.NewChunkCount \in Nat
      /\ snapshot.ReusableChunkBytes \in Nat /\ snapshot.ReusableChunkCount \in Nat
      /\ old.NewChunkBytes \in Nat /\ old.NewChunkCount \in Nat
      /\ old.ReusableChunkBytes \in Nat /\ old.ReusableChunkCount \in Nat
      /\ old.BodyBytes \in Nat /\ old.ChunkCount \in Nat
  BY <1>2, SnapshotType, FiguresType
<1> HIDE DEF old
<1>9. \A h \in Goroutines : pc'[h] = IF h = g THEN "idle" ELSE pc[h]
  BY <1>1, <1>2
<1>10. \A h \in Goroutines : ~Inside(h)'
  BY <1>3, <1>9 DEF Inside
<1>11. TypeOK'
  <2>1. log' \in Seq(Bodies)
    BY <1>1, <1>2
  <2>2. pc' \in [Goroutines -> {"idle", "record", "visiting", "snapshot", "copying"}]
        /\ measurement' \in [Goroutines -> Figures]
    BY <1>1, <1>2, <1>4
  <2> QED BY <2>1, <2>2, <1>1, <1>6 DEF IInv, TypeOK
<1>12. LockState'
  BY <1>1, <1>10, StoreAssumption DEF LockState
<1>13. RecordState'
  BY <1>1, <1>9, <1>10 DEF IInv, RecordState, Inside
<1>14. EveryByteCounted'
  <2>1. /\ snapshot.NewChunkBytes + snapshot.ReusableChunkBytes = snapshot.BodyBytes
        /\ snapshot.NewChunkCount + snapshot.ReusableChunkCount = snapshot.ChunkCount
    BY DEF IInv, EveryByteCounted
  <2>2. snapshot'.NewChunkBytes + snapshot'.ReusableChunkBytes = snapshot'.BodyBytes
    BY <2>1, <1>5, <1>6, <1>7, <1>8
  <2>3. snapshot'.NewChunkCount + snapshot'.ReusableChunkCount = snapshot'.ChunkCount
    BY <2>1, <1>5, <1>6, <1>7, <1>8
  <2> QED BY <2>2, <2>3 DEF EveryByteCounted
<1>15. CacheState'
  <2>1. CacheAhead(old.NewChunkBytes, old.NewChunkCount)
    BY <1>1 DEF IInv, CacheState, old
  <2>2. /\ snapshot'.SimulatedCacheBytes = snapshot'.NewChunkBytes + 0
        /\ snapshot'.SimulatedCacheChunks = snapshot'.NewChunkCount
        /\ Cardinality(knownChunks') = snapshot'.NewChunkCount + 0
    <3>1. /\ snapshot.SimulatedCacheBytes = snapshot.NewChunkBytes + old.NewChunkBytes
          /\ Cardinality(knownChunks) = snapshot.NewChunkCount + old.NewChunkCount
      BY <2>1 DEF CacheAhead
    <3>2. snapshot'.SimulatedCacheBytes = snapshot'.NewChunkBytes + 0
      BY <3>1, <1>5, <1>6, <1>8
    <3>3. Cardinality(knownChunks') = snapshot'.NewChunkCount + 0
      BY <3>1, <1>1, <1>5, <1>6, <1>8
    <3>4. snapshot'.SimulatedCacheChunks = Cardinality(knownChunks')
      BY <1>1, <1>4, <1>6
    <3>5. snapshot'.NewChunkCount + 0 = snapshot'.NewChunkCount
      BY <1>5, <1>6, <1>8
    <3> QED BY <3>2, <3>3, <3>4, <3>5
  <2> QED BY <2>2, <1>10 DEF CacheState, CacheAhead, Inside
<1> QED BY <1>11, <1>12, <1>13, <1>14, <1>15 DEF IInv

(* getSnapshot returns. *)
LEMMA FinishSnapshotInv ==
  ASSUME IInv, NEW g \in Goroutines, FinishSnapshot(g)
  PROVE  IInv'
<1> USE DEF IInv, callVars
<1>1. /\ pc[g] = "copying" /\ mut' = Nobody /\ pc' = [pc EXCEPT ![g] = "idle"]
      /\ UNCHANGED <<knownChunks, snapshot, body, visited, measurement>>
      /\ pc \in [Goroutines -> {"idle", "record", "visiting", "snapshot", "copying"}]
  BY DEF FinishSnapshot, TypeOK
<1>2. \A h \in Goroutines : Inside(h) => h = g
  BY <1>1, OneVisitor DEF Inside
<1>3. TypeOK'
  BY DEF TypeOK, FinishSnapshot
<1>4. LockState'
  BY <1>1, <1>2, StoreAssumption DEF LockState, Inside
<1>5. RecordState'
  BY <1>1 DEF RecordState
<1>6. EveryByteCounted'
  BY <1>1 DEF EveryByteCounted
<1>7. CacheState'
  BY <1>1 DEF CacheState, CacheAhead
<1> QED BY <1>3, <1>4, <1>5, <1>6, <1>7

-----------------------------------------------------------------------------
(* Every step keeps IInv. *)
LEMMA StepInv == IInv /\ [Next]_vars => IInv'
<1> SUFFICES ASSUME IInv, [Next]_vars PROVE IInv'
  OBVIOUS
<1>1. ASSUME NEW g \in Goroutines, CallSnapshot(g) \/ \E b \in Bodies : CallRecord(g, b)
      PROVE  IInv'
  BY <1>1, CallSnapshotInv, CallRecordInv
<1>2. ASSUME NEW g \in Goroutines, Lock(g) PROVE IInv'
  BY <1>2, LockRecordInv, LockSnapshotInv DEF Lock
<1>3. ASSUME NEW g \in Goroutines, Hold(g) PROVE IInv'
  BY <1>3, VisitKnownInv, VisitNewInv, FinishRecordInv, FinishSnapshotInv DEF Hold
<1>4. CASE UNCHANGED vars
  BY <1>4 DEF vars, IInv, TypeOK, LockState, RecordState, EveryByteCounted, CacheState,
              CacheAhead, Inside, Current
<1> QED BY <1>1, <1>2, <1>3, <1>4 DEF Next

(* IInv holds in every state of the store. *)
THEOREM Invariant == Spec => []IInv
<1> QED BY InitInv, StepInv, PTL DEF Spec

-----------------------------------------------------------------------------
(* Every state of the store has its type: no counter ever runs below zero. *)
THEOREM TypeCorrect == Spec => []TypeOK
<1>1. IInv => TypeOK
  BY DEF IInv
<1> QED BY <1>1, Invariant, PTL

(* No two goroutines are ever inside the store. *)
THEOREM Exclusion == Spec => []MutualExclusion
<1>1. IInv => MutualExclusion
  BY DEF IInv, LockState, MutualExclusion
<1> QED BY <1>1, Invariant, PTL

(* Every byte and every chunk is counted once, as new or as reusable. *)
THEOREM BytesCounted == Spec => []EveryByteCounted
<1>1. IInv => EveryByteCounted
  BY DEF IInv
<1> QED BY <1>1, Invariant, PTL

(* Between two holders of the mutex the simulated cache holds exactly what *)
(* was counted as new.                                                     *)
THEOREM CacheExact == Spec => []CacheHoldsTheNewChunks
<1>1. IInv => CacheHoldsTheNewChunks
  <2> SUFFICES ASSUME IInv, mut = Nobody PROVE CacheHoldsTheNewChunks
    BY DEF CacheHoldsTheNewChunks
  <2>1. \A g \in Goroutines : pc[g] # "visiting"
    BY StoreAssumption DEF IInv, LockState, Inside
  <2>2. CacheAhead(0, 0)
    BY <2>1 DEF IInv, CacheState
  <2>3. snapshot.NewChunkBytes \in Nat /\ snapshot.NewChunkCount \in Nat
    BY SnapshotType DEF IInv, TypeOK
  <2> QED BY <2>2, <2>3 DEF CacheAhead, CacheHoldsTheNewChunks
<1> QED BY <1>1, Invariant, PTL

-----------------------------------------------------------------------------
(* Sums over finite sets, as the library computes them: it takes one       *)
(* element after the other, of its own choice.  A sum is held by a         *)
(* function of the parts of a set.                                         *)
One(s) == CHOOSE x \in s : TRUE
SumOver(total, f, s) == IF s = {} THEN 0 ELSE f[One(s)] + total[s \ {One(s)}]
Sums(total, f, S) == total = [s \in SUBSET S |-> SumOver(total, f, s)]

(* Induction over the natural numbers, for a set.  The library's theorem   *)
(* has an operator as its parameter, so this one takes the least number    *)
(* outside of T.                                                           *)
LEMMA Induction ==
  ASSUME NEW T, 0 \in T, \A n \in Nat : n \in T => n + 1 \in T
  PROVE  Nat \subseteq T
<1> SUFFICES ASSUME Nat \ T # {} PROVE FALSE
  OBVIOUS
<1> DEFINE Less == {ss \in Nat \X Nat : ss[1] < ss[2]}
<1>1. IsWellFoundedOn(Less, Nat)
  BY NatLessThanWellFounded DEF OpToRel
<1>2. PICK n \in Nat \ T : \A k \in Nat \ T : <<k, n>> \notin Less
  BY <1>1, WFMin, Zenon
<1>3. n - 1 \in Nat /\ <<n - 1, n>> \in Less /\ (n - 1) + 1 = n
  OBVIOUS
<1>4. n - 1 \in T
  BY <1>2, <1>3
<1> QED BY <1>3, <1>4

(* The element that is taken first, and what is left. *)
LEMMA OneOf ==
  ASSUME NEW S, IsFiniteSet(S), NEW s \in SUBSET S, s # {}
  PROVE  /\ One(s) \in s /\ s \ {One(s)} \in SUBSET S
         /\ Cardinality(s \ {One(s)}) = Cardinality(s) - 1
<1>1. One(s) \in s
  BY DEF One
<1>2. IsFiniteSet(s)
  BY FS_Subset
<1>3. Cardinality(s \ {One(s)}) = Cardinality(s) - 1
  BY <1>1, <1>2, FS_RemoveElement
<1> QED BY <1>1, <1>3

(* The size of a part. *)
LEMMA PartSize ==
  ASSUME NEW S, IsFiniteSet(S), NEW s \in SUBSET S
  PROVE  Cardinality(s) \in Nat /\ IsFiniteSet(s) /\ (Cardinality(s) = 0 <=> s = {})
BY FS_Subset, FS_CardinalityType, FS_EmptySet

(* There is such a function for every finite set: sums of n + 1 elements   *)
(* come from those of n.                                                   *)
LEMMA SumsExist ==
  ASSUME NEW S, IsFiniteSet(S), NEW f
  PROVE  \E total : Sums(total, f, S)
<1> DEFINE Upto(t, n) == \A s \in SUBSET S : Cardinality(s) <= n => t[s] = SumOver(t, f, s)
           T == {n \in Nat : \E t : Upto(t, n)}
<1>1. 0 \in T
  <2>1. Upto([s \in SUBSET S |-> 0], 0)
    BY PartSize DEF SumOver
  <2> QED BY <2>1
<1>2. ASSUME NEW n \in Nat, n \in T PROVE n + 1 \in T
  <2>1. PICK t : Upto(t, n)
    BY <1>2
  <2> DEFINE g == [s \in SUBSET S |-> SumOver(t, f, s)]
  <2>2. \A s \in SUBSET S : g[s] = SumOver(t, f, s)
    OBVIOUS
  <2> HIDE DEF g
  <2>3. ASSUME NEW s \in SUBSET S, Cardinality(s) <= n + 1 PROVE g[s] = SumOver(g, f, s)
    <3>1. CASE s = {}
      BY <2>2, <3>1 DEF SumOver
    <3>2. CASE s # {}
      <4>1. s \ {One(s)} \in SUBSET S /\ Cardinality(s \ {One(s)}) <= n
        BY <2>3, <3>2, OneOf, PartSize
      <4>2. g[s \ {One(s)}] = t[s \ {One(s)}]
        BY <2>1, <2>2, <4>1
      <4> QED BY <2>2, <3>2, <4>2 DEF SumOver
    <3> QED BY <3>1, <3>2
  <2>4. Upto(g, n + 1)
    BY <2>3
  <2> QED BY <2>4
<1> HIDE DEF T
<1>3. Cardinality(S) \in T
  BY <1>1, <1>2, Induction, PartSize
<1>4. PICK t : Upto(t, Cardinality(S))
  BY <1>3 DEF T
<1> DEFINE total == [s \in SUBSET S |-> t[s]]
<1>5. \A s \in SUBSET S : Cardinality(s) <= Cardinality(S)
  BY FS_Subset
<1>6. ASSUME NEW s \in SUBSET S PROVE t[s] = SumOver(total, f, s)
  <2>1. s # {} => s \ {One(s)} \in SUBSET S
    BY OneOf
  <2> QED BY <1>4, <1>5, <2>1 DEF SumOver
<1>7. Sums(total, f, S)
  BY <1>6 DEF Sums
<1> QED BY <1>7

(* Whichever element is taken first, the sum is the same. *)
LEMMA SumTakesAny ==
  ASSUME NEW S, IsFiniteSet(S), NEW f, NEW t, Sums(t, f, S), \A x \in S : f[x] \in Int
  PROVE  \A s \in SUBSET S : t[s] \in Int /\ \A y \in s : t[s] = f[y] + t[s \ {y}]
<1> DEFINE Any(s) == t[s] \in Int /\ \A y \in s : t[s] = f[y] + t[s \ {y}]
           T == {n \in Nat : \A s \in SUBSET S : Cardinality(s) <= n => Any(s)}
<1>1. \A s \in SUBSET S : t[s] = SumOver(t, f, s)
  BY DEF Sums
<1>2. Any({})
  <2>1. {} \in SUBSET S
    OBVIOUS
  <2>2. t[{}] = 0
    BY <1>1, <2>1 DEF SumOver
  <2> QED BY <2>2
<1>3. 0 \in T
  <2>1. \A s \in SUBSET S : Cardinality(s) <= 0 => s = {}
    BY PartSize
  <2> HIDE DEF Any
  <2>2. \A s \in SUBSET S : Cardinality(s) <= 0 => Any(s)
    BY <1>2, <2>1
  <2> QED BY <2>2
<1>4. ASSUME NEW n \in Nat, n \in T PROVE n + 1 \in T
  <2> SUFFICES ASSUME NEW s \in SUBSET S, Cardinality(s) <= n + 1, s # {} PROVE Any(s)
    <3> HIDE DEF Any
    <3> QED BY <1>2
  <2> DEFINE x == One(s)
             r == s \ {x}
  <2>1. x \in s /\ r \in SUBSET S /\ Cardinality(r) <= n
    BY OneOf, PartSize
  <2> HIDE DEF x
  <2>2. t[s] = f[x] + t[r]
    BY <1>1 DEF SumOver, x
  <2>3. t[r] \in Int /\ \A y \in r : t[r] = f[y] + t[r \ {y}]
    BY <1>4, <2>1
  <2>4. ASSUME NEW y \in s, y # x PROVE t[s] = f[y] + t[s \ {y}]
    <3> DEFINE q == s \ {y}
    <3>1. y \in r /\ x \in q /\ q \ {x} = r \ {y} /\ q \in SUBSET S /\ r \ {y} \in SUBSET S
      BY <2>1, <2>4
    <3>2. Cardinality(q) <= n /\ Cardinality(r \ {y}) <= n
      <4>1. IsFiniteSet(s) /\ IsFiniteSet(r) /\ Cardinality(s) \in Nat /\ Cardinality(r) \in Nat
        BY <2>1, PartSize
      <4>2. Cardinality(q) = Cardinality(s) - 1
        BY <4>1, FS_RemoveElement
      <4>3. Cardinality(r \ {y}) = Cardinality(r) - 1
        BY <3>1, <4>1, FS_RemoveElement
      <4> QED BY <2>1, <4>1, <4>2, <4>3
    <3> HIDE DEF q, r
    <3>3. t[q] = f[x] + t[q \ {x}] /\ t[r \ {y}] \in Int
      BY <1>4, <3>1, <3>2
    <3>4. t[r] = f[y] + t[r \ {y}]
      BY <2>3, <3>1
    <3>5. f[x] \in Int /\ f[y] \in Int
      BY <2>1
    <3>6. t[q \ {x}] = t[r \ {y}]
      BY <3>1, Zenon
    <3>7. PICK a \in Int, b \in Int, c \in Int : a = f[x] /\ b = f[y] /\ c = t[r \ {y}]
      BY <3>3, <3>5
    <3>8. t[s] = a + (b + c) /\ t[q] = a + c
      BY <2>2, <3>3, <3>4, <3>6, <3>7
    <3> QED BY <3>7, <3>8 DEF q
  <2>5. t[s] \in Int
    BY <2>1, <2>2, <2>3
  <2> QED BY <2>2, <2>4, <2>5
<1> HIDE DEF T
<1>5. ASSUME NEW s \in SUBSET S PROVE Any(s)
  <2>1. PICK n \in Nat : n = Cardinality(s)
    BY PartSize
  <2>2. n \in T
    BY <1>3, <1>4, Induction
  <2> HIDE DEF Any
  <2> QED BY <2>1, <2>2 DEF T
<1> QED BY <1>5

(* A sum depends on the terms only. *)
LEMMA SumsAgree ==
  ASSUME NEW S, NEW R, IsFiniteSet(S), NEW f, NEW h, NEW t, NEW u,
         Sums(t, f, S), Sums(u, h, R), NEW p \in SUBSET S, p \in SUBSET R,
         \A x \in p : f[x] = h[x]
  PROVE  t[p] = u[p]
<1> DEFINE T == {n \in Nat : \A s \in SUBSET p : Cardinality(s) <= n => t[s] = u[s]}
<1>0. \A s \in SUBSET p : t[s] = SumOver(t, f, s) /\ u[s] = SumOver(u, h, s)
  BY DEF Sums
<1>1. 0 \in T
  <2>1. \A s \in SUBSET p : Cardinality(s) <= 0 => s = {}
    BY PartSize
  <2>2. {} \in SUBSET p
    OBVIOUS
  <2>3. t[{}] = 0 /\ u[{}] = 0
    BY <1>0, <2>2 DEF SumOver
  <2> QED BY <2>1, <2>3
<1>2. ASSUME NEW n \in Nat, n \in T PROVE n + 1 \in T
  <2> SUFFICES ASSUME NEW s \in SUBSET p, Cardinality(s) <= n + 1, s # {} PROVE t[s] = u[s]
    BY <1>0 DEF SumOver
  <2>1. /\ One(s) \in s /\ s \ {One(s)} \in SUBSET p /\ Cardinality(s \ {One(s)}) <= n
    BY OneOf, PartSize
  <2>2. t[s \ {One(s)}] = u[s \ {One(s)}]
    BY <1>2, <2>1
  <2> QED BY <1>0, <2>1, <2>2 DEF SumOver
<1> HIDE DEF T
<1>3. Cardinality(p) \in T /\ Cardinality(p) \in Nat
  BY <1>1, <1>2, Induction, PartSize
<1> QED BY <1>3 DEF T

(* The sum over one element more. *)
LEMMA SumGrows ==
  ASSUME NEW S, IsFiniteSet(S), NEW x, x \notin S, NEW f, NEW h, NEW t, NEW u,
         Sums(t, f, S), Sums(u, h, S \union {x}), \A y \in S : f[y] = h[y],
         \A y \in S \union {x} : h[y] \in Int
  PROVE  t[S] \in Int /\ u[S \union {x}] = t[S] + h[x]
<1> DEFINE R == S \union {x}
<1>1. IsFiniteSet(R)
  BY FS_AddElement
<1>2. R \ {x} = S /\ x \in R /\ S \in SUBSET R /\ R \in SUBSET R
  OBVIOUS
<1>3. u[S] \in Int /\ u[R] = h[x] + u[R \ {x}]
  BY <1>1, <1>2, SumTakesAny
<1>4. t[S] = u[S]
  BY <1>2, SumsAgree
<1>5. PICK a \in Int, b \in Int : a = t[S] /\ b = h[x]
  BY <1>3, <1>4
<1>6. u[R] = b + a
  BY <1>2, <1>3, <1>4, <1>5
<1>7. u[R] = a + b
  BY <1>6
<1> QED BY <1>5, <1>7

-----------------------------------------------------------------------------
(* The sums of DedupLedger. *)
LengthOf == [id \in Ledger!Identity |-> id.length]
BytesOf(bodies) == [i \in 1..Len(bodies) |-> bodies[i].bytes]
CountOf(bodies) == [i \in 1..Len(bodies) |-> Len(bodies[i].chunks)]

(* The library folds over a set by choosing one element after the other. *)
LEMMA TotalIsSum ==
  ASSUME NEW S \in SUBSET Ledger!Identity, IsFiniteSet(S)
  PROVE  \E t : Sums(t, LengthOf, S) /\ Ledger!TotalLength(S) = t[S]
<1> DEFINE Adds(t) == t = [s \in SUBSET (S) |->
                            IF s = {} THEN 0
                            ELSE LET x == CHOOSE x \in s : TRUE IN x.length + t[s \ {x}]]
<1>1. ASSUME NEW t PROVE Sums(t, LengthOf, S) <=> Adds(t)
  <2>1. ASSUME NEW s \in SUBSET (S), s # {}
        PROVE  LengthOf[One(s)] = LET x == CHOOSE x \in s : TRUE IN x.length
    <3>1. One(s) \in s
      BY <2>1 DEF One
    <3> QED BY <3>1 DEF LengthOf, One
  <2>2. \A s \in SUBSET (S) :
          SumOver(t, LengthOf, s) =
            IF s = {} THEN 0
            ELSE LET x == CHOOSE x \in s : TRUE IN x.length + t[s \ {x}]
    BY <2>1 DEF SumOver, One
  <2> QED BY <2>2 DEF Sums
<1>2. PICK t : Adds(t)
  <2>1. IsFiniteSet(S)
    OBVIOUS
  <2> HIDE DEF Adds
  <2> QED BY <1>1, <2>1, SumsExist
<1>3. Ledger!TotalLength(S) = (CHOOSE sum : Adds(sum))[S]
  BY DEF Ledger!TotalLength, Ledger!MapThenSumSet, Ledger!MapThenFoldSet
<1> HIDE DEF Adds
<1>4. Adds(CHOOSE sum : Adds(sum))
  BY <1>2, Zenon
<1> QED BY <1>1, <1>3, <1>4

(* The bytes of all bodies. *)
LEMMA BytesAreSum ==
  ASSUME NEW bodies, Len(bodies) \in Nat
  PROVE  \E t : Sums(t, BytesOf(bodies), 1..Len(bodies)) /\ Ledger!SnapshotOf(bodies).BodyBytes = t[1..Len(bodies)]
<1> DEFINE Adds(t) == t = [s \in SUBSET (1..Len(bodies)) |->
                            IF s = {} THEN 0
                            ELSE LET x == CHOOSE x \in s : TRUE IN bodies[x].bytes + t[s \ {x}]]
<1>1. ASSUME NEW t PROVE Sums(t, BytesOf(bodies), 1..Len(bodies)) <=> Adds(t)
  <2>1. ASSUME NEW s \in SUBSET (1..Len(bodies)), s # {}
        PROVE  BytesOf(bodies)[One(s)] = LET x == CHOOSE x \in s : TRUE IN bodies[x].bytes
    <3>1. One(s) \in s
      BY <2>1 DEF One
    <3> QED BY <3>1 DEF BytesOf, One
  <2>2. \A s \in SUBSET (1..Len(bodies)) :
          SumOver(t, BytesOf(bodies), s) =
            IF s = {} THEN 0
            ELSE LET x == CHOOSE x \in s : TRUE IN bodies[x].bytes + t[s \ {x}]
    BY <2>1 DEF SumOver, One
  <2> QED BY <2>2 DEF Sums
<1>2. PICK t : Adds(t)
  <2>1. IsFiniteSet(1..Len(bodies))
    BY FS_Interval
  <2> HIDE DEF Adds
  <2> QED BY <1>1, <2>1, SumsExist
<1>3. Ledger!SnapshotOf(bodies).BodyBytes = (CHOOSE sum : Adds(sum))[1..Len(bodies)]
  BY DEF Ledger!SnapshotOf, Ledger!MapThenSumSet, Ledger!MapThenFoldSet
<1> HIDE DEF Adds
<1>4. Adds(CHOOSE sum : Adds(sum))
  BY <1>2, Zenon
<1> QED BY <1>1, <1>3, <1>4

(* The chunks of all bodies. *)
LEMMA CountIsSum ==
  ASSUME NEW bodies, Len(bodies) \in Nat
  PROVE  \E t : Sums(t, CountOf(bodies), 1..Len(bodies)) /\ Ledger!SnapshotOf(bodies).ChunkCount = t[1..Len(bodies)]
<1> DEFINE Adds(t) == t = [s \in SUBSET (1..Len(bodies)) |->
                            IF s = {} THEN 0
                            ELSE LET x == CHOOSE x \in s : TRUE IN Len(bodies[x].chunks) + t[s \ {x}]]
<1>1. ASSUME NEW t PROVE Sums(t, CountOf(bodies), 1..Len(bodies)) <=> Adds(t)
  <2>1. ASSUME NEW s \in SUBSET (1..Len(bodies)), s # {}
        PROVE  CountOf(bodies)[One(s)] = LET x == CHOOSE x \in s : TRUE IN Len(bodies[x].chunks)
    <3>1. One(s) \in s
      BY <2>1 DEF One
    <3> QED BY <3>1 DEF CountOf, One
  <2>2. \A s \in SUBSET (1..Len(bodies)) :
          SumOver(t, CountOf(bodies), s) =
            IF s = {} THEN 0
            ELSE LET x == CHOOSE x \in s : TRUE IN Len(bodies[x].chunks) + t[s \ {x}]
    BY <2>1 DEF SumOver, One
  <2> QED BY <2>2 DEF Sums
<1>2. PICK t : Adds(t)
  <2>1. IsFiniteSet(1..Len(bodies))
    BY FS_Interval
  <2> HIDE DEF Adds
  <2> QED BY <1>1, <2>1, SumsExist
<1>3. Ledger!SnapshotOf(bodies).ChunkCount = (CHOOSE sum : Adds(sum))[1..Len(bodies)]
  BY DEF Ledger!SnapshotOf, Ledger!MapThenSumSet, Ledger!MapThenFoldSet
<1> HIDE DEF Adds
<1>4. Adds(CHOOSE sum : Adds(sum))
  BY <1>2, Zenon
<1> QED BY <1>1, <1>3, <1>4


(* TotalLength of one chunk more. *)
LEMMA TotalGrows ==
  ASSUME NEW S \in SUBSET Ledger!Identity, IsFiniteSet(S),
         NEW x \in Ledger!Identity, x \notin S
  PROVE  /\ Ledger!TotalLength(S) \in Int
         /\ Ledger!TotalLength(S \union {x}) = Ledger!TotalLength(S) + x.length
<1>1. IsFiniteSet(S \union {x}) /\ S \union {x} \in SUBSET Ledger!Identity
  BY FS_AddElement
<1>2. PICK t : Sums(t, LengthOf, S) /\ Ledger!TotalLength(S) = t[S]
  BY TotalIsSum
<1>3. PICK u : /\ Sums(u, LengthOf, S \union {x})
               /\ Ledger!TotalLength(S \union {x}) = u[S \union {x}]
  BY <1>1, TotalIsSum
<1>4. \A y \in Ledger!Identity : LengthOf[y] = y.length /\ y.length \in Int
  BY DEF LengthOf, Ledger!Identity
<1>5. \A y \in S \union {x} : LengthOf[y] \in Int
  BY <1>4
<1>6. t[S] \in Int /\ u[S \union {x}] = t[S] + LengthOf[x]
  BY <1>2, <1>3, <1>5, SumGrows
<1> QED BY <1>2, <1>3, <1>4, <1>6

(* TotalLength of none. *)
LEMMA TotalEmpty == Ledger!TotalLength({}) = 0
<1>1. {} \in SUBSET Ledger!Identity /\ IsFiniteSet({})
  BY FS_EmptySet
<1>2. PICK t : Sums(t, LengthOf, {}) /\ Ledger!TotalLength({}) = t[{}]
  BY <1>1, TotalIsSum
<1>3. t[{}] = 0
  BY <1>2 DEF Sums, SumOver
<1> QED BY <1>2, <1>3

(* The figures of one more body. *)
LEMMA RecordedGrow ==
  ASSUME NEW bodies \in Seq(Bodies), NEW b \in Bodies
  PROVE  LET old == Ledger!SnapshotOf(bodies)
             new == Ledger!SnapshotOf(Append(bodies, b))
         IN  /\ old.BodyBytes \in Int /\ new.BodyBytes = old.BodyBytes + b.bytes
             /\ old.ChunkCount \in Int /\ new.ChunkCount = old.ChunkCount + Len(b.chunks)
<1> DEFINE more == Append(bodies, b)
           n == Len(bodies)
<1>1. /\ n \in Nat /\ more \in Seq(Bodies) /\ Len(more) = n + 1
      /\ \A i \in 1..n : more[i] = bodies[i] /\ bodies[i] \in Bodies
      /\ more[n + 1] = b
  BY AppendProperties, LenProperties, ElementOfSeq
<1> HIDE DEF more, n
<1>2. /\ 1..(n + 1) = (1..n) \union {n + 1} /\ n + 1 \notin 1..n /\ IsFiniteSet(1..n)
      /\ n + 1 \in Nat
  <2>1. 1..(n + 1) = (1..n) \union {n + 1} /\ n + 1 \notin 1..n /\ n + 1 \in Nat
    BY <1>1
  <2>2. IsFiniteSet(1..n)
    BY <1>1, FS_Interval
  <2> QED BY <2>1, <2>2
<1>3. \A i \in 1..(n + 1) : more[i].bytes \in Int /\ Len(more[i].chunks) \in Int
  <2>1. \A i \in 1..(n + 1) : more[i] \in Bodies
    BY <1>1, <1>2
  <2>2. \A c \in Bodies : c.bytes \in Int /\ Len(c.chunks) \in Int
    BY BodyType
  <2> QED BY <2>1, <2>2
<1>4. /\ Ledger!SnapshotOf(bodies).BodyBytes \in Int
      /\ Ledger!SnapshotOf(more).BodyBytes = Ledger!SnapshotOf(bodies).BodyBytes + b.bytes
  <2>1. PICK t : Sums(t, BytesOf(bodies), 1..n) /\ Ledger!SnapshotOf(bodies).BodyBytes = t[1..n]
    BY <1>1, BytesAreSum DEF n
  <2>2. PICK u : /\ Sums(u, BytesOf(more), 1..(n + 1))
                 /\ Ledger!SnapshotOf(more).BodyBytes = u[1..(n + 1)]
    BY <1>1, <1>2, BytesAreSum
  <2>3. /\ \A i \in 1..n : BytesOf(bodies)[i] = BytesOf(more)[i]
        /\ \A i \in 1..(n + 1) : BytesOf(more)[i] \in Int
        /\ BytesOf(more)[n + 1] = b.bytes
    BY <1>1, <1>2, <1>3 DEF BytesOf, n
  <2>4. t[1..n] \in Int /\ u[1..(n + 1)] = t[1..n] + BytesOf(more)[n + 1]
    <3> DEFINE N == 1..n
               M == 1..(n + 1)
    <3>1. M = N \union {n + 1} /\ n + 1 \notin N /\ IsFiniteSet(N)
      BY <1>2
    <3>2. /\ Sums(t, BytesOf(bodies), N) /\ Sums(u, BytesOf(more), M)
          /\ \A i \in N : BytesOf(bodies)[i] = BytesOf(more)[i]
          /\ \A i \in M : BytesOf(more)[i] \in Int
      BY <2>1, <2>2, <2>3
    <3> HIDE DEF N, M
    <3>3. Sums(u, BytesOf(more), N \union {n + 1})
      BY <3>1, <3>2
    <3>4. \A i \in N \union {n + 1} : BytesOf(more)[i] \in Int
      BY <3>1, <3>2
    <3>5. t[N] \in Int /\ u[N \union {n + 1}] = t[N] + BytesOf(more)[n + 1]
      BY <3>1, <3>2, <3>3, <3>4, SumGrows
    <3> QED BY <3>1, <3>5 DEF N, M
  <2> QED BY <2>1, <2>2, <2>3, <2>4
<1>5. /\ Ledger!SnapshotOf(bodies).ChunkCount \in Int
      /\ Ledger!SnapshotOf(more).ChunkCount = Ledger!SnapshotOf(bodies).ChunkCount + Len(b.chunks)
  <2>1. PICK t : Sums(t, CountOf(bodies), 1..n) /\ Ledger!SnapshotOf(bodies).ChunkCount = t[1..n]
    BY <1>1, CountIsSum DEF n
  <2>2. PICK u : /\ Sums(u, CountOf(more), 1..(n + 1))
                 /\ Ledger!SnapshotOf(more).ChunkCount = u[1..(n + 1)]
    BY <1>1, <1>2, CountIsSum
  <2>3. /\ \A i \in 1..n : CountOf(bodies)[i] = CountOf(more)[i]
        /\ \A i \in 1..(n + 1) : CountOf(more)[i] \in Int
        /\ CountOf(more)[n + 1] = Len(b.chunks)
    BY <1>1, <1>2, <1>3 DEF CountOf, n
  <2>4. t[1..n] \in Int /\ u[1..(n + 1)] = t[1..n] + CountOf(more)[n + 1]
    <3> DEFINE N == 1..n
               M == 1..(n + 1)
    <3>1. M = N \union {n + 1} /\ n + 1 \notin N /\ IsFiniteSet(N)
      BY <1>2
    <3>2. /\ Sums(t, CountOf(bodies), N) /\ Sums(u, CountOf(more), M)
          /\ \A i \in N : CountOf(bodies)[i] = CountOf(more)[i]
          /\ \A i \in M : CountOf(more)[i] \in Int
      BY <2>1, <2>2, <2>3
    <3> HIDE DEF N, M
    <3>3. Sums(u, CountOf(more), N \union {n + 1})
      BY <3>1, <3>2
    <3>4. \A i \in N \union {n + 1} : CountOf(more)[i] \in Int
      BY <3>1, <3>2
    <3>5. t[N] \in Int /\ u[N \union {n + 1}] = t[N] + CountOf(more)[n + 1]
      BY <3>1, <3>2, <3>3, <3>4, SumGrows
    <3> QED BY <3>1, <3>5 DEF N, M
  <2> QED BY <2>1, <2>2, <2>3, <2>4
<1> QED BY <1>4, <1>5 DEF more

(* Ledger reaches the same Cardinality through its INSTANCE. *)
LEMMA SameCardinality == \A S : Ledger!Cardinality(S) = Cardinality(S)
BY DEF Cardinality, Ledger!Cardinality

(* The other figures of a snapshot are made of its sums. *)
LEMMA RecordedFields ==
  ASSUME NEW bodies
  PROVE  LET s == Ledger!SnapshotOf(bodies)
             known == Ledger!Known(bodies)
         IN  /\ DOMAIN s = DOMAIN NoSnapshot
             /\ s = [f \in DOMAIN NoSnapshot |-> s[f]]
             /\ s.MeasuredRequestCount = Len(bodies)
             /\ s.NewChunkBytes = Ledger!TotalLength(known)
             /\ s.ReusableChunkBytes = s.BodyBytes - s.NewChunkBytes
             /\ s.NewChunkCount = Cardinality(known)
             /\ s.ReusableChunkCount = s.ChunkCount - s.NewChunkCount
             /\ s.SimulatedCacheBytes = s.NewChunkBytes
             /\ s.SimulatedCacheChunks = s.NewChunkCount
<1> DEFINE s == Ledger!SnapshotOf(bodies)
           known == Ledger!Known(bodies)
<1>1. PICK bytes, chunkCount :
        s = [MeasuredRequestCount |-> Len(bodies),
             BodyBytes            |-> bytes,
             ChunkCount           |-> chunkCount,
             NewChunkBytes        |-> Ledger!TotalLength(known),
             ReusableChunkBytes   |-> bytes - Ledger!TotalLength(known),
             NewChunkCount        |-> Ledger!Cardinality(known),
             ReusableChunkCount   |-> chunkCount - Ledger!Cardinality(known),
             SimulatedCacheBytes  |-> Ledger!TotalLength(known),
             SimulatedCacheChunks |-> Ledger!Cardinality(known)]
  BY Zenon DEF Ledger!SnapshotOf
<1> HIDE DEF s, known
<1>2. Ledger!Cardinality(known) = Cardinality(known)
  BY SameCardinality
<1>3. s = [f \in DOMAIN NoSnapshot |-> s[f]]
  BY <1>1 DEF NoSnapshot
<1>4. DOMAIN s = DOMAIN NoSnapshot
  BY <1>3
<1>5. /\ s.MeasuredRequestCount = Len(bodies)
      /\ s.NewChunkBytes = Ledger!TotalLength(known)
      /\ s.ReusableChunkBytes = s.BodyBytes - s.NewChunkBytes
      /\ s.NewChunkCount = Cardinality(known)
      /\ s.ReusableChunkCount = s.ChunkCount - s.NewChunkCount
      /\ s.SimulatedCacheBytes = s.NewChunkBytes
      /\ s.SimulatedCacheChunks = s.NewChunkCount
  BY <1>1, <1>2
<1> QED BY <1>3, <1>4, <1>5 DEF s, known

(* The figures of an empty log. *)
LEMMA NothingRecorded ==
  /\ Ledger!Known(<<>>) = {}
  /\ Ledger!SnapshotOf(<<>>).BodyBytes = 0 /\ Ledger!SnapshotOf(<<>>).ChunkCount = 0
<1>1. <<>> \in Seq(Bodies) /\ Len(<<>>) = 0 /\ 1..0 = {} /\ 0 \in Nat
  BY EmptySeq
<1>2. Ledger!Known(<<>>) = {}
  BY <1>1 DEF Ledger!Known
<1>3. PICK t : Sums(t, BytesOf(<<>>), 1..0) /\ Ledger!SnapshotOf(<<>>).BodyBytes = t[1..0]
  BY <1>1, BytesAreSum
<1>4. PICK u : Sums(u, CountOf(<<>>), 1..0) /\ Ledger!SnapshotOf(<<>>).ChunkCount = u[1..0]
  BY <1>1, CountIsSum
<1>5. t[{}] = 0 /\ u[{}] = 0
  BY <1>1, <1>3, <1>4 DEF Sums, SumOver
<1> QED BY <1>1, <1>2, <1>3, <1>4, <1>5

(* The chunks of one more body. *)
LEMMA KnownGrows ==
  ASSUME NEW bodies \in Seq(Bodies), NEW b \in Bodies
  PROVE  Ledger!Known(Append(bodies, b)) = Ledger!Known(bodies) \union Ledger!ChunksOf(b)
<1> DEFINE more == Append(bodies, b)
           n == Len(bodies)
<1>1. /\ n \in Nat /\ Len(more) = n + 1 /\ more[n + 1] = b
      /\ \A i \in 1..n : more[i] = bodies[i]
  BY AppendProperties, LenProperties
<1> HIDE DEF more, n
<1>2. 1..(n + 1) = (1..n) \union {n + 1}
  BY <1>1
<1>3. \A c : c \in Ledger!Known(more) <=> \E i \in 1..(n + 1) : c \in Ledger!ChunksOf(more[i])
  BY <1>1 DEF Ledger!Known
<1>4. \A c : c \in Ledger!Known(bodies) <=> \E i \in 1..n : c \in Ledger!ChunksOf(bodies[i])
  BY DEF Ledger!Known, n
<1>5. \A c : c \in Ledger!Known(more) <=> c \in Ledger!Known(bodies) \/ c \in Ledger!ChunksOf(b)
  BY <1>1, <1>2, <1>3, <1>4
<1> QED BY <1>5 DEF more

-----------------------------------------------------------------------------
(* LedgerState, and the store as an implementation of DedupLedger.         *)
LEMMA LedgerInit == Init => LedgerState
<1> SUFFICES ASSUME Init PROVE LedgerState
  OBVIOUS
<1>1. /\ log = <<>> /\ knownChunks = {} /\ snapshot = NoSnapshot
      /\ \A g \in Goroutines : pc[g] = "idle"
  BY DEF Init
<1>2. Ledger!Known(log) = {} /\ Ledger!TotalLength({}) = 0 /\ Cardinality({}) = 0 /\ Len(log) = 0
  BY <1>1, NothingRecorded, TotalEmpty, FS_EmptySet, EmptySeq
<1>3. SnapshotState
  <2> DEFINE s == Ledger!SnapshotOf(log)
  <2>1. /\ s.MeasuredRequestCount = 0 /\ s.BodyBytes = 0 /\ s.ChunkCount = 0
        /\ s.NewChunkBytes = 0 /\ s.NewChunkCount = 0
    BY <1>1, <1>2, NothingRecorded, RecordedFields
  <2> HIDE DEF s
  <2> QED BY <1>1, <1>2, <2>1 DEF SnapshotState, NoSnapshot, s
<1>4. MapState
  BY <1>1, <1>2 DEF MapState
<1> QED BY <1>3, <1>4 DEF LedgerState

(* The bodies of the log put nothing else into the map. *)
LEMMA KnownIsKept ==
  ASSUME IInv, LedgerState
  PROVE  /\ Ledger!Known(log) \subseteq knownChunks
         /\ knownChunks \ Ledger!Known(log) \in SUBSET Ledger!Identity
         /\ IsFiniteSet(knownChunks \ Ledger!Known(log))
<1>1. Ledger!Known(log) \subseteq knownChunks
  BY DEF LedgerState, MapState
<1>2. knownChunks \in SUBSET Ledger!Identity /\ IsFiniteSet(knownChunks)
  BY DEF IInv, TypeOK
<1>3. IsFiniteSet(knownChunks \ Ledger!Known(log))
  BY <1>2, FS_Subset
<1> QED BY <1>1, <1>2, <1>3

(* A step that neither records nor visits a chunk. *)
LEMMA LedgerUntouched ==
  ASSUME LedgerState, UNCHANGED <<knownChunks, snapshot, log>>,
         \A h \in Goroutines : pc'[h] = "visiting" <=> pc[h] = "visiting",
         \A h \in Goroutines :
           pc[h] = "visiting" => /\ body'[h] = body[h] /\ visited'[h] = visited[h]
                                 /\ measurement'[h] = measurement[h]
  PROVE  LedgerState'
<1>1. SnapshotState'
  BY DEF LedgerState, SnapshotState
<1>2. MapState'
  <2>1. ASSUME NEW h \in Goroutines, pc[h] = "visiting" PROVE Seen(h)' = Seen(h)
    <3>1. body'[h] = body[h] /\ visited'[h] = visited[h]
      BY <2>1
    <3> QED BY <3>1 DEF Seen
  <2>2. MapState
    BY DEF LedgerState
  <2>3. (\A h \in Goroutines : pc'[h] # "visiting") => knownChunks' = Ledger!Known(log')
    BY <2>2 DEF MapState
  <2>4. ASSUME NEW h \in Goroutines, pc'[h] = "visiting"
        PROVE  /\ knownChunks' = Ledger!Known(log') \union Seen(h)'
               /\ measurement'[h].NewChunkBytes =
                    Ledger!TotalLength(knownChunks' \ Ledger!Known(log'))
               /\ measurement'[h].NewChunkCount = Cardinality(knownChunks' \ Ledger!Known(log'))
    <3>1. pc[h] = "visiting" /\ measurement'[h] = measurement[h] /\ Seen(h)' = Seen(h)
      BY <2>1, <2>4
    <3>2. /\ knownChunks = Ledger!Known(log) \union Seen(h)
          /\ measurement[h].NewChunkBytes = Ledger!TotalLength(knownChunks \ Ledger!Known(log))
          /\ measurement[h].NewChunkCount = Cardinality(knownChunks \ Ledger!Known(log))
      BY <2>2, <3>1 DEF MapState
    <3> QED BY <3>1, <3>2
  <2> QED BY <2>3, <2>4 DEF MapState
<1> QED BY <1>1, <1>2 DEF LedgerState

(* Taking the mutex to record: no chunk was seen yet. *)
LEMMA LockRecordLedger ==
  ASSUME IInv, LedgerState, NEW g \in Goroutines, LockRecord(g)
  PROVE  LedgerState'
<1> DEFINE fresh == [NoFigures EXCEPT !.BodyBytes = body[g].bytes,
                                      !.ChunkCount = Len(body[g].chunks)]
           recorded == Ledger!Known(log)
<1>1. /\ pc[g] = "record" /\ mut = Nobody
      /\ pc' = [pc EXCEPT ![g] = "visiting"]
      /\ visited' = [visited EXCEPT ![g] = 0]
      /\ measurement' = [measurement EXCEPT ![g] = fresh]
      /\ UNCHANGED <<knownChunks, snapshot, body, log>>
  BY DEF LockRecord, historyVars
<1>2. pc \in [Goroutines -> {"idle", "record", "visiting", "snapshot", "copying"}]
      /\ visited \in [Goroutines -> Nat] /\ measurement \in [Goroutines -> Figures]
  BY DEF IInv, TypeOK
<1>3. \A h \in Goroutines : pc[h] # "visiting"
  BY <1>1, StoreAssumption DEF IInv, LockState, Inside
<1>4. fresh.NewChunkBytes = 0 /\ fresh.NewChunkCount = 0
  BY DEF NoFigures
<1> HIDE DEF fresh
<1>5. \A h \in Goroutines : pc'[h] = "visiting" <=> h = g
  BY <1>1, <1>2, <1>3
<1>6. knownChunks' = recorded /\ log' = log
  BY <1>1, <1>3 DEF LedgerState, MapState
<1>7. visited'[g] = 0 /\ measurement'[g] = fresh
  BY <1>1, <1>2
<1>8. Seen(g)' = {}
  BY <1>7 DEF Seen
<1>9. Ledger!TotalLength({}) = 0 /\ Cardinality({}) = 0
  BY TotalEmpty, FS_EmptySet
<1>10. SnapshotState'
  BY <1>1 DEF LedgerState, SnapshotState
<1>11. MapState'
  <2>1. knownChunks' \ Ledger!Known(log') = {} /\ knownChunks' = Ledger!Known(log') \union Seen(g)'
    BY <1>6, <1>8
  <2>2. /\ measurement'[g].NewChunkBytes = Ledger!TotalLength(knownChunks' \ Ledger!Known(log'))
        /\ measurement'[g].NewChunkCount = Cardinality(knownChunks' \ Ledger!Known(log'))
    BY <2>1, <1>4, <1>7, <1>9
  <2> QED BY <1>5, <2>1, <2>2 DEF MapState
<1> QED BY <1>10, <1>11 DEF LedgerState

(* The loop has come one chunk further. *)
LEMMA SeenGrows ==
  ASSUME IInv, NEW g \in Goroutines, pc[g] = "visiting", visited[g] < Len(body[g].chunks),
         visited' = [visited EXCEPT ![g] = @ + 1], body' = body
  PROVE  Seen(g)' = Seen(g) \union {Current(g)}
<1>1. visited \in [Goroutines -> Nat]
  BY DEF IInv, TypeOK
<1>2. visited'[g] = visited[g] + 1 /\ 1..(visited[g] + 1) = (1..visited[g]) \union {visited[g] + 1}
  BY <1>1
<1> QED BY <1>2 DEF Seen, Current

(* A known chunk changes neither the map nor the new figures. *)
LEMMA VisitKnownLedger ==
  ASSUME IInv, LedgerState, NEW g \in Goroutines, VisitKnown(g)
  PROVE  LedgerState'
<1> DEFINE m == [measurement[g] EXCEPT
                   !.ReusableChunkBytes = measurement[g].ReusableChunkBytes + Current(g).length,
                   !.ReusableChunkCount = measurement[g].ReusableChunkCount + 1]
<1>1. /\ pc[g] = "visiting" /\ visited[g] < Len(body[g].chunks) /\ Current(g) \in knownChunks
      /\ visited' = [visited EXCEPT ![g] = @ + 1]
      /\ UNCHANGED <<knownChunks, snapshot, pc, body, log>>
  BY DEF VisitKnown, historyVars
<1>2. measurement' = [measurement EXCEPT ![g] = m]
  BY DEF VisitKnown
<1>3. /\ measurement \in [Goroutines -> Figures] /\ measurement[g] \in Figures
      /\ Current(g).length \in Nat /\ \A h \in Goroutines : Inside(h) => h = g
  BY <1>1, VisitorKnows DEF IInv, TypeOK
<1>4. m.NewChunkBytes = measurement[g].NewChunkBytes /\ m.NewChunkCount = measurement[g].NewChunkCount
  <2> DEFINE old == measurement[g]
             length == Current(g).length
  <2>1. old \in Figures /\ length \in Nat
    BY <1>3
  <2>2. m = [old EXCEPT !.ReusableChunkBytes = old.ReusableChunkBytes + length,
                        !.ReusableChunkCount = old.ReusableChunkCount + 1]
    OBVIOUS
  <2> HIDE DEF m, old, length
  <2>3. m.NewChunkBytes = old.NewChunkBytes
    BY <2>1, <2>2, CountedKnown
  <2>4. m.NewChunkCount = old.NewChunkCount
    BY <2>1, <2>2, CountedKnown
  <2> QED BY <2>3, <2>4 DEF old
<1> HIDE DEF m
<1>5. Seen(g)' = Seen(g) \union {Current(g)}
  BY <1>1, SeenGrows
<1>6. \A h \in Goroutines : pc'[h] = "visiting" <=> h = g
  BY <1>1, <1>3 DEF Inside
<1>7. SnapshotState'
  BY <1>1 DEF LedgerState, SnapshotState
<1>8. MapState'
  BY <1>1, <1>2, <1>3, <1>4, <1>5, <1>6 DEF LedgerState, MapState
<1> QED BY <1>7, <1>8 DEF LedgerState

(* A new chunk is in no body of the log: it adds to the new figures what   *)
(* it adds to the map.                                                     *)
LEMMA VisitNewLedger ==
  ASSUME IInv, LedgerState, NEW g \in Goroutines, VisitNew(g)
  PROVE  LedgerState'
<1> DEFINE x == Current(g)
           added == knownChunks \ Ledger!Known(log)
           m == [measurement[g] EXCEPT !.NewChunkBytes = measurement[g].NewChunkBytes + x.length,
                                       !.NewChunkCount = measurement[g].NewChunkCount + 1]
<1>1. /\ pc[g] = "visiting" /\ visited[g] < Len(body[g].chunks) /\ x \notin knownChunks
      /\ knownChunks' = knownChunks \union {x}
      /\ snapshot' = [snapshot EXCEPT !.SimulatedCacheBytes = @ + x.length]
      /\ visited' = [visited EXCEPT ![g] = @ + 1]
      /\ UNCHANGED <<pc, body, log>>
  BY DEF VisitNew, historyVars
<1>2. measurement' = [measurement EXCEPT ![g] = m]
  BY DEF VisitNew
<1>3. /\ measurement \in [Goroutines -> Figures] /\ measurement[g] \in Figures
      /\ x \in Ledger!Identity /\ x.length \in Nat /\ \A h \in Goroutines : Inside(h) => h = g
      /\ snapshot \in [DOMAIN NoSnapshot -> Nat]
      /\ knownChunks \in SUBSET Ledger!Identity /\ IsFiniteSet(knownChunks)
  BY <1>1, VisitorKnows DEF IInv, TypeOK
<1>4. /\ m.NewChunkBytes = measurement[g].NewChunkBytes + x.length
      /\ m.NewChunkCount = measurement[g].NewChunkCount + 1
  <2> DEFINE old == measurement[g]
             length == x.length
  <2>1. old \in Figures /\ length \in Nat
    BY <1>3
  <2>2. m = [old EXCEPT !.NewChunkBytes = old.NewChunkBytes + length,
                        !.NewChunkCount = old.NewChunkCount + 1]
    OBVIOUS
  <2> HIDE DEF m, old, length
  <2>3. m.NewChunkBytes = old.NewChunkBytes + length
    BY <2>1, <2>2, CountedNew
  <2>4. m.NewChunkCount = old.NewChunkCount + 1
    BY <2>1, <2>2, CountedNew
  <2> QED BY <2>3, <2>4 DEF old, length
<1>5. /\ snapshot'.SimulatedCacheBytes = snapshot.SimulatedCacheBytes + x.length
      /\ \A figure \in {"MeasuredRequestCount", "BodyBytes", "ChunkCount", "NewChunkBytes",
                        "NewChunkCount"} : snapshot'[figure] = snapshot[figure]
  BY <1>1, <1>3, SnapshotDomain, SMTT(30)
<1> HIDE DEF m
<1>6. Seen(g)' = Seen(g) \union {x}
  BY <1>1, SeenGrows
<1>7. \A h \in Goroutines : pc'[h] = "visiting" <=> h = g
  BY <1>1, <1>3 DEF Inside
<1>8. added \in SUBSET Ledger!Identity /\ IsFiniteSet(added) /\ x \notin added
  BY <1>1, KnownIsKept
<1>9. knownChunks' \ Ledger!Known(log') = added \union {x}
  BY <1>1, KnownIsKept
<1>10. /\ knownChunks = Ledger!Known(log) \union Seen(g)
       /\ measurement[g].NewChunkBytes = Ledger!TotalLength(added)
       /\ measurement[g].NewChunkCount = Cardinality(added)
  BY <1>1 DEF LedgerState, MapState
<1> HIDE DEF x, added
<1>11. /\ Ledger!TotalLength(added \union {x}) = Ledger!TotalLength(added) + x.length
       /\ Cardinality(added \union {x}) = Cardinality(added) + 1
  BY <1>3, <1>8, TotalGrows, FS_AddElement
<1>12. Ledger!TotalLength(knownChunks') = Ledger!TotalLength(knownChunks) + x.length
  BY <1>1, <1>3, TotalGrows
<1>13. SnapshotState'
  BY <1>1, <1>5, <1>12 DEF LedgerState, SnapshotState
<1>14. MapState'
  <2>1. measurement'[g] = m
    BY <1>2, <1>3
  <2>2. /\ m.NewChunkBytes = Ledger!TotalLength(knownChunks' \ Ledger!Known(log'))
        /\ m.NewChunkCount = Cardinality(knownChunks' \ Ledger!Known(log'))
    BY <1>4, <1>9, <1>10, <1>11
  <2>3. knownChunks' = Ledger!Known(log') \union Seen(g)'
    BY <1>1, <1>6, <1>10
  <2> QED BY <1>7, <2>1, <2>2, <2>3 DEF MapState
<1> QED BY <1>13, <1>14 DEF LedgerState

(* What FinishRecord finds: every chunk of the body was seen, and the      *)
(* measurement that it returns is the one of the ledger.                   *)
LEMMA RecordIsMeasured ==
  ASSUME IInv, LedgerState, NEW g \in Goroutines, FinishRecord(g)
  PROVE  /\ body[g] \in Bodies
         /\ knownChunks = Ledger!Known(log) \union Ledger!ChunksOf(body[g])
         /\ Completed(g) = Ledger!MeasurementOf(log, body[g])
<1> DEFINE b == body[g]
           m == Completed(g)
           recorded == Ledger!Known(log)
           new == Ledger!ChunksOf(b) \ recorded
           old == measurement[g]
<1>1. pc[g] = "visiting" /\ visited[g] = Len(b.chunks)
  BY DEF FinishRecord
<1>2. /\ b \in Bodies /\ old \in Figures /\ IsFiniteSet(knownChunks)
      /\ snapshot \in [DOMAIN NoSnapshot -> Nat]
  BY <1>1 DEF IInv, TypeOK, RecordState
<1>3. Seen(g) = Ledger!ChunksOf(b)
  BY <1>1 DEF Seen, Ledger!ChunksOf
<1>4. /\ knownChunks = recorded \union Ledger!ChunksOf(b)
      /\ old.NewChunkBytes = Ledger!TotalLength(knownChunks \ recorded)
      /\ old.NewChunkCount = Cardinality(knownChunks \ recorded)
  BY <1>1, <1>3 DEF LedgerState, MapState
<1>5. knownChunks \ recorded = new /\ recorded \union new = knownChunks
  BY <1>4
<1>6. /\ old.BodyBytes = b.bytes /\ old.ChunkCount = Len(b.chunks)
      /\ old.NewChunkBytes + old.ReusableChunkBytes = b.bytes
      /\ old.NewChunkCount + old.ReusableChunkCount = Len(b.chunks)
  BY <1>1, <1>2, BodyType DEF IInv, RecordState
<1>7. /\ old.NewChunkBytes \in Nat /\ old.ReusableChunkBytes \in Nat
      /\ old.NewChunkCount \in Nat /\ old.ReusableChunkCount \in Nat
  BY <1>2, FiguresType
<1>8. /\ old.ReusableChunkBytes = b.bytes - old.NewChunkBytes
      /\ old.ReusableChunkCount = Len(b.chunks) - old.NewChunkCount
  BY <1>6, <1>7
<1>9. /\ m.BodyBytes = old.BodyBytes /\ m.ChunkCount = old.ChunkCount
      /\ m.NewChunkBytes = old.NewChunkBytes /\ m.NewChunkCount = old.NewChunkCount
      /\ m.ReusableChunkBytes = old.ReusableChunkBytes
      /\ m.ReusableChunkCount = old.ReusableChunkCount
      /\ m.SimulatedCacheChunks = Cardinality(knownChunks) /\ m \in Figures
  BY <1>2, CompletedFields, FiguresDomain
<1>10. m.SimulatedCacheBytes = Ledger!TotalLength(knownChunks)
  <2>1. m.SimulatedCacheBytes = snapshot.SimulatedCacheBytes
    BY <1>2, FiguresDomain DEF Completed, Figures
  <2> QED BY <2>1 DEF LedgerState, SnapshotState
<1> DEFINE figures == [BodyBytes            |-> b.bytes,
                       ChunkCount           |-> Len(b.chunks),
                       NewChunkBytes        |-> Ledger!TotalLength(new),
                       ReusableChunkBytes   |-> b.bytes - Ledger!TotalLength(new),
                       NewChunkCount        |-> Cardinality(new),
                       ReusableChunkCount   |-> Len(b.chunks) - Cardinality(new),
                       SimulatedCacheBytes  |-> Ledger!TotalLength(recorded \union new),
                       SimulatedCacheChunks |-> Cardinality(recorded \union new)]
<1>11. Ledger!MeasurementOf(log, b) = figures
  BY SameCardinality, Zenon DEF Ledger!MeasurementOf
<1> HIDE DEF new, recorded, m, old, b
<1>12. m = figures
  <2>1. m = [f \in DOMAIN NoFigures |-> m[f]]
    BY <1>9 DEF Figures
  <2>2. \A f \in DOMAIN NoFigures : m[f] = figures[f]
    <3>1. m.BodyBytes = b.bytes /\ m.ChunkCount = Len(b.chunks)
      BY <1>6, <1>9
    <3>2. m.NewChunkBytes = Ledger!TotalLength(new) /\ m.NewChunkCount = Cardinality(new)
      BY <1>4, <1>5, <1>9
    <3>3. /\ m.ReusableChunkBytes = b.bytes - Ledger!TotalLength(new)
          /\ m.ReusableChunkCount = Len(b.chunks) - Cardinality(new)
      BY <1>8, <1>9, <3>2
    <3>4. /\ m.SimulatedCacheBytes = Ledger!TotalLength(recorded \union new)
          /\ m.SimulatedCacheChunks = Cardinality(recorded \union new)
      BY <1>5, <1>9, <1>10
    <3> QED BY <3>1, <3>2, <3>3, <3>4, FiguresDomain
  <2>3. figures = [f \in DOMAIN NoFigures |-> figures[f]]
    BY FiguresDomain
  <2> HIDE DEF figures
  <2> QED BY <2>1, <2>2, <2>3
<1> QED BY <1>2, <1>4, <1>11, <1>12 DEF b, m, recorded

(* The end of recordRequest adds the body to the log. *)
LEMMA FinishRecordLedger ==
  ASSUME IInv, LedgerState, NEW g \in Goroutines, FinishRecord(g)
  PROVE  LedgerState'
<1> DEFINE b == body[g]
           m == Completed(g)
           old == measurement[g]
           before == Ledger!SnapshotOf(log)
           after == Ledger!SnapshotOf(log')
<1>1. /\ pc[g] = "visiting" /\ visited[g] = Len(b.chunks)
      /\ snapshot' = Accumulate(snapshot, m) /\ pc' = [pc EXCEPT ![g] = "idle"]
      /\ log' = Append(log, b) /\ knownChunks' = knownChunks
  BY DEF FinishRecord
<1>2. /\ b \in Bodies /\ old \in Figures /\ IsFiniteSet(knownChunks) /\ log \in Seq(Bodies)
      /\ snapshot \in [DOMAIN NoSnapshot -> Nat]
      /\ pc \in [Goroutines -> {"idle", "record", "visiting", "snapshot", "copying"}]
  BY <1>1 DEF IInv, TypeOK, RecordState
<1>3. \A h \in Goroutines : pc'[h] # "visiting"
  BY <1>1, <1>2, OneVisitor DEF IInv, Inside
<1>4. Ledger!Known(log') = knownChunks'
  BY <1>1, <1>2, RecordIsMeasured, KnownGrows
<1>5. m \in Figures /\ m.NewChunkBytes = old.NewChunkBytes /\ m.NewChunkCount = old.NewChunkCount
      /\ m.BodyBytes = b.bytes /\ m.ChunkCount = Len(b.chunks)
  <2>1. old.BodyBytes = b.bytes /\ old.ChunkCount = Len(b.chunks)
    BY <1>1 DEF IInv, RecordState
  <2>2. /\ m \in Figures
        /\ \A f \in DOMAIN NoFigures \ {"SimulatedCacheBytes", "SimulatedCacheChunks"} :
             m[f] = old[f]
    BY <1>2, CompletedFields
  <2> HIDE DEF m, old
  <2>3. /\ m.NewChunkBytes = old.NewChunkBytes /\ m.NewChunkCount = old.NewChunkCount
        /\ m.BodyBytes = old.BodyBytes /\ m.ChunkCount = old.ChunkCount
    BY <2>2, FiguresDomain
  <2> QED BY <2>1, <2>2, <2>3
<1>6. /\ snapshot.SimulatedCacheBytes = snapshot.NewChunkBytes + old.NewChunkBytes
      /\ Cardinality(knownChunks) = snapshot.NewChunkCount + old.NewChunkCount
  BY <1>1 DEF IInv, CacheState, CacheAhead
<1> HIDE DEF m, old
<1>7. /\ snapshot'.BodyBytes = snapshot.BodyBytes + b.bytes
      /\ snapshot'.ChunkCount = snapshot.ChunkCount + Len(b.chunks)
      /\ snapshot'.NewChunkBytes = snapshot.SimulatedCacheBytes
      /\ snapshot'.NewChunkCount = Cardinality(knownChunks)
      /\ snapshot'.SimulatedCacheBytes = snapshot.SimulatedCacheBytes
  <2>1. /\ snapshot'.BodyBytes = snapshot.BodyBytes + m.BodyBytes
        /\ snapshot'.ChunkCount = snapshot.ChunkCount + m.ChunkCount
        /\ snapshot'.NewChunkBytes = snapshot.NewChunkBytes + m.NewChunkBytes
        /\ snapshot'.NewChunkCount = snapshot.NewChunkCount + m.NewChunkCount
        /\ snapshot'.SimulatedCacheBytes = snapshot.SimulatedCacheBytes
    BY <1>1, <1>2, <1>5, AccumulateFields
  <2> QED BY <2>1, <1>5, <1>6
<1>8. snapshot'.MeasuredRequestCount = snapshot.MeasuredRequestCount + 1
  BY <1>1, <1>2, SnapshotDomain DEF Accumulate
<1>9. /\ snapshot.MeasuredRequestCount = before.MeasuredRequestCount
      /\ snapshot.BodyBytes = before.BodyBytes /\ snapshot.ChunkCount = before.ChunkCount
      /\ snapshot.SimulatedCacheBytes = Ledger!TotalLength(knownChunks)
  BY DEF LedgerState, SnapshotState
<1>10. /\ after.BodyBytes = before.BodyBytes + b.bytes
       /\ after.ChunkCount = before.ChunkCount + Len(b.chunks)
  BY <1>1, <1>2, RecordedGrow
<1>11. /\ before.MeasuredRequestCount = Len(log) /\ after.MeasuredRequestCount = Len(log')
       /\ after.NewChunkBytes = Ledger!TotalLength(Ledger!Known(log'))
       /\ after.NewChunkCount = Cardinality(Ledger!Known(log'))
  BY RecordedFields
<1>12. Len(log') = Len(log) + 1
  BY <1>1, <1>2, AppendProperties
<1> HIDE DEF before, after, b
<1>13. /\ snapshot'.SimulatedCacheBytes = Ledger!TotalLength(knownChunks')
       /\ snapshot'.MeasuredRequestCount = after.MeasuredRequestCount
       /\ snapshot'.BodyBytes = after.BodyBytes /\ snapshot'.ChunkCount = after.ChunkCount
       /\ snapshot'.NewChunkBytes = after.NewChunkBytes
       /\ snapshot'.NewChunkCount = after.NewChunkCount
  BY <1>1, <1>4, <1>7, <1>8, <1>9, <1>10, <1>11, <1>12
<1>14. SnapshotState'
  BY <1>13 DEF SnapshotState, after
<1>15. MapState'
  BY <1>3, <1>4 DEF MapState
<1> QED BY <1>14, <1>15 DEF LedgerState

(* Every step keeps LedgerState. *)
LEMMA StepLedger == IInv /\ LedgerState /\ [Next]_vars => LedgerState'
<1> SUFFICES ASSUME IInv, LedgerState, [Next]_vars PROVE LedgerState'
  OBVIOUS
<1>1. pc \in [Goroutines -> {"idle", "record", "visiting", "snapshot", "copying"}]
      /\ body \in [Goroutines -> Bodies \union {None}]
  BY DEF IInv, TypeOK
<1>2. ASSUME NEW g \in Goroutines, CallSnapshot(g) PROVE LedgerState'
  BY <1>1, <1>2, LedgerUntouched DEF CallSnapshot, callVars, historyVars
<1>3. ASSUME NEW g \in Goroutines, NEW b \in Bodies, CallRecord(g, b) PROVE LedgerState'
  BY <1>1, <1>3, LedgerUntouched DEF CallRecord
<1>4. ASSUME NEW g \in Goroutines, Lock(g) PROVE LedgerState'
  <2>1. CASE LockRecord(g)
    BY <2>1, LockRecordLedger
  <2>2. CASE LockSnapshot(g)
    BY <1>1, <2>2, LedgerUntouched DEF LockSnapshot, callVars, historyVars
  <2> QED BY <1>4, <2>1, <2>2 DEF Lock
<1>5. ASSUME NEW g \in Goroutines, Hold(g) PROVE LedgerState'
  <2>1. CASE FinishSnapshot(g)
    BY <1>1, <2>1, LedgerUntouched DEF FinishSnapshot, callVars
  <2> QED BY <1>5, <2>1, VisitKnownLedger, VisitNewLedger, FinishRecordLedger DEF Hold
<1>6. CASE UNCHANGED vars
  BY <1>6, LedgerUntouched DEF vars
<1> QED BY <1>2, <1>3, <1>4, <1>5, <1>6 DEF Next

(* What getSnapshot copies is what the log says: whoever has the mutex to  *)
(* copy, nobody is in the middle of a record.                              *)
LEMMA SnapshotIsRecorded ==
  ASSUME IInv, LedgerState, NEW g \in Goroutines, FinishSnapshot(g)
  PROVE  snapshot = Ledger!SnapshotOf(log)
<1> DEFINE s == Ledger!SnapshotOf(log)
<1>1. \A h \in Goroutines : pc[h] # "visiting"
  BY OneVisitor DEF IInv, Inside, FinishSnapshot
<1>2. snapshot \in [DOMAIN NoSnapshot -> Nat]
  BY DEF IInv, TypeOK
<1>3. /\ snapshot.NewChunkBytes \in Nat /\ snapshot.ReusableChunkBytes \in Nat
      /\ snapshot.NewChunkCount \in Nat /\ snapshot.ReusableChunkCount \in Nat
      /\ snapshot.BodyBytes \in Nat /\ snapshot.ChunkCount \in Nat
  BY <1>2, SnapshotType
<1>4. /\ snapshot.NewChunkBytes + snapshot.ReusableChunkBytes = snapshot.BodyBytes
      /\ snapshot.NewChunkCount + snapshot.ReusableChunkCount = snapshot.ChunkCount
  BY DEF IInv, EveryByteCounted
<1>5. /\ snapshot.SimulatedCacheBytes = snapshot.NewChunkBytes
      /\ snapshot.SimulatedCacheChunks = snapshot.NewChunkCount
  BY <1>1, <1>3 DEF IInv, CacheState, CacheAhead
<1>6. /\ snapshot.MeasuredRequestCount = s.MeasuredRequestCount
      /\ snapshot.BodyBytes = s.BodyBytes /\ snapshot.ChunkCount = s.ChunkCount
      /\ snapshot.NewChunkBytes = s.NewChunkBytes /\ snapshot.NewChunkCount = s.NewChunkCount
  BY DEF LedgerState, SnapshotState
<1>7. /\ s = [f \in DOMAIN NoSnapshot |-> s[f]]
      /\ s.ReusableChunkBytes = s.BodyBytes - s.NewChunkBytes
      /\ s.ReusableChunkCount = s.ChunkCount - s.NewChunkCount
      /\ s.SimulatedCacheBytes = s.NewChunkBytes
      /\ s.SimulatedCacheChunks = s.NewChunkCount
  BY RecordedFields
<1> HIDE DEF s
<1>8. /\ snapshot.ReusableChunkBytes = s.ReusableChunkBytes
      /\ snapshot.ReusableChunkCount = s.ReusableChunkCount
  BY <1>3, <1>4, <1>6, <1>7
<1>9. \A f \in DOMAIN NoSnapshot : snapshot[f] = s[f]
  BY <1>5, <1>6, <1>7, <1>8, SnapshotDomain
<1> QED BY <1>2, <1>7, <1>9 DEF s

(* A step of the store is a step of the ledger, or none. *)
LEMMA LedgerStep == IInv /\ LedgerState /\ [Next]_vars => [Ledger!Next]_(Ledger!vars)
<1> SUFFICES ASSUME IInv, LedgerState, [Next]_vars PROVE [Ledger!Next]_(Ledger!vars)
  OBVIOUS
<1> USE DEF Ledger!vars
<1>1. ASSUME NEW g \in Goroutines, CallSnapshot(g) \/ \E b \in Bodies : CallRecord(g, b)
      PROVE  UNCHANGED Ledger!vars
  BY <1>1 DEF CallSnapshot, CallRecord, historyVars
<1>2. ASSUME NEW g \in Goroutines, Lock(g) PROVE UNCHANGED Ledger!vars
  BY <1>2 DEF Lock, LockRecord, LockSnapshot, historyVars
<1>3. ASSUME NEW g \in Goroutines, VisitKnown(g) \/ VisitNew(g) PROVE UNCHANGED Ledger!vars
  BY <1>3 DEF VisitKnown, VisitNew, historyVars
<1>4. ASSUME NEW g \in Goroutines, FinishRecord(g) PROVE Ledger!Next
  <2>1. body[g] \in Bodies /\ Completed(g) = Ledger!MeasurementOf(log, body[g])
    BY <1>4, RecordIsMeasured
  <2>2. Ledger!Record(g, body[g])
    BY <1>4, <2>1 DEF FinishRecord, Ledger!Record
  <2> QED BY <2>1, <2>2 DEF Ledger!Next
<1>5. ASSUME NEW g \in Goroutines, FinishSnapshot(g) PROVE Ledger!Next
  <2>1. Ledger!Observe(g)
    BY <1>5, SnapshotIsRecorded DEF FinishSnapshot, Ledger!Observe
  <2> QED BY <2>1 DEF Ledger!Next
<1>6. CASE UNCHANGED vars
  BY <1>6 DEF vars
<1> QED BY <1>1, <1>2, <1>3, <1>4, <1>5, <1>6 DEF Next, Hold

(* The store implements DedupLedger: every measurement and every snapshot  *)
(* it returns is what the bodies recorded so far say, in the order of the  *)
(* mutex.                                                                  *)
THEOREM ImplementsLedger == Spec => RefinesLedger
<1>1. Init => Ledger!Init
  BY DEF Init, Ledger!Init, None
<1>2. Spec => [](IInv /\ LedgerState)
  <2>1. Init => IInv /\ LedgerState
    BY InitInv, LedgerInit
  <2>2. IInv /\ LedgerState /\ [Next]_vars => (IInv /\ LedgerState)'
    BY StepInv, StepLedger
  <2> QED BY <2>1, <2>2, PTL DEF Spec
<1> QED BY <1>1, <1>2, LedgerStep, PTL DEF Spec, Ledger!Spec, RefinesLedger

=============================================================================
