------------------------ MODULE BodyMeasurementProofs ------------------------
(***************************************************************************)
(* The safety of the measurement of request bodies, for any number of      *)
(* requests and any uploads.  The handler and the measuring goroutine of a *)
(* request share a pipe and a channel; the invariant says, for each        *)
(* request on its own, what the pipe holds (Piping), when its writer may   *)
(* be closed and with what (Closing), how far the goroutine is (Measuring) *)
(* and what the store has of the request (InStore).                        *)
(***************************************************************************)
EXTENDS BodyMeasurement, FiniteSetTheorems, TLAPS

Stream(r) == upload[r].kind = "stream"

(* A goroutine and a used pipe exist for body streams only. *)
Starting(r) ==
  /\ handlerPc[r] = "idle" => measurerPc[r] = "none"
  /\ measurerPc[r] = "none" =>
       /\ readBytes[r] = 0 /\ readErr[r] = "nil" /\ writerEnd[r] = "open"
       /\ handlerPc[r] # "idle" => ~Stream(r)
  /\ ~Stream(r) => measurerPc[r] = "none" /\ handlerPc[r] \in {"idle", "doing", "responded"}

(* The pipe holds what was read from the body and not measured yet, and it *)
(* holds something only during a Write.                                    *)
Piping(r) ==
  /\ ~measurementWriteFailed[r]
  /\ measured[r] + pending[r] = readBytes[r]
  /\ pending[r] # 0 => handlerPc[r] = "writing"
  /\ readBytes[r] <= upload[r].sent
  /\ readErr[r] # "nil" => readBytes[r] = upload[r].sent /\ readErr[r] = upload[r].end

(* The writer is open during a Write; it closes when no byte can follow,   *)
(* with EOF after the whole body and with a failure after a failure.       *)
Closing(r) ==
  /\ handlerPc[r] = "writing" => writerEnd[r] = "open"
  /\ handlerPc[r] \in {"doing", "checking"} /\ writerEnd[r] # "open" =>
       bodyClosed[r] \/ readErr[r] # "nil" \/ readBytes[r] = upload[r].expected
  /\ handlerPc[r] \in {"awaiting", "responded"} /\ Stream(r) => writerEnd[r] # "open"
  /\ writerEnd[r] = "EOF" => Delivered(r)
  /\ writerEnd[r] = "failure" => readErr[r] = "failure"

(* The goroutine leaves the pipe when its writer is closed, records unless *)
(* that was a failure, and sends one result.                               *)
Measuring(r) ==
  /\ measurerPc[r] \in {"recording", "closing", "sending", "done"} => writerEnd[r] # "open"
  /\ measurerPc[r] = "recording" => writerEnd[r] # "failure"
  /\ measurerPc[r] \in {"none", "reading", "recording"} => measureErr[r] = "nil"
  /\ measurerPc[r] \in {"closing", "sending", "done"} =>
       (measureErr[r] = "nil" <=> writerEnd[r] # "failure")
  /\ readerClosed[r] <=> measurerPc[r] \in {"sending", "done"}
  /\ measurerPc[r] # "done" => results[r] = <<>>
  /\ measurerPc[r] = "done" /\ handlerPc[r] # "responded" => results[r] = <<measureErr[r]>>
  /\ handlerPc[r] = "responded" /\ Stream(r) => measurerPc[r] = "done" /\ results[r] = <<>>

Local(r) == Starting(r) /\ Piping(r) /\ Closing(r) /\ Measuring(r)

(* Whether the store has the request, and with how many bytes. *)
IsRecorded(r) ==
  IF Stream(r) THEN measurerPc[r] \in {"closing", "sending", "done"} /\ measureErr[r] = "nil"
               ELSE handlerPc[r] # "idle" /\ upload[r].sent # 0
RecordedBytes(r) == IF Stream(r) THEN measured[r] ELSE upload[r].sent

InStore(r) ==
  IF IsRecorded(r)
  THEN \E i \in 1..Len(recorded) :
         EntriesOf(r) = {i} /\ recorded[i].bytes = RecordedBytes(r)
  ELSE EntriesOf(r) = {}

Inv == TypeOK /\ \A r \in Requests : Local(r) /\ InStore(r)

-----------------------------------------------------------------------------
LEMMA UploadFacts ==
  ASSUME TypeOK, NEW r \in Requests
  PROVE  /\ IsUpload(upload[r])
         /\ upload[r].sent \in Nat /\ upload[r].expected \in Nat \union {-1}
         /\ upload[r].kind \in {"stream", "buffered"} /\ upload[r].end \in Ending
<1>1. IsUpload(upload[r])
  BY UploadsAssumption DEF TypeOK
<1>2. upload[r] \in Upload
  BY <1>1 DEF IsUpload
<1> QED
  BY <1>1, <1>2 DEF Upload

(* Of sequences of no element and of one. *)
LEMMA ShortSequences ==
  ASSUME NEW S
  PROVE  <<>> \in Seq(S) /\ \A x \in S : <<x>> \in Seq(S) /\ Append(<<>>, x) = <<x>>
OBVIOUS

LEMMA InitInv == Init => Inv
<1> SUFFICES ASSUME Init PROVE Inv
  OBVIOUS
<1>1. TypeOK
  BY DEF Init, TypeOK, Ending
<1>2. ASSUME NEW r \in Requests PROVE Local(r)
  BY <1>1, UploadFacts DEF Init, Local, Starting, Piping, Closing, Measuring, Stream
<1>3. ASSUME NEW r \in Requests PROVE InStore(r)
  BY <1>1, UploadFacts DEF Init, InStore, IsRecorded, EntriesOf
<1> QED
  BY <1>1, <1>2, <1>3 DEF Inv

(* What the request-wise parts of the invariant speak of. *)
State(r) == <<upload[r], handlerPc[r], bodyClosed[r], readBytes[r], readErr[r],
              measurementWriteFailed[r], pending[r], writerEnd[r], readerClosed[r],
              measurerPc[r], measured[r], measureErr[r], results[r]>>

LEMMA LocalKept ==
  ASSUME NEW r \in Requests, UNCHANGED State(r), Local(r) PROVE Local(r)'
<1>1. UNCHANGED <<Starting(r), Piping(r)>>
  BY DEF State, Starting, Piping, Stream
<1>2. UNCHANGED <<Closing(r), Measuring(r)>>
  BY DEF State, Closing, Measuring, Stream, Delivered
<1> QED
  BY <1>1, <1>2 DEF Local

(* What the store has of a request only changes with an entry for it. *)
LEMMA StoreKept ==
  ASSUME NEW r \in Requests, InStore(r), recorded' = recorded,
         IsRecorded(r)' <=> IsRecorded(r), IsRecorded(r) => RecordedBytes(r)' = RecordedBytes(r)
  PROVE  InStore(r)'
  BY DEF InStore, EntriesOf

LEMMA AppendedEntry ==
  ASSUME TypeOK, NEW r \in Requests, NEW n \in Nat, recorded' = Append(recorded, Entry(r, n)),
         NEW q \in Requests
  PROVE  /\ EntriesOf(q)' = IF q = r THEN EntriesOf(q) \union {Len(recorded) + 1} ELSE EntriesOf(q)
         /\ Len(recorded)' = Len(recorded) + 1 /\ Len(recorded) \in Nat
         /\ recorded'[Len(recorded) + 1].bytes = n
         /\ \A i \in 1..Len(recorded) : recorded'[i] = recorded[i]
<1> DEFINE E == [request : Requests, bytes : Nat]
<1>1. recorded \in Seq(E) /\ Entry(r, n) \in E
  BY DEF TypeOK, Entry
<1>2. /\ Len(recorded') = Len(recorded) + 1 /\ Len(recorded) \in Nat
      /\ recorded'[Len(recorded) + 1] = Entry(r, n)
      /\ \A i \in 1..Len(recorded) : recorded'[i] = recorded[i]
  BY <1>1
<1>3. Entry(r, n).request = r /\ Entry(r, n).bytes = n
  BY DEF Entry
<1>4. ASSUME NEW i
      PROVE  i \in EntriesOf(q)' <=>
               i \in EntriesOf(q) \/ (q = r /\ i = Len(recorded) + 1)
  BY <1>2, <1>3 DEF EntriesOf
<1> HIDE DEF E
<1> QED
  BY <1>2, <1>3, <1>4

LEMMA StillEntries ==
  ASSUME TypeOK, NEW r \in Requests, NEW n \in Nat, recorded' = Append(recorded, Entry(r, n))
  PROVE  recorded' \in Seq([request : Requests, bytes : Nat])
<1> DEFINE E == [request : Requests, bytes : Nat]
<1>1. recorded \in Seq(E) /\ Entry(r, n) \in E
  BY DEF TypeOK, Entry
<1> HIDE DEF E
<1>2. Append(recorded, Entry(r, n)) \in Seq(E)
  BY <1>1
<1> QED
  BY <1>2 DEF E

LEMMA StoreAppended ==
  ASSUME TypeOK, NEW r \in Requests, NEW n \in Nat, recorded' = Append(recorded, Entry(r, n)),
         NEW q \in Requests, InStore(q),
         IF q = r THEN ~IsRecorded(q) /\ IsRecorded(q)' /\ RecordedBytes(q)' = n
                  ELSE (IsRecorded(q)' <=> IsRecorded(q)) /\ RecordedBytes(q)' = RecordedBytes(q)
  PROVE  InStore(q)'
<1>1. CASE q = r
  <2>1. EntriesOf(q)' = {Len(recorded) + 1}
    BY <1>1, AppendedEntry DEF InStore
  <2> QED
    BY <1>1, <2>1, AppendedEntry DEF InStore
<1>2. CASE q # r
  <2>1. EntriesOf(q)' = EntriesOf(q)
    BY <1>2, AppendedEntry
  <2>2. CASE IsRecorded(q)
    <3>1. PICK i \in 1..Len(recorded) :
            EntriesOf(q) = {i} /\ recorded[i].bytes = RecordedBytes(q)
      BY <2>2 DEF InStore
    <3>2. i \in 1..Len(recorded') /\ recorded'[i] = recorded[i]
      BY <3>1, AppendedEntry
    <3> QED
      BY <1>2, <2>1, <2>2, <3>1, <3>2 DEF InStore
  <2> QED
    BY <1>2, <2>1, <2>2 DEF InStore
<1> QED
  BY <1>1, <1>2

(* A step of one request: it is enough to look at that request. *)
LEMMA OneRequest ==
  ASSUME Inv, NEW r \in Requests, TypeOK', recorded' = recorded,
         \A q \in Requests \ {r} : UNCHANGED State(q),
         Local(r)', IsRecorded(r)' <=> IsRecorded(r),
         IsRecorded(r) => RecordedBytes(r)' = RecordedBytes(r)
  PROVE  Inv'
<1>1. ASSUME NEW q \in Requests, q # r PROVE Local(q)' /\ InStore(q)'
  <2>1. UNCHANGED State(q)
    BY <1>1
  <2>2. Local(q)'
    BY <2>1, LocalKept DEF Inv
  <2>3. UNCHANGED <<IsRecorded(q), RecordedBytes(q)>>
    BY <2>1 DEF State, IsRecorded, RecordedBytes, Stream
  <2> QED
    BY <2>2, <2>3, StoreKept DEF Inv
<1>2. InStore(r)'
  BY StoreKept DEF Inv
<1> QED
  BY <1>1, <1>2 DEF Inv

(* The first close of the writer decides; it says EOF for a complete body. *)
LEMMA CloseFacts ==
  ASSUME TypeOK, NEW r \in Requests, NEW err \in Ending \union {"nil"}, CloseOnce(r, err)
  PROVE  /\ writerEnd' \in [Requests -> Ending \union {"open"}]
         /\ \A q \in Requests \ {r} : writerEnd'[q] = writerEnd[q]
         /\ writerEnd'[r] # "open"
         /\ writerEnd[r] # "open" => writerEnd'[r] = writerEnd[r]
         /\ writerEnd[r] = "open" /\ writerEnd'[r] = "EOF" => HasCompleteBody(r, err)
         /\ writerEnd[r] = "open" /\ writerEnd'[r] = "failure" => err = "failure"
<1>1. CASE writerEnd[r] # "open"
  BY <1>1 DEF CloseOnce, TypeOK
<1>2. CASE writerEnd[r] = "open"
  BY <1>2 DEF CloseOnce, TypeOK, Ending
<1> QED
  BY <1>1, <1>2

-----------------------------------------------------------------------------
(* The steps of the handler *)

LEMMA StartStreamInv == ASSUME Inv, NEW r \in Requests, StartStream(r) PROVE Inv'
<1> USE DEF StartStream, streamVars, pipeVars
<1>1. TypeOK'
  BY DEF Inv, TypeOK
<1>2. \A q \in Requests \ {r} : UNCHANGED State(q)
  BY ZenonT(40) DEF Inv, TypeOK, State
<1>3. /\ UNCHANGED <<upload[r], bodyClosed[r], readBytes[r], readErr[r], measurementWriteFailed[r],
                     pending[r], writerEnd[r], readerClosed[r], measured[r], measureErr[r], results[r]>>
      /\ handlerPc[r] = "idle" /\ handlerPc'[r] = "doing" /\ measurerPc'[r] = "reading"
      /\ Stream(r) /\ Stream(r)'
  BY DEF Inv, TypeOK, Stream
<1> HIDE DEF StartStream
<1>4. Starting(r) /\ Piping(r) /\ Closing(r) /\ Measuring(r) /\ measurerPc[r] = "none"
  BY <1>3 DEF Inv, Local, Starting
<1>5. Starting(r)' /\ Piping(r)'
  BY <1>3, <1>4 DEF Starting, Piping
<1>6. Closing(r)' /\ Measuring(r)'
  BY <1>3, <1>4 DEF Starting, Closing, Measuring
<1>7. ~IsRecorded(r) /\ ~IsRecorded(r)'
  BY <1>3, <1>4 DEF IsRecorded
<1> QED
  BY <1>1, <1>2, <1>5, <1>6, <1>7, OneRequest DEF Local, StartStream

LEMMA StartBufferedInv == ASSUME Inv, NEW r \in Requests, StartBuffered(r) PROVE Inv'
<1> USE DEF StartBuffered, streamVars, pipeVars, measurerVars
<1>1. upload[r].sent \in Nat /\ Entry(r, upload[r].sent) \in [request : Requests, bytes : Nat]
  BY UploadFacts DEF Inv, Entry
<1>2. TypeOK'
  <2>1. CASE recorded' = Append(recorded, Entry(r, upload[r].sent))
    BY <1>1, <2>1, StillEntries DEF Inv, TypeOK
  <2>2. CASE recorded' = recorded
    BY <2>2 DEF Inv, TypeOK
  <2> QED
    BY <2>1, <2>2
<1>3. \A q \in Requests \ {r} : UNCHANGED State(q)
  BY DEF Inv, TypeOK, State
<1>4. /\ UNCHANGED <<upload[r], bodyClosed[r], readBytes[r], readErr[r], measurementWriteFailed[r],
                     pending[r], writerEnd[r], readerClosed[r], measurerPc[r], measured[r],
                     measureErr[r], results[r]>>
      /\ handlerPc[r] = "idle" /\ handlerPc'[r] = "doing"
      /\ ~Stream(r) /\ ~Stream(r)'
  BY DEF Inv, TypeOK, Stream
<1>5. Starting(r) /\ Piping(r) /\ Closing(r) /\ Measuring(r) /\ measurerPc[r] = "none"
  BY <1>4 DEF Inv, Local, Starting
<1>6. Local(r)'
  <2>1. Starting(r)' /\ Piping(r)'
    BY <1>4, <1>5 DEF Starting, Piping
  <2>2. Closing(r)' /\ Measuring(r)'
    BY <1>4, <1>5 DEF Starting, Closing, Measuring
  <2> QED
    BY <2>1, <2>2 DEF Local
<1>7. CASE upload[r].sent = 0
  <2>1. recorded' = recorded /\ ~IsRecorded(r) /\ ~IsRecorded(r)'
    BY <1>4, <1>7 DEF IsRecorded
  <2> QED
    BY <1>2, <1>3, <1>6, <2>1, OneRequest
<1>8. CASE upload[r].sent # 0
  <2>1. recorded' = Append(recorded, Entry(r, upload[r].sent))
    BY <1>8
  <2>2. ~IsRecorded(r) /\ IsRecorded(r)' /\ RecordedBytes(r)' = upload[r].sent
    BY <1>4, <1>8 DEF IsRecorded, RecordedBytes
  <2>3. \A q \in Requests \ {r} : UNCHANGED <<IsRecorded(q), RecordedBytes(q)>>
    BY <1>3 DEF State, IsRecorded, RecordedBytes, Stream
  <2>4. \A q \in Requests : InStore(q)'
    BY <1>1, <2>1, <2>2, <2>3, StoreAppended DEF Inv
  <2>5. \A q \in Requests \ {r} : Local(q)'
    BY <1>3, LocalKept DEF Inv
  <2> QED
    BY <1>2, <1>6, <2>4, <2>5 DEF Inv
<1> QED
  BY <1>7, <1>8

LEMMA ReadSourceInv ==
  ASSUME Inv, NEW r \in Requests, NEW k \in Nat, NEW err \in Ending \union {"nil"},
         ReadSource(r, k, err)
  PROVE  Inv'
<1>1. /\ upload[r].sent \in Nat /\ upload[r].expected \in Nat \union {-1}
      /\ (upload[r].expected >= 0 => upload[r].sent <= upload[r].expected)
      /\ readBytes[r] \in Nat /\ measured[r] \in Nat /\ pending[r] \in Nat
  BY UploadFacts DEF Inv, IsUpload, TypeOK
<1>2. Starting(r) /\ Piping(r) /\ Closing(r) /\ Measuring(r)
  BY DEF Inv, Local
<1>3. readBytes[r] + k \in Nat
  BY <1>1
<1>4. /\ handlerPc[r] = "doing" /\ upload[r].kind = "stream" /\ ~bodyClosed[r] /\ readErr[r] = "nil"
      /\ readBytes[r] + k <= upload[r].sent /\ (k = 0 => err # "nil")
      /\ err \in ReadErrors(r, readBytes[r] + k)
  BY DEF ReadSource
<1>5. ~measurementWriteFailed[r] /\ pending[r] = 0 /\ measured[r] = readBytes[r]
  BY <1>1, <1>2, <1>4 DEF Piping
<1>6. \E p \in Nat, pc \in {"writing", "checking"} :
        /\ IF k # 0 THEN p = k /\ pc = "writing" ELSE p = 0 /\ pc = "checking"
        /\ pending' = [pending EXCEPT ![r] = p]
        /\ handlerPc' = [handlerPc EXCEPT ![r] = pc]
  <2>1. CASE k # 0
    BY <1>5, <2>1 DEF ReadSource
  <2>2. CASE k = 0
    <3>1. pending' = pending /\ pending \in [Requests -> Nat]
      BY <2>2 DEF ReadSource, Inv, TypeOK
    <3>2. pending' = [pending EXCEPT ![r] = 0]
      BY <1>5, <3>1
    <3> QED
      BY <2>2, <3>2 DEF ReadSource
  <2> QED
    BY <2>1, <2>2
<1>7. PICK p \in Nat, pc \in {"writing", "checking"} :
        /\ IF k # 0 THEN p = k /\ pc = "writing" ELSE p = 0 /\ pc = "checking"
        /\ pending' = [pending EXCEPT ![r] = p]
        /\ handlerPc' = [handlerPc EXCEPT ![r] = pc]
  BY <1>6
<1>8. /\ readBytes' = [readBytes EXCEPT ![r] = readBytes[r] + k]
      /\ readErr' = [readErr EXCEPT ![r] = err]
      /\ UNCHANGED <<upload, outcome, response, bodyClosed, measurementWriteFailed, writerEnd,
                     readerClosed, measurerPc, measured, measureErr, results, recorded>>
  BY DEF ReadSource, measurerVars
<1>9. TypeOK'
  BY <1>3, <1>7, <1>8 DEF Inv, TypeOK
<1>10. ASSUME NEW q \in Requests \ {r} PROVE UNCHANGED State(q)
  <2>1. pending'[q] = pending[q] /\ handlerPc'[q] = handlerPc[q]
    BY <1>7 DEF Inv, TypeOK
  <2>2. readBytes'[q] = readBytes[q] /\ readErr'[q] = readErr[q]
    BY <1>8 DEF Inv, TypeOK
  <2> QED
    BY <1>8, <2>1, <2>2 DEF State
<1>11. /\ UNCHANGED <<upload[r], bodyClosed[r], measurementWriteFailed[r], writerEnd[r],
                      readerClosed[r], measurerPc[r], measured[r], measureErr[r], results[r]>>
       /\ readBytes'[r] = readBytes[r] + k /\ readErr'[r] = err
       /\ Stream(r) /\ Stream(r)' /\ recorded' = recorded
       /\ pending'[r] = p /\ handlerPc'[r] = pc
  BY <1>4, <1>7, <1>8 DEF Inv, TypeOK, Stream
<1>12. k # 0 => writerEnd[r] = "open"
  BY <1>1, <1>2, <1>4 DEF Closing
<1>13. err # "nil" => readBytes[r] + k = upload[r].sent /\ err = upload[r].end
  BY <1>1, <1>4 DEF ReadErrors
<1>14. Starting(r)' /\ Piping(r)'
  BY <1>1, <1>2, <1>4, <1>5, <1>7, <1>11, <1>13 DEF Starting, Piping
<1>15. Closing(r)'
  <2>1. CASE k # 0
    BY <1>7, <1>11, <1>12, <2>1 DEF Closing
  <2>2. CASE k = 0
    <3>1. readBytes'[r] = readBytes[r] /\ readErr'[r] # "nil" /\ handlerPc'[r] = "checking"
      BY <1>1, <1>4, <1>7, <1>11, <2>2
    <3> QED
      BY <1>1, <1>2, <1>4, <1>11, <3>1 DEF Closing, Delivered, Stream
  <2> QED
    BY <2>1, <2>2
<1>16. Measuring(r)'
  BY <1>2, <1>4, <1>7, <1>11 DEF Measuring
<1>17. UNCHANGED <<IsRecorded(r), RecordedBytes(r)>>
  BY <1>11 DEF IsRecorded, RecordedBytes
<1> QED
  BY <1>9, <1>10, <1>11, <1>14, <1>15, <1>16, <1>17, OneRequest DEF Local

LEMMA WriteReturnsInv == ASSUME Inv, NEW r \in Requests, WriteReturns(r) PROVE Inv'
<1> USE DEF WriteReturns, measurerVars
<1>1. Starting(r) /\ Piping(r) /\ Closing(r) /\ Measuring(r) /\ pending[r] \in Nat
  BY DEF Inv, Local, TypeOK
<1>2. pending[r] = 0
  BY <1>1 DEF Closing, Measuring
<1>3. TypeOK'
  BY <1>2 DEF Inv, TypeOK
<1>4. \A q \in Requests \ {r} : UNCHANGED State(q)
  BY ZenonT(40) DEF Inv, TypeOK, State
<1>5. /\ UNCHANGED <<upload[r], bodyClosed[r], readBytes[r], readErr[r], writerEnd[r],
                     readerClosed[r], measurerPc[r], measured[r], measureErr[r], results[r]>>
      /\ handlerPc[r] = "writing" /\ handlerPc'[r] = "checking"
      /\ pending'[r] = 0 /\ ~measurementWriteFailed'[r]
      /\ Stream(r)' = Stream(r)
  BY <1>2 DEF Inv, TypeOK, Stream
<1> HIDE DEF WriteReturns
<1>6. Starting(r)' /\ Piping(r)'
  BY <1>1, <1>2, <1>5 DEF Starting, Piping
<1>7. Closing(r)' /\ Measuring(r)'
  BY <1>1, <1>5 DEF Closing, Measuring
<1>8. UNCHANGED <<IsRecorded(r), RecordedBytes(r)>>
  BY <1>1, <1>5 DEF Starting, IsRecorded, RecordedBytes
<1> QED
  BY <1>3, <1>4, <1>6, <1>7, <1>8, OneRequest DEF Local, WriteReturns

(* A close of the writer, by CheckBody, DoCloses or CloseBody: when the     *)
(* body is not complete and its last error is not EOF, it is not said to.  *)
LEMMA ClosedWriter ==
  ASSUME Inv, NEW r \in Requests, NEW err \in {readErr[r], "nil"}, CloseOnce(r, err),
         UNCHANGED <<upload, readBytes, readErr>>, Stream(r)
  PROVE  /\ writerEnd'[r] # "open"
         /\ writerEnd'[r] = "EOF" => Delivered(r)'
         /\ writerEnd'[r] = "failure" => readErr'[r] = "failure"
<1>1. err \in Ending \union {"nil"} /\ readErr[r] \in Ending \union {"nil"}
  BY DEF Inv, TypeOK
<1>2. Piping(r) /\ Closing(r)
  BY DEF Inv, Local
<1>3. /\ upload[r].sent \in Nat /\ upload[r].expected \in Nat \union {-1}
      /\ (upload[r].expected >= 0 => upload[r].sent <= upload[r].expected)
      /\ upload[r].end \in Ending /\ readBytes[r] \in Nat
  BY UploadFacts DEF Inv, IsUpload, TypeOK
<1>4. Delivered(r)' = Delivered(r)
  BY DEF Delivered
<1>5. HasCompleteBody(r, err) => Delivered(r)
  BY <1>2, <1>3 DEF Piping, HasCompleteBody, Delivered, Stream
<1>6. TypeOK
  BY DEF Inv
<1>7. CASE writerEnd[r] = "open"
  BY <1>1, <1>4, <1>5, <1>6, <1>7, CloseFacts
<1>8. CASE writerEnd[r] # "open"
  BY <1>1, <1>2, <1>4, <1>6, <1>8, CloseFacts DEF Closing
<1> QED
  BY <1>7, <1>8

LEMMA CheckBodyInv == ASSUME Inv, NEW r \in Requests, CheckBody(r) PROVE Inv'
<1>1. /\ handlerPc[r] = "checking"
      /\ handlerPc' = [handlerPc EXCEPT ![r] = "doing"]
      /\ UNCHANGED <<upload, outcome, response, bodyClosed, readBytes, readErr,
                     measurementWriteFailed, pending, readerClosed, measurerPc, measured,
                     measureErr, results, recorded>>
      /\ IF readErr[r] # "nil" \/ HasCompleteBody(r, readErr[r])
         THEN CloseOnce(r, readErr[r]) ELSE writerEnd' = writerEnd
  BY DEF CheckBody, streamVars, measurerVars
<1>2. Starting(r) /\ Piping(r) /\ Closing(r) /\ Measuring(r) /\ TypeOK
  BY DEF Inv, Local
<1>3. Stream(r) /\ Stream(r)'
  BY <1>1, <1>2 DEF Starting, Stream
<1>4. /\ upload[r].expected \in Nat \union {-1}
      /\ readErr[r] \in Ending \union {"nil"} /\ readBytes[r] \in Nat
  BY <1>2, UploadFacts DEF TypeOK
<1>5. /\ writerEnd' \in [Requests -> Ending \union {"open"}]
      /\ \A q \in Requests \ {r} : writerEnd'[q] = writerEnd[q]
      /\ writerEnd[r] # "open" => writerEnd'[r] = writerEnd[r]
  <2>1. CASE CloseOnce(r, readErr[r])
    BY <1>2, <1>4, <2>1, CloseFacts
  <2>2. CASE writerEnd' = writerEnd
    BY <1>2, <2>2 DEF TypeOK
  <2> QED
    BY <1>1, <2>1, <2>2
<1>6. TypeOK'
  BY <1>1, <1>2, <1>5 DEF TypeOK
<1>7. \A q \in Requests \ {r} : UNCHANGED State(q)
  BY <1>1, <1>2, <1>5 DEF TypeOK, State
<1>8. /\ UNCHANGED <<upload[r], bodyClosed[r], readBytes[r], readErr[r], measurementWriteFailed[r],
                     pending[r], readerClosed[r], measurerPc[r], measured[r], measureErr[r], results[r]>>
      /\ handlerPc'[r] = "doing" /\ recorded' = recorded
  BY <1>1, <1>2 DEF TypeOK
<1>9. /\ writerEnd'[r] # "open" => readErr[r] # "nil" \/ readBytes[r] = upload[r].expected
                                   \/ bodyClosed[r]
      /\ writerEnd'[r] = "EOF" => Delivered(r)'
      /\ writerEnd'[r] = "failure" => readErr'[r] = "failure"
  <2>1. CASE readErr[r] # "nil" \/ HasCompleteBody(r, readErr[r])
    <3>1. readErr[r] # "nil" \/ readBytes[r] = upload[r].expected
      BY <1>4, <2>1 DEF HasCompleteBody
    <3> QED
      BY <1>1, <1>3, <2>1, <3>1, ClosedWriter
  <2>2. CASE ~(readErr[r] # "nil" \/ HasCompleteBody(r, readErr[r]))
    <3>1. writerEnd' = writerEnd /\ Delivered(r)' = Delivered(r)
      BY <1>1, <2>2 DEF Delivered
    <3> QED
      BY <1>1, <1>2, <1>8, <3>1 DEF Closing
  <2> QED
    BY <2>1, <2>2
<1>10. Starting(r)' /\ Piping(r)'
  <2>1. measurerPc[r] # "none"
    BY <1>1, <1>2, <1>3 DEF Starting
  <2> QED
    BY <1>1, <1>2, <1>3, <1>8, <2>1 DEF Starting, Piping
<1>11. Closing(r)'
  BY <1>8, <1>9 DEF Closing
<1>12. Measuring(r)'
  BY <1>1, <1>2, <1>5, <1>8 DEF Measuring
<1>13. UNCHANGED <<IsRecorded(r), RecordedBytes(r)>>
  BY <1>3, <1>8 DEF IsRecorded, RecordedBytes
<1> QED
  BY <1>6, <1>7, <1>8, <1>10, <1>11, <1>12, <1>13, OneRequest DEF Local

(* Do closes the stream, and the handler does when Do has returned. *)
LEMMA CloserInv ==
  ASSUME Inv, NEW r \in Requests, DoCloses(r) \/ CloseBody(r)
  PROVE  Inv'
<1>1. /\ UNCHANGED <<upload, outcome, response, readBytes, readErr, measurementWriteFailed,
                     pending, readerClosed, measurerPc, measured, measureErr, results, recorded>>
      /\ CloseOnce(r, "nil")
      /\ \/ /\ handlerPc[r] = "doing" /\ Stream(r) /\ handlerPc' = handlerPc
            /\ bodyClosed' = [bodyClosed EXCEPT ![r] = TRUE]
         \/ /\ handlerPc[r] = "closing" /\ handlerPc' = [handlerPc EXCEPT ![r] = "awaiting"]
            /\ bodyClosed' = bodyClosed
  BY DEF DoCloses, CloseBody, streamVars, measurerVars, Stream
<1>2. Starting(r) /\ Piping(r) /\ Closing(r) /\ Measuring(r) /\ TypeOK
  BY DEF Inv, Local
<1>3. Stream(r) /\ Stream(r)'
  BY <1>1, <1>2 DEF Starting, Stream
<1>4. /\ writerEnd' \in [Requests -> Ending \union {"open"}]
      /\ \A q \in Requests \ {r} : writerEnd'[q] = writerEnd[q]
      /\ writerEnd'[r] # "open"
      /\ writerEnd[r] # "open" => writerEnd'[r] = writerEnd[r]
  BY <1>1, <1>2, CloseFacts
<1>5. TypeOK'
  <2> DEFINE Places == {"idle", "doing", "writing", "checking", "closing", "awaiting", "responded"}
  <2>1. handlerPc' \in [Requests -> Places] /\ bodyClosed' \in [Requests -> BOOLEAN]
    <3>1. handlerPc \in [Requests -> Places] /\ bodyClosed \in [Requests -> BOOLEAN]
      BY <1>2 DEF TypeOK
    <3>2. "awaiting" \in Places
      OBVIOUS
    <3> HIDE DEF Places
    <3>3. CASE handlerPc' = handlerPc /\ bodyClosed' = [bodyClosed EXCEPT ![r] = TRUE]
      BY <3>1, <3>3
    <3>4. CASE handlerPc' = [handlerPc EXCEPT ![r] = "awaiting"] /\ bodyClosed' = bodyClosed
      BY <3>1, <3>2, <3>4
    <3> QED
      BY <1>1, <3>3, <3>4
  <2> QED
    BY <1>1, <1>2, <1>4, <2>1 DEF TypeOK
<1>6. \A q \in Requests \ {r} : UNCHANGED State(q)
  <2>1. \A q \in Requests \ {r} : handlerPc'[q] = handlerPc[q] /\ bodyClosed'[q] = bodyClosed[q]
    <3>1. CASE handlerPc' = handlerPc /\ bodyClosed' = [bodyClosed EXCEPT ![r] = TRUE]
      BY <1>2, <3>1 DEF TypeOK
    <3>2. CASE handlerPc' = [handlerPc EXCEPT ![r] = "awaiting"] /\ bodyClosed' = bodyClosed
      BY <1>2, <3>2 DEF TypeOK
    <3> QED
      BY <1>1, <3>1, <3>2
  <2> QED
    BY <1>1, <1>4, <2>1 DEF State
<1>7. /\ UNCHANGED <<upload[r], readBytes[r], readErr[r], measurementWriteFailed[r], pending[r],
                     readerClosed[r], measurerPc[r], measured[r], measureErr[r], results[r]>>
      /\ \/ handlerPc[r] = "doing" /\ handlerPc'[r] = "doing" /\ bodyClosed'[r]
         \/ handlerPc[r] = "closing" /\ handlerPc'[r] = "awaiting"
  BY <1>1, <1>2 DEF TypeOK
<1>8. /\ writerEnd'[r] = "EOF" => Delivered(r)'
      /\ writerEnd'[r] = "failure" => readErr'[r] = "failure"
  BY <1>1, <1>3, ClosedWriter
<1>9. Starting(r)' /\ Piping(r)'
  <2>1. measurerPc[r] # "none"
    BY <1>1, <1>2, <1>3 DEF Starting
  <2> QED
    BY <1>2, <1>3, <1>7, <2>1 DEF Starting, Piping
<1>10. Closing(r)'
  BY <1>4, <1>7, <1>8 DEF Closing
<1>11. Measuring(r)'
  BY <1>2, <1>4, <1>7 DEF Measuring
<1>12. UNCHANGED <<IsRecorded(r), RecordedBytes(r)>>
  BY <1>3, <1>7 DEF IsRecorded, RecordedBytes
<1> QED
  BY <1>1, <1>5, <1>6, <1>9, <1>10, <1>11, <1>12, OneRequest DEF Local

LEMMA DoReturnsInv ==
  ASSUME Inv, NEW r \in Requests, NEW o \in {"ok", "error"}, DoReturns(r, o)
  PROVE  Inv'
<1>1. PICK pc \in {"closing", "responded"} :
        /\ handlerPc[r] = "doing" /\ (pc = "closing" <=> Stream(r))
        /\ handlerPc' = [handlerPc EXCEPT ![r] = pc]
  <2>1. CASE Stream(r)
    BY <2>1 DEF DoReturns, Stream
  <2>2. CASE ~Stream(r)
    BY <2>2 DEF DoReturns, Stream
  <2> QED
    BY <2>1, <2>2
<1>2. /\ outcome' = [outcome EXCEPT ![r] = o]
      /\ response' = response \/ response' = [response EXCEPT ![r] = Answer(o)]
      /\ UNCHANGED <<upload, bodyClosed, readBytes, readErr, measurementWriteFailed, pending,
                     writerEnd, readerClosed, measurerPc, measured, measureErr, results, recorded>>
  BY DEF DoReturns, streamVars, pipeVars, measurerVars
<1>3. Starting(r) /\ Piping(r) /\ Closing(r) /\ Measuring(r) /\ TypeOK
  BY DEF Inv, Local
<1>4. TypeOK'
  <2>1. response' \in [Requests -> {"none", "forwarded", "bad gateway"}]
    BY <1>2, <1>3 DEF TypeOK, Answer
  <2> QED
    BY <1>1, <1>2, <1>3, <2>1 DEF TypeOK
<1>5. \A q \in Requests \ {r} : UNCHANGED State(q)
  BY <1>1, <1>2, <1>3 DEF TypeOK, State
<1>6. handlerPc'[r] = pc /\ (Stream(r)' <=> Stream(r))
  BY <1>1, <1>2, <1>3 DEF TypeOK, Stream
<1>7. Starting(r)' /\ Piping(r)'
  BY <1>1, <1>2, <1>3, <1>6 DEF Starting, Piping
<1>8. Closing(r)' /\ Measuring(r)'
  <2>1. Delivered(r)' = Delivered(r)
    BY <1>2 DEF Delivered
  <2> QED
    BY <1>1, <1>2, <1>3, <1>6, <2>1 DEF Closing, Measuring, Starting
<1>9. UNCHANGED <<IsRecorded(r), RecordedBytes(r)>>
  BY <1>1, <1>2, <1>6 DEF IsRecorded, RecordedBytes
<1> QED
  BY <1>2, <1>4, <1>5, <1>7, <1>8, <1>9, OneRequest DEF Local

LEMMA ReceiveResultInv == ASSUME Inv, NEW r \in Requests, ReceiveResult(r) PROVE Inv'
<1>1. /\ handlerPc[r] = "awaiting" /\ results[r] # <<>>
      /\ results' = [results EXCEPT ![r] = Tail(results[r])]
      /\ handlerPc' = [handlerPc EXCEPT ![r] = "responded"]
      /\ response' = [response EXCEPT ![r] = Answer(outcome[r])]
      /\ UNCHANGED <<upload, outcome, bodyClosed, readBytes, readErr, measurementWriteFailed,
                     pending, writerEnd, readerClosed, measurerPc, measured, measureErr, recorded>>
  BY DEF ReceiveResult, streamVars, pipeVars, measurerVars
<1>2. Starting(r) /\ Piping(r) /\ Closing(r) /\ Measuring(r) /\ TypeOK
  BY DEF Inv, Local
<1>3. measurerPc[r] = "done" /\ Tail(results[r]) = <<>>
  <2>1. measurerPc[r] = "done" /\ results[r] = <<measureErr[r]>>
    BY <1>1, <1>2 DEF Measuring
  <2>2. \A x : Tail(<<x>>) = <<>>
    OBVIOUS
  <2> QED
    BY <2>1, <2>2
<1>4. TypeOK'
  <2>1. response' \in [Requests -> {"none", "forwarded", "bad gateway"}]
    BY <1>1, <1>2 DEF TypeOK, Answer
  <2>2. results' \in [Requests -> Seq({"nil", "failure"})]
    <3>1. results \in [Requests -> Seq({"nil", "failure"})]
      BY <1>2 DEF TypeOK
    <3> QED
      BY <1>1, <1>3, <3>1, ShortSequences
  <2> QED
    BY <1>1, <1>2, <2>1, <2>2 DEF TypeOK
<1>5. \A q \in Requests \ {r} : UNCHANGED State(q)
  BY <1>1, <1>2, ZenonT(40) DEF TypeOK, State
<1>6. handlerPc'[r] = "responded" /\ results'[r] = <<>> /\ (Stream(r)' <=> Stream(r)) /\ Stream(r)
  BY <1>1, <1>2, <1>3 DEF TypeOK, Stream, Starting
<1>7. Starting(r)' /\ Piping(r)'
  BY <1>1, <1>2, <1>3, <1>6 DEF Starting, Piping
<1>8. Closing(r)' /\ Measuring(r)'
  <2>1. Delivered(r)' = Delivered(r)
    BY <1>1 DEF Delivered
  <2> QED
    BY <1>1, <1>2, <1>3, <1>6, <2>1 DEF Closing, Measuring
<1>9. UNCHANGED <<IsRecorded(r), RecordedBytes(r)>>
  BY <1>1, <1>6 DEF IsRecorded, RecordedBytes
<1> QED
  BY <1>1, <1>4, <1>5, <1>7, <1>8, <1>9, OneRequest DEF Local

-----------------------------------------------------------------------------
(* The steps of the measuring goroutine *)

LEMMA PipeReadInv ==
  ASSUME Inv, NEW r \in Requests, NEW k \in Nat, PipeRead(r, k)
  PROVE  Inv'
<1>1. /\ measurerPc[r] = "reading" /\ k > 0 /\ k <= pending[r]
      /\ pending' = [pending EXCEPT ![r] = pending[r] - k]
      /\ measured' = [measured EXCEPT ![r] = measured[r] + k]
      /\ UNCHANGED <<upload, handlerPc, outcome, response, bodyClosed, readBytes, readErr,
                     measurementWriteFailed, writerEnd, readerClosed, measurerPc, measureErr,
                     results, recorded>>
  BY DEF PipeRead, handlerVars, streamVars
<1>2. Starting(r) /\ Piping(r) /\ Closing(r) /\ Measuring(r) /\ TypeOK
  BY DEF Inv, Local
<1>3. readBytes[r] \in Nat /\ measured[r] \in Nat /\ pending[r] \in Nat
  BY <1>2 DEF TypeOK
<1>4. pending[r] - k \in Nat /\ measured[r] + k \in Nat
  BY <1>1, <1>3
<1>5. TypeOK'
  BY <1>1, <1>2, <1>4 DEF TypeOK
<1>6. \A q \in Requests \ {r} : UNCHANGED State(q)
  BY <1>1, <1>2, ZenonT(40) DEF TypeOK, State
<1>7. /\ pending'[r] = pending[r] - k /\ measured'[r] = measured[r] + k
      /\ Stream(r) /\ (Stream(r)' <=> Stream(r)) /\ Delivered(r)' = Delivered(r)
  BY <1>1, <1>2, ZenonT(40) DEF TypeOK, Stream, Starting, Delivered
<1>8. Starting(r)' /\ Piping(r)'
  BY <1>1, <1>2, <1>3, <1>4, <1>7 DEF Starting, Piping
<1>9. Closing(r)' /\ Measuring(r)'
  BY <1>1, <1>2, <1>7 DEF Closing, Measuring
<1>10. ~IsRecorded(r) /\ ~IsRecorded(r)'
  BY <1>1, <1>7 DEF IsRecorded
<1> QED
  BY <1>1, <1>5, <1>6, <1>8, <1>9, <1>10, OneRequest DEF Local

(* The pipe's end, and the steps up to the result but for the record. *)
LEMMA MeasurerInv ==
  ASSUME Inv, NEW r \in Requests, PipeEnds(r) \/ PipeFails(r) \/ CloseReader(r) \/ SendResult(r)
  PROVE  Inv'
<1>1. UNCHANGED <<upload, handlerPc, outcome, response, bodyClosed, readBytes, readErr,
                  measurementWriteFailed, pending, writerEnd, measured, recorded>>
  BY DEF PipeEnds, PipeFails, CloseReader, SendResult, handlerVars, streamVars, pipeVars
<1>2. Starting(r) /\ Piping(r) /\ Closing(r) /\ Measuring(r) /\ TypeOK
  BY DEF Inv, Local
<1>3. (Stream(r)' <=> Stream(r)) /\ Delivered(r)' = Delivered(r)
  BY <1>1 DEF Stream, Delivered
<1>4. CASE PipeEnds(r)
  <2>1. /\ measurerPc[r] = "reading" /\ writerEnd[r] \in {"EOF", "ErrUnexpectedEOF"}
        /\ measurerPc' = [measurerPc EXCEPT ![r] = "recording"]
        /\ UNCHANGED <<readerClosed, measureErr, results>>
    BY <1>4 DEF PipeEnds, pipeVars
  <2>2. TypeOK' /\ \A q \in Requests \ {r} : UNCHANGED State(q)
    BY <1>1, <1>2, <2>1 DEF TypeOK, State
  <2>3. measurerPc'[r] = "recording"
    BY <1>2, <2>1 DEF TypeOK
  <2>4. Local(r)'
    BY <1>1, <1>2, <1>3, <2>1, <2>3 DEF Local, Starting, Piping, Closing, Measuring
  <2>5. ~IsRecorded(r) /\ ~IsRecorded(r)'
    BY <1>1, <1>2, <1>3, <2>1, <2>3 DEF IsRecorded, Starting
  <2> QED
    BY <1>1, <2>2, <2>4, <2>5, OneRequest
<1>5. CASE PipeFails(r)
  <2>1. /\ measurerPc[r] = "reading" /\ writerEnd[r] = "failure"
        /\ measurerPc' = [measurerPc EXCEPT ![r] = "closing"]
        /\ measureErr' = [measureErr EXCEPT ![r] = "failure"]
        /\ UNCHANGED <<readerClosed, results>>
    BY <1>5 DEF PipeFails, pipeVars
  <2>2. TypeOK' /\ \A q \in Requests \ {r} : UNCHANGED State(q)
    BY <1>1, <1>2, <2>1, ZenonT(40) DEF TypeOK, State
  <2>3. measurerPc'[r] = "closing" /\ measureErr'[r] = "failure"
    BY <1>2, <2>1 DEF TypeOK
  <2>4. Local(r)'
    BY <1>1, <1>2, <1>3, <2>1, <2>3 DEF Local, Starting, Piping, Closing, Measuring
  <2>5. ~IsRecorded(r) /\ ~IsRecorded(r)'
    BY <1>1, <1>2, <1>3, <2>1, <2>3 DEF IsRecorded, Starting
  <2> QED
    BY <1>1, <2>2, <2>4, <2>5, OneRequest
<1>6. CASE CloseReader(r)
  <2>1. /\ measurerPc[r] = "closing"
        /\ measurerPc' = [measurerPc EXCEPT ![r] = "sending"]
        /\ readerClosed' = [readerClosed EXCEPT ![r] = TRUE]
        /\ UNCHANGED <<measureErr, results>>
    BY <1>6 DEF CloseReader
  <2>2. TypeOK' /\ \A q \in Requests \ {r} : UNCHANGED State(q)
    BY <1>1, <1>2, <2>1, ZenonT(40) DEF TypeOK, State
  <2>3. measurerPc'[r] = "sending" /\ readerClosed'[r]
    BY <1>2, <2>1 DEF TypeOK
  <2>4. Local(r)'
    BY <1>1, <1>2, <1>3, <2>1, <2>3 DEF Local, Starting, Piping, Closing, Measuring
  <2>5. UNCHANGED <<IsRecorded(r), RecordedBytes(r)>>
    BY <1>1, <1>3, <2>1, <2>3 DEF IsRecorded, RecordedBytes
  <2> QED
    BY <1>1, <2>2, <2>4, <2>5, OneRequest
<1>7. CASE SendResult(r)
  <2>1. /\ measurerPc[r] = "sending" /\ results[r] = <<>>
        /\ measurerPc' = [measurerPc EXCEPT ![r] = "done"]
        /\ results' = [results EXCEPT ![r] = Append(results[r], measureErr[r])]
        /\ UNCHANGED <<measureErr, readerClosed>>
    BY <1>7 DEF SendResult, pipeVars
  <2>2. /\ Append(results[r], measureErr[r]) = <<measureErr[r]>>
        /\ <<measureErr[r]>> \in Seq({"nil", "failure"})
    <3>1. measureErr[r] \in {"nil", "failure"}
      BY <1>2 DEF TypeOK
    <3> QED
      BY <2>1, <3>1, ShortSequences
  <2>3. TypeOK' /\ \A q \in Requests \ {r} : UNCHANGED State(q)
    BY <1>1, <1>2, <2>1, <2>2, ZenonT(40) DEF TypeOK, State
  <2>4. measurerPc'[r] = "done" /\ results'[r] = <<measureErr[r]>>
    BY <1>2, <2>1, <2>2 DEF TypeOK
  <2>5. handlerPc[r] # "responded" /\ Stream(r)
    BY <1>2, <2>1 DEF Measuring, Starting
  <2>6. Local(r)'
    BY <1>1, <1>2, <1>3, <2>1, <2>4, <2>5 DEF Local, Starting, Piping, Closing, Measuring
  <2>7. UNCHANGED <<IsRecorded(r), RecordedBytes(r)>>
    BY <1>1, <1>3, <2>1, <2>4 DEF IsRecorded, RecordedBytes
  <2> QED
    BY <1>1, <2>3, <2>6, <2>7, OneRequest
<1> QED
  BY <1>4, <1>5, <1>6, <1>7

LEMMA RecordBodyInv == ASSUME Inv, NEW r \in Requests, RecordBody(r) PROVE Inv'
<1>1. /\ measurerPc[r] = "recording"
      /\ measurerPc' = [measurerPc EXCEPT ![r] = "closing"]
      /\ recorded' = Append(recorded, Entry(r, measured[r]))
      /\ UNCHANGED <<upload, handlerPc, outcome, response, bodyClosed, readBytes, readErr,
                     measurementWriteFailed, pending, writerEnd, readerClosed, measured,
                     measureErr, results>>
  BY DEF RecordBody, handlerVars, streamVars, pipeVars
<1>2. Starting(r) /\ Piping(r) /\ Closing(r) /\ Measuring(r) /\ TypeOK /\ measured[r] \in Nat
  BY DEF Inv, Local, TypeOK
<1>3. TypeOK'
  <2>1. recorded' \in Seq([request : Requests, bytes : Nat])
    BY <1>1, <1>2, StillEntries
  <2> QED
    BY <1>1, <1>2, <2>1 DEF TypeOK
<1>4. \A q \in Requests \ {r} : UNCHANGED State(q)
  BY <1>1, <1>2 DEF TypeOK, State
<1>5. /\ measurerPc'[r] = "closing" /\ Stream(r) /\ Stream(r)'
      /\ Delivered(r)' = Delivered(r)
  BY <1>1, <1>2 DEF TypeOK, Stream, Starting, Delivered
<1>6. Local(r)'
  BY <1>1, <1>2, <1>5 DEF Local, Starting, Piping, Closing, Measuring
<1>7. ~IsRecorded(r) /\ IsRecorded(r)' /\ RecordedBytes(r)' = measured[r]
  BY <1>1, <1>2, <1>5 DEF IsRecorded, RecordedBytes, Measuring
<1>8. \A q \in Requests \ {r} : UNCHANGED <<IsRecorded(q), RecordedBytes(q)>>
  BY <1>4 DEF State, IsRecorded, RecordedBytes, Stream
<1>9. \A q \in Requests : InStore(q)'
  BY <1>1, <1>2, <1>7, <1>8, StoreAppended DEF Inv
<1>10. \A q \in Requests \ {r} : Local(q)'
  BY <1>4, LocalKept DEF Inv
<1> QED
  BY <1>3, <1>6, <1>9, <1>10 DEF Inv

-----------------------------------------------------------------------------
LEMMA NextInv == Inv /\ [Next]_vars => Inv'
<1> SUFFICES ASSUME Inv, [Next]_vars PROVE Inv'
  OBVIOUS
<1>1. ASSUME NEW r \in Requests, Handle(r) PROVE Inv'
  BY <1>1, StartStreamInv, StartBufferedInv, WriteReturnsInv, CheckBodyInv, CloserInv,
     ReceiveResultInv DEF Handle
<1>2. ASSUME NEW r \in Requests, Measure(r) PROVE Inv'
  <2>1. ASSUME NEW k \in 1..pending[r], PipeRead(r, k) PROVE Inv'
    <3>1. pending[r] \in Nat
      BY DEF Inv, TypeOK
    <3>2. k \in Nat
      BY <3>1
    <3> QED
      BY <2>1, <3>2, PipeReadInv
  <2> QED
    BY <1>2, <2>1, MeasurerInv, RecordBodyInv DEF Measure
<1>3. ASSUME NEW r \in Requests, Progress(r) PROVE Inv'
  <2>1. ASSUME NEW k \in 0..upload[r].sent, NEW err \in Ending \union {"nil"},
               ReadSource(r, k, err)
        PROVE  Inv'
    <3>1. upload[r].sent \in Nat
      BY UploadFacts DEF Inv
    <3>2. k \in Nat
      BY <3>1
    <3> QED
      BY <2>1, <3>2, ReadSourceInv
  <2>2. ASSUME NEW o \in {"ok", "error"}, DoReturns(r, o) PROVE Inv'
    BY <2>2, DoReturnsInv
  <2> QED
    BY <1>3, <2>1, <2>2 DEF Progress
<1>4. ASSUME NEW r \in Requests, DoCloses(r) PROVE Inv'
  BY <1>4, CloserInv
<1>5. ASSUME UNCHANGED vars PROVE Inv'
  <2>1. /\ upload' = upload /\ handlerPc' = handlerPc /\ outcome' = outcome
        /\ response' = response /\ bodyClosed' = bodyClosed /\ readBytes' = readBytes
        /\ readErr' = readErr /\ measurementWriteFailed' = measurementWriteFailed
        /\ pending' = pending /\ writerEnd' = writerEnd /\ readerClosed' = readerClosed
        /\ measurerPc' = measurerPc /\ measured' = measured /\ measureErr' = measureErr
        /\ results' = results /\ recorded' = recorded
    BY <1>5 DEF vars
  <2>2. TypeOK'
    BY <2>1 DEF Inv, TypeOK
  <2>3. ASSUME NEW q \in Requests PROVE Local(q)' /\ InStore(q)'
    <3>1. UNCHANGED State(q)
      BY <2>1 DEF State
    <3>2. UNCHANGED <<IsRecorded(q), RecordedBytes(q)>>
      BY <2>1 DEF IsRecorded, RecordedBytes, Stream
    <3> QED
      BY <2>1, <3>1, <3>2, LocalKept, StoreKept DEF Inv
  <2> QED
    BY <2>2, <2>3 DEF Inv
<1>6. AllResponded => UNCHANGED vars
  BY DEF AllResponded
<1> QED
  BY <1>1, <1>2, <1>3, <1>4, <1>5, <1>6 DEF Next

LEMMA InvHolds == Spec => []Inv
  BY InitInv, NextInv, PTL DEF Spec

-----------------------------------------------------------------------------
(* The state keeps its type. *)
THEOREM TypeCorrect == Spec => []TypeOK
<1>1. Inv => TypeOK
  BY DEF Inv
<1> QED
  BY <1>1, InvHolds, PTL

(* A write to the pipe never fails, and what was read from the body is     *)
(* measured or about to be (measuredBodyStream.Read).                      *)
THEOREM PipeLosesNothing == Spec => []NothingLostInPipe
<1>1. Inv => NothingLostInPipe
  BY DEF Inv, Local, Piping, NothingLostInPipe
<1> QED
  BY <1>1, InvHolds, PTL

(* When the client has its answer the measuring goroutine is through.      *)
THEOREM NoneLeftBehind == Spec => []NoGoroutineLeft
<1>1. Inv => NoGoroutineLeft
  BY DEF Inv, Local, Measuring, NoGoroutineLeft, Stream
<1> QED
  BY <1>1, InvHolds, PTL

(* A pipe closed with EOF carried the whole body; what failed is not in    *)
(* the store.                                                              *)
THEOREM CleanClose == Spec => []CleanCloseMeansWholeBody
<1>1. ASSUME Inv, NEW r \in Requests
      PROVE  /\ writerEnd[r] = "EOF" => Delivered(r)
             /\ writerEnd[r] = "failure" => EntriesOf(r) = {}
  <2>1. writerEnd[r] = "failure" => ~IsRecorded(r)
    BY <1>1 DEF Inv, Local, Starting, Measuring, IsRecorded
  <2> QED
    BY <1>1, <2>1 DEF Inv, Local, Closing, InStore
<1>2. Inv => CleanCloseMeansWholeBody
  BY <1>1 DEF CleanCloseMeansWholeBody
<1> QED
  BY <1>2, InvHolds, PTL

(* A body that was delivered is in the store, once and with all its bytes, *)
(* when its client has the answer.                                         *)
THEOREM RecordedFirst == Spec => []RecordedBeforeResponse
<1>1. ASSUME Inv, NEW r \in Requests PROVE Cardinality(EntriesOf(r)) <= 1
  <2>1. CASE EntriesOf(r) = {}
    BY <2>1, FS_EmptySet
  <2>2. ASSUME NEW i, EntriesOf(r) = {i} PROVE Cardinality(EntriesOf(r)) <= 1
    BY <2>2, FS_Singleton
  <2> QED
    BY <1>1, <2>1, <2>2 DEF Inv, InStore
<1>2. ASSUME Inv, NEW r \in Requests, handlerPc[r] = "responded", Delivered(r),
             ~(upload[r].kind = "buffered" /\ upload[r].sent = 0)
      PROVE  \E i \in EntriesOf(r) : recorded[i].bytes = upload[r].sent
  <2>1. /\ Starting(r) /\ Piping(r) /\ Closing(r) /\ Measuring(r) /\ InStore(r)
        /\ readBytes[r] \in Nat /\ measured[r] \in Nat /\ pending[r] \in Nat
    BY <1>2 DEF Inv, Local, TypeOK
  <2>2. /\ IsUpload(upload[r]) /\ upload[r].kind \in {"stream", "buffered"}
        /\ upload[r].sent \in Nat /\ upload[r].expected \in Nat \union {-1}
    BY <1>2, UploadFacts DEF Inv
  <2>3. IsRecorded(r) /\ RecordedBytes(r) = upload[r].sent
    <3>1. CASE Stream(r)
      <4>1. readBytes[r] = upload[r].sent /\ pending[r] = 0
        BY <1>2, <2>1, <3>1 DEF Delivered, Piping, Stream
      <4>2. upload[r].end = "EOF"
        BY <1>2, <2>2, <3>1 DEF Delivered, IsUpload, Stream
      <4>3. writerEnd[r] # "failure"
        BY <2>1, <4>2 DEF Closing, Piping
      <4> QED
        BY <1>2, <2>1, <3>1, <4>1, <4>3 DEF IsRecorded, RecordedBytes, Measuring, Piping
    <3>2. CASE ~Stream(r)
      BY <1>2, <2>2, <3>2 DEF IsRecorded, RecordedBytes, Stream
    <3> QED
      BY <3>1, <3>2
  <2> QED
    BY <2>1, <2>3 DEF InStore
<1>3. Inv => RecordedBeforeResponse
  BY <1>1, <1>2 DEF RecordedBeforeResponse
<1> QED
  BY <1>3, InvHolds, PTL
=============================================================================
