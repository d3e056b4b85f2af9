-------------------------- MODULE BodyMeasurement --------------------------
(***************************************************************************)
(* How a proxied request is measured while it is forwarded, in             *)
(* src/localProxy: the handler goroutine, whose HTTP client reads the body *)
(* through measuredBodyStream and thereby writes it into an io.Pipe, and   *)
(* the goroutine of startBodyMeasurement, which reads the pipe, records    *)
(* the body and sends a result.  The client that uploads, the HTTP client  *)
(* library and the provider are external: Do may read the body in any      *)
(* portions, stop and close it at any point, and return either way.        *)
(* Bytes are counted; their order is that of the pipe.                     *)
(***************************************************************************)
EXTENDS Integers, Sequences, FiniteSets

CONSTANTS
  Requests,  \* the requests the proxy handles
  Uploads,   \* the request bodies that clients send
  Answered   \* the requests whose client and provider do not hang

(* What a client sends: a body stream or a buffered body; the announced    *)
(* length (-1 for a chunked body); the bytes it really sends, and how the  *)
(* stream ends after them.                                                 *)
Ending == {"EOF", "ErrUnexpectedEOF", "failure"}
Upload == [kind : {"stream", "buffered"}, expected : Nat \union {-1},
           sent : Nat, end : Ending]

(* A client sends no more than it announced, and its stream ends with EOF  *)
(* when it has sent that much; a buffered body has been received whole.    *)
IsUpload(u) ==
  /\ u \in Upload
  /\ u.expected >= 0 => u.sent <= u.expected
  /\ u.sent = u.expected => u.end = "EOF"
  /\ u.kind = "buffered" => u.expected = u.sent

ASSUME UploadsAssumption == \A u \in Uploads : IsUpload(u)
ASSUME AnsweredAssumption == Answered \subseteq Requests

VARIABLES
  upload,       \* the body of each request
  handlerPc,    \* where the handler goroutine is
  outcome,      \* what Do returned
  response,     \* what the client gets
  bodyClosed,   \* whether Do has closed the body stream
  readBytes, readErr,              \* measuredBodyStream: bytes read, last error
  measurementWriteFailed,
  pending,      \* io.Pipe: bytes of the current Write not yet read
  writerEnd,    \* io.Pipe: "open", or the error the writer closed with
  readerClosed, \* io.Pipe: whether the reader is closed
  measurerPc,   \* where the measuring goroutine is
  measured,     \* bytes it has read
  measureErr,   \* the error of measureRequestBody
  results,      \* the channel of one result
  recorded      \* the bodies recorded in the store, in order

handlerVars  == <<handlerPc, outcome, response, bodyClosed>>
streamVars   == <<readBytes, readErr, measurementWriteFailed>>
pipeVars     == <<pending, writerEnd, readerClosed>>
measurerVars == <<measurerPc, measured, measureErr>>
vars == <<upload, handlerPc, outcome, response, bodyClosed, readBytes, readErr,
          measurementWriteFailed, pending, writerEnd, readerClosed, measurerPc,
          measured, measureErr, results, recorded>>

Entry(r, bytes) == [request |-> r, bytes |-> bytes]

Init ==
  /\ upload \in [Requests -> Uploads]
  /\ handlerPc = [r \in Requests |-> "idle"]
  /\ outcome = [r \in Requests |-> "none"]
  /\ response = [r \in Requests |-> "none"]
  /\ bodyClosed = [r \in Requests |-> FALSE]
  /\ readBytes = [r \in Requests |-> 0]
  /\ readErr = [r \in Requests |-> "nil"]
  /\ measurementWriteFailed = [r \in Requests |-> FALSE]
  /\ pending = [r \in Requests |-> 0]
  /\ writerEnd = [r \in Requests |-> "open"]
  /\ readerClosed = [r \in Requests |-> FALSE]
  /\ measurerPc = [r \in Requests |-> "none"]
  /\ measured = [r \in Requests |-> 0]
  /\ measureErr = [r \in Requests |-> "nil"]
  /\ results = [r \in Requests |-> <<>>]
  /\ recorded = <<>>

-----------------------------------------------------------------------------
(* handleRequest up to Do.  A body stream gets a pipe and a goroutine; a   *)
(* buffered body is measured on the spot unless it is empty.               *)
StartStream(r) ==
  /\ handlerPc[r] = "idle"
  /\ upload[r].kind = "stream"
  /\ handlerPc' = [handlerPc EXCEPT ![r] = "doing"]
  /\ measurerPc' = [measurerPc EXCEPT ![r] = "reading"]
  /\ UNCHANGED <<upload, outcome, response, bodyClosed, streamVars, pipeVars,
                 measured, measureErr, results, recorded>>

StartBuffered(r) ==
  /\ handlerPc[r] = "idle"
  /\ upload[r].kind = "buffered"
  /\ handlerPc' = [handlerPc EXCEPT ![r] = "doing"]
  /\ recorded' = IF upload[r].sent # 0
                 THEN Append(recorded, Entry(r, upload[r].sent))
                 ELSE recorded
  /\ UNCHANGED <<upload, outcome, response, bodyClosed, streamVars, pipeVars,
                 measurerVars, results>>

-----------------------------------------------------------------------------
(* measuredBodyStream, called by Do in the handler's goroutine. *)

(* Mutation of HasCompleteBody: an EOF completes every body. *)
HasCompleteBodyByEOF(r, err) == err = "EOF" \/ readBytes[r] = upload[r].expected

(* hasCompleteBody: an announced body is complete by its length, a chunked *)
(* one by its EOF.                                                         *)
HasCompleteBody(r, err) ==
  IF upload[r].expected >= 0 THEN readBytes[r] = upload[r].expected
                             ELSE err = "EOF"

(* Mutation of CloseOnce: the error is passed on as it is, nil too. *)
CloseOnceVerbatim(r, err) ==
  writerEnd' = IF writerEnd[r] # "open" THEN writerEnd
               ELSE [writerEnd EXCEPT ![r] = IF HasCompleteBody(r, err) THEN "EOF" ELSE err]

(* closeMeasurement.Do: what the first close of the pipe's writer says. *)
CloseOnce(r, err) ==
  writerEnd' = IF writerEnd[r] # "open" THEN writerEnd
               ELSE [writerEnd EXCEPT ![r] =
                       IF HasCompleteBody(r, err) THEN "EOF"
                       ELSE IF err \notin {"nil", "EOF"} THEN err
                       ELSE "ErrUnexpectedEOF"]

(* The error a source read may come with: none, or, once all that the      *)
(* client sends has been read, the end of the stream.                      *)
ReadErrors(r, count) ==
  IF count < upload[r].sent THEN {"nil"} ELSE {"nil", upload[r].end}

(* Read, its first part: the source is read, and Write to the pipe begins. *)
ReadSource(r, k, err) ==
  /\ handlerPc[r] = "doing"
  /\ upload[r].kind = "stream" /\ ~bodyClosed[r]
  /\ readErr[r] = "nil"
  /\ readBytes[r] + k <= upload[r].sent
  /\ k = 0 => err # "nil"
  /\ err \in ReadErrors(r, readBytes[r] + k)
  /\ readBytes' = [readBytes EXCEPT ![r] = @ + k]
  /\ readErr' = [readErr EXCEPT ![r] = err]
  /\ IF k # 0 /\ ~measurementWriteFailed[r]
     THEN /\ pending' = [pending EXCEPT ![r] = k]
          /\ handlerPc' = [handlerPc EXCEPT ![r] = "writing"]
     ELSE /\ pending' = pending
          /\ handlerPc' = [handlerPc EXCEPT ![r] = "checking"]
  /\ UNCHANGED <<upload, outcome, response, bodyClosed, measurementWriteFailed,
                 writerEnd, readerClosed, measurerVars, results, recorded>>

(* Write returns when the reader has taken every byte, or is closed. *)
WriteReturns(r) ==
  /\ handlerPc[r] = "writing"
  /\ pending[r] = 0 \/ readerClosed[r]
  /\ measurementWriteFailed' = [measurementWriteFailed EXCEPT ![r] = pending[r] # 0]
  /\ pending' = [pending EXCEPT ![r] = 0]
  /\ handlerPc' = [handlerPc EXCEPT ![r] = "checking"]
  /\ UNCHANGED <<upload, outcome, response, bodyClosed, readBytes, readErr,
                 writerEnd, readerClosed, measurerVars, results, recorded>>

(* Read, its last part: an error or the last byte closes the pipe. *)
CheckBody(r) ==
  /\ handlerPc[r] = "checking"
  /\ IF readErr[r] # "nil" \/ HasCompleteBody(r, readErr[r])
     THEN CloseOnce(r, readErr[r])
     ELSE writerEnd' = writerEnd
  /\ handlerPc' = [handlerPc EXCEPT ![r] = "doing"]
  /\ UNCHANGED <<upload, outcome, response, bodyClosed, streamVars, pending,
                 readerClosed, measurerVars, results, recorded>>

(* Do closes the body stream, after the last byte or before. *)
DoCloses(r) ==
  /\ handlerPc[r] = "doing"
  /\ upload[r].kind = "stream" /\ ~bodyClosed[r]
  /\ bodyClosed' = [bodyClosed EXCEPT ![r] = TRUE]
  /\ CloseOnce(r, "nil")
  /\ UNCHANGED <<upload, handlerPc, outcome, response, streamVars, pending,
                 readerClosed, measurerVars, results, recorded>>

-----------------------------------------------------------------------------
(* handleRequest after Do. *)

Answer(o) == IF o = "ok" THEN "forwarded" ELSE "bad gateway"

DoReturns(r, o) ==
  /\ handlerPc[r] = "doing"
  /\ outcome' = [outcome EXCEPT ![r] = o]
  /\ IF upload[r].kind = "stream"
     THEN /\ handlerPc' = [handlerPc EXCEPT ![r] = "closing"]
          /\ response' = response
     ELSE /\ handlerPc' = [handlerPc EXCEPT ![r] = "responded"]
          /\ response' = [response EXCEPT ![r] = Answer(o)]
  /\ UNCHANGED <<upload, bodyClosed, streamVars, pipeVars, measurerVars,
                 results, recorded>>

(* Mutation of CloseBody: the handler waits without closing the stream. *)
CloseBodyNever(r) ==
  /\ handlerPc[r] = "closing"
  /\ handlerPc' = [handlerPc EXCEPT ![r] = "awaiting"]
  /\ UNCHANGED <<upload, outcome, response, bodyClosed, streamVars, pipeVars,
                 measurerVars, results, recorded>>

CloseBody(r) ==
  /\ handlerPc[r] = "closing"
  /\ CloseOnce(r, "nil")
  /\ handlerPc' = [handlerPc EXCEPT ![r] = "awaiting"]
  /\ UNCHANGED <<upload, outcome, response, bodyClosed, streamVars, pending,
                 readerClosed, measurerVars, results, recorded>>

(* Mutation of ReceiveResult: the handler does not wait for the result. *)
ReceiveNothing(r) ==
  /\ handlerPc[r] = "awaiting"
  /\ handlerPc' = [handlerPc EXCEPT ![r] = "responded"]
  /\ response' = [response EXCEPT ![r] = Answer(outcome[r])]
  /\ UNCHANGED <<upload, outcome, bodyClosed, streamVars, pipeVars,
                 measurerVars, results, recorded>>

ReceiveResult(r) ==
  /\ handlerPc[r] = "awaiting"
  /\ results[r] # <<>>
  /\ results' = [results EXCEPT ![r] = Tail(@)]
  /\ handlerPc' = [handlerPc EXCEPT ![r] = "responded"]
  /\ response' = [response EXCEPT ![r] = Answer(outcome[r])]
  /\ UNCHANGED <<upload, outcome, bodyClosed, streamVars, pipeVars,
                 measurerVars, recorded>>

-----------------------------------------------------------------------------
(* The goroutine of startBodyMeasurement.  Its chunker reads the pipe to   *)
(* its end, which fillBuffer takes io.ErrUnexpectedEOF for as well         *)
(* (Chunker.tla); any other error is the error of measureRequestBody.      *)
PipeRead(r, k) ==
  /\ measurerPc[r] = "reading"
  /\ k > 0 /\ k <= pending[r]
  /\ pending' = [pending EXCEPT ![r] = @ - k]
  /\ measured' = [measured EXCEPT ![r] = @ + k]
  /\ UNCHANGED <<upload, handlerVars, streamVars, writerEnd, readerClosed,
                 measurerPc, measureErr, results, recorded>>

(* Mutation of PipeEnds: an empty pipe is taken for its end. *)
PipeEndsEarly(r) ==
  /\ measurerPc[r] = "reading"
  /\ pending[r] = 0
  /\ writerEnd[r] # "failure"
  /\ measurerPc' = [measurerPc EXCEPT ![r] = "recording"]
  /\ UNCHANGED <<upload, handlerVars, streamVars, pipeVars, measured,
                 measureErr, results, recorded>>

PipeEnds(r) ==
  /\ measurerPc[r] = "reading"
  /\ pending[r] = 0
  /\ writerEnd[r] \in {"EOF", "ErrUnexpectedEOF"}
  /\ measurerPc' = [measurerPc EXCEPT ![r] = "recording"]
  /\ UNCHANGED <<upload, handlerVars, streamVars, pipeVars, measured,
                 measureErr, results, recorded>>

PipeFails(r) ==
  /\ measurerPc[r] = "reading"
  /\ pending[r] = 0
  /\ writerEnd[r] = "failure"
  /\ measureErr' = [measureErr EXCEPT ![r] = "failure"]
  /\ measurerPc' = [measurerPc EXCEPT ![r] = "closing"]
  /\ UNCHANGED <<upload, handlerVars, streamVars, pipeVars, measured, results,
                 recorded>>

(* recordRequest, one step for the others (DedupStore.tla). *)
RecordBody(r) ==
  /\ measurerPc[r] = "recording"
  /\ recorded' = Append(recorded, Entry(r, measured[r]))
  /\ measurerPc' = [measurerPc EXCEPT ![r] = "closing"]
  /\ UNCHANGED <<upload, handlerVars, streamVars, pipeVars, measured,
                 measureErr, results>>

CloseReader(r) ==
  /\ measurerPc[r] = "closing"
  /\ readerClosed' = [readerClosed EXCEPT ![r] = TRUE]
  /\ measurerPc' = [measurerPc EXCEPT ![r] = "sending"]
  /\ UNCHANGED <<upload, handlerVars, streamVars, pending, writerEnd, measured,
                 measureErr, results, recorded>>

(* The channel has room for the one result that is ever sent. *)
SendResult(r) ==
  /\ measurerPc[r] = "sending"
  /\ results[r] = <<>>
  /\ results' = [results EXCEPT ![r] = Append(@, measureErr[r])]
  /\ measurerPc' = [measurerPc EXCEPT ![r] = "done"]
  /\ UNCHANGED <<upload, handlerVars, streamVars, pipeVars, measured,
                 measureErr, recorded>>

-----------------------------------------------------------------------------
(* The steps of the proxy's own code for a request, and those that wait    *)
(* for its client or its provider.                                         *)
Handle(r) == \/ StartStream(r) \/ StartBuffered(r)
             \/ WriteReturns(r) \/ CheckBody(r)
             \/ CloseBody(r) \/ ReceiveResult(r)

Measure(r) == \/ \E k \in 1..pending[r] : PipeRead(r, k)
              \/ PipeEnds(r) \/ PipeFails(r)
              \/ RecordBody(r) \/ CloseReader(r) \/ SendResult(r)

Progress(r) ==
  \/ \E k \in 0..upload[r].sent, err \in Ending \union {"nil"} : ReadSource(r, k, err)
  \/ \E o \in {"ok", "error"} : DoReturns(r, o)

AllResponded ==
  /\ \A r \in Requests : handlerPc[r] = "responded" /\ measurerPc[r] \in {"none", "done"}
  /\ UNCHANGED vars

Next == \/ \E r \in Requests : Handle(r) \/ Measure(r) \/ Progress(r) \/ DoCloses(r)
        \/ AllResponded

Spec == Init /\ [][Next]_vars

(* The scheduler runs both goroutines of every request; only the clients   *)
(* and providers of the Answered requests are sure to move.                *)
Fairness ==
  /\ \A r \in Requests : WF_vars(Handle(r)) /\ WF_vars(Measure(r))
  /\ \A r \in Answered : WF_vars(Progress(r))

FairSpec == Spec /\ Fairness

-----------------------------------------------------------------------------
(* The type of the state. *)
TypeOK ==
  /\ upload \in [Requests -> Uploads]
  /\ handlerPc \in [Requests -> {"idle", "doing", "writing", "checking",
                                 "closing", "awaiting", "responded"}]
  /\ outcome \in [Requests -> {"none", "ok", "error"}]
  /\ response \in [Requests -> {"none", "forwarded", "bad gateway"}]
  /\ bodyClosed \in [Requests -> BOOLEAN]
  /\ readBytes \in [Requests -> Nat]
  /\ readErr \in [Requests -> Ending \union {"nil"}]
  /\ measurementWriteFailed \in [Requests -> BOOLEAN]
  /\ pending \in [Requests -> Nat]
  /\ writerEnd \in [Requests -> Ending \union {"open"}]
  /\ readerClosed \in [Requests -> BOOLEAN]
  /\ measurerPc \in [Requests -> {"none", "reading", "recording", "closing",
                                  "sending", "done"}]
  /\ measured \in [Requests -> Nat]
  /\ measureErr \in [Requests -> {"nil", "failure"}]
  /\ results \in [Requests -> Seq({"nil", "failure"})]
  /\ recorded \in Seq([request : Requests, bytes : Nat])

EntriesOf(r) == {i \in 1..Len(recorded) : recorded[i].request = r}

(* Whether the client sent everything and Do has seen it. *)
Delivered(r) ==
  IF upload[r].kind = "buffered" THEN TRUE
  ELSE /\ readBytes[r] = upload[r].sent
       /\ upload[r].expected < 0 => upload[r].end = "EOF" /\ readErr[r] = "EOF"
       /\ upload[r].expected >= 0 => upload[r].sent = upload[r].expected

(* Measuring never falls behind what Do took from the body, nor gets ahead *)
(* of it: the pipe is never closed under a Write, in any interleaving of   *)
(* the two goroutines, whether Do reads on, stops, closes or fails.        *)
NothingLostInPipe ==
  \A r \in Requests :
    /\ ~measurementWriteFailed[r]
    /\ measured[r] + pending[r] = readBytes[r]

(* A body that was delivered is in the store, once and with all its bytes, *)
(* when the client gets the response (an empty buffered body is never      *)
(* recorded): a snapshot taken after a response accounts for its request,  *)
(* which the integration tests rely on.                                    *)
RecordedBeforeResponse ==
  \A r \in Requests :
    /\ Cardinality(EntriesOf(r)) <= 1
    /\ handlerPc[r] = "responded" /\ Delivered(r)
         /\ ~(upload[r].kind = "buffered" /\ upload[r].sent = 0)
       => \E i \in EntriesOf(r) : recorded[i].bytes = upload[r].sent

(* A pipe closed with EOF carried the whole body, and an upload that       *)
(* failed before its end is not recorded.                                  *)
CleanCloseMeansWholeBody ==
  \A r \in Requests :
    /\ writerEnd[r] = "EOF" => Delivered(r)
    /\ writerEnd[r] = "failure" => EntriesOf(r) = {}

(* The measuring goroutine is through when the handler answers, its pipe   *)
(* closed at both ends and its channel empty: none is left behind.         *)
NoGoroutineLeft ==
  \A r \in Requests :
    handlerPc[r] = "responded" /\ upload[r].kind = "stream" =>
      /\ measurerPc[r] = "done" /\ results[r] = <<>>
      /\ readerClosed[r] /\ writerEnd[r] # "open"

(* Measuring never stalls a request: a Write to the pipe returns, and once *)
(* Do has returned the client is answered, whatever the other requests do. *)
MeasuringNeverStalls ==
  \A r \in Requests :
    /\ handlerPc[r] = "writing" ~> handlerPc[r] = "doing"
    /\ handlerPc[r] = "closing" ~> handlerPc[r] = "responded"

(* A request whose client and provider do not hang is answered, also when  *)
(* others hang.                                                            *)
AnsweredRequestsEnd ==
  \A r \in Answered : <>(handlerPc[r] = "responded")

=============================================================================
