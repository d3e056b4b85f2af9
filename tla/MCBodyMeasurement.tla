------------------------- MODULE MCBodyMeasurement -------------------------
(***************************************************************************)
(* BodyMeasurement with two requests.  The first has any body of at most   *)
(* one byte, announced and complete, announced and truncated, chunked with *)
(* and without its EOF, failed, empty, and buffered, or one of which two   *)
(* bytes are announced and one or both come.  The second is an empty       *)
(* chunked body, whose client and provider may hang.                       *)
(***************************************************************************)
EXTENDS BodyMeasurement, TLC

CONSTANTS r1, r2

MCUploads ==
  {u \in [kind : {"stream", "buffered"}, expected : -1..2, sent : 0..2, end : Ending] :
     IsUpload(u) /\ (u.expected = 2 => u.sent # 0) /\ (u.sent = 2 => u.expected = 2)}

MCInit ==
  /\ Init
  /\ upload[r2] = [kind |-> "stream", expected |-> -1, sent |-> 0, end |-> "EOF"]

MCSpec == MCInit /\ [][Next]_vars /\ Fairness

=============================================================================
