----------------------- MODULE ReceiveHeadersContract -----------------------
(***************************************************************************)
(* What a caller of _avs_http_receive_headers() is promised, after         *)
(* spec.md 3 (Connection Session), 4.4 (dispatch outcomes) and 7 (error    *)
(* propagation), with the reading of the response hidden:                 *)
(*                                                                         *)
(*  - a call ends either in success (result 0) or in one failure outcome   *)
(*    (result -1); "no partial success is reported";                       *)
(*  - a body reader is attached only by a successful call, and a new call  *)
(*    starts with the previous body released;                              *)
(*  - should_retry is recomputed exactly once per completed response, so   *)
(*    it changes only when a call returns, and a success never asks for a  *)
(*    retry;                                                               *)
(*  - between calls the session's outcome does not change.                 *)
(***************************************************************************)

EXTENDS Integers

VARIABLES
  busy,     \* a call is in progress
  res,      \* the result the last call returned
  reader,   \* a body reader is attached to the stream
  retry     \* the session's should_retry

avars == <<busy, res, reader, retry>>

Init ==
  /\ ~busy
  /\ res = 0
  /\ ~reader
  /\ ~retry

\* The caller sends a request (the previous body read) and calls in.
Call ==
  /\ ~busy /\ busy'
  /\ ~reader'
  /\ UNCHANGED <<res, retry>>

\* The call returns success: maybe with a body reader, never with a retry.
ReturnSuccess ==
  /\ busy /\ ~busy'
  /\ res' = 0
  /\ reader' \in BOOLEAN
  /\ ~retry'

\* The call returns failure: no body reader; a retry may be requested.
ReturnFailure ==
  /\ busy /\ ~busy'
  /\ res' = -1
  /\ ~reader'
  /\ retry' \in BOOLEAN

Next == Call \/ ReturnSuccess \/ ReturnFailure

Spec == Init /\ [][Next]_avars

=============================================================================
