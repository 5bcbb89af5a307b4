------------------------- MODULE HttpReceiveHeaders -------------------------
(***************************************************************************)
(* The HTTP response-header engine of src/http/src/headers_receive.c:      *)
(* _avs_http_receive_headers() and everything it calls, over one           *)
(* http_stream_t that lives across requests.                               *)
(*                                                                         *)
(* Each step is one blocking read of the backend stream and the            *)
(* computation that follows it up to the next read: the status line, one   *)
(* header line, or the status dispatch (whose redirect, body-receiver and  *)
(* drain calls are the collaborators' I/O).  The peer's bytes are the      *)
(* nondeterministic inputs.  The request-sending caller, outside src/, is  *)
(* modelled from spec.md 4.6: it sends (or resends) a request and calls    *)
(* _avs_http_receive_headers.                                              *)
(*                                                                         *)
(* wire, framing, redirected, authRetries, redirects and closed are       *)
(* history variables kept only for the properties: what of the exchange   *)
(* is still unread on the connection, which framing headers the current   *)
(* response had handled, and what the current call and exchange did.      *)
(***************************************************************************)
EXTENDS Integers, FiniteSets

CONSTANTS
  Statuses,      \* status codes a peer may put in a status line
  HeaderLines,   \* header lines a peer may send, as [name, value] records
  AuthTypes,     \* auth schemes a WWW-Authenticate challenge may select
  AuthNone,      \* HTTP_AUTH_TYPE_NONE
  ValidUrls,     \* Location values avs_url_parse() accepts
  EINVAL,        \* errno value stored as status for a 3xx without Location
  RedirectError, \* what a failed _avs_http_redirect() returns
  MaxHeaders,    \* bound: header lines per response
  MaxInterim,    \* bound: 1xx responses per call
  MaxRedirects,  \* the redirect collaborator's limit
  ULLWidth, SizeWidth

ASSUME AuthNone \in AuthTypes
ASSUME MaxHeaders \in Nat /\ MaxInterim \in Nat /\ MaxRedirects \in Nat

PS == INSTANCE ParseSize

VARIABLES
  \* http_stream_t
  status, keep_connection, should_retry, chunked_sending, no_expect,
  auth_type, retried, has_credentials, redirect_count, body_receiver,
  \* header_parser_state_t of the current iteration
  parser,
  \* the call: where it is, its locals and the model's bounds
  pc, skip_100_continue, result, lines, interim,
  \* history
  wire, framing, redirected, authRetries, redirects, closed

stream  == <<status, keep_connection, should_retry, chunked_sending, no_expect,
             auth_type, retried, has_credentials, redirect_count, body_receiver>>
call    == <<pc, skip_100_continue, result, lines, interim>>
history == <<wire, framing, redirected, authRetries, redirects, closed>>
vars    == <<stream, parser, call, history>>

TransferEncodings == {"IDENTITY", "LENGTH", "CHUNKED"}
ContentEncodings  == {"IDENTITY", "GZIP", "DEFLATE"}
WireStates        == {"Clean", "Response", "Header", "Body", "Broken"}

\* header_parser_state_t without its stream: the transfer and content
\* encodings, the content length and whether a redirect_url is held.
ParserStates == [te : TransferEncodings, ce : ContentEncodings,
                 len : 0..PS!SIZE_MAX, url : BOOLEAN]

\* stream->status / 100 with C's truncating division.
StatusClass(st) == IF st >= 0 THEN st \div 100 ELSE -((-st) \div 100)

\* header_parser_state_t parser_state = { .stream = stream }
FreshParser ==
  [te |-> "IDENTITY", ce |-> "IDENTITY", len |-> 0, url |-> FALSE]

\* _avs_http_auth_setup(): the challenge's scheme becomes the auth type.
AuthSetup(value) == value

\* "Connection: close"
Closes(h) == h.name = "Connection" /\ h.value = "close"

\* The framing headers a header line counts as (for the history only).
Framing(h) ==
  IF \/ h.name = "Content-Length"
     \/ h.name = "Transfer-Encoding" /\ h.value # "identity"
  THEN {h.name} ELSE {}

-----------------------------------------------------------------------------
(* Pure parts of the code.                                                 *)

\* Mutant: only a chunked encoding conflicts ("a different kind").
TransferEncodingSet_chunked_only(ps) == ps.te = "CHUNKED"

\* state->transfer_encoding != TRANSFER_IDENTITY: a framing was set already.
TransferEncodingSet(ps) == ps.te # "IDENTITY"

\* http_handle_header() on the parser state: the new state, or err.
\* cookieOk is what _avs_http_set_cookie() returns.
HandleHeader(h, ps, cookieOk) ==
  LET Ok(p) == [err |-> FALSE, ps |-> p]
      Err   == [err |-> TRUE, ps |-> ps]
      len   == PS!ParseSize(h.value)
  IN  CASE h.name \in {"Set-Cookie", "Set-Cookie2"} ->
             IF cookieOk THEN Ok(ps) ELSE Err
        [] h.name = "Content-Length" ->
             IF TransferEncodingSet(ps) \/ ~len.ok THEN Err
             ELSE Ok([ps EXCEPT !.te = "LENGTH", !.len = len.val])
        [] h.name = "Transfer-Encoding" /\ h.value # "identity" ->
             IF TransferEncodingSet(ps) THEN Err ELSE Ok([ps EXCEPT !.te = "CHUNKED"])
        [] h.name = "Content-Encoding" /\ h.value # "identity" ->
             IF ps.ce # "IDENTITY" THEN Err
             ELSE Ok([ps EXCEPT !.ce = CASE h.value \in {"gzip", "x-gzip"} -> "GZIP"
                                         [] h.value = "deflate" -> "DEFLATE"
                                         [] OTHER -> "IDENTITY"])
        [] h.name = "Location" /\ StatusClass(status) = 3 ->
             Ok([ps EXCEPT !.url = h.value \in ValidUrls])
        [] OTHER -> Ok(ps)

\* Mutant: the 401 branch does not look at (or set) the retried flag.
FlagsAfter_no_retried(st, rt) ==
  CASE StatusClass(st) = 3 ->
         [retry |-> TRUE, retried |-> rt, no_expect |-> no_expect, auth |-> FALSE]
    [] st = 401 /\ has_credentials /\ auth_type # AuthNone ->
         [retry |-> TRUE, retried |-> rt, no_expect |-> no_expect, auth |-> TRUE]
    [] st = 417 /\ ~no_expect ->
         [retry |-> TRUE, retried |-> rt, no_expect |-> TRUE, auth |-> FALSE]
    [] OTHER ->
         [retry |-> FALSE, retried |-> rt, no_expect |-> no_expect, auth |-> FALSE]

\* update_flags_after_receiving_headers() for the final status and the
\* retried flag as the dispatch left it; auth says an auth retry was chosen.
FlagsAfter(st, rt) ==
  CASE StatusClass(st) = 3 ->
         [retry |-> TRUE, retried |-> rt, no_expect |-> no_expect, auth |-> FALSE]
    [] st = 401 /\ has_credentials /\ auth_type # AuthNone /\ ~rt ->
         [retry |-> TRUE, retried |-> TRUE, no_expect |-> no_expect, auth |-> TRUE]
    [] st = 417 /\ ~no_expect ->
         [retry |-> TRUE, retried |-> rt, no_expect |-> TRUE, auth |-> FALSE]
    [] OTHER ->
         [retry |-> FALSE, retried |-> rt, no_expect |-> no_expect, auth |-> FALSE]

-----------------------------------------------------------------------------
(* Leaving the call.                                                       *)

\* Start of an iteration of the do-while loop: a fresh parser state.
NextIteration ==
  /\ parser' = FreshParser
  /\ lines' = 0
  /\ framing' = {}
  /\ pc' = "Headline"

\* Mutant: the loop test without !result.
LoopAgain_ignores_result(res, st) == skip_100_continue /\ st = 100

\* The do-while test: loop while the iteration succeeded, 100 Continue is
\* skipped and the status is 100.
LoopAgain(res, st) == res = 0 /\ skip_100_continue /\ st = 100

\* Mutant: the flags are updated after every iteration, the skipped
\* 100 Continue responses included.
EndIteration_flags_every_iteration(res, st, rt) ==
  LET f == FlagsAfter(st, rt) IN
  /\ status' = st
  /\ retried' = f.retried
  /\ should_retry' = f.retry
  /\ no_expect' = f.no_expect
  /\ authRetries' = authRetries + (IF f.auth THEN 1 ELSE 0)
  /\ IF LoopAgain(res, st)
     THEN NextIteration /\ UNCHANGED result
     ELSE result' = res /\ pc' = "Idle" /\ UNCHANGED <<parser, lines, framing>>

\* http_receive_headers_internal() returns res with status st and retried
\* rt: the url is freed (no state); either the loop reads the next
\* response, or the flags are updated and _avs_http_receive_headers returns.
EndIteration(res, st, rt) ==
  IF LoopAgain(res, st)
  THEN /\ NextIteration
       /\ status' = st
       /\ UNCHANGED <<result, retried, should_retry, no_expect, authRetries>>
  ELSE LET f == FlagsAfter(st, rt) IN
       /\ result' = res
       /\ status' = st
       /\ retried' = f.retried
       /\ should_retry' = f.retry
       /\ no_expect' = f.no_expect
       /\ authRetries' = authRetries + (IF f.auth THEN 1 ELSE 0)
       /\ pc' = "Idle"
       /\ UNCHANGED <<parser, lines, framing>>

\* Mutant: the error label forgets to clear keep_connection.
ErrorExit_keeps_connection(st, rt) ==
  UNCHANGED keep_connection /\ EndIteration(-1, st, rt)

\* http_receive_headers_error: keep_connection = 0; return -1.
ErrorExit(st, rt) == keep_connection' = FALSE /\ EndIteration(-1, st, rt)

-----------------------------------------------------------------------------
(* The caller (spec.md 4.6) and _avs_http_receive_headers().               *)

\* Entry of _avs_http_receive_headers(): 100 Continue is skipped unless the
\* caller is sending a chunked request.
BeginReceive ==
  /\ skip_100_continue' = ~chunked_sending'
  /\ interim' = 0
  /\ redirected' = FALSE
  /\ closed' = FALSE
  /\ NextIteration

\* The request-sending code sends a request, or resends it when the last
\* call asked for a retry, and calls _avs_http_receive_headers().  The
\* previous body has been read and its receiver released.  A 1xx returned
\* to a chunked sender continues the same exchange.
SendRequest ==
  /\ pc = "Idle"
  /\ \E chunked \in BOOLEAN : chunked_sending' = chunked
  /\ body_receiver' = "None"
  /\ wire' = "Response"
  /\ IF should_retry \/ (result = 0 /\ StatusClass(status) = 1)
     THEN UNCHANGED <<authRetries, redirects>>
     ELSE authRetries' = 0 /\ redirects' = 0
  /\ BeginReceive
  /\ UNCHANGED <<status, keep_connection, should_retry, no_expect, auth_type,
                 retried, has_credentials, redirect_count, result>>

\* http_receive_headers_internal(), status line: keep_connection is set,
\* the line is read and its status code scanned.
ReadHeadline ==
  /\ pc = "Headline"
  /\ \/ \* avs_stream_getline() failed or truncated: default to 100
        /\ wire' = "Broken"
        /\ ErrorExit(100, retried)
        /\ UNCHANGED interim
     \/ \* sscanf("HTTP/%*s %d") matched nothing: status is left as it was
        /\ wire' = "Header"
        /\ ErrorExit(status, retried)
        /\ UNCHANGED interim
     \/ \E s \in Statuses :
          /\ StatusClass(s) = 1 => interim < MaxInterim
          /\ status' = s
          /\ interim' = interim + (IF StatusClass(s) = 1 THEN 1 ELSE 0)
          /\ keep_connection' = TRUE
          /\ wire' = "Header"
          /\ pc' = "Headers"
          /\ UNCHANGED <<should_retry, no_expect, retried, result, authRetries,
                         parser, lines, framing>>
  /\ UNCHANGED <<chunked_sending, auth_type, has_credentials, redirect_count,
                 body_receiver, skip_100_continue, redirected, redirects, closed>>

\* get_http_header_line() and one turn of the header loop: the line is read,
\* an over-long one discarded, the empty line ends the block, and any other
\* line is split at ':' and handled by http_handle_header().
ReadHeaderLine ==
  /\ pc = "Headers"
  /\ \/ \* avs_stream_getline() failed, or EOF while discard_line() ran
        /\ wire' = "Broken"
        /\ ErrorExit(status, retried)
        /\ UNCHANGED <<auth_type, closed>>
     \/ \* an over-long line was discarded up to its '\n'; the next line is read
        /\ lines < MaxHeaders
        /\ lines' = lines + 1
        /\ UNCHANGED <<stream, parser, pc, result, wire, framing, authRetries, closed>>
     \/ \* the empty line ends the header block
        /\ pc' = "Dispatch"
        /\ wire' = IF StatusClass(status) = 1 THEN "Response" ELSE "Body"
        /\ UNCHANGED <<stream, parser, result, lines, framing, authRetries,
                       closed>>
     \/ \* http_header_split() found no ':'
        /\ lines < MaxHeaders
        /\ wire' = "Header"
        /\ ErrorExit(status, retried)
        /\ UNCHANGED <<auth_type, closed>>
     \/ \E h \in HeaderLines, cookieOk \in BOOLEAN :
          LET r == HandleHeader(h, parser, cookieOk) IN
          /\ lines < MaxHeaders
          /\ IF r.err
             THEN /\ wire' = "Header"
                  /\ ErrorExit(status, retried)
                  /\ UNCHANGED <<auth_type, closed>>
             ELSE /\ lines' = lines + 1
                  /\ framing' = framing \cup Framing(h)
                  /\ parser' = r.ps
                  /\ auth_type' = IF h.name = "WWW-Authenticate"
                                  THEN AuthSetup(h.value) ELSE auth_type
                  /\ keep_connection' = IF Closes(h) THEN FALSE ELSE keep_connection
                  /\ closed' = (closed \/ Closes(h))
                  /\ UNCHANGED <<status, should_retry, no_expect, retried, pc,
                                 result, wire, authRetries>>
  /\ UNCHANGED <<chunked_sending, has_credentials, redirect_count, body_receiver,
                 skip_100_continue, interim, redirected, redirects>>

\* _avs_http_body_receiver_init(): the body reader for the transfer encoding.
Receiver(te) ==
  CASE te = "LENGTH" -> "Length" [] te = "CHUNKED" -> "Chunked" [] OTHER -> "ToClose"

\* Mutant: the redirect limit is checked with <= (one redirect too many).
RedirectResults_off_by_one ==
  IF redirect_count <= MaxRedirects THEN {0, RedirectError} ELSE {RedirectError}

\* _avs_http_redirect(): 0 when the new connection is made, which the
\* redirect limit allows, or an error code.
RedirectResults ==
  IF redirect_count < MaxRedirects THEN {0, RedirectError} ELSE {RedirectError}

\* case 1: the response is ignored and treated as success (the do-while
\* then reads the next response if it was a skipped 100 Continue).
DispatchInterim ==
  /\ pc = "Dispatch"
  /\ StatusClass(status) = 1
  /\ EndIteration(0, status, retried)
  /\ UNCHANGED <<keep_connection, chunked_sending, auth_type, has_credentials,
                 redirect_count, body_receiver, skip_100_continue, interim, wire,
                 redirected, redirects, closed>>

\* case 2: retried is cleared and the body receiver set up for the parsed
\* framing; on success the redirect counter is reset.
DispatchSuccess ==
  /\ pc = "Dispatch"
  /\ StatusClass(status) = 2
  /\ \E initOk \in BOOLEAN :
       IF initOk
       THEN /\ body_receiver' = Receiver(parser.te)
            /\ redirect_count' = 0
            /\ EndIteration(0, status, FALSE)
            /\ UNCHANGED keep_connection
       ELSE /\ ErrorExit(status, FALSE)
            /\ UNCHANGED <<redirect_count, body_receiver>>
  /\ UNCHANGED <<chunked_sending, auth_type, has_credentials,
                 skip_100_continue, interim, wire, redirected, redirects,
                 closed>>

\* case 3: retried is cleared; without a Location the status becomes EINVAL;
\* a successful redirect still fails this call but keeps keep_connection
\* (the new connection is in use); a failed one stores its result as status.
DispatchRedirect ==
  /\ pc = "Dispatch"
  /\ StatusClass(status) = 3
  /\ IF ~parser.url
     THEN /\ ErrorExit(EINVAL, FALSE)
          /\ UNCHANGED <<redirect_count, wire, redirected, redirects>>
     ELSE \E res \in RedirectResults :
            IF res = 0
            THEN /\ redirect_count' = redirect_count + 1
                 /\ wire' = "Clean"
                 /\ redirected' = TRUE
                 /\ redirects' = redirects + 1
                 /\ EndIteration(-1, status, FALSE)
                 /\ UNCHANGED keep_connection
            ELSE /\ ErrorExit(res, FALSE)
                 /\ UNCHANGED <<redirect_count, wire, redirected, redirects>>
  /\ UNCHANGED <<chunked_sending, auth_type, has_credentials, body_receiver,
                 skip_100_continue, interim, closed>>

\* case 4 and default: 5xx (and any other class) clears retried; the error
\* body is read to the end and discarded rather than the connection closed
\* (TR-069), a read error clears keep_connection, the receiver is released
\* and the call fails.
DispatchError ==
  /\ pc = "Dispatch"
  /\ StatusClass(status) \notin {1, 2, 3}
  /\ LET rt == IF StatusClass(status) = 4 THEN retried ELSE FALSE IN
     \E initOk, drained \in BOOLEAN :
       IF ~initOk
       THEN /\ ErrorExit(status, rt)
            /\ UNCHANGED wire
       ELSE /\ keep_connection' = (keep_connection /\ drained)
            /\ wire' = IF drained THEN "Clean" ELSE "Broken"
            /\ EndIteration(-1, status, rt)
  /\ body_receiver' = "None"
  /\ UNCHANGED <<chunked_sending, auth_type, has_credentials, redirect_count,
                 skip_100_continue, interim, redirected, redirects, closed>>

-----------------------------------------------------------------------------

Init ==
  /\ status = 0
  /\ keep_connection = TRUE
  /\ should_retry = FALSE
  /\ chunked_sending = FALSE
  /\ no_expect = FALSE
  /\ auth_type = AuthNone
  /\ retried = FALSE
  /\ has_credentials \in BOOLEAN
  /\ redirect_count = 0
  /\ body_receiver = "None"
  /\ parser = FreshParser
  /\ pc = "Idle"
  /\ skip_100_continue = TRUE
  /\ result = 0
  /\ lines = 0
  /\ interim = 0
  /\ wire = "Clean"
  /\ framing = {}
  /\ redirected = FALSE
  /\ authRetries = 0
  /\ redirects = 0
  /\ closed = FALSE

Dispatch == DispatchInterim \/ DispatchSuccess \/ DispatchRedirect \/ DispatchError

Next == SendRequest \/ ReadHeadline \/ ReadHeaderLine \/ Dispatch

\* Every read returns: bytes arrive or the caller's deadline makes the
\* backend read fail (spec.md 5); the engine itself never waits otherwise.
Fairness == WF_vars(ReadHeadline) /\ WF_vars(ReadHeaderLine) /\ WF_vars(Dispatch)

Spec == Init /\ [][Next]_vars /\ Fairness

-----------------------------------------------------------------------------
(* Properties.                                                             *)

TypeOK ==
  /\ status \in Statuses \cup {0, 100, EINVAL, RedirectError}
  /\ {keep_connection, should_retry, chunked_sending, no_expect, retried,
      has_credentials, skip_100_continue, redirected} \subseteq BOOLEAN
  /\ auth_type \in AuthTypes
  /\ redirect_count \in 0..MaxRedirects
  /\ body_receiver \in {"None", "Length", "Chunked", "ToClose"}
  /\ parser \in ParserStates
  /\ pc \in {"Idle", "Headline", "Headers", "Dispatch"}
  /\ result \in {0, -1}
  /\ lines \in 0..MaxHeaders
  /\ interim \in 0..MaxInterim
  /\ wire \in WireStates
  /\ framing \subseteq {"Content-Length", "Transfer-Encoding"}
  /\ authRetries \in Nat /\ redirects \in Nat
  /\ closed \in BOOLEAN

\* The connection is left marked reusable (keep_connection) only when the
\* engine knows where the exchange stands on it: nothing of the response is
\* unread, or its body is unread and a body receiver is attached to read it,
\* or a whole response is still owed and the call returned success to a
\* chunked sender that opted out of skipping 100 Continue.  Covers the error
\* label, the 4xx/5xx drain, the redirect return and the 1xx loop.
ReusableOnlyWhenConsumed ==
  pc = "Idle" /\ keep_connection =>
    \/ wire = "Clean"
    \/ wire = "Body" /\ body_receiver # "None"
    \/ wire = "Response" /\ result = 0 /\ ~skip_100_continue

\* The body reader a set of framing headers calls for ("Conflict" for both).
ReaderFor(f) ==
  CASE f = {"Content-Length"}    -> "Length"
    [] f = {"Transfer-Encoding"} -> "Chunked"
    [] f = {}                    -> "ToClose"
    [] OTHER                     -> "Conflict"

\* A body receiver is left attached only after a successful 2xx, and its
\* variant is the framing the response announced: Content-Length gives a
\* fixed-length reader, a non-identity Transfer-Encoding a chunked one,
\* neither a read-to-close one; a response that announced both (in either
\* order) never gets a reader (http_handle_header's conflict checks).
BodyReaderMatchesFraming ==
  pc = "Idle" /\ body_receiver # "None" =>
    /\ StatusClass(status) = 2
    /\ result = 0
    /\ body_receiver = ReaderFor(framing)

\* Within one exchange (a request and its retries) a 401 makes the stream
\* retry authentication at most once per redirect followed: the retried
\* flag of update_flags_after_receiving_headers() survives every response
\* but 2xx, 3xx and 5xx.
AuthRetriesBounded == authRetries <= redirects + 1

\* Every call of _avs_http_receive_headers() returns.
CallReturns == pc # "Idle" ~> pc = "Idle"

\* update_flags_after_receiving_headers() sets should_retry for a 3xx status
\* with the comment "redirect happened": a call that asks for a retry with a
\* 3xx status has followed a redirect.
RetryOnlyAfterRedirect ==
  pc = "Idle" /\ should_retry /\ StatusClass(status) = 3 => redirected

\* spec.md 4.2: "Connection: close" clears the session's keep-alive flag.
\* A call of _avs_http_receive_headers() in which the peer sent it returns
\* with keep_connection cleared, also when the header came with a skipped
\* 100 Continue and the loop went on to the final response.
CloseHonoured == pc = "Idle" /\ closed => ~keep_connection

\* The contract of spec.md 3, 4.4 and 7 seen by the caller: a call is busy
\* while pc is not Idle, its outcome is result, the body reader is
\* body_receiver and the retry request is should_retry.
Contract == INSTANCE ReceiveHeadersContract
              WITH busy   <- pc # "Idle",
                   res    <- result,
                   reader <- body_receiver # "None",
                   retry  <- should_retry

\* _avs_http_receive_headers() implements the contract: should_retry and
\* the result change only when the call returns (the 100 Continue loop
\* included), a success never asks for a retry, and a failure never leaves
\* a body reader attached.
ImplementsContract == Contract!Spec

\* The framing rows of the conflict column of spec.md 4.2: Content-Length
\* fails when a different kind of framing (chunked) was set or its value
\* does not parse; a non-identity Transfer-Encoding fails when
\* length-delimited framing was set.
SpecRejects(h, ps) ==
  \/ h.name = "Content-Length" /\ (ps.te = "CHUNKED" \/ ~PS!ParseSize(h.value).ok)
  \/ h.name = "Transfer-Encoding" /\ h.value # "identity" /\ ps.te = "LENGTH"

\* While headers are read, http_handle_header() (lines 69-80) rejects a
\* Content-Length or Transfer-Encoding header exactly when spec.md 4.2
\* calls it a conflict with the framing set by the earlier headers of the
\* same block.
ClassifierFollowsSpec ==
  pc = "Headers" =>
    \A h \in HeaderLines :
      h.name \in {"Content-Length", "Transfer-Encoding"} =>
        (HandleHeader(h, parser, TRUE).err <=> SpecRejects(h, parser))

\* spec.md 4.6 and 8.4: a 401 with credentials present and an auth scheme
\* other than none makes the stream retry authentication, unless it already
\* did so in this exchange.  Stated for a 401 response read and drained to
\* its end (wire Clean).  The retried flag of the stream decides it, and the
\* dispatch clears that flag only for 2xx, 3xx and 5xx, never for a 4xx.
AuthRetryOncePerExchange ==
  pc = "Idle" /\ status = 401 /\ wire = "Clean" /\ has_credentials
    /\ auth_type # AuthNone /\ authRetries = 0 => should_retry

\* spec.md 3 and 4.4: the redirect counter belongs to the exchange.  The
\* count the stream hands to _avs_http_redirect() never exceeds the number
\* of redirects this exchange followed, so every exchange may follow
\* MaxRedirects of them; only a 2xx resets redirect_count.
RedirectCountPerExchange == redirect_count <= redirects

\* spec.md 3: the retry budgets of a session belong to its exchange.  Every
\* exchange on the stream starts with its own authentication retry and its
\* own MaxRedirects redirects, whatever the previous exchange did.
ExchangeBudgetsFresh == AuthRetryOncePerExchange /\ RedirectCountPerExchange

=============================================================================
