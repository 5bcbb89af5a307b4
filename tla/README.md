# TLA+ models of avs_commons (HTTP header reception)

This directory holds TLA+ models of the parts of the repository under `src/`
that have state and operations TLC can check. They are checked with TLC.

## The system and its parts

| Part | Source | Model |
|---|---|---|
| HTTP response header reception | `src/http/src/headers_receive.c` | `HttpReceiveHeaders`, `MCHttpReceiveHeaders` |
| Content-Length parsing (`parse_size`) | `src/http/src/headers_receive.c:39-54` | `ParseSize`, `MCParseSize` |
| Caller-visible contract of header reception | spec.md 3, 4.4, 7 | `ReceiveHeadersContract` (refined by `HttpReceiveHeaders`) |
| Chunked transfer coding | `src/http/src/chunked.h` (prototypes only) | not modelled (no code in the repository) |
| Red-black tree API | `src/rbtree/include_public/avsystem/commons/rbtree.h` | `RBTree`, `MCRBTree` |
| Byte buffer | `src/buffer/src/test/test_buffer.c` (the tests), spec.md 6, 9 | `ByteBuffer`, `MCByteBuffer`; contract `ByteFifo` (refined by `ByteBuffer`) |
| CoAP content formats, PKI aliases | `content_format.h`, `avs_net_pki_compat.h` | not modelled (constants and typedefs) |
| Crypto tests (AEAD, OpenSSL engine) | `src/tests/crypto/...` | not modelled (byte arithmetic and external I/O) |

### How reception works

An `http_stream_t` lives across requests. The caller sends a request and calls
`_avs_http_receive_headers`. That function loops over
`http_receive_headers_internal` while the status is 100 and `skip_100_continue`
is set. The flag is set when the request is not sent chunked.

Each iteration does four things in order:

1. It reads the status line. A failed read sets status to 100. A line that
   `sscanf` cannot parse leaves the status unchanged.
2. It reads header lines until an empty one. Over-long lines are discarded.
   Each line goes through `http_handle_header`. That function handles
   Set-Cookie, Content-Length (`parse_size`), Transfer-Encoding,
   Content-Encoding, Location, WWW-Authenticate and Connection.
3. It dispatches on the status class:
   - 1xx: return.
   - 2xx: set up the body receiver.
   - 3xx: redirect.
   - anything else: set up a receiver and drain the error body.
4. It passes through `update_flags_after_receiving_headers` on every exit.
   This sets `should_retry`, the auth `retried` flag and `no_expect`.

## Modules

### `ParseSize`

`parse_size` with the `strtoull(..., 0)` it calls. The model follows what
strtoull actually does:

- the sign;
- the `0x` and `0` prefixes;
- the longest run of digits;
- `endptr` when there are no digits;
- ERANGE;
- negation modulo 2^w.

`ULLWidth` and `SizeWidth` make both overflows reachable. `RefParseSize` is
the decimal reading that spec.md 4.2 asks for.

`MCParseSize` enumerates every value of at most `MaxLen` characters from
`Chars`.

### `HttpReceiveHeaders`

The variables split into four groups:

- **Stream fields:** `status`, `keep_connection`, `should_retry`,
  `chunked_sending`, `no_expect`, `auth_type`, `retried`, `has_credentials`,
  `redirect_count`, `body_receiver`.
- **Per-iteration parser state:** `parser`.
- **Call locals:** `pc`, `skip_100_continue`, `result`, `lines`, `interim`.
- **History variables:** `wire`, `framing`, `redirected`, `authRetries`,
  `redirects`, `closed`. They record what is still unread on the connection
  and what the exchange did.

One action is one blocking read and the computation up to the next read:

- `ReadHeadline`: lines 158-176.
- `ReadHeaderLine`: lines 107-156 and 178-195.
- `DispatchInterim`, `DispatchSuccess`, `DispatchRedirect`, `DispatchError`:
  lines 197-256.

Every exit goes through `EndIteration`. It applies `FlagsAfter` (lines
263-282) and the do-while test `LoopAgain` (lines 300-301).

The code outside `src/` is modelled from spec.md by its outcomes:

- `SendRequest`: the caller.
- `Receiver`: `_avs_http_body_receiver_init`.
- `RedirectResults`: `_avs_http_redirect`.
- `AuthSetup`: auth set-up.

### `ReceiveHeadersContract` and the refinement

This module is the abstract specification of one call, as the caller sees it.
Each call goes `Call` then `ReturnSuccess` or `ReturnFailure`, over four
variables: `busy`, `res`, `reader` and `retry`.

- A success may leave a body reader but never asks for a retry.
- A failure never leaves a body reader.
- Nothing changes while the call is busy.

`HttpReceiveHeaders` instantiates it with this mapping:

- `busy <- pc # "Idle"`
- `res <- result`
- `reader <- body_receiver # "None"`
- `retry <- should_retry`

The main run checks `ImplementsContract == Contract!Spec` as a property. The
reading steps and the 100 Continue loop map to stuttering steps.

### `RBTree`

This module models the API contract of every macro in `rbtree.h`. The tree
implementation is not in the repository.

- A tree is the set of attached elements, ordered by the comparator (`Cmp`
  on `Key`).
- Each element handle is Free, Detached or Attached.
- There is one action per macro, and `Query` covers the read-only calls.
- `ForeachBegin`/`ForeachStep` are the FOREACH and FOREACH_REVERSE loops.
  Any other operation may run between their steps, as the loop body.
- History variables record what a loop visited (`visited`) and which elements
  stayed attached since it began (`stable`).
- `MayDetachCurrent` says whether the body may detach the current element.

`MCRBTree` has four handles, two of them equivalent (equal keys).

### `ByteBuffer` and `ByteFifo`

`buffer.c` is not in the repository. Its unit tests are. They assert the
result of every call, and they also read the fields `begin`, `end` and
`data`. The model follows those assertions:

- The storage is `Capacity` bytes, indexed from 0. The data lies between the
  offsets `begin` and `end`.
- `consume_bytes` moves `begin` forward. It does not reset `begin` when the
  buffer becomes empty (test lines 81-87).
- `append_bytes` and `fill_bytes` fail when the bytes exceed `space_left`.
  Otherwise they defragment first, if the room after `end` is too small.
- `advance_ptr` fails beyond `space_left_without_moving`. The bytes it
  declares written hold whatever the storage held.
- `raw_insert_ptr` defragments and returns `end` (test lines 98-112).
  `RawWrite` is the caller's protocol around it: take the pointer, copy at
  most `space_left` bytes, then call `advance_ptr`.
- The storage of a new buffer is arbitrary. It is uninitialised memory.

`ByteFifo` is the contract of spec.md 6 and 9: a bounded FIFO of bytes.
`op` holds the call and its arguments, so a failure must be the FIFO's
verdict. `ByteBuffer` maps onto it with
`q <- the bytes between begin and end`, and the `byte_buffer` run checks
`ImplementsByteFifo == Fifo!Spec`.

## Runs

| Run | Expect | What it shows |
|---|---|---|
| `parse_size_off_prefix` | pass | `parse_size` equals the spec's decimal reading on every value without a leading 0: signs, spaces, trailing garbage, ULL and size_t overflow. |
| `parse_size_decimal` | violation | `"0x0"` is accepted as hex: Content-Length is not read as decimal (headers_receive.c:48). The same base-0 reading takes a leading 0 as octal, but with `SIZE_MAX` = 7 the run cannot show that. |
| `receive_headers` | pass | See below. |
| `interim_1xx` | violation | A 103 is returned as the final response (result 0, no body receiver, connection kept) while the real response is still unread (line 301). |
| `retry_without_redirect` | violation | A 302 whose header lines fail to arrive still sets `should_retry` (line 264). |
| `connection_close_on_100` | violation | `CloseHonoured`: a `Connection: close` sent with a skipped 100 Continue is lost. The trace reads a 100 with the header, skips it, and then returns success on a 200 with `keep_connection` set again by line 161. Spec.md 4.2 says the header clears the keep-alive flag. |
| `duplicate_framing_headers` | violation | `ClassifierFollowsSpec`: a repeated framing header of the same kind is rejected. The cfg reads only `Content-Length: 4` and `Transfer-Encoding: chunked`, so the state TLC stops in (a 200 after one of them) leaves a single witness: the same header again. The code rejects it (line 69 or 76), while spec.md 4.2 (`SpecRejects`) makes a framing header an error only after a *different* kind. The Content-Encoding rule of spec.md 4.2 is worded ambiguously and is not checked. |
| `rbtree_api` | pass | See below. |
| `rbtree_foreach_detach_current` | violation | A FOREACH body that detaches the current element silently ends the loop, because ELEM_NEXT of a detached element is NULL (rbtree.h:217). The header states no such restriction on the body. |
| `byte_buffer` | pass | See below. |
| `budgets_next_exchange` | violation | `ExchangeBudgetsFresh` (spec.md 3, 4.6, 8.4): each exchange has its own authentication retry and redirect budget. Two traces break it. In one, a redirect is followed and the exchange then ends in an error, leaving `redirect_count` at 1 for the next exchange (line 209). In the other, a 401 is retried and the resend fails, leaving `retried` set, so the next exchange's 401 is not retried (4xx and errors never clear it; lines 201, 213, 233). Each conjunct (`AuthRetryOncePerExchange`, `RedirectCountPerExchange`) was also checked on its own and is violated. Nothing under `src/` resets these fields when a new exchange starts. |

The `receive_headers` run checks four safety properties and one liveness
property:

- `ReusableOnlyWhenConsumed`: a connection is kept only when nothing of the
  response is left unread, or a body reader owns the rest.
- `BodyReaderMatchesFraming`: the body reader agrees with the framing headers.
- `AuthRetriesBounded`: a 401 is retried at most once per exchange.
- `CallReturns`: every call returns.
- `ImplementsContract`: the refinement of `ReceiveHeadersContract`.
  `should_retry` and the result change only when a call returns, including
  across the 100 Continue loop.

The `rbtree_api` run checks `ForeachComplete`: a finished FOREACH loop
visited every element that stayed attached throughout, while its body
inserted, detached and deleted other elements in both directions of the
loop.

The `byte_buffer` run checks:

- `NoOutOfBoundsWrite`: a caller that writes `space_left` bytes at
  `raw_insert_ptr` never writes past the storage, whatever calls came before.
- `ImplementsByteFifo`: the refinement of `ByteFifo`. The bytes survive every
  defragmentation, and every call fails exactly when the FIFO says it does.

Each property of a passing run has a mutant in PROJECT.json that TLC uses to
break it.

## Bounds

`MCHttpReceiveHeaders.cfg` sets these bounds:

- Statuses `{100, 200, 302, 401, 404, 417, 500}`. This covers every class and
  each special case of `update_flags_after_receiving_headers`.
- `MaxHeaders = 2`. Two headers are enough for the Content-Length /
  Transfer-Encoding conflicts in either order.
- `MaxInterim = 1`.
- `MaxRedirects = 2`, so the redirect limit is reached.
- Widths of 4 bits.

The Content-Length values include a valid one and a rejected one. Exchanges
repeat without bound over the same stream, so state carried across requests
(`retried`, `redirect_count`, `no_expect`) is exercised.

`MCRBTree` explores 63k states in about 10 s. It covers:

- loops in both directions;
- inserts that meet an equivalent element;
- bodies that detach or delete elements before and after the iterator.

`MCByteBuffer` uses a 3-byte buffer and the byte values 0 and 0xFF of the
tests. Inputs run up to 4 bytes, one too many. Counts run from 0 to 4. That is
enough to consume part of the data, run out of room after `end` while there
is room before `begin`, and fail at exactly one byte past each limit. TLC
explores 3k states.

## Fairness

Weak fairness is assumed on the reads and the dispatch. Spec.md 5 gives the
backend stream a timeout, so every read returns with data or with an error.
No fairness is assumed on `SendRequest`: the caller may stop.

`RBTree` and `ByteBuffer` assume no fairness: no property of theirs is a
liveness property.

## Not modelled, and next steps

- **Chunked transfer coding**: `chunked.h` only declares
  `_avs_http_chunked_request_init` and `_avs_http_chunked_send`. The code and
  the chunked body reader are not in the repository. A model written from
  spec.md 4.5 alone would check two of its own definitions against each
  other, and nothing under `src/` could make such a check fail.
- **CoAP content formats and PKI aliases**: constants and typedefs, with no
  state or operation.
- **Crypto tests**: byte arithmetic against cryptographic libraries and
  external tokens.
- **`buffer.c`, `_avs_http_redirect`, the body receivers and the
  request-sending code:** they are not in the repository. They are modelled
  only through what their tests or spec.md state.
