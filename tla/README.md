# TLA+ models of sese.core

This directory holds TLA+ models of the HTTP engine of this repository and
of the utilities around it (DateTime, the resource bundler), the TLC
configurations that check them, and `PROJECT.json`. That file lists the
components, the runs, the mutants, the map from every modelled definition
to source lines, the findings and the hazards.

## The system and its parts

| Part | Source | State | Operations |
|---|---|---|---|
| Client Request Engine | `src/sese/service/http/HttpClient_V1.cpp` | per handle: `requestStatus`, `triedTimes`, `context`, `requestBodySize/Handled`, `responseBodySize/Handled`, `resp`, `promise`, cookie store | `post`, `preprocess`, `deleter`, `onPreConnect`, `onConnected`, `onWriteCompleted`, `onPreRead`, `onReadCompleted`, `onTimeout` |
| Completion-Event Context (iocp) | not under `src/` | per connection: transport state, posted operation, armed timer | `postConnect`, `postWrite`, `postRead`, `postClose`, the timer, the delete-context callback |
| Server Connection State Machine | `src/sese/internal/service/http/HttpServiceImpl_V3.h`, `Handleable.h` (declarations only) | per connection: request/response, keep-alive, ranges and their cursor, file, buffers | read request, write response, range parts, idle timeout, reset for keep-alive |
| Byte-Range Spec | tests in `src/sese/test/TestHttp.cpp` 373-418 | none (pure) | `Range::parse` |
| DateTime / TimeSpan | `src/sese/src/util/DateTime.cpp`, `TimeSpan.h` | a 64-bit timestamp, calendar fields | `now`, `nowPtr`, the constructor, `compareTo`, `unclearCompareTo`, `operator-`, `operator+` |
| Resource bundler | `src/sese/bundler/Bundler_LD.cpp`, `Bundler_RC.cpp` | the generated files | `sanitizeFilename`, `write_ld_header_file`, `write_ld_source_file`, `make_ld_resources`, `write_rc_file`, `write_rc_resource_file` |

**How they interact.** A caller thread calls `HttpClient::post(handle)`. That
call runs `preprocess` and installs a new promise. Then it either asks the
iocp service for a new connection or, if `handle->context` is set, calls
`onConnected` itself on the kept-alive context. From then on, one event
thread runs the handlers for that context:

- connect, then write the header and body;
- read the header and the body in as many reads as the transport delivers.

A timer is armed between the steps. When a context is closed, by timeout,
peer close, I/O error, a parse error or `Connection: close`, the service
calls `deleter`. The deleter maps the phase the exchange was in to a failure
status. It then either retries once (`triedTimes == 0` and not a connect
failure) or fulfils the promise.

Two threads share the handle:

- the caller, in `post`;
- the event thread, in every handler and in `deleter`.

Nothing locks the handle. The only synchronisation is the future, which
`onReadCompleted` fulfils *before* it has finished with the context
(line 149, then lines 150-153).

**What is hard to test.** These are the hazards in `PROJECT.json`:

- the caller re-posting while the event thread is still closing the old
  context;
- a timer firing while a completion is pending;
- a retry that runs `preprocess` on counters and a body buffer the first
  attempt already used;
- `size_t` wrap of `remainder`;
- the retry budget carried from one post to the next;
- headers and bodies split across reads;
- the guarantee that every future is eventually fulfilled.

Beyond the client, the hazards are these:

- `int64_t` overflow in `compareTo`;
- `gmtime`'s shared buffer under concurrent `DateTime::now`;
- the bundler's sanitizer disagreeing with ld on some characters.

Two hazards are listed without a property:

- the cookie store shared by handles (see "Not modelled");
- a kept-alive server connection using a `range_iterator` taken from the
  empty `ranges` vector it is initialised from (`HttpServiceImpl_V3.h:47`).
  Whether `handleRequest` re-takes it, and whether `reset()` rewinds it, is
  in code that is not under `src/`. The model re-takes it as spec.md 3
  describes, so a property of the cursor would check the model, not the
  code.

## Modules

- `HttpClient.tla` is the client engine together with the iocp context
  lifecycle and a nondeterministic server as its environment.
- `ClientContract.tla` is what `post()` promises its caller (spec.md
  4.2): each post's future goes from pending to one terminal status and
  stays there, and every pending future is eventually fulfilled. Its one
  variable, `answers`, is `HttpClient`'s `Futures`: the value of each
  promise once `set_value` has run on it. `ImplementsClientContract`
  checks `Contract!Spec` as a property.
- `MCHttpClient.tla` instantiates it for TLC. It bounds the connection
  table to `2 * MaxPosts + 1`: every post may connect, retry once, and
  reconnect after a stale context.

### State

| Model variable | Code |
|---|---|
| `status` | `handle->requestStatus` |
| `triedTimes` | `handle->triedTimes` |
| `hctx` | `handle->context` (`NoCtx` = `nullptr`) |
| `reqSize`, `reqHandled` | `requestBodySize`, `requestBodyHandled`, as `size_t` mod `2^SizeBits` |
| `reqBody` | the readable bytes of `req->getBody()`, which `streamMove` consumes |
| `respSize`, `respHandled`, `resp` | the response counters and the parsed `Content-Length` / `Connection` headers |
| `promises` | one record per `handle->promise` ever made, counting its `set_value` calls |
| `upc` | where the caller is inside `post` |
| `epc` | the context whose `onReadCompleted` has passed `set_value` but not lines 150-153 (0 = none) |
| `conn` | per context: transport state, posted operation, armed timer |
| `out`, `inb`, `srv`, `peer` | the bytes in flight each way, what the server has received, and whether the peer has closed |
| `nextCtx` | the next fresh context |
| `spurious` | a bounded count of empty read completions (`peek == 0`) |
| `postBody`, `attempts` | history: the body of each post, and the connections made for it |
| `bodyCallback` | `handle->writeRequestBodyCallback` is set: `preprocess` then keeps `requestBodySize` as the caller set it (lines 42-48) |

### Actions

Each handler is one action, modelling the whole handler:

| Action | Code |
|---|---|
| `PostBegin` | `post` lines 15-21 |
| `PostDispatch` | lines 22-30; the reuse branch runs `onConnected` inline |
| `PreConnect` | `onPreConnect` |
| `Connected` | `onConnected` |
| `Timeout` | `onTimeout` |
| `WriteCompleted` | `onWriteCompleted`, both branches |
| `PreRead` | `onPreRead` |
| `ReadCompleted` | `onReadCompleted` up to `set_value` |
| `ReadTail` | `onReadCompleted` lines 150-153 |
| `Release` | the delete-context callback, i.e. `deleter` |

- `ReadCompleted` has three branches: an empty peek, a parse failure, and a
  body read that is short or complete.
- `ReadTail` is split from `ReadCompleted` because the caller may run
  between the two.
- The deleter's work appears as `RetryPost`, `ReportFailure` and
  `SucceededDone`.

The iocp service and the server are not under `src/`. Their steps are
modelled from `spec.md` and marked `spec_modelled` in the map:

- `ConnectFail`
- `Flush`, the transport delivering the client's bytes
- `WriteFailed`
- `ReadEOF`
- `Respond`
- `SendMore`
- `PeerClose`

### Fairness

`Fairness` is weak fairness on the following:

- every event-thread action of every context, because the event loop runs
  every ready completion and fires every armed timer;
- `PostDispatch`, because a started `post()` returns.

There is no fairness on these:

- the caller (`PostBegin`), because it may stop posting;
- the server (`Respond`, `SendMore`, `PeerClose`), because it may stay
  silent, and the client's timers are what must cope with that;
- `Connected` and `ConnectFail`, because the connect timer bounds the
  connect phase.

The timer is a boolean: armed or not. The code cancels and re-arms the
deadline at every completion (lines 158, 172, 197 and 203), so a stream of
completions that each make a little progress can put the timeout off
forever. Weak fairness on `Timeout` lets it fire in such a stream. In
`client_keepalive` this does not matter, since the bodies are empty and
there is one spurious wake-up, so no stream of completions is long. But the
model could not show a livelock in which a write completes with zero bytes
again and again, each time re-arming the timer: the model's timer would end
it.

## Runs

| Run | Expect | Bounds | What it shows |
|---|---|---|---|
| `client_single` | pass | 1 post, bodies {0,2} buffered or from a body callback, responses {0,2} bytes, MTU 1, close or keep-alive, 1 empty read | `TypeOK`, `PromiseFulfilledOnce`, `AtMostOneRetry`, `RetriedBeforeFailure` and the action property `SucceededOnAnswerToThisPost` hold for one post under every transport fault |
| `client_keepalive` | pass | 2 posts, no bodies, responses {0,1}, keep-alive | the second post reuses the context; `ImplementsClientContract` (refinement of `ClientContract`, with the liveness that every future is fulfilled), `PromiseFulfilledOnce`, `AtMostOneRetry` |
| `client_retry_body` | violation | 1 post with a 1-byte body | `RequestDeliveredIntact` fails: the retry declares `Content-Length: 0` |
| `client_retry_budget` | violation | 2 posts, no bodies | `RetriedBeforeFailure` fails: a post after a failed post gets no retry |
| `client_rerequest_race` | violation | 2 posts, `Connection: close` answers | `PromiseFulfilledOnce` fails: the re-post's promise is fulfilled twice |
| `server_keepalive` | pass | 2 requests, files of 2 or 3 bytes with 4 kinds of Range header, servlet bodies {0,1}, MTU 2 | `ImplementsContract` (refinement of `ConnectionContract`, liveness included), `TypeOK` |
| `range_parse` | pass | every header of up to 2 tokens of 4 kinds with numbers 0..3, lengths 0..3, and the test vectors | `RangeParsingTotal`, `ParseMatchesTests` |
| `datetime_clock` | pass | 2 threads reading a 3-bit clock, utc {0,1}, thread-local `struct tm`; 4-bit words, a second of 4 ticks, wrapping and folding builds | `CompareOrdersClockReadings`, `UnclearCompareWithinSecond`, `TypeOK` |
| `datetime_antisymmetry` | violation | 5-bit words, wrapping build | `CompareAntisymmetric` fails: two DateTimes 2^(w-1) apart both compare as smaller |
| `datetime_now_static` | violation | 2 threads, glibc's static `struct tm` | `FieldsMatchTimestamp` fails: a thread copies fields another thread's `gmtime` wrote |
| `bundler_ascii` | pass | 2 binaries, paths of 1-2 characters of letters, `_`, listed punctuation, control characters | `LdTablesAgree`, `RcIdsAgree`, `LdSymbolsDefined`, `TypeOK` |
| `bundler_any_path` | violation | 2 binaries, paths that may hold a space, other punctuation or a UTF-8 byte | `LdSymbolsDefined` fails: the generated source names symbols ld never defines |

**Why these bounds are enough.**

- With MTU 1 and 2-byte bodies and responses, every split case happens:
  - a body write needs several completions;
  - a response body arrives in several reads;
  - a header can arrive before its body.
- A 3-bit `size_t` is enough to show the wrap of `remainder`.
- Two posts are enough for every cross-post hazard: context reuse, the
  retry budget, and the re-post race.
- Between them, the passing runs fire every action and every disjunct
  of every `Next`.
- Server: two requests are enough for a kept-alive second exchange to
  meet the ranges and cursor of the first. The four Range headers give an open-ended range, a multipart
  pair, a suffix and one that does not parse (full body); against a 2-byte
  file the suffix of 3 is rejected too, so one header parses on one size
  and falls back to the full body on the other. MTU 2 against 3-byte files
  splits every piece.
- Range parser: numbers and lengths 0..3 reach every boundary of the
  acceptance rules (`last = len - 1`, `first = len`, a suffix equal to the
  length, `first > last`).
- DateTime: the widths are scaled. Overflow of the int64 subtraction
  needs only values `2^(w-1)` apart, which 4- and 5-bit words reach in a
  few steps. Two threads with two or three timestamps are enough to
  interleave a `gmtime` call between another thread's field copies.
- Bundler: two binaries are enough to tell the map order from its reverse.
  One- and two-character paths cover every character class alone and next
  to another.

## Other modules

- `HttpServer.tla` is the plain-text server connection. Its steps follow
  `spec.md` 4.3 and 5, because only the declarations are under `src/`:
  `ReadHeader`, `ReadBody`, `Dispatch` (`handleRequest`), `WriteHeader`,
  `WriteBody`, `WriteSingleRange`, `WriteRanges`, `KeepaliveCheck` with
  `Reset`, `Timeout`, `ReadEOF` and `WriteFailed`. `Send` and `PeerClose`
  are the client.
  - Its record defaults and `range_iterator = ranges.begin()` come from
    `HttpServiceImpl_V3.h` 21-50.
  - The cursor records the generation of the `ranges` vector it was taken
    from. An iterator into a vector that was reassigned or cleared is
    stale. No property is checked of it: `Dispatch` re-takes the cursor
    as spec.md 3 describes, since `handleRequest` is not under `src/`.
  - `ContentLength`, the multipart `Content-Length`, is not specified by
    spec.md and its code is not under `src/`. It is written to match the
    bytes `WriteRanges` counts, so no property compares the two.
  - `MCHttpServer.tla` gives the Range headers.
- `ConnectionContract.tla` is the abstract promise of one connection:
  `Take` a request in order, `Deliver` the next bytes of its content,
  `Respond` when all of it is delivered (idle again on keep-alive, closed
  otherwise), `Close` at any time, and weak fairness on `Close`.
  `HttpServer` maps `phase` to idle / busy / closed, `request` to `req` and
  the written pieces to `delivered`. `ImplementsContract` checks
  `Contract!Spec` as a property.
- `RangeSpec.tla` is `Range::parse` as an operator on tokenised headers,
  modelled from `spec.md` 4.4 (the parser is not under `src/`).
  `TestVectors` are the cases of `TestHttpRange`. `MCRangeSpec.tla`
  enumerates bounded headers and takes one `ParseRange` step.
- `DateTime.tla` is the arithmetic on `uint64_t` timestamps at a scaled
  width `Bits`; a `TimeSpan` is its `uint64_t` timestamp (`TimeSpan`).
  `build` is what the compiled code does on signed
  overflow, which is undefined in C++: `"wrap"` is two's complement, and
  `"fold"` means the compiler has turned `x - y < 0` into `x < y`.
- `DateTimeNow.tla` is the constructor reached from `DateTime::now` (and
  `DateTime::nowPtr`, the same call with the result on the heap: `NowPtr`),
  with threads running it at once. `Construct` computes `totalSeconds` and calls
  `gmtime`, `CopyField` is one of the field copies of lines 125-132, and
  `Finish` is lines 135-141. `libc` says whether `gmtime`'s `struct tm`
  is one static buffer (glibc) or one per thread (MSVC). The calendar is
  three fields of a scaled clock.
- `MCDateTime.tla` composes the two: two threads construct DateTimes,
  which then become `a` and `b` of the arithmetic.
- `Bundler.tla` is the generator. A path is a sequence of character
  classes, and a generated file is the names and numbers it declares.
  - One backend, LD or RC, is used per run, since both write
    `<class_name>.h`.
  - Each generator runs once, in any order, and may fail to open its file
    (`OpenFails`) or, for ld, exit non-zero.
  - `highCntrl` is the library's answer to `iscntrl` of a negative char,
    which is undefined behaviour.
  - `LdMangle` is the name GNU ld gives to a `-b binary` input.

## Findings

1. **Promise fulfilled twice (code bug, line 149).** `set_value` runs
   before the close check. A caller that re-posts at once gets its new
   promise fulfilled by the deleter of the old context, and again by its
   own exchange.
2. **Retry sends the wrong body (code bug, lines 46 and 69).** The retry's
   `preprocess` keeps `requestBodyHandled` and recomputes
   `requestBodySize` from the consumed buffer. It declares the wrong
   `Content-Length`, and `remainder` wraps. With a
   `writeRequestBodyCallback` the retry fails the other way: `preprocess`
   keeps `requestBodySize`, so the length is right, but
   `requestBodyHandled` already equals it, and the retry goes to
   `Responding` without sending the body. The run uses buffered bodies;
   `BodyCallbacks = {TRUE}` in its configuration shows the second trace.
3. **No retry for later posts (spec/code divergence, line 67).**
   `triedTimes` is reset only on success. After a failed post, the next
   post on that handle is not retried.
4. **compareTo is not antisymmetric (code bug, DateTime.cpp:160).** It
   subtracts the timestamps as `int64_t`. For DateTimes `2^63` or more
   apart the subtraction overflows, and a wrapping build answers -1 both
   ways. An example is `DateTime(INT64_MAX)` against
   `DateTime(0) - TimeSpan(1)`. The commented-out earlier code compared
   with `>` and `<`.
5. **Torn calendar fields (code bug, DateTime.cpp:124).** The constructor
   uses `gmtime`, whose result glibc keeps in one static buffer, and not
   `gmtime_r`. Concurrent `DateTime::now` calls, for instance from two
   threads calling `HttpClient::post`, can copy the year of one timestamp
   and the hours of another.
6. **Bundled symbols that ld never defines (code bug,
   Bundler_LD.cpp:11).** `sanitizeFilename` replaces only
   `-+*/@%&!?=^~:;,.` and control characters. ld replaces every
   non-alphanumeric character. A path with a space, a bracket or a UTF-8
   byte gives an `extern` the object does not define, and the link fails.

## Fairness of the other modules

- `HttpServer` has weak fairness on every handler and on `Timeout`.
  asio runs every ready completion handler and fires every armed timer.
  The client (`Send`, `PeerClose`) has none, because it may stay silent,
  and the idle timer must cope with that.
- The other modules check only safety, so they assume no fairness.

## Not modelled, and why

- **Client response callback, cookies and Date.** Where the
  `readResponseBodyCallback` puts the bytes, the cookie merge and the
  `Date` header carry data, not control. The body-writer callback is
  modelled (`bodyCallback`), assumed to write up to `MTU` bytes of its
  source per completion as `streamMove` does.
- **A cookie store shared by handles.** Line 40 runs on the caller
  thread and line 139 on the event thread, and nothing in this code locks
  the store. `CookieMap`'s `add` and `expired` are not under `src/`, and
  spec.md section 1 puts cookie containers outside the engine, so
  whether the store locks itself cannot be read from the code. It is
  listed as a hazard without a property.
- **Responses without `Content-Length`.** The client reads exactly
  `Content-Length` bytes (spec.md 4.2) and chunked transfer is a non-goal,
  so the server of the model always declares its length.
- **TLS server variant.** `HttpSSLConnectionImpl` declares no
  `writeSingleRange` / `writeRanges`, and spec.md says both variants share
  the sequence. Its handshake, its timer during the handshake and its
  range handling are not in the sources, and the two texts disagree on
  when the connection record exists, so a model would be a guess.
- **The accept loop** (`HttpServiceImpl::handleAccept`, `startup`,
  `shutdown`): only declarations, and connections are independent
  (spec.md 5), so one connection is the unit checked.
- **Completion-event context as its own contract.** The rules it would
  state (one posted operation, handlers only on an open context, one
  delete callback) hold in `HttpClient` by the shape of its context
  table, so a refinement would check nothing the model does not already
  force.
- **Out of reach.**
  - The TLS context (`SSLContext.cpp`) wraps OpenSSL's `SSL_CTX`, and
    nothing under `src/` calls it; the server uses `asio::ssl::context`.
  - The ld command line is built without quoting (`Bundler_LD.cpp:107`),
    but splitting it is the shell's and `Process`'s job, which is not in
    the sources.
  - `TimeSpan`'s day .. microsecond accessors return fields its
    constructor derives from the timestamp, and that constructor is not
    under `src/`; `SStringBuilder` is only declarations.
  - The logger (`Logger.cpp`) is a vector append, a loop handing each
    event to the appenders, and startup wiring. The appenders, the
    formatter and `Singleton` are not under `src/`, and spec.md section 1
    puts logging outside the engine. `addAppender` appends with no lock
    while `log` may iterate the same vector on another thread; the one
    appender is added by `LoggerInitiateTask::init` at startup.
  - The database driver and DNS are wrappers or tests of external
    services.
