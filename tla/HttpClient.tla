------------------------------ MODULE HttpClient ------------------------------
(***************************************************************************)
(* The client request engine sese::service::v1::HttpClient                 *)
(* (src/sese/service/http/HttpClient_V1.cpp) driving one HttpClientHandle  *)
(* through Ready -> Connecting -> Requesting -> Responding -> terminal on  *)
(* top of completion-event contexts.                                       *)
(*                                                                         *)
(* Three actors share the handle:                                          *)
(*  - the caller's thread, which calls post() (split where the event       *)
(*    thread can run between its statements: after preprocess and the new *)
(*    promise, before it looks at handle->context);                        *)
(*  - the event-loop thread, which runs one handler at a time; the only    *)
(*    handler split in two is onReadCompleted, whose set_value wakes the   *)
(*    caller before the handler reads the "connection" header;             *)
(*  - the transport and the remote server (environment).                   *)
(* Body lengths are counted in bytes; size_t arithmetic is mod 2^SizeBits. *)
(***************************************************************************)
EXTENDS Naturals, Sequences, FiniteSets

CONSTANTS
  MaxPosts,      \* calls of post() the caller makes on the one handle
  MaxConns,      \* contexts postConnect may create in one behaviour
  BodySizes,     \* request body lengths the caller attaches to a post
  RespLengths,   \* Content-Length values the server may answer with
  CloseChoices,  \* values of "Connection: close" the server may answer with
  MTU,           \* MTU_VALUE, the chunk size of streamMove and ctx->read
  SizeBits,      \* width of size_t in the model
  MaxSpurious,   \* readiness notifications that carry no readable byte
  BodyCallbacks, \* whether handle->writeRequestBodyCallback is set: subset of BOOLEAN
  NoCtx          \* handle->context == nullptr

ASSUME MaxPosts \in Nat \ {0} /\ MaxConns \in Nat \ {0}
ASSUME BodySizes \subseteq Nat /\ RespLengths \subseteq Nat
ASSUME CloseChoices \subseteq BOOLEAN /\ CloseChoices # {}
ASSUME BodyCallbacks \subseteq BOOLEAN /\ BodyCallbacks # {}
ASSUME MTU \in Nat \ {0} /\ SizeBits \in Nat \ {0} /\ MaxSpurious \in Nat

Ctx == 1..MaxConns
SizeMod == 2 ^ SizeBits
\* size_t subtraction and addition as the compiled code computes them
SizeSub(a, b) == (a + SizeMod - b) % SizeMod
SizeAdd(a, b) == (a + b) % SizeMod
MinOf(a, b) == IF a < b THEN a ELSE b

Statuses == {"Ready", "Connecting", "Requesting", "Responding", "Succeeded",
             "ConnectFailed", "RequestFailed", "ResponseFailed"}

\* the statuses a future returned by post() can carry: set_value is called
\* only after success or after deleter's mapping to a failure
Outcomes == {"Succeeded", "ConnectFailed", "RequestFailed", "ResponseFailed"}

VARIABLES
  status,       \* handle->requestStatus
  triedTimes,   \* handle->triedTimes
  hctx,         \* handle->context
  reqSize,      \* handle->requestBodySize (and the content-length header set from it)
  reqHandled,   \* handle->requestBodyHandled
  reqBody,      \* readable bytes left in handle->req->getBody()
  respSize,     \* handle->responseBodySize
  respHandled,  \* handle->responseBodyHandled
  resp,         \* headers of handle->resp: parsed?, content-length, connection: close
  promises,     \* every promise post() created; the last one is handle->promise
  upc,          \* caller thread: "idle" or inside post() before the dispatch
  epc,          \* event thread: 0 when free, c while inside onReadCompleted(c)
  conn,         \* per context: transport state, the one pending operation, the timer
  out,          \* per context: bytes written into the context, not yet flushed
  srv,          \* per context: what the server has received of the current request
  inb,          \* per context: what the server has sent and the client not yet read
  peer,         \* per context: the server has closed its end
  nextCtx,      \* the next context postConnect creates
  spurious,     \* spurious readiness notifications used so far
  postBody,     \* history: the body length given to each post
  attempts,     \* history: transport attempts (connect or reuse) of each post
  bodyCallback  \* handle->writeRequestBodyCallback is set

reqVars    == <<reqSize, reqHandled, reqBody>>
respVars   == <<respSize, respHandled, resp>>
callerVars == <<upc, postBody, bodyCallback>>
envVars    == <<srv, inb, peer>>
vars == <<status, triedTimes, hctx, promises, epc, conn, out, nextCtx, spurious,
          attempts, reqVars, respVars, callerVars, envVars>>

NoResp  == [parsed |-> FALSE, len |-> 0, close |-> FALSE]
NoOut   == [hdr |-> 0, decl |-> 0, body |-> 0]
NoReq   == [post |-> 0, decl |-> 0, recv |-> 0, answered |-> FALSE, len |-> 0]
NoIn    == [hdr |-> FALSE, bad |-> FALSE, len |-> 0, close |-> FALSE, body |-> 0, rest |-> 0]
Unused  == [st |-> "unused", op |-> "none", timer |-> FALSE]

cur == Len(promises)

\* bytes the client can read (ctx->peek finds at least one)
Readable(c) == inb[c].hdr \/ inb[c].body > 0

\* handle->promise->set_value(v)
Fulfil(v) ==
  promises' = [promises EXCEPT ![cur] = [sets |-> @.sets + 1, value |-> v]]

\* Supper::postConnect: a fresh context whose onPreConnect is still to come;
\* base is the context table the calling handler has left
PostConnect(base) ==
  /\ nextCtx <= MaxConns
  /\ conn' = [base EXCEPT ![nextCtx] = [st |-> "connecting", op |-> "preconnect", timer |-> FALSE]]
  /\ nextCtx' = nextCtx + 1
  /\ attempts' = [attempts EXCEPT ![cur] = @ + 1]

\* HttpClient::preprocess: reset the response counters; requestBodySize is
\* the readable size of the buffered body, and is left as the caller set
\* it (size) when a writeRequestBodyCallback streams the body.  The Date
\* header and cookie expiry carry no control and are left out.
Preprocess(size, body) ==
  /\ respSize' = 0
  /\ respHandled' = 0
  /\ resp' = NoResp
  /\ reqSize' = IF bodyCallback THEN size ELSE body
  /\ status' = "Ready"

\* HttpClient::onConnected(c), run by the event thread or inline by post():
\* cancel then re-arm the timer, send the header, post the body write;
\* st is the transport state the context is left in
OnConnected(c, st) ==
  /\ hctx' = c
  /\ status' = "Requesting"
  /\ out' = [out EXCEPT ![c] = [hdr |-> cur, decl |-> reqSize, body |-> 0]]
  /\ conn' = [conn EXCEPT ![c] = [st |-> st, op |-> "write", timer |-> TRUE]]

-----------------------------------------------------------------------------
(* The caller's thread                                                     *)

\* handle->promise = std::make_unique<std::promise<...>>()
NewPromiseOnce ==
  promises' = IF cur = 0 THEN <<[sets |-> 0, value |-> "none"]>> ELSE promises
NewPromise == promises' = Append(promises, [sets |-> 0, value |-> "none"])

\* post(): the caller waits for its previous future and attaches a body
\* (or sets requestBodySize for its callback); preprocess runs and a new
\* promise replaces handle->promise
PostBegin ==
  /\ upc = "idle"
  /\ Len(postBody) < MaxPosts
  /\ cur > 0 => promises[cur].sets > 0
  /\ \E b \in BodySizes :
       /\ reqBody' = b
       /\ Preprocess(b, b)
       /\ postBody' = Append(postBody, b)
  /\ NewPromise
  /\ attempts' = Append(attempts, 0)
  /\ upc' = "dispatch"
  /\ UNCHANGED <<triedTimes, hctx, reqHandled, epc, conn, out, nextCtx, spurious,
                 bodyCallback, envVars>>

\* post(): a new connection when handle->context is null, else the
\* reused context is driven inline through onConnected
PostDispatch ==
  /\ upc = "dispatch"
  /\ upc' = "idle"
  /\ \/ /\ hctx = NoCtx
        /\ PostConnect(conn)
        /\ UNCHANGED <<status, hctx, out>>
     \/ /\ hctx # NoCtx
        /\ OnConnected(hctx, conn[hctx].st)
        /\ attempts' = [attempts EXCEPT ![cur] = @ + 1]
        /\ UNCHANGED nextCtx
  /\ UNCHANGED <<triedTimes, promises, epc, spurious, reqVars, respVars, postBody,
                 bodyCallback, envVars>>

-----------------------------------------------------------------------------
(* The event thread: one handler at a time                                 *)

\* onPreConnect: Connecting, arm the connect timeout
PreConnect(c) ==
  /\ epc = 0
  /\ conn[c].op = "preconnect"
  /\ status' = "Connecting"
  /\ conn' = [conn EXCEPT ![c].timer = TRUE, ![c].op = "connect"]
  /\ UNCHANGED <<triedTimes, hctx, promises, epc, out, nextCtx, spurious, attempts,
                 reqVars, respVars, callerVars, envVars>>

\* the connect completes: onConnected
Connected(c) ==
  /\ epc = 0
  /\ conn[c].op = "connect"
  /\ OnConnected(c, "open")
  /\ UNCHANGED <<triedTimes, promises, epc, nextCtx, spurious, attempts,
                 reqVars, respVars, callerVars, envVars>>

\* onTimeout without its postClose: the context is left as it was
TimeoutWithoutClose(c) ==
  /\ epc = 0
  /\ conn[c].timer
  /\ conn[c].st \in {"connecting", "open"}
  /\ hctx' = NoCtx
  /\ conn' = [conn EXCEPT ![c].timer = FALSE]
  /\ UNCHANGED <<status, triedTimes, promises, epc, out, nextCtx, spurious, attempts,
                 reqVars, respVars, callerVars, envVars>>

\* onTimeout: detach the handle and close; the pending operation is dropped
Timeout(c) ==
  /\ epc = 0
  /\ conn[c].timer
  /\ conn[c].st \in {"connecting", "open"}
  /\ hctx' = NoCtx
  /\ conn' = [conn EXCEPT ![c] = [st |-> "closing", op |-> "none", timer |-> FALSE]]
  /\ UNCHANGED <<status, triedTimes, promises, epc, out, nextCtx, spurious, attempts,
                 reqVars, respVars, callerVars, envVars>>

\* a connect error: the context is released
ConnectFail(c) ==
  /\ epc = 0
  /\ conn[c].op = "connect"
  /\ conn' = [conn EXCEPT ![c] = [st |-> "closing", op |-> "none", timer |-> FALSE]]
  /\ UNCHANGED <<status, triedTimes, hctx, promises, epc, out, nextCtx, spurious,
                 attempts, reqVars, respVars, callerVars, envVars>>

\* the flushed bytes reach the server; a header starts a new request there
Flush(c) ==
  srv' = [srv EXCEPT ![c] =
            IF out[c].hdr > 0
            THEN [post |-> out[c].hdr, decl |-> out[c].decl, recv |-> out[c].body,
                  answered |-> FALSE, len |-> 0]
            ELSE [@ EXCEPT !.recv = @ + out[c].body]]

\* onWriteCompleted: write the next chunk of the body while
\* requestBodySize - requestBodyHandled (a size_t) is non-zero, else
\* Responding, re-arm the timeout and post the read
WriteCompleted(c) ==
  /\ epc = 0
  /\ conn[c].st = "open"
  /\ conn[c].op = "write"
  /\ ~peer[c]
  /\ Flush(c)
  /\ LET remainder == SizeSub(reqSize, reqHandled)
         moved     == MinOf(MTU, reqBody)
     IN \/ /\ remainder > 0
           /\ reqBody' = reqBody - moved
           /\ reqHandled' = SizeAdd(reqHandled, MinOf(moved, remainder))
           /\ out' = [out EXCEPT ![c] = [NoOut EXCEPT !.body = moved]]
           /\ conn' = [conn EXCEPT ![c].timer = TRUE]
           /\ UNCHANGED status
        \/ /\ remainder = 0
           /\ status' = "Responding"
           /\ out' = [out EXCEPT ![c] = NoOut]
           /\ conn' = [conn EXCEPT ![c].timer = TRUE, ![c].op = "read"]
           /\ UNCHANGED <<reqBody, reqHandled>>
  /\ UNCHANGED <<triedTimes, hctx, reqSize, respVars, promises, epc, nextCtx,
                 spurious, attempts, callerVars, inb, peer>>

\* a write on a transport the server has closed fails: the context is released
WriteFailed(c) ==
  /\ epc = 0
  /\ conn[c].st = "open"
  /\ conn[c].op = "write"
  /\ peer[c]
  /\ conn' = [conn EXCEPT ![c] = [st |-> "closing", op |-> "none", timer |-> FALSE]]
  /\ UNCHANGED <<status, triedTimes, hctx, promises, epc, out, nextCtx, spurious,
                 attempts, reqVars, respVars, callerVars, envVars>>

\* the pending read becomes ready: onPreRead cancels the timer; a readiness
\* with nothing readable spends one of the MaxSpurious notifications
PreRead(c) ==
  /\ epc = 0
  /\ conn[c].st = "open"
  /\ conn[c].op = "read"
  /\ Readable(c) \/ spurious < MaxSpurious
  /\ spurious' = IF Readable(c) THEN spurious ELSE spurious + 1
  /\ conn' = [conn EXCEPT ![c].timer = FALSE, ![c].op = "ready"]
  /\ UNCHANGED <<status, triedTimes, hctx, promises, epc, out, nextCtx, attempts,
                 reqVars, respVars, callerVars, envVars>>

\* the pending read meets end of stream: the context is released
ReadEOF(c) ==
  /\ epc = 0
  /\ conn[c].st = "open"
  /\ conn[c].op = "read"
  /\ peer[c]
  /\ ~Readable(c)
  /\ conn' = [conn EXCEPT ![c] = [st |-> "closing", op |-> "none", timer |-> FALSE]]
  /\ UNCHANGED <<status, triedTimes, hctx, promises, epc, out, nextCtx, spurious,
                 attempts, reqVars, respVars, callerVars, envVars>>

\* the body loop of onReadCompleted ends when
\* responseBodySize - responseBodyHandled is zero
BodyCompleteOneShort(got, size) == got + 1 >= size
BodyComplete(got, size) == got = size

\* onReadCompleted, the part up to set_value: nothing to peek re-arms and
\* re-reads; unparsed headers (responseBodySize == 0) are parsed, a parse
\* failure closes; then the body is read up to Content-Length, a short read
\* re-arms and re-reads; a complete body is Succeeded and fulfils the promise
ReadCompleted(c) ==
  /\ epc = 0
  /\ conn[c].st = "open"
  /\ conn[c].op = "ready"
  /\ \/ /\ ~Readable(c)
        /\ conn' = [conn EXCEPT ![c].timer = TRUE, ![c].op = "read"]
        /\ UNCHANGED <<status, triedTimes, respVars, promises, epc, inb>>
     \/ /\ Readable(c)
        /\ respSize = 0
        /\ ~inb[c].hdr \/ inb[c].bad
        /\ inb' = [inb EXCEPT ![c].hdr = FALSE]
        /\ conn' = [conn EXCEPT ![c] = [st |-> "closing", op |-> "none", timer |-> FALSE]]
        /\ UNCHANGED <<status, triedTimes, respVars, promises, epc>>
     \/ /\ Readable(c)
        /\ respSize # 0 \/ (inb[c].hdr /\ ~inb[c].bad)
        /\ LET r    == IF respSize = 0
                       THEN [parsed |-> TRUE, len |-> inb[c].len, close |-> inb[c].close]
                       ELSE resp
               n    == MinOf(r.len - respHandled, inb[c].body)
               got  == respHandled + n
           IN /\ resp' = r
              /\ respSize' = r.len
              /\ respHandled' = got
              /\ inb' = [inb EXCEPT ![c].hdr = FALSE, ![c].body = @ - n]
              /\ \/ /\ ~BodyComplete(got, r.len)
                    /\ conn' = [conn EXCEPT ![c].timer = TRUE, ![c].op = "read"]
                    /\ UNCHANGED <<status, triedTimes, promises, epc>>
                 \/ /\ BodyComplete(got, r.len)
                    /\ triedTimes' = 0
                    /\ status' = "Succeeded"
                    /\ Fulfil("Succeeded")
                    /\ conn' = [conn EXCEPT ![c].op = "none"]
                    /\ epc' = c
  /\ UNCHANGED <<hctx, out, nextCtx, spurious, attempts, reqVars, callerVars, srv, peer>>

\* onReadCompleted after set_value: read the "connection" header of
\* handle->resp now, and close when it says close
ReadTail(c) ==
  /\ epc = c
  /\ epc' = 0
  /\ \/ /\ resp.close
        /\ conn' = [conn EXCEPT ![c] = [st |-> "closing", op |-> "none", timer |-> FALSE]]
     \/ /\ ~resp.close
        /\ UNCHANGED conn
  /\ UNCHANGED <<status, triedTimes, hctx, promises, out, nextCtx, spurious,
                 attempts, reqVars, respVars, callerVars, envVars>>

FailureOfNoResponding(s) ==
  CASE s \in {"Ready", "Connecting"} -> "ConnectFailed"
    [] s = "Requesting"              -> "RequestFailed"
    [] OTHER                         -> s

\* the failure status deleter maps the phase the exchange stopped in to
FailureOf(s) ==
  CASE s \in {"Ready", "Connecting"} -> "ConnectFailed"
    [] s = "Requesting"              -> "RequestFailed"
    [] s = "Responding"              -> "ResponseFailed"
    [] OTHER                         -> s

\* deleter's test for an automatic retry: first failure, not a connect failure
RetryAllowedRequestOnly == triedTimes = 0 /\ FailureOf(status) = "RequestFailed"
RetryAllowed == triedTimes = 0 /\ FailureOf(status) # "ConnectFailed"

\* deleter's retry: count it, preprocess again and connect anew
\* (base is the context table with the old context released)
RetryPostNotCounting(base) ==
  /\ UNCHANGED triedTimes
  /\ Preprocess(reqSize, reqBody)
  /\ PostConnect(base)
  /\ UNCHANGED promises
RetryPost(base) ==
  /\ triedTimes' = triedTimes + 1
  /\ Preprocess(reqSize, reqBody)
  /\ PostConnect(base)
  /\ UNCHANGED promises

\* deleter's report: the failure status goes to the callback and the promise
ReportFailure(base) ==
  /\ status' = FailureOf(status)
  /\ Fulfil(FailureOf(status))
  /\ conn' = base
  /\ UNCHANGED <<triedTimes, reqSize, respVars, nextCtx, attempts>>

SucceededDone(base) ==
  /\ conn' = base
  /\ UNCHANGED <<status, triedTimes, reqSize, respVars, promises, nextCtx, attempts>>

\* HttpClient::deleter, run when the context is released: detach the
\* handle; unless Succeeded, map the phase to a failure and either retry
\* once or report the failure
DeleterIgnoringSuccess(base) ==
  /\ hctx' = NoCtx
  /\ \/ RetryAllowed /\ RetryPost(base)
     \/ ~RetryAllowed /\ ReportFailure(base)
Deleter(base) ==
  /\ hctx' = NoCtx
  /\ \/ status = "Succeeded" /\ SucceededDone(base)
     \/ status # "Succeeded" /\ RetryAllowed /\ RetryPost(base)
     \/ status # "Succeeded" /\ ~RetryAllowed /\ ReportFailure(base)

\* the context is released once closed; the service calls the deleter
Release(c) ==
  /\ epc = 0
  /\ conn[c].st = "closing"
  /\ Deleter([conn EXCEPT ![c] = [st |-> "released", op |-> "none", timer |-> FALSE]])
  /\ UNCHANGED <<reqHandled, reqBody, epc, out, spurious, callerVars, envVars>>

-----------------------------------------------------------------------------
(* The server and the network                                              *)

\* the server answers a request whose declared body it has received:
\* a header (possibly malformed), Content-Length len, and the first k bytes
Respond(c) ==
  /\ conn[c].st = "open"
  /\ ~peer[c]
  /\ srv[c].post > 0
  /\ ~srv[c].answered
  /\ srv[c].recv = srv[c].decl
  /\ \E len \in RespLengths, cl \in CloseChoices, bad \in BOOLEAN :
       \E k \in 0..len :
         /\ inb' = [inb EXCEPT ![c] = [hdr |-> TRUE, bad |-> bad, len |-> len,
                                       close |-> cl, body |-> k, rest |-> len - k]]
         /\ srv' = [srv EXCEPT ![c].answered = TRUE, ![c].len = len]
  /\ UNCHANGED <<status, triedTimes, hctx, promises, epc, conn, out, nextCtx,
                 spurious, attempts, reqVars, respVars, callerVars, peer>>

\* one more byte of the response body arrives
SendMore(c) ==
  /\ conn[c].st = "open"
  /\ ~peer[c]
  /\ inb[c].rest > 0
  /\ inb' = [inb EXCEPT ![c].body = @ + 1, ![c].rest = @ - 1]
  /\ UNCHANGED <<status, triedTimes, hctx, promises, epc, conn, out, nextCtx,
                 spurious, attempts, reqVars, respVars, callerVars, srv, peer>>

\* the server closes its end of the connection
PeerClose(c) ==
  /\ conn[c].st = "open"
  /\ ~peer[c]
  /\ peer' = [peer EXCEPT ![c] = TRUE]
  /\ UNCHANGED <<status, triedTimes, hctx, promises, epc, conn, out, nextCtx,
                 spurious, attempts, reqVars, respVars, callerVars, srv, inb>>

-----------------------------------------------------------------------------

\* a default-constructed HttpClientHandle and no context yet
Init ==
  /\ status = "Ready"
  /\ triedTimes = 0
  /\ hctx = NoCtx
  /\ reqSize = 0 /\ reqHandled = 0 /\ reqBody = 0
  /\ respSize = 0 /\ respHandled = 0 /\ resp = NoResp
  /\ promises = <<>>
  /\ upc = "idle"
  /\ epc = 0
  /\ conn = [c \in Ctx |-> Unused]
  /\ out = [c \in Ctx |-> NoOut]
  /\ srv = [c \in Ctx |-> NoReq]
  /\ inb = [c \in Ctx |-> NoIn]
  /\ peer = [c \in Ctx |-> FALSE]
  /\ nextCtx = 1
  /\ spurious = 0
  /\ postBody = <<>>
  /\ attempts = <<>>
  /\ bodyCallback \in BodyCallbacks

\* the caller has made its posts and has its last answer
Terminating ==
  /\ Len(postBody) = MaxPosts
  /\ promises[cur].sets > 0
  /\ upc = "idle"
  /\ UNCHANGED vars

EventStep(c) ==
  \/ PreConnect(c) \/ Connected(c) \/ ConnectFail(c) \/ Timeout(c)
  \/ WriteCompleted(c) \/ WriteFailed(c) \/ PreRead(c) \/ ReadEOF(c)
  \/ ReadCompleted(c) \/ ReadTail(c) \/ Release(c)

NetworkStep(c) == Respond(c) \/ SendMore(c) \/ PeerClose(c)

Next ==
  \/ PostBegin
  \/ PostDispatch
  \/ \E c \in Ctx : EventStep(c) \/ NetworkStep(c)
  \/ Terminating

\* The event loop runs every ready handler, fires armed timers and
\* completes posted I/O; a post() in progress finishes. The caller and the
\* server are not obliged to act: a silent server is met by the timers.
Fairness ==
  /\ WF_vars(PostDispatch)
  /\ \A c \in Ctx :
       /\ WF_vars(PreConnect(c)) /\ WF_vars(Timeout(c))
       /\ WF_vars(WriteCompleted(c)) /\ WF_vars(WriteFailed(c))
       /\ WF_vars(PreRead(c)) /\ WF_vars(ReadEOF(c)) /\ WF_vars(ReadCompleted(c))
       /\ WF_vars(ReadTail(c)) /\ WF_vars(Release(c))

Spec == Init /\ [][Next]_vars /\ Fairness

-----------------------------------------------------------------------------
(* Properties                                                              *)

TypeOK ==
  /\ status \in Statuses
  /\ triedTimes \in Nat
  /\ hctx \in Ctx \cup {NoCtx}
  /\ {reqSize, reqHandled, reqBody, respSize, respHandled} \subseteq Nat
  /\ resp \in [parsed : BOOLEAN, len : Nat, close : BOOLEAN]
  /\ promises \in Seq([sets : Nat, value : Outcomes \cup {"none"}])
  /\ upc \in {"idle", "dispatch"}
  /\ epc \in Ctx \cup {0}
  /\ conn \in [Ctx -> [st : {"unused", "connecting", "open", "closing", "released"},
                       op : {"none", "preconnect", "connect", "write", "read", "ready"},
                       timer : BOOLEAN]]
  /\ out \in [Ctx -> [hdr : Nat, decl : Nat, body : Nat]]
  /\ peer \in [Ctx -> BOOLEAN]
  /\ nextCtx \in 1..MaxConns + 1
  /\ Len(postBody) = cur /\ Len(attempts) = cur
  /\ bodyCallback \in BOOLEAN

\* The future post() returns is fulfilled at most once: a second set_value
\* on handle->promise (success in onReadCompleted, failure in deleter)
\* throws std::future_error on the event thread.
PromiseFulfilledOnce ==
  \A i \in 1..cur : promises[i].sets <= 1

\* The deleter retries at most once per post: no post makes more than two
\* transport attempts (its connect or reused context, and one retry).
AtMostOneRetry ==
  \A i \in 1..cur : attempts[i] <= 2

\* A request or response failure reaches the caller only after the one
\* automatic retry of deleter has been made for that post.
RetriedBeforeFailure ==
  \A i \in 1..cur :
    promises[i].value \in {"RequestFailed", "ResponseFailed"} => attempts[i] = 2

\* Every request the server receives for a post declares, in its
\* Content-Length, the body the caller gave that post, and when
\* onWriteCompleted moves the handle to Responding the server has received
\* all of that body: a retry or a reuse of the handle resends the request
\* the caller posted.
RequestDeliveredIntact ==
  \A c \in Ctx :
    /\ srv[c].post > 0 => srv[c].decl = postBody[srv[c].post]
    /\ (hctx = c /\ status = "Responding") =>
         /\ srv[c].post = cur
         /\ srv[c].recv = srv[c].decl

\* onReadCompleted reports Succeeded only for the server's answer to the
\* current post on that context, with responseBodyHandled equal to
\* responseBodySize equal to the Content-Length the server sent.
SucceededOnAnswerToThisPost ==
  [][ (epc = 0 /\ epc' # 0) =>
        LET c == epc' IN
          /\ srv[c].post = cur
          /\ srv[c].answered
          /\ respSize' = srv[c].len
          /\ respHandled' = respSize' ]_vars

\* the caller's view of its futures: pending until set_value, then its value
Futures == [i \in 1..cur |-> IF promises[i].sets = 0 THEN "none" ELSE promises[i].value]

Contract == INSTANCE ClientContract WITH answers <- Futures, Pending <- "none"

\* HttpClient implements the promise of post(): each post's future goes
\* from pending to one terminal status and keeps it (a second set_value
\* with another status, or one before the post, is a step the contract
\* does not allow), and every pending future is eventually fulfilled,
\* whatever the server does, under the event loop's fairness.
ImplementsClientContract == Contract!Spec

=============================================================================
