----------------------------- MODULE HttpServer -----------------------------
(***************************************************************************)
(* Server Connection State Machine: one accepted connection of            *)
(* HttpServiceImpl (v3) driven through ReadHeader -> ReadBody -> Dispatch *)
(* -> WriteHeader -> WriteBody | WriteSingleRange | WriteRanges ->        *)
(* KeepaliveCheck -> Reset or Close, with the idle timer and the peer as  *)
(* its environment.  The connection record and its methods are declared  *)
(* in src/sese/internal/service/http/HttpServiceImpl_V3.h and             *)
(* Handleable.h; their bodies are not in the sources, so the steps follow *)
(* spec.md sections 4.3 and 5.  Range headers are parsed with RangeSpec;  *)
(* the connection is shown to implement ConnectionContract.              *)
(*                                                                         *)
(* The range cursor (range_iterator) is a position in one particular      *)
(* ranges vector: it records the generation of the vector it was taken    *)
(* from, and every assignment or clear of ranges starts a new generation. *)
(***************************************************************************)
EXTENDS Naturals, Sequences, RangeSpec

CONSTANTS
  MaxRequests,   \* requests the client sends on the connection
  FileSizes,     \* sizes of the files a request may name
  BodySizes,     \* sizes of the bodies a servlet may produce
  RangeHeaders,  \* RangeSpec headers a file request may carry
  MTU,           \* bytes of send_buffer, written per writeBlock
  PartHead,      \* bytes of one multipart part header (boundary, Content-Range)
  PartTail,      \* bytes of the closing multipart boundary
  NoRange,       \* a request without a Range header
  NoRequest      \* no request in the record

ASSUME MTU > 0 /\ PartHead > 0 /\ PartTail > 0

MinOf(x, y) == IF x < y THEN x ELSE y

VARIABLES
  phase,      \* where the connection's handler chain is
  request,    \* the request being served, or NoRequest
  keepalive,  \* HttpConnection::keepalive
  connType,   \* HttpConnection::conn_type
  file,       \* the file handle is open
  ranges,     \* HttpConnection::ranges
  rangesGen,  \* generation of the ranges vector
  cursor,     \* range_iterator: [gen, idx] into ranges
  declared,   \* Content-Length written by writeHeader
  written,    \* body bytes written in this exchange
  parts,      \* content pieces [begin, len] written in this exchange
  sent,       \* bytes of the current piece written
  headDone,   \* the current multipart part header is written
  inbox,      \* requests the client has sent and the server not read
  nsent,      \* requests the client has sent
  peer        \* the client side of the socket is open

vars == <<phase, request, keepalive, connType, file, ranges, rangesGen, cursor,
          declared, written, parts, sent, headDone, inbox, nsent, peer>>

\* the contract's view of the connection: waiting for a header is idle,
\* every later phase up to checkKeepalive is busy
ContractState ==
  CASE phase = "Closed"     -> "closed"
    [] phase = "ReadHeader" -> "idle"
    [] OTHER                -> "busy"

Contract == INSTANCE ConnectionContract
              WITH state <- ContractState, req <- request, delivered <- parts

Requests == Contract!Requests

Waiting == {"ReadHeader", "ReadBody", "WriteHeader", "WriteBody",
            "WriteSingleRange", "WriteRanges"}
Writing == {"WriteHeader", "WriteBody", "WriteSingleRange", "WriteRanges"}

\* range_iterator = ranges.begin() for the vector of generation gen
RewoundBeforeBegin(gen) == [gen |-> gen, idx |-> 0]
Rewound(gen) == [gen |-> gen, idx |-> 1]

\* the per-exchange fields at their declared defaults (conn_type NORMAL,
\* keepalive false, no file, empty ranges, iterator at ranges.begin())
ExchangeDefaults(gen) ==
  /\ request' = NoRequest
  /\ keepalive' = FALSE
  /\ connType' = "NORMAL"
  /\ file' = FALSE
  /\ ranges' = <<>>
  /\ rangesGen' = gen
  /\ cursor' = Rewound(gen)
  /\ declared' = 0
  /\ written' = 0
  /\ parts' = <<>>
  /\ sent' = 0
  /\ headDone' = FALSE

\* Content-Length writeHeader declares: the body, the one range, or the
\* multipart body with its part headers and closing boundary
RECURSIVE SumLens(_)
SumLens(rs) == IF rs = <<>> THEN 0 ELSE Head(rs).len + SumLens(Tail(rs))
ContentLength(rs, total) ==
  CASE Len(rs) = 0 -> total
    [] Len(rs) = 1 -> rs[1].len
    [] Len(rs) > 1 -> Len(rs) * PartHead + SumLens(rs) + PartTail

\* append n bytes of the piece starting at begin, or extend the last piece
Emit(begin, n) ==
  /\ parts' = IF sent = 0 THEN Append(parts, [begin |-> begin, len |-> n])
              ELSE [parts EXCEPT ![Len(parts)].len = @ + n]
  /\ written' = written + n
  /\ sent' = sent + n

-----------------------------------------------------------------------------
(* The client and the transport                                           *)

Send ==
  /\ peer
  /\ nsent < MaxRequests
  /\ \E r \in Requests : inbox' = Append(inbox, r)
  /\ nsent' = nsent + 1
  /\ UNCHANGED <<phase, request, keepalive, connType, file, ranges, rangesGen,
                 cursor, declared, written, parts, sent, headDone, peer>>

PeerClose ==
  /\ peer
  /\ peer' = FALSE
  /\ UNCHANGED <<phase, request, keepalive, connType, file, ranges, rangesGen,
                 cursor, declared, written, parts, sent, headDone, inbox, nsent>>

-----------------------------------------------------------------------------
(* The connection's handlers                                               *)

Close ==
  /\ phase' = "Closed"
  /\ file' = FALSE

\* readHeader: a complete request header arrives; the keep-alive wish of
\* the request is recorded
ReadHeader ==
  /\ phase = "ReadHeader"
  /\ inbox # <<>>
  /\ request' = Head(inbox)
  /\ inbox' = Tail(inbox)
  /\ keepalive' = Head(inbox).keepalive
  /\ phase' = "ReadBody"
  /\ UNCHANGED <<connType, file, ranges, rangesGen, cursor, declared, written,
                 parts, sent, headDone, nsent, peer>>

\* readBody: the request body (Content-Length bytes) is read
ReadBody ==
  /\ phase = "ReadBody"
  /\ phase' = "Dispatch"
  /\ UNCHANGED <<request, keepalive, connType, file, ranges, rangesGen, cursor,
                 declared, written, parts, sent, headDone, inbox, nsent, peer>>

\* a read on a connection the peer closed fails and closes
ReadEOF ==
  /\ phase \in {"ReadHeader", "ReadBody"}
  /\ ~peer
  /\ inbox = <<>>
  /\ Close
  /\ UNCHANGED <<request, keepalive, connType, ranges, rangesGen, cursor,
                 declared, written, parts, sent, headDone, inbox, nsent, peer>>

\* handleRequest: a file target opens the file and parses its Range header
\* against the file size (an empty list serves the whole file), and the
\* cursor is taken from the new vector; a servlet fills the response body
Dispatch ==
  /\ phase = "Dispatch"
  /\ phase' = "WriteHeader"
  /\ \/ /\ request.target = "file"
        /\ connType' = "FILE_DOWNLOAD"
        /\ file' = TRUE
        /\ ranges' = IF request.range = NoRange THEN <<>>
                     ELSE Parse(request.range, request.size)
        /\ rangesGen' = rangesGen + 1
        /\ cursor' = Rewound(rangesGen + 1)
     \/ /\ request.target = "servlet"
        /\ UNCHANGED <<connType, file, ranges, rangesGen, cursor>>
  /\ UNCHANGED <<request, keepalive, declared, written, parts, sent, headDone,
                 inbox, nsent, peer>>

\* writeHeader: status and headers go out in one writeBlock; no range
\* serves the body, one range a single Content-Range, more a multipart body
WriteHeader ==
  /\ phase = "WriteHeader"
  /\ peer
  /\ declared' = ContentLength(ranges, request.size)
  /\ phase' = CASE Len(ranges) = 0 -> "WriteBody"
                [] Len(ranges) = 1 -> "WriteSingleRange"
                [] Len(ranges) > 1 -> "WriteRanges"
  /\ UNCHANGED <<request, keepalive, connType, file, ranges, rangesGen, cursor,
                 written, parts, sent, headDone, inbox, nsent, peer>>

\* writeBody: the whole content in chunks of at most MTU bytes
WriteBody ==
  /\ phase = "WriteBody"
  /\ peer
  /\ IF sent = request.size
     THEN phase' = "KeepaliveCheck" /\ UNCHANGED <<parts, written, sent>>
     ELSE Emit(0, MinOf(MTU, request.size - sent)) /\ UNCHANGED phase
  /\ UNCHANGED <<request, keepalive, connType, file, ranges, rangesGen, cursor,
                 declared, headDone, inbox, nsent, peer>>

\* writeSingleRange: the range under the cursor, in chunks
WriteSingleRange ==
  /\ phase = "WriteSingleRange"
  /\ peer
  /\ LET r == ranges[cursor.idx] IN
       IF sent = r.len
       THEN phase' = "KeepaliveCheck" /\ UNCHANGED <<parts, written, sent>>
       ELSE Emit(r.begin + sent, MinOf(MTU, r.len - sent)) /\ UNCHANGED phase
  /\ UNCHANGED <<request, keepalive, connType, file, ranges, rangesGen, cursor,
                 declared, headDone, inbox, nsent, peer>>

\* writeRanges: for the part under the cursor its header, then its bytes
\* in chunks, then the cursor advances; past the last part the closing
\* boundary is written
WriteRanges ==
  /\ phase = "WriteRanges"
  /\ peer
  /\ \/ /\ cursor.idx > Len(ranges)
        /\ written' = written + PartTail
        /\ phase' = "KeepaliveCheck"
        /\ UNCHANGED <<cursor, parts, sent, headDone>>
     \/ /\ cursor.idx <= Len(ranges)
        /\ ~headDone
        /\ headDone' = TRUE
        /\ written' = written + PartHead
        /\ UNCHANGED <<phase, cursor, parts, sent>>
     \/ /\ cursor.idx <= Len(ranges)
        /\ headDone
        /\ LET r == ranges[cursor.idx] IN
             IF sent = r.len
             THEN /\ cursor' = [cursor EXCEPT !.idx = @ + 1]
                  /\ sent' = 0
                  /\ headDone' = FALSE
                  /\ UNCHANGED <<phase, parts, written>>
             ELSE /\ Emit(r.begin + sent, MinOf(MTU, r.len - sent))
                  /\ UNCHANGED <<phase, cursor, headDone>>
  /\ UNCHANGED <<request, keepalive, connType, file, ranges, rangesGen, declared,
                 inbox, nsent, peer>>

\* a write to a closed peer fails: writeBlock (declared with the promise
\* to write the whole buffer or drop the connection) closes at once, and
\* the cursor is not advanced
WriteFailed ==
  /\ phase \in Writing
  /\ ~peer
  /\ Close
  /\ UNCHANGED <<request, keepalive, connType, ranges, rangesGen, cursor,
                 declared, written, parts, sent, headDone, inbox, nsent, peer>>

\* checkKeepalive: a keep-alive exchange resets the record (response,
\* ranges, cursor, file) and reads the next header; otherwise close
ResetKeepingRanges ==
  /\ phase' = "ReadHeader"
  /\ request' = NoRequest
  /\ keepalive' = FALSE
  /\ connType' = "NORMAL"
  /\ file' = FALSE
  /\ cursor' = Rewound(rangesGen)
  /\ declared' = 0
  /\ written' = 0
  /\ parts' = <<>>
  /\ sent' = 0
  /\ headDone' = FALSE
  /\ UNCHANGED <<ranges, rangesGen>>
Reset ==
  /\ phase' = "ReadHeader"
  /\ ExchangeDefaults(rangesGen + 1)
KeepaliveCheck ==
  /\ phase = "KeepaliveCheck"
  /\ IF keepalive
     THEN Reset
     ELSE /\ Close
          /\ UNCHANGED <<request, keepalive, connType, ranges, rangesGen, cursor,
                         declared, written, parts, sent, headDone>>
  /\ UNCHANGED <<inbox, nsent, peer>>

\* the idle / operation timer fires while the connection waits: close,
\* whatever it waits for
Timeout ==
  /\ phase \in Waiting
  /\ Close
  /\ UNCHANGED <<request, keepalive, connType, ranges, rangesGen, cursor,
                 declared, written, parts, sent, headDone, inbox, nsent, peer>>

-----------------------------------------------------------------------------

\* accepted: the record at its defaults, waiting for a header
Init ==
  /\ phase = "ReadHeader"
  /\ request = NoRequest
  /\ keepalive = FALSE
  /\ connType = "NORMAL"
  /\ file = FALSE
  /\ ranges = <<>>
  /\ rangesGen = 0
  /\ cursor = [gen |-> 0, idx |-> 1]
  /\ declared = 0
  /\ written = 0
  /\ parts = <<>>
  /\ sent = 0
  /\ headDone = FALSE
  /\ inbox = <<>>
  /\ nsent = 0
  /\ peer = TRUE

\* the connection is closed and the client has nothing more to do
Done ==
  /\ phase = "Closed"
  /\ UNCHANGED vars

Next ==
  \/ Send \/ PeerClose
  \/ ReadHeader \/ ReadBody \/ ReadEOF \/ Dispatch \/ WriteHeader
  \/ WriteBody \/ WriteSingleRange \/ WriteRanges \/ WriteFailed
  \/ KeepaliveCheck \/ Timeout
  \/ Done

\* asio runs every completion handler and fires every armed timer; the
\* client is free to send or not, and to close or not
Fairness ==
  /\ WF_vars(ReadHeader) /\ WF_vars(ReadBody) /\ WF_vars(ReadEOF)
  /\ WF_vars(Dispatch) /\ WF_vars(WriteHeader) /\ WF_vars(WriteBody)
  /\ WF_vars(WriteSingleRange) /\ WF_vars(WriteRanges) /\ WF_vars(WriteFailed)
  /\ WF_vars(KeepaliveCheck) /\ WF_vars(Timeout)

Spec == Init /\ [][Next]_vars /\ Fairness

-----------------------------------------------------------------------------
(* Properties                                                              *)

TypeOK ==
  /\ phase \in Waiting \cup {"Dispatch", "KeepaliveCheck", "Closed"}
  /\ request \in Requests \cup {NoRequest}
  /\ keepalive \in BOOLEAN /\ file \in BOOLEAN /\ headDone \in BOOLEAN
  /\ connType \in {"NORMAL", "FILE_DOWNLOAD"}
  /\ ranges \in Seq([begin : Nat, len : Nat])
  /\ cursor \in [gen : Nat, idx : Nat \ {0}]
  /\ {rangesGen, declared, written, sent, nsent} \subseteq Nat
  /\ parts \in Seq([begin : Nat, len : Nat])
  /\ inbox \in Seq(Requests)
  /\ peer \in BOOLEAN

\* The connection implements ConnectionContract: it takes requests in the
\* order they were sent, writes for each one, in order, bytes of exactly
\* the content it asked for (its own ranges, not those of an earlier
\* exchange on the kept-alive connection), resets for the next request
\* only after the whole content and only when keep-alive was asked for,
\* and eventually closes, also when the client stops sending.
ImplementsContract == Contract!Spec
=============================================================================
