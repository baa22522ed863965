------------------------- MODULE ConnectionContract -------------------------
(***************************************************************************)
(* What one server connection promises its client (spec.md 4.3 and the   *)
(* "Server keepalive" and range examples of section 8), without the       *)
(* handler chain: requests are taken one at a time in the order they were *)
(* sent; while one is served the connection delivers, in order, bytes of  *)
(* exactly the content it asked for; when all of it is delivered the      *)
(* connection becomes idle again if the request asked for keep-alive and *)
(* closes otherwise; it may close at any moment (timeout, failed read or *)
(* write), and it does eventually close.                                  *)
(*                                                                         *)
(* Content is a sequence of pieces [begin, len] of the resource: the      *)
(* ranges of a multipart response, or the one range or the whole body.    *)
(***************************************************************************)
EXTENDS Naturals, Sequences, SequencesExt, RangeSpec

CONSTANTS MaxRequests, FileSizes, BodySizes, RangeHeaders, NoRange, NoRequest

Requests ==
  [target : {"file"}, size : FileSizes, range : RangeHeaders \cup {NoRange},
   keepalive : BOOLEAN]
  \cup
  [target : {"servlet"}, size : BodySizes, range : {NoRange}, keepalive : BOOLEAN]

\* the content a request asks for: its ranges in order, or the whole file
\* or servlet body when it has none or they do not parse
ExpectedParts(r) ==
  LET rs == IF r.target = "file" /\ r.range # NoRange THEN Parse(r.range, r.size)
            ELSE <<>>
  IN IF rs # <<>> THEN rs
     ELSE IF r.size = 0 THEN <<>> ELSE << [begin |-> 0, len |-> r.size] >>

\* the resource offsets of pieces, in the order they are sent
Offsets(ps) == FlattenSeq([i \in DOMAIN ps |-> [j \in 1 .. ps[i].len |-> ps[i].begin + j - 1]])

VARIABLES
  state,      \* "idle" (waiting for a request), "busy" or "closed"
  req,        \* the request being served, or NoRequest
  delivered,  \* the pieces of content delivered for it
  inbox,      \* requests sent and not yet taken
  nsent,      \* requests the client has sent
  peer        \* the client side is open

cvars == <<state, req, delivered, inbox, nsent, peer>>

Init ==
  /\ state = "idle" /\ req = NoRequest /\ delivered = <<>>
  /\ inbox = <<>> /\ nsent = 0 /\ peer = TRUE

\* the client sends a request, or closes its side
Send ==
  /\ peer /\ nsent < MaxRequests
  /\ \E r \in Requests : inbox' = Append(inbox, r)
  /\ nsent' = nsent + 1
  /\ UNCHANGED <<state, req, delivered, peer>>
PeerClose ==
  /\ peer /\ peer' = FALSE
  /\ UNCHANGED <<state, req, delivered, inbox, nsent>>

\* the oldest request is taken
Take ==
  /\ state = "idle" /\ inbox # <<>>
  /\ state' = "busy" /\ req' = Head(inbox) /\ inbox' = Tail(inbox)
  /\ UNCHANGED <<delivered, nsent, peer>>

\* more bytes are delivered: the next ones of the requested content
Deliver ==
  /\ state = "busy"
  /\ IsStrictPrefix(Offsets(delivered), Offsets(delivered'))
  /\ IsPrefix(Offsets(delivered'), Offsets(ExpectedParts(req)))
  /\ UNCHANGED <<state, req, inbox, nsent, peer>>

\* the whole content, piece by piece, is delivered: keep alive or close
Respond ==
  /\ state = "busy"
  /\ delivered = ExpectedParts(req)
  /\ IF req.keepalive
     THEN state' = "idle" /\ req' = NoRequest /\ delivered' = <<>>
     ELSE state' = "closed" /\ UNCHANGED <<req, delivered>>
  /\ UNCHANGED <<inbox, nsent, peer>>

\* the connection closes, whatever it was doing
Close ==
  /\ state # "closed" /\ state' = "closed"
  /\ UNCHANGED <<req, delivered, inbox, nsent, peer>>

Next == Send \/ PeerClose \/ Take \/ Deliver \/ Respond \/ Close

Spec == Init /\ [][Next]_cvars /\ WF_cvars(Close)
=============================================================================
