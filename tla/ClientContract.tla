--------------------------- MODULE ClientContract ---------------------------
(***************************************************************************)
(* What HttpClient::post promises its caller (spec.md 4.2 and the "Client *)
(* success" example of section 8), without connections, handlers or      *)
(* retries: every post returns a future; the future is fulfilled once,    *)
(* with Succeeded or one of the failure statuses, and never changes after *)
(* that; and it is fulfilled whatever the server does.  The caller posts   *)
(* again on the same handle only when its previous future is ready.       *)
(***************************************************************************)
EXTENDS Naturals, Sequences

CONSTANTS
  MaxPosts,  \* posts the caller makes on the handle
  Outcomes,  \* the terminal statuses a future can hold
  Pending    \* a future not fulfilled yet

VARIABLE answers   \* per post made so far: Pending, or the value of its future

Init == answers = <<>>

\* the caller posts once every earlier future is ready
Post ==
  /\ Len(answers) < MaxPosts
  /\ \A i \in DOMAIN answers : answers[i] # Pending
  /\ answers' = Append(answers, Pending)

\* the engine fulfils a pending future with a terminal status
Answer ==
  \E i \in DOMAIN answers, v \in Outcomes :
    /\ answers[i] = Pending
    /\ answers' = [answers EXCEPT ![i] = v]

Spec == Init /\ [][Post \/ Answer]_answers /\ WF_answers(Answer)
=============================================================================
