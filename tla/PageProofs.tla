----------------------------- MODULE PageProofs -----------------------------
(***************************************************************************)
(* For any number of requests, of the page and of other clients: a secret  *)
(* on the page has exactly one clearing timer, and what a form says is what*)
(* became of its own last request.                                         *)
(***************************************************************************)
EXTENDS Page, TLAPS

(* What the server says of a transfer is how it settled: only a settled one*)
(* is answered with success, and what settled is answered in the same step.*)
ReplyInv ==
  \A r \in Request :
    /\ stage[r] = "file" => form[r] = "none"
    /\ stage[r] \in {"reading", "running"} => form[r] \in Forms
    /\ form[r] \in Forms => (reply[r] = "ok" <=> result[r] = "ok")
    /\ form[r] = "none" => result[r] = "none"
    /\ client[r] = "none" => stage[r] = "none"
    /\ stage[r] = "none" => form[r] = "none"

(* A form's last request is one request, sent for it: it has a client, and *)
(* if it reached the server it asks for what the form does, and is answered*)
(* by the time the button is back.                                         *)
FormInv ==
  \A f \in Forms :
    /\ \A r, s \in current[f] : r = s
    /\ \A r \in current[f] :
         /\ client[r] # "none"
         /\ client[r] = "waiting" => form[r] = f
         /\ client[r] = "waiting" /\ view[f] # "busy" => stage[r] = "answered"

(* A page that is not open shows nothing and waits for nothing.            *)
ClosedInv == ~loaded => \A f \in Forms : view[f] = "idle" /\ current[f] = {}

PageInv == PageTypeOK /\ ReplyInv /\ FormInv /\ ClosedInv /\ SecretGuarded /\ ShownIsTrue

-----------------------------------------------------------------------------
LEMMA PageInitInv == PageInit => PageInv
<1> SUFFICES ASSUME PageInit PROVE PageInv  OBVIOUS
<1> USE DEF PageInit, ServerInit
<1>1. ServerTypeOK  BY DEF ServerTypeOK
<1>2. PageTypeOK  BY <1>1 DEF PageTypeOK
<1>3. ReplyInv  BY DEF ReplyInv, Forms
<1>4. FormInv /\ ClosedInv /\ ShownIsTrue  BY DEF FormInv, ClosedInv, ShownIsTrue
<1>5. SecretGuarded  BY DEF SecretGuarded
<1> QED  BY <1>2, <1>3, <1>4, <1>5 DEF PageInv

-----------------------------------------------------------------------------
(* The server.                                                             *)

ServerInv == ServerTypeOK /\ ReplyInv

(* What the page relies on: nothing takes over a request that has a client,*)
(* a client that is gone stays away, an answered request is settled.       *)
Keeps ==
  \A r \in Request : client[r] # "none" =>
    /\ form'[r] = form[r]
    /\ client'[r] \in {client[r], "gone"}
    /\ stage[r] = "answered" => stage'[r] = "answered" /\ result'[r] = result[r]

(* A new request, routed to a transfer, to a file or to an answer.         *)
LEMMA TakesInv ==
  ASSUME ServerInv, NEW r \in Request, New(r), NEW f, NEW s, NEW a, Takes(r, f, s, a),
         \/ f \in Forms /\ s = "reading" /\ a = "none"
         \/ f = "none" /\ s = "file" /\ a = "none"
         \/ f = "none" /\ s = "answered" /\ a \in {"ok", "error"}
  PROVE  ServerInv' /\ Keeps /\ client'[r] = "waiting" /\ form'[r] = f
<1> USE DEF ServerInv
<1>1. ServerTypeOK'
  BY DEF ServerTypeOK, Takes, New, processVars, closeVars, Forms
<1>2. ReplyInv'
  BY DEF ServerTypeOK, ReplyInv, Takes, New, Forms
<1>3. Keeps
  BY DEF ServerTypeOK, Takes, New, Keeps
<1>4. client'[r] = "waiting" /\ form'[r] = f
  BY DEF ServerTypeOK, Takes
<1> QED  BY <1>1, <1>2, <1>3, <1>4

(* Clients that go away, whoever they are, lose the answer to an unfinished*)
(* body and nothing else.                                                  *)
LEMMA DisconnectInv ==
  ASSUME ServerInv, NEW S \in SUBSET Request, \A r \in S : client[r] = "waiting", Disconnect(S)
  PROVE  ServerInv' /\ Keeps
<1> USE DEF ServerInv
<1>1. ServerTypeOK'
  BY DEF ServerTypeOK, Disconnect, Closes, processVars
<1>2. ReplyInv'
  BY DEF ServerTypeOK, ReplyInv, Disconnect, Forms
<1>3. Keeps
  BY DEF ServerTypeOK, Disconnect, Keeps
<1> QED  BY <1>1, <1>2, <1>3

LEMMA HandlerInv ==
  ASSUME ServerInv, NEW r \in Request, Handler(r)
  PROVE  ServerInv' /\ Keeps
<1> USE DEF ServerInv
<1>1. CASE ServeStatic(r)
  <2>1. ServerTypeOK'
    BY <1>1 DEF ServerTypeOK, ServeStatic, Answers, processVars, closeVars
  <2>2. ReplyInv'  BY <1>1 DEF ServerTypeOK, ReplyInv, ServeStatic, Answers, Forms
  <2>3. Keeps  BY <1>1 DEF ServerTypeOK, ServeStatic, Answers, Keeps
  <2> QED  BY <2>1, <2>2, <2>3
<1>2. CASE BodyRead(r)
  <2>1. ServerTypeOK'
    BY <1>2 DEF ServerTypeOK, BodyRead, Reading, Answers, Closes, processVars
  <2>2. ReplyInv'  BY <1>2 DEF ServerTypeOK, ReplyInv, BodyRead, Reading, Answers, Forms
  <2>3. Keeps  BY <1>2 DEF ServerTypeOK, BodyRead, Reading, Answers, Keeps
  <2> QED  BY <2>1, <2>2, <2>3
<1>3. CASE BodyUnreadable(r)
  <2>1. ServerTypeOK'
    BY <1>3 DEF ServerTypeOK, BodyUnreadable, Reading, Answers, Closes, processVars
  <2>2. ReplyInv'  BY <1>3 DEF ServerTypeOK, ReplyInv, BodyUnreadable, Reading, Answers, Forms
  <2>3. Keeps  BY <1>3 DEF ServerTypeOK, BodyUnreadable, Reading, Answers, Keeps
  <2> QED  BY <2>1, <2>2, <2>3
<1>4. CASE TransferSettles(r)
  <2>1. ServerTypeOK'
    BY <1>4 DEF ServerTypeOK, TransferSettles, Answers, processVars, closeVars
  <2>2. ReplyInv'  BY <1>4 DEF ServerTypeOK, ReplyInv, TransferSettles, Answers, Forms
  <2>3. Keeps  BY <1>4 DEF ServerTypeOK, TransferSettles, Answers, Keeps
  <2> QED  BY <2>1, <2>2, <2>3
<1>5. CASE ClientLeaves(r)
  BY <1>5, DisconnectInv DEF ClientLeaves
<1> QED  BY <1>1, <1>2, <1>3, <1>4, <1>5 DEF Handler

LEMMA ServerNextInv ==
  ASSUME ServerInv, ServerNext
  PROVE  ServerInv' /\ Keeps
<1> USE DEF ServerInv
<1>1. CASE Start
  <2>1. ServerTypeOK'  BY <1>1 DEF ServerTypeOK, Start, Exit, closeVars
  <2>2. ReplyInv' /\ Keeps  BY <1>1 DEF ServerTypeOK, ReplyInv, Start, Keeps
  <2> QED  BY <2>1, <2>2
<1>2. CASE Interrupt
  <2>1. ServerTypeOK'  BY <1>2 DEF ServerTypeOK, Interrupt, closeVars
  <2>2. ReplyInv' /\ Keeps  BY <1>2 DEF ServerTypeOK, ReplyInv, Interrupt, Keeps
  <2> QED  BY <2>1, <2>2
<1>3. CASE CloseReported
  <2>1. ServerTypeOK'  BY <1>3 DEF ServerTypeOK, CloseReported, Exit, closeVars
  <2>2. ReplyInv' /\ Keeps  BY <1>3 DEF ServerTypeOK, ReplyInv, CloseReported, Keeps
  <2> QED  BY <2>1, <2>2
<1>4. ASSUME NEW r \in Request, NEW q \in Ask, Arrives(r, q)
      PROVE  ServerInv' /\ Keeps
  <2>1. New(r)  BY <1>4 DEF Arrives
  <2>2. \/ Takes(r, "none", "answered", "error")
        \/ Takes(r, "none", "answered", "ok")
        \/ q.path \in Forms /\ Takes(r, q.path, "reading", "none")
        \/ Takes(r, "none", "file", "none")
    BY <1>4 DEF Arrives, Submitted
  <2> QED  BY <2>1, <2>2, TakesInv
<1> QED  BY <1>1, <1>2, <1>3, <1>4, HandlerInv DEF ServerNext

-----------------------------------------------------------------------------
(* The page.                                                               *)

(* While the page is as it was, nothing the server does makes a form's     *)
(* status line untrue.                                                     *)
LEMMA ServedInv ==
  ASSUME PageInv, ServerInv', Keeps, UNCHANGED pageVars
  PROVE  PageInv'
<1> USE DEF PageInv
<1>1. PageTypeOK'  BY DEF PageTypeOK, pageVars, ServerInv
<1>2. FormInv'
  <2> SUFFICES ASSUME NEW f \in Forms, NEW r \in current[f]
               PROVE  /\ client'[r] # "none"
                      /\ client'[r] = "waiting" => form'[r] = f
                      /\ client'[r] = "waiting" /\ view[f] # "busy" => stage'[r] = "answered"
    BY DEF FormInv, pageVars
  <2>1. r \in Request  BY DEF PageTypeOK
  <2> QED  BY <2>1 DEF FormInv, Keeps
<1>3. ClosedInv' /\ SecretGuarded'  BY DEF ClosedInv, SecretGuarded, pageVars
<1>4. ShownIsTrue'
  <2> SUFFICES ASSUME NEW f \in Forms, NEW r \in current[f]
               PROVE  /\ view[f] = "ok" => result'[r] = "ok" /\ form'[r] = f
                      /\ view[f] = "err" /\ result'[r] = "ok" => client'[r] = "gone"
    BY DEF ShownIsTrue, pageVars
  <2>1. r \in Request /\ client[r] # "none"  BY DEF PageTypeOK, FormInv
  <2>2. ASSUME view[f] = "ok" PROVE result'[r] = "ok" /\ form'[r] = f
    <3>1. result[r] = "ok" /\ form[r] = f  BY <2>2 DEF ShownIsTrue
    <3>2. stage[r] = "answered"  BY <2>1, <3>1 DEF ReplyInv, PageTypeOK, ServerTypeOK
    <3> QED  BY <2>1, <3>1, <3>2 DEF Keeps
  <2>3. ASSUME view[f] = "err", result'[r] = "ok" PROVE client'[r] = "gone"
    <3>1. CASE client[r] = "gone"  BY <2>1, <3>1 DEF Keeps
    <3>2. CASE client[r] = "waiting"
      <4>1. stage[r] = "answered"  BY <2>3, <3>2 DEF FormInv
      <4>2. result[r] = "ok"  BY <2>1, <2>3, <4>1 DEF Keeps
      <4> QED  BY <2>3, <3>2, <4>2 DEF ShownIsTrue
    <3> QED  BY <2>1, <3>1, <3>2 DEF PageTypeOK, ServerTypeOK
  <2> QED  BY <2>2, <2>3
<1> QED  BY <1>1, <1>2, <1>3, <1>4 DEF ServerInv

(* A click: the request is new, so no form's status line was about it.     *)
LEMMA ClickInv ==
  ASSUME PageInv, NEW f \in Forms, NEW r \in Request, Click(f, r)
  PROVE  PageInv'
<1> USE DEF PageInv
<1>0. client[r] = "none" /\ ServerInv
  BY DEF Click, Submitted, New, PageTypeOK, ServerInv
<1>1. ServerInv' /\ Keeps /\ client'[r] # "none" /\ (client'[r] = "waiting" => form'[r] = f)
  <2>1. CASE Submitted(r, f)
    BY <1>0, <2>1, TakesInv DEF Submitted
  <2>2. CASE ~Submitted(r, f)
    <3>1. /\ client' = [client EXCEPT ![r] = "gone"]
          /\ UNCHANGED <<processVars, form, stage, reply, result, closeVars>>
      BY <2>2 DEF Click
    <3>2. ServerTypeOK'  BY <3>1 DEF PageTypeOK, ServerTypeOK, processVars, closeVars
    <3>3. ReplyInv'  BY <1>0, <3>1 DEF PageTypeOK, ServerTypeOK, ReplyInv
    <3>4. Keeps  BY <1>0, <3>1 DEF PageTypeOK, ServerTypeOK, Keeps
    <3> QED  BY <3>1, <3>2, <3>3, <3>4 DEF PageTypeOK, ServerTypeOK, ServerInv
  <2> QED  BY <2>1, <2>2
<1>2. /\ loaded /\ loaded' /\ secret' = secret /\ timers' = timers
      /\ box' \in BOOLEAN /\ (box' => box)
      /\ view' = [view EXCEPT ![f] = "busy"]
      /\ current' = [current EXCEPT ![f] = {r}]
  BY DEF Click, Shows, PageTypeOK
<1>3. PageTypeOK'  BY <1>1, <1>2 DEF PageTypeOK, ServerInv
<1>4. /\ view'[f] = "busy" /\ current'[f] = {r}
      /\ \A g \in Forms \ {f} : view'[g] = view[g] /\ current'[g] = current[g]
  BY <1>2 DEF PageTypeOK
<1>5. FormInv'
  <2> SUFFICES ASSUME NEW g \in Forms
               PROVE  /\ \A s, t \in current'[g] : s = t
                      /\ \A s \in current'[g] :
                           /\ client'[s] # "none"
                           /\ client'[s] = "waiting" => form'[s] = g
                           /\ client'[s] = "waiting" /\ view'[g] # "busy" => stage'[s] = "answered"
    BY DEF FormInv
  <2>1. CASE g = f  BY <1>1, <1>4, <2>1
  <2>2. CASE g # f  BY <1>1, <1>4, <2>2 DEF FormInv, Keeps, PageTypeOK
  <2> QED  BY <2>1, <2>2
<1>6. ClosedInv' /\ SecretGuarded'  BY <1>2 DEF ClosedInv, SecretGuarded
<1>7. ShownIsTrue'
  <2> SUFFICES ASSUME NEW g \in Forms, NEW s \in current'[g]
               PROVE  /\ view'[g] = "ok" => result'[s] = "ok" /\ form'[s] = g
                      /\ view'[g] = "err" /\ result'[s] = "ok" => client'[s] = "gone"
    BY DEF ShownIsTrue
  <2>1. CASE g = f  BY <1>4, <2>1
  <2>2. CASE g # f
    <3>1. s \in current[g] /\ view'[g] = view[g]  BY <1>4, <2>2
    <3>2. s \in Request /\ client[s] \in {"waiting", "gone"}
      BY <3>1 DEF PageTypeOK, ServerTypeOK, FormInv
    <3>3. ASSUME view[g] = "ok" PROVE result'[s] = "ok" /\ form'[s] = g
      <4>1. result[s] = "ok" /\ form[s] = g  BY <3>1, <3>3 DEF ShownIsTrue
      <4>2. stage[s] = "answered"  BY <3>2, <4>1 DEF ReplyInv, PageTypeOK, ServerTypeOK
      <4> QED  BY <1>1, <3>2, <4>1, <4>2 DEF Keeps
    <3>4. ASSUME view[g] = "err", result'[s] = "ok" PROVE client'[s] = "gone"
      BY <1>1, <3>1, <3>2, <3>4 DEF FormInv, ShownIsTrue, Keeps
    <3> QED  BY <3>1, <3>3, <3>4
  <2> QED  BY <2>1, <2>2
<1> QED  BY <1>1, <1>3, <1>5, <1>6, <1>7 DEF ServerInv

(* An answer: it is shown on the form whose request it answers.            *)
LEMMA AnswerInv ==
  ASSUME PageInv, NEW f \in Forms, NEW r \in Request, AnswerArrives(f, r)
  PROVE  PageInv'
<1> USE DEF PageInv
<1>1. /\ UNCHANGED serverVars /\ loaded' = loaded /\ current' = current
      /\ view[f] = "busy" /\ r \in current[f]
      /\ stage[r] = "answered" /\ client[r] = "waiting"
      /\ view' = [view EXCEPT ![f] = IF Succeeded(r) THEN "ok" ELSE "err"]
      /\ \/ secret' = TRUE /\ timers' = Stopped + 1 /\ box' = TRUE
         \/ UNCHANGED <<secret, box, timers>>
  BY DEF AnswerArrives, Answered, Shows, Reveal
<1>2. loaded  BY <1>1 DEF ClosedInv
<1>3. ServerTypeOK' /\ ReplyInv'
  BY <1>1 DEF PageTypeOK, ServerTypeOK, ReplyInv, serverVars, processVars, closeVars
<1>4. timers \in Nat /\ Stopped + 1 = 1
  BY DEF SecretGuarded, Stopped, PageTypeOK
<1>5. PageTypeOK'
  <2>1. view' \in [Forms -> {"idle", "busy", "ok", "err"}]  BY <1>1 DEF PageTypeOK
  <2>2. secret' \in BOOLEAN /\ box' \in BOOLEAN  BY <1>1, Zenon DEF PageTypeOK
  <2>3. timers' \in Nat  BY <1>1, <1>4
  <2> QED  BY <1>1, <1>3, <2>1, <2>2, <2>3 DEF PageTypeOK
<1>6. SecretGuarded'  BY <1>1, <1>2, <1>4 DEF SecretGuarded
<1>7. FormInv'
  BY <1>1 DEF FormInv, PageTypeOK, serverVars
<1>8. ClosedInv'  BY <1>1, <1>2 DEF ClosedInv
<1>9. ShownIsTrue'
  <2>1. form[r] = f /\ \A s \in current[f] : s = r  BY <1>1 DEF FormInv
  <2>2. Succeeded(r) <=> result[r] = "ok"  BY <2>1 DEF Succeeded, ReplyInv
  <2> QED  BY <1>1, <2>1, <2>2 DEF ShownIsTrue, PageTypeOK, serverVars
<1> QED  BY <1>3, <1>5, <1>6, <1>7, <1>8, <1>9

(* The other steps of the page.                                            *)
LEMMA PageStepInv ==
  ASSUME PageInv, PageStep
  PROVE  PageInv'
<1> USE DEF PageInv
<1>1. CASE Load
  <2>1. ServerInv' /\ Keeps
    BY <1>1 DEF Load, ServerInv, PageTypeOK, ServerTypeOK, ReplyInv, Keeps, serverVars, processVars, closeVars
  <2> QED  BY <1>1, <2>1
           DEF Load, PageTypeOK, FormInv, ClosedInv, SecretGuarded, ShownIsTrue, ServerInv, serverVars
<1>2. CASE Clear \/ TimerFires
  <2>1. /\ UNCHANGED <<serverVars, loaded, view, current>>
        /\ secret' = FALSE /\ box' = FALSE /\ timers' = 0
    BY <1>2 DEF Clear, TimerFires, clearSecrets, Stopped, SecretGuarded
  <2>2. ServerTypeOK' /\ ReplyInv'
    BY <2>1 DEF PageTypeOK, ServerTypeOK, ReplyInv, serverVars, processVars, closeVars
  <2>3. PageTypeOK' /\ ClosedInv' /\ SecretGuarded'
    BY <2>1, <2>2 DEF PageTypeOK, ClosedInv, SecretGuarded
  <2>4. FormInv' /\ ShownIsTrue'  BY <2>1 DEF FormInv, ShownIsTrue, serverVars
  <2> QED  BY <2>2, <2>3, <2>4
<1>3. CASE Leave
  <2> DEFINE S == {r \in Request : client[r] = "waiting" /\ \E f \in Forms : r \in current[f]}
  <2>1. Disconnect(S)  BY <1>3 DEF Leave
  <2>2. ServerInv'  BY <2>1, DisconnectInv DEF ServerInv, PageTypeOK
  <2>3. /\ loaded' = FALSE /\ secret' = FALSE /\ box' = FALSE /\ timers' = 0
        /\ view' = [f \in Forms |-> "idle"] /\ current' = [f \in Forms |-> {}]
    BY <1>3 DEF Leave, clearSecrets, Stopped, SecretGuarded
  <2> QED  BY <2>2, <2>3 DEF PageTypeOK, FormInv, ClosedInv, SecretGuarded, ShownIsTrue, ServerInv
<1>4. ASSUME NEW f \in Forms, ClickIncomplete(f) PROVE PageInv'
  <2>1. /\ UNCHANGED <<serverVars, loaded, secret, box, timers>> /\ loaded
        /\ view' = [view EXCEPT ![f] = "err"] /\ current' = [current EXCEPT ![f] = {}]
    BY <1>4 DEF ClickIncomplete, Shows
  <2>2. ServerTypeOK' /\ ReplyInv'
    BY <2>1 DEF PageTypeOK, ServerTypeOK, ReplyInv, serverVars, processVars, closeVars
  <2>3. PageTypeOK' /\ ClosedInv' /\ SecretGuarded'
    BY <2>1, <2>2 DEF PageTypeOK, ClosedInv, SecretGuarded
  <2>4. FormInv' /\ ShownIsTrue'
    BY <2>1 DEF FormInv, ShownIsTrue, PageTypeOK, serverVars
  <2> QED  BY <2>2, <2>3, <2>4
<1>5. ASSUME NEW f \in Forms, NEW r \in Request, FetchFails(f, r) PROVE PageInv'
  <2>1. /\ UNCHANGED <<serverVars, loaded, current, secret, box, timers>>
        /\ view[f] = "busy" /\ r \in current[f] /\ client[r] = "gone"
        /\ view' = [view EXCEPT ![f] = "err"]
    BY <1>5 DEF FetchFails, Shows
  <2>2. ServerTypeOK' /\ ReplyInv'
    BY <2>1 DEF PageTypeOK, ServerTypeOK, ReplyInv, serverVars, processVars, closeVars
  <2>3. PageTypeOK' /\ ClosedInv' /\ SecretGuarded'
    BY <2>1, <2>2 DEF PageTypeOK, ClosedInv, SecretGuarded
  <2>4. \A s \in current[f] : s = r  BY <2>1 DEF FormInv
  <2>5. FormInv' /\ ShownIsTrue'
    BY <2>1, <2>4 DEF FormInv, ShownIsTrue, PageTypeOK, serverVars
  <2> QED  BY <2>2, <2>3, <2>5
<1> QED  BY <1>1, <1>2, <1>3, <1>4, <1>5, ClickInv, AnswerInv DEF PageStep

LEMMA PageInductive == PageSpec => []PageInv
<1>1. PageInv /\ [PageNext]_allVars => PageInv'
  <2> SUFFICES ASSUME PageInv, [PageNext]_allVars PROVE PageInv'  OBVIOUS
  <2>1. CASE PageStep  BY <2>1, PageStepInv
  <2>2. CASE ServerNext /\ UNCHANGED pageVars
    BY <2>2, ServerNextInv, ServedInv DEF PageInv, PageTypeOK, ServerInv
  <2>3. CASE UNCHANGED allVars
    <3>1. ServerInv' /\ Keeps
      BY <2>3 DEF PageInv, PageTypeOK, ServerInv, ServerTypeOK, ReplyInv, Keeps,
         allVars, serverVars, processVars, closeVars
    <3> QED  BY <2>3, <3>1, ServedInv DEF allVars
  <2> QED  BY <2>1, <2>2, <2>3 DEF PageNext
<1> QED  BY <1>1, PageInitInv, PTL DEF PageSpec

(* The page's state and the server's keep their types; a request has been  *)
(* answered exactly if its handler is done.                                *)
THEOREM PageTypeCorrect == PageSpec => []PageTypeOK
<1>1. PageInv => PageTypeOK  BY DEF PageInv
<1> QED  BY <1>1, PageInductive, PTL

(* receive(), clearSecrets and the timer: a secret on the page has exactly *)
(* one clearing timer, and a page without one has none.                    *)
THEOREM SecretIsGuarded == PageSpec => []SecretGuarded
<1>1. PageInv => SecretGuarded  BY DEF PageInv
<1> QED  BY <1>1, PageInductive, PTL

(* share() and receive(): "Sent" and "Received" are shown for a transfer   *)
(* that succeeded, and an error for one that did not.                      *)
THEOREM StatusIsTrue == PageSpec => []ShownIsTrue
<1>1. PageInv => ShownIsTrue  BY DEF PageInv
<1> QED  BY <1>1, PageInductive, PTL

=============================================================================
