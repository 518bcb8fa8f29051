-------------------------------- MODULE Page --------------------------------
(***************************************************************************)
(* The browser page (public/app.js) over the local HTTP server: two forms, *)
(* each with its button and its status line, and the received secret with  *)
(* the timer that clears it. Other clients may talk to the server as well. *)
(***************************************************************************)
EXTENDS HttpServer, Naturals

VARIABLES
  loaded,     \* is the page open in a browser
  view,       \* the status line of each form; "busy" is a disabled button
  current,    \* the last request of each form, as a set of at most one
  secret,     \* recvEnv holds a received .env
  box,        \* recvResult is visible
  timers      \* how many clearing timers are armed

pageVars == <<loaded, view, current, secret, box, timers>>
allVars  == <<serverVars, pageVars>>

PageTypeOK ==
  /\ ServerTypeOK
  /\ loaded \in BOOLEAN
  /\ view \in [Forms -> {"idle", "busy", "ok", "err"}]
  /\ current \in [Forms -> SUBSET Request]
  /\ secret \in BOOLEAN
  /\ box \in BOOLEAN
  /\ timers \in Nat

PageInit ==
  /\ ServerInit
  /\ loaded = FALSE
  /\ view = [f \in Forms |-> "idle"]
  /\ current = [f \in Forms |-> {}]
  /\ secret = FALSE
  /\ box = FALSE
  /\ timers = 0

-----------------------------------------------------------------------------
(* clearTimeout forgets the timer that the variable refers to, if any.     *)
Stopped == IF timers = 0 THEN 0 ELSE timers - 1

clearSecrets == secret' = FALSE /\ box' = FALSE /\ timers' = Stopped

Shows(f, v) == view' = [view EXCEPT ![f] = v]

Load ==
  /\ ~loaded
  /\ Serving
  /\ loaded' = TRUE
  /\ UNCHANGED <<serverVars, view, current, secret, box, timers>>

(* share() or receive() of a form that is not filled in.                   *)
ClickIncomplete(f) ==
  /\ loaded
  /\ view[f] # "busy"
  /\ Shows(f, "err")
  /\ current' = [current EXCEPT ![f] = {}]
  /\ UNCHANGED <<serverVars, loaded, secret, box, timers>>

(* share() or receive(), up to the answer. A new receive hides the old     *)
(* result, but neither forgets it nor stops its timer.                     *)
Click(f, r) ==
  /\ loaded
  /\ view[f] # "busy"
  /\ \/ Submitted(r, f)
     \/ /\ ~Serving
        /\ client[r] = "none"
        /\ client' = [client EXCEPT ![r] = "gone"]
        /\ UNCHANGED <<processVars, form, stage, reply, result, closeVars>>
  /\ Shows(f, "busy")
  /\ current' = [current EXCEPT ![f] = {r}]
  /\ box' = IF f = "receive" THEN FALSE ELSE box
  /\ UNCHANGED <<loaded, secret, timers>>

Answered(f, r) == view[f] = "busy" /\ r \in current[f] /\ stage[r] = "answered" /\ client[r] = "waiting"

(* Mutants: any answer with status 200 is a success; the timer of an older *)
(* secret is not cleared.                                                  *)
SucceededUnread(r) == reply[r] \in {"ok", "refused"}

Succeeded(r) == reply[r] = "ok"

RevealKeepsTimer == secret' = TRUE /\ box' = TRUE /\ timers' = timers + 1

(* The received .env is shown, and its clearing timer takes the place of   *)
(* an older one.                                                           *)
Reveal == secret' = TRUE /\ box' = TRUE /\ timers' = Stopped + 1

(* The answer: data.ok, a reason, or a status that is not 200.             *)
AnswerArrives(f, r) ==
  /\ Answered(f, r)
  /\ Shows(f, IF Succeeded(r) THEN "ok" ELSE "err")
  /\ IF f = "receive" /\ Succeeded(r) THEN Reveal ELSE UNCHANGED <<secret, box, timers>>
  /\ UNCHANGED <<serverVars, loaded, current>>

(* fetch rejects: there is no server, or the connection broke.             *)
FetchFails(f, r) ==
  /\ view[f] = "busy"
  /\ r \in current[f]
  /\ client[r] = "gone"
  /\ Shows(f, "err")
  /\ UNCHANGED <<serverVars, loaded, current, secret, box, timers>>

(* The clear button.                                                       *)
Clear ==
  /\ loaded
  /\ clearSecrets
  /\ UNCHANGED <<serverVars, loaded, view, current>>

TimerFires ==
  /\ timers > 0
  /\ clearSecrets
  /\ UNCHANGED <<serverVars, loaded, view, current>>

(* The tab is closed or reloaded: the browser drops its connections, and   *)
(* what it holds is forgotten.                                             *)
Leave ==
  /\ loaded
  /\ loaded' = FALSE
  /\ Disconnect({r \in Request : client[r] = "waiting" /\ \E f \in Forms : r \in current[f]})
  /\ view' = [f \in Forms |-> "idle"]
  /\ current' = [f \in Forms |-> {}]
  /\ clearSecrets

-----------------------------------------------------------------------------
PageStep ==
  \/ Load
  \/ Clear
  \/ TimerFires
  \/ Leave
  \/ \E f \in Forms :
       \/ ClickIncomplete(f)
       \/ \E r \in Request : Click(f, r) \/ AnswerArrives(f, r) \/ FetchFails(f, r)

PageNext == PageStep \/ (ServerNext /\ UNCHANGED pageVars)

PageSpec == PageInit /\ [][PageNext]_allVars

(* Files are read; a body that is awaited comes or its client leaves; a    *)
(* receive settles (Receiver!EverythingSettles), a share may not. The      *)
(* browser delivers answers and fires timers; the user owes nothing.       *)
PageFairSpec ==
  /\ PageSpec
  /\ WF_allVars(CloseReported /\ UNCHANGED pageVars)
  /\ \A r \in Request :
       /\ WF_allVars(ServeStatic(r) /\ UNCHANGED pageVars)
       /\ WF_allVars((BodyRead(r) \/ BodyUnreadable(r)) /\ UNCHANGED pageVars)
       /\ WF_allVars(form[r] = "receive" /\ TransferSettles(r) /\ UNCHANGED pageVars)
  /\ WF_allVars(TimerFires)
  /\ \A f \in Forms : WF_allVars(\E r \in Request : AnswerArrives(f, r) \/ FetchFails(f, r))

-----------------------------------------------------------------------------
(* Properties.                                                             *)

(* A received secret always has exactly one clearing timer, however often  *)
(* one is received, cleared or replaced; a timer left over from an older   *)
(* secret would clear the next one early. Only a loaded page holds one.    *)
SecretGuarded ==
  /\ timers = IF secret THEN 1 ELSE 0
  /\ box => secret
  /\ secret => loaded

(* What a form says is what became of its own last request: "Sent" and     *)
(* "Received" after a transfer that succeeded, an error after one that did *)
(* not, unless the answer was lost on the way.                             *)
ShownIsTrue ==
  \A f \in Forms : \A r \in current[f] :
    /\ view[f] = "ok" => result[r] = "ok" /\ form[r] = f
    /\ view[f] = "err" /\ result[r] = "ok" => client[r] = "gone"

(* The button of the receive form comes back, whatever the server, the     *)
(* other peers and Ctrl-C do meanwhile.                                    *)
ButtonComesBack == view["receive"] = "busy" ~> view["receive"] # "busy"

=============================================================================
