----------------------------- MODULE HttpServer -----------------------------
(***************************************************************************)
(* The local HTTP server (src/server.js) in the process that the command   *)
(* line starts (bin/dan-oss-array.js). A request for a transfer is held    *)
(* open until shareEnv or receiveEnv settles; those are modelled in        *)
(* ShareEnv and Receiver and here only run and settle.                     *)
(*                                                                         *)
(* From Node (16 and later) it takes that a request's 'close' event comes  *)
(* right after its 'end', before the continuation of an await, and does    *)
(* not come again when the connection goes away.                           *)
(***************************************************************************)
CONSTANTS Request

VARIABLES
  process,    \* the process, and whether its server still listens
  exitCode,
  form,       \* which transfer a request asks for, if any
  stage,      \* where its handler stands
  client,     \* the connection it came on
  reply,      \* what was answered
  result,     \* how its transfer settled
  closed,     \* requests whose 'close' event has been emitted
  aborted     \* requests whose transfer was handed an abort

processVars == <<process, exitCode>>
closeVars == <<closed, aborted>>
serverVars == <<processVars, form, stage, client, reply, result, closeVars>>

Forms == {"share", "receive"}

ServerTypeOK ==
  /\ process \in {"starting", "up", "closing", "exited"}
  /\ exitCode \in {"none", "0", "1", "2"}
  /\ exitCode = "none" <=> process # "exited"
  /\ form \in [Request -> Forms \cup {"none"}]
  /\ stage \in [Request -> {"none", "file", "reading", "running", "answered"}]
  /\ client \in [Request -> {"none", "waiting", "gone"}]
  /\ reply \in [Request -> {"none", "ok", "refused", "error"}]
  /\ \A r \in Request : reply[r] # "none" <=> stage[r] = "answered"
  /\ result \in [Request -> {"none", "ok", "failed"}]
  /\ closed \subseteq Request
  /\ aborted \subseteq closed

ServerInit ==
  /\ process = "starting"
  /\ exitCode = "none"
  /\ form = [r \in Request |-> "none"]
  /\ stage = [r \in Request |-> "none"]
  /\ client = [r \in Request |-> "none"]
  /\ reply = [r \in Request |-> "none"]
  /\ result = [r \in Request |-> "none"]
  /\ closed = {}
  /\ aborted = {}

-----------------------------------------------------------------------------
(* The process.                                                            *)

Exit(code) == process' = "exited" /\ exitCode' = code

(* Flags that end the process; otherwise listen succeeds or is refused.    *)
Start ==
  /\ process = "starting"
  /\ \/ Exit("0")                                        \* --version, --help
     \/ Exit("2")                                        \* an unknown option
     \/ Exit("1")                                        \* the port is taken
     \/ process' = "up" /\ UNCHANGED exitCode
  /\ UNCHANGED <<form, stage, client, reply, result, closeVars>>

(* Ctrl-C: the server stops listening; a second one adds a callback only.  *)
Interrupt ==
  /\ process = "up"
  /\ process' = "closing"
  /\ UNCHANGED <<exitCode, form, stage, client, reply, result, closeVars>>

Unanswered(r) == stage[r] \in {"file", "reading", "running"}

(* Mutant: waits for the transfers, whoever is left to answer.             *)
DrainedOfTransfers == \A r \in Request : ~Unanswered(r)

(* No connection is left with a request on it.                             *)
Drained == \A r \in Request : Unanswered(r) => client[r] = "gone"

(* server.close calls back, and the process exits with all that still runs.*)
CloseReported ==
  /\ process = "closing"
  /\ Drained
  /\ Exit("0")
  /\ UNCHANGED <<form, stage, client, reply, result, closeVars>>

-----------------------------------------------------------------------------
(* A request comes in.                                                     *)

(* What the handler looks at before it routes.                             *)
Ask == [host : {"loopback", "other"}, origin : {"absent", "same", "other"},
        crossSite : BOOLEAN, json : BOOLEAN,
        method : {"GET", "POST"}, path : Forms \cup {"status", "api", "page"}]

isLoopbackHost(q)  == q.host = "loopback"
isAllowedOrigin(q) == q.origin # "other"

Forbidden(q)   == ~isLoopbackHost(q) \/ ~isAllowedOrigin(q) \/ q.crossSite
Unsupported(q) == q.method = "POST" /\ q.path # "page" /\ ~q.json

(* A live process; a connection kept alive may bring a request even after  *)
(* server.close.                                                           *)
Serving == process \in {"up", "closing"}

New(r) == Serving /\ stage[r] = "none" /\ client[r] = "none"

Takes(r, f, s, a) ==
  /\ client' = [client EXCEPT ![r] = "waiting"]
  /\ form' = [form EXCEPT ![r] = f]
  /\ stage' = [stage EXCEPT ![r] = s]
  /\ reply' = [reply EXCEPT ![r] = a]
  /\ UNCHANGED <<processVars, result, closeVars>>

(* POST /api/share or /api/receive: the body is awaited.                   *)
Submitted(r, f) == New(r) /\ Takes(r, f, "reading", "none")

Arrives(r, q) ==
  /\ New(r)
  /\ CASE Forbidden(q) \/ Unsupported(q) -> Takes(r, "none", "answered", "error")
       [] OTHER ->
            CASE q.method = "GET" /\ q.path = "status" -> Takes(r, "none", "answered", "ok")
              [] q.method = "POST" /\ q.path \in Forms -> Submitted(r, q.path)
              [] q.method = "GET" /\ q.path # "status" -> Takes(r, "none", "file", "none")
              [] OTHER -> Takes(r, "none", "answered", "error")

Answers(r, a) ==
  /\ stage' = [stage EXCEPT ![r] = "answered"]
  /\ reply' = [reply EXCEPT ![r] = a]

(* serveStatic: the file is read, or there is none or it is out of bounds. *)
ServeStatic(r) ==
  /\ Serving
  /\ stage[r] = "file"
  /\ \E a \in {"ok", "error"} : Answers(r, a)
  /\ UNCHANGED <<processVars, form, client, result, closeVars>>

-----------------------------------------------------------------------------
(* The body.                                                               *)

(* A JSON object; a field that is no string, or is missing, is "none".     *)
Body == [envText : {"none", "text"}, roomCode : {"none", "short", "long"},
         passphrase : {"none", "short", "long", "roomCode"}]

validateShareBody(b) == b.envText = "text" /\ b.roomCode = "long" /\ b.passphrase = "long"
Complete(b)          == b.roomCode # "none" /\ b.passphrase # "none"

Acceptable(f, b) == IF f = "share" THEN validateShareBody(b) ELSE Complete(b)

Reading(r) == Serving /\ stage[r] = "reading" /\ client[r] = "waiting"

(* 'close' is emitted: a listener is attached once the transfer runs, and  *)
(* aborts it as long as the answer has not been sent.                      *)
Closes(S) ==
  /\ closed' = closed \cup S
  /\ aborted' = aborted \cup {r \in S \ closed : stage[r] = "running"}

(* 'end' and 'close' are emitted; then the transfer starts and the listener*)
(* is attached, unless there is a problem with the body.                   *)
BodyRead(r) ==
  /\ Reading(r)
  /\ \E b \in Body :
       IF Acceptable(form[r], b)
         THEN stage' = [stage EXCEPT ![r] = "running"] /\ UNCHANGED reply
         ELSE Answers(r, "refused")
  /\ Closes({r})
  /\ UNCHANGED <<processVars, form, client, result>>

(* Mutants: the failure is dropped and the handler waits for ever; the     *)
(* outer catch sends nothing.                                              *)
BodyUnreadableHangs(r) ==
  /\ Reading(r)
  /\ stage' = [stage EXCEPT ![r] = "none"]
  /\ Closes({r})
  /\ UNCHANGED <<processVars, form, client, reply, result>>

BodyUnreadableSilent(r) ==
  /\ Reading(r)
  /\ stage' = [stage EXCEPT ![r] = "answered"]
  /\ Closes({r})
  /\ UNCHANGED <<processVars, form, client, reply, result>>

(* It is not JSON, or no object: 500. Of one beyond the limit the rest is  *)
(* not read, and the answer goes to a connection that was destroyed.       *)
BodyUnreadable(r) ==
  /\ Reading(r)
  /\ Answers(r, "error")
  /\ \E c \in {"waiting", "gone"} : client' = [client EXCEPT ![r] = c]
  /\ Closes({r})
  /\ UNCHANGED <<processVars, form, result>>

(* shareEnv or receiveEnv settles; what it threw is answered as a reason.  *)
TransferSettles(r) ==
  /\ Serving
  /\ stage[r] = "running"
  /\ \/ Answers(r, "ok") /\ result' = [result EXCEPT ![r] = "ok"]
     \/ Answers(r, "refused") /\ result' = [result EXCEPT ![r] = "failed"]
  /\ UNCHANGED <<processVars, form, client, closeVars>>

(* Clients go away: an unfinished body is an error, and the answer to it is*)
(* lost. A request closes now if it has not before.                        *)
Disconnect(S) ==
  /\ client' = [r \in Request |-> IF r \in S THEN "gone" ELSE client[r]]
  /\ LET cut(r) == r \in S /\ stage[r] = "reading" IN
       /\ stage' = [r \in Request |-> IF cut(r) THEN "answered" ELSE stage[r]]
       /\ reply' = [r \in Request |-> IF cut(r) THEN "error" ELSE reply[r]]
  /\ Closes(S)
  /\ UNCHANGED <<processVars, form, result>>

ClientLeaves(r) == Serving /\ client[r] = "waiting" /\ Disconnect({r})

-----------------------------------------------------------------------------
Handler(r) ==
  \/ ServeStatic(r)
  \/ BodyRead(r)
  \/ BodyUnreadable(r)
  \/ TransferSettles(r)
  \/ ClientLeaves(r)

ServerNext ==
  \/ Start
  \/ Interrupt
  \/ CloseReported
  \/ \E r \in Request : Handler(r) \/ \E q \in Ask : Arrives(r, q)

-----------------------------------------------------------------------------
(* Properties.                                                             *)

(* Ctrl-C ends the process, however many requests are open, once the       *)
(* shares somebody waits for have ended: no handler forgets to answer, and *)
(* no transfer that nobody waits for holds the process.                    *)
InterruptEnds ==
  process = "closing" ~>
    \/ process = "exited"
    \/ \E r \in Request : form[r] = "share" /\ stage[r] = "running" /\ client[r] = "waiting"

(* "a closed request aborts the TCP listener AND the UDP announcer         *)
(* immediately, so server-side transfer never outlives the browser action" *)
(* (src/server.js).                                                        *)
ClosedRequestAborts ==
  \A r \in Request :
    process # "exited" /\ stage[r] = "running" /\ client[r] = "gone" => r \in aborted

=============================================================================
