------------------------------- MODULE Sharer -------------------------------
(***************************************************************************)
(* The sharer's one-shot TCP server: listenForOnePeer (src/peer.js) and    *)
(* the handshake it runs on every inbound connection, sharerServe with its *)
(* frameReader (src/handshake.js).                                         *)
(*                                                                         *)
(* A step is one callback of the event loop together with the promise      *)
(* continuations it releases, since those run before the next event.       *)
(* Timers carry no clock: an armed timer may fire at any moment.           *)
(***************************************************************************)
EXTENDS Integers, FiniteSets

CONSTANTS
  Conn,                     \* inbound TCP connections, each accepted at most once
  Authentic,                \* those whose remote end holds the room code and the passphrase
  MaxConcurrentHandshakes

ASSUME SharerAssumption ==
  /\ Authentic \subseteq Conn
  /\ IsFiniteSet(Conn)
  /\ MaxConcurrentHandshakes \in Nat

VARIABLES
  server,     \* the listening socket
  timer,      \* the "no peer connected in time" timer
  payload,    \* has send() handed the payload in, and taken the served promise
  settled,
  served,     \* the promise send() returns
  inFlight,
  handler,    \* where the connection listener stands, per connection
  sock,       \* the server's end of the connection
  reader,     \* what the frame reader was told: nothing yet, 'end' or a failure
  inbox,      \* a whole frame buffered while nobody reads
  hsTimer,    \* the handshake deadline of a connection
  sent        \* connections whose live socket was given the capsule

vars == <<server, timer, payload, settled, served, inFlight,
          handler, sock, reader, inbox, hsTimer, sent>>

shareVars == <<server, timer, payload, settled, served>>
connVars  == <<handler, sock, reader, inbox, hsTimer, inFlight, sent>>

(* A listener that holds a slot: waiting for the payload, for the peer's   *)
(* HELLO, for scrypt, for the peer's proof.                                *)
Busy    == {"payload", "hello", "scrypt", "proof"}
(* A listener that won the single-serve slot: socket.end(cb) was called;   *)
(* cb has run.                                                             *)
Claimed == {"ending", "done"}

(* A frame that follows the HELLO: the MAC sharerServe computed itself, or *)
(* anything else (another length, a length beyond the cap).                *)
Frame == {"proof", "junk"}

HoldsSlot == {c \in Conn : handler[c] \in Busy}
Holder    == {c \in Conn : handler[c] \in Claimed}

TypeOK ==
  /\ server \in {"binding", "listening", "failed", "closed"}
  /\ timer \in {"armed", "cleared", "fired"}
  /\ payload \in BOOLEAN
  /\ settled \in BOOLEAN
  /\ served \in {"pending", "resolved", "expired", "stopped"}
  /\ inFlight \in Nat
  /\ handler \in [Conn -> {"idle", "refused"} \cup Busy \cup Claimed]
  /\ sock \in [Conn -> {"none", "open", "ended", "lost"}]
  /\ reader \in [Conn -> {"open", "ended", "failed"}]
  /\ inbox \in [Conn -> Frame \cup {"none"}]
  /\ hsTimer \in [Conn -> {"off", "armed", "fired"}]
  /\ sent \subseteq Conn

Init ==
  /\ server = "binding"
  /\ timer = "armed"
  /\ payload = FALSE
  /\ settled = FALSE
  /\ served = "pending"
  /\ inFlight = 0
  /\ handler = [c \in Conn |-> "idle"]
  /\ sock = [c \in Conn |-> "none"]
  /\ reader = [c \in Conn |-> "open"]
  /\ inbox = [c \in Conn |-> "none"]
  /\ hsTimer = [c \in Conn |-> "off"]
  /\ sent = {}

-----------------------------------------------------------------------------
(* The server as a whole.                                                  *)

(* server.listen succeeds, or fails and rejects ready alone.               *)
ListenSettles ==
  /\ server = "binding"
  /\ server' \in {"listening", "failed"}
  /\ UNCHANGED <<timer, payload, settled, served, connVars>>

Closed == IF server = "failed" THEN "failed" ELSE "closed"

(* send(): the payload is handed in and the caller holds served.           *)
Send ==
  /\ ~payload
  /\ payload' = TRUE
  /\ UNCHANGED <<server, timer, settled, served, connVars>>

(* Mutant: the window is kept open while a handshake is under way.         *)
OverallTimeoutDefers ==
  /\ timer = "armed"
  /\ server # "binding"
  /\ timer' = "fired"
  /\ IF settled \/ inFlight > 0
       THEN UNCHANGED <<server, settled, served>>
       ELSE settled' = TRUE /\ server' = Closed /\ served' = "expired"
  /\ UNCHANGED <<payload, connVars>>

(* The overall window closes: no sooner than listen has settled, which it  *)
(* does before any timer can fire.                                         *)
OverallTimeout ==
  /\ timer = "armed"
  /\ server # "binding"
  /\ timer' = "fired"
  /\ IF settled
       THEN UNCHANGED <<server, settled, served>>
       ELSE /\ settled' = TRUE
            /\ server' = Closed
            /\ served' = "expired"
  /\ UNCHANGED <<payload, connVars>>

(* Mutant: stop() rejects served without settling the transfer.            *)
StopUnsettled ==
  /\ server' = Closed
  /\ IF settled
       THEN UNCHANGED <<timer, served>>
       ELSE timer' = "cleared" /\ served' = "stopped"
  /\ UNCHANGED <<payload, settled, connVars>>

(* stop(): the caller gives up. The server closes whoever settled first.   *)
Stop ==
  /\ server' = Closed
  /\ IF settled
       THEN UNCHANGED <<timer, settled, served>>
       ELSE /\ settled' = TRUE
            /\ timer' = "cleared"
            /\ served' = "stopped"
  /\ UNCHANGED <<payload, connVars>>

-----------------------------------------------------------------------------
(* A connection arrives.                                                   *)

Arrives(c) ==
  /\ server = "listening"
  /\ handler[c] = "idle"

(* Mutant: off by one.                                                     *)
MayHandshakeOneMore == ~settled /\ inFlight <= MaxConcurrentHandshakes

MayHandshake == ~settled /\ inFlight < MaxConcurrentHandshakes

(* The transfer is settled, or every handshake slot is taken.              *)
TurnAway(c) ==
  /\ Arrives(c)
  /\ ~MayHandshake
  /\ handler' = [handler EXCEPT ![c] = "refused"]
  /\ sock' = [sock EXCEPT ![c] = "lost"]
  /\ UNCHANGED <<shareVars, reader, inbox, hsTimer, inFlight, sent>>

(* Mutants: the slot is not counted; no deadline is armed.                 *)
AdmitUncounted(c) ==
  /\ Arrives(c)
  /\ MayHandshake
  /\ handler' = [handler EXCEPT ![c] = IF payload THEN "hello" ELSE "payload"]
  /\ sock' = [sock EXCEPT ![c] = "open"]
  /\ hsTimer' = [hsTimer EXCEPT ![c] = "armed"]
  /\ UNCHANGED <<shareVars, reader, inbox, inFlight, sent>>

AdmitNoDeadline(c) ==
  /\ Arrives(c)
  /\ MayHandshake
  /\ handler' = [handler EXCEPT ![c] = IF payload THEN "hello" ELSE "payload"]
  /\ sock' = [sock EXCEPT ![c] = "open"]
  /\ inFlight' = inFlight + 1
  /\ UNCHANGED <<shareVars, reader, inbox, hsTimer, sent>>

(* The listener runs up to the wait for the payload, or for the HELLO.     *)
Admit(c) ==
  /\ Arrives(c)
  /\ MayHandshake
  /\ handler' = [handler EXCEPT ![c] = IF payload THEN "hello" ELSE "payload"]
  /\ sock' = [sock EXCEPT ![c] = "open"]
  /\ hsTimer' = [hsTimer EXCEPT ![c] = "armed"]
  /\ inFlight' = inFlight + 1
  /\ UNCHANGED <<shareVars, reader, inbox, sent>>

(* payloadReady resolves: sharerServe attaches its frame reader and waits  *)
(* for the HELLO.                                                          *)
PayloadReady(c) ==
  /\ payload
  /\ handler[c] = "payload"
  /\ handler' = [handler EXCEPT ![c] = "hello"]
  /\ UNCHANGED <<shareVars, sock, reader, inbox, hsTimer, inFlight, sent>>

-----------------------------------------------------------------------------
(* The end of a handshake.                                                 *)

(* finally: the deadline is cancelled and the slot given back.             *)
Release(c) ==
  /\ hsTimer' = [hsTimer EXCEPT ![c] = "off"]
  /\ inFlight' = inFlight - 1

(* Mutant: the catch closes the server as well.                            *)
RefuseForGood(c) ==
  /\ handler' = [handler EXCEPT ![c] = "refused"]
  /\ sock' = [sock EXCEPT ![c] = "lost"]
  /\ server' = Closed
  /\ Release(c)
  /\ UNCHANGED <<timer, payload, settled, served, sent>>

(* The handshake threw: this peer is refused, the server keeps listening.  *)
Refuse(c) ==
  /\ handler' = [handler EXCEPT ![c] = "refused"]
  /\ sock' = [sock EXCEPT ![c] = "lost"]
  /\ Release(c)
  /\ UNCHANGED <<shareVars, sent>>

(* Mutant: the overall timer is not cleared.                               *)
ClaimKeepsTimer(c) ==
  /\ settled' = TRUE
  /\ sent' = IF sock[c] = "open" THEN sent \cup {c} ELSE sent
  /\ handler' = [handler EXCEPT ![c] = "ending"]
  /\ Release(c)
  /\ UNCHANGED <<server, timer, payload, served, sock>>

(* claim() wins, the capsule is written and socket.end(cb) called. What is *)
(* written to a socket that ended or was destroyed goes nowhere.           *)
Claim(c) ==
  /\ settled' = TRUE
  /\ timer' = "cleared"
  /\ sent' = IF sock[c] = "open" THEN sent \cup {c} ELSE sent
  /\ handler' = [handler EXCEPT ![c] = "ending"]
  /\ Release(c)
  /\ UNCHANGED <<server, payload, served, sock>>

(* Mutants: the capsule is written without a claim; the proof is not       *)
(* compared; the slot is claimed before the proof is looked at.            *)
JudgeWithoutClaim(c, f) == IF f = "proof" THEN Claim(c) ELSE Refuse(c)
JudgeAnyFrame(c, f)     == IF ~settled THEN Claim(c) ELSE Refuse(c)
JudgeClaimsFirst(c, f) ==
  IF settled \/ f = "proof"
    THEN IF settled THEN Refuse(c) ELSE Claim(c)
    ELSE /\ settled' = TRUE
         /\ timer' = "cleared"
         /\ handler' = [handler EXCEPT ![c] = "refused"]
         /\ sock' = [sock EXCEPT ![c] = "lost"]
         /\ Release(c)
         /\ UNCHANGED <<server, payload, served, sent>>

(* sharerServe from the peer's proof on: frame f has been read.            *)
Judge(c, f) ==
  IF f = "proof" /\ ~settled THEN Claim(c) ELSE Refuse(c)

-----------------------------------------------------------------------------
(* The handshake of one connection, step by step.                          *)

(* sharerServe is suspended in a read().                                   *)
Waiting(c) == handler[c] \in {"hello", "proof"}

(* The peer's public key arrives; the HELLO goes back; scrypt starts.      *)
HelloRead(c) ==
  /\ handler[c] = "hello"
  /\ sock[c] = "open"
  /\ handler' = [handler EXCEPT ![c] = "scrypt"]
  /\ UNCHANGED <<shareVars, sock, reader, inbox, hsTimer, inFlight, sent>>

(* Something else arrives where a public key should.                       *)
BadHello(c) ==
  /\ handler[c] = "hello"
  /\ sock[c] = "open"
  /\ Refuse(c)
  /\ UNCHANGED <<reader, inbox>>

(* Only an authentic peer can compute the proof.                           *)
CanSend(c, f) == f = "proof" => c \in Authentic

(* A frame arrives while scrypt runs: it waits in the reader's buffer.     *)
FrameBuffered(c, f) ==
  /\ handler[c] = "scrypt"
  /\ sock[c] = "open"
  /\ inbox[c] = "none"
  /\ CanSend(c, f)
  /\ inbox' = [inbox EXCEPT ![c] = f]
  /\ UNCHANGED <<shareVars, handler, sock, reader, hsTimer, inFlight, sent>>

(* scrypt is done and the next frame is read: a failure comes first, then  *)
(* the buffered frame, then an end; otherwise the read waits.              *)
ScryptDone(c) ==
  /\ handler[c] = "scrypt"
  /\ CASE reader[c] = "failed" -> Refuse(c) /\ UNCHANGED inbox
       [] reader[c] # "failed" /\ inbox[c] # "none" ->
            Judge(c, inbox[c]) /\ inbox' = [inbox EXCEPT ![c] = "none"]
       [] reader[c] = "ended" /\ inbox[c] = "none" -> Refuse(c) /\ UNCHANGED inbox
       [] OTHER ->
            /\ handler' = [handler EXCEPT ![c] = "proof"]
            /\ UNCHANGED <<shareVars, sock, inbox, hsTimer, inFlight, sent>>
  /\ UNCHANGED reader

(* The frame the second read() waits for arrives.                          *)
ProofRead(c, f) ==
  /\ handler[c] = "proof"
  /\ sock[c] = "open"
  /\ CanSend(c, f)
  /\ Judge(c, f)
  /\ UNCHANGED <<reader, inbox>>

(* The socket stops delivering, in state s, and the reader is told n: a    *)
(* pending read rejects. Before sharerServe runs nobody is told.           *)
Hangup(c, s, n) ==
  IF Waiting(c)
    THEN /\ Refuse(c)
         /\ reader' = [reader EXCEPT ![c] = n]
         /\ UNCHANGED inbox
    ELSE /\ sock' = [sock EXCEPT ![c] = IF handler[c] = "payload" THEN "lost" ELSE s]
         /\ reader' = [reader EXCEPT ![c] = IF handler[c] = "payload" THEN @ ELSE n]
         /\ UNCHANGED <<shareVars, handler, inbox, hsTimer, inFlight, sent>>

(* The peer's FIN: Node ends our side too. Once socket.end was called it   *)
(* changes nothing.                                                        *)
PeerEnds(c) ==
  /\ handler[c] \in Busy
  /\ sock[c] = "open"
  /\ Hangup(c, "ended", "ended")

(* An 'error' event, or a peer that streamed beyond TOTAL_CAP.             *)
SocketFails(c) ==
  /\ handler[c] \in Busy \cup {"ending"}
  /\ sock[c] \in {"open", "ended"}
  /\ Hangup(c, "lost", "failed")

(* The handshake deadline destroys the socket. destroy() without an error  *)
(* emits 'close' alone, which the frame reader does not listen to.         *)
HandshakeDeadline(c) ==
  /\ hsTimer[c] = "armed"
  /\ hsTimer' = [hsTimer EXCEPT ![c] = "fired"]
  /\ sock' = [sock EXCEPT ![c] = "lost"]
  /\ UNCHANGED <<shareVars, handler, reader, inbox, inFlight, sent>>

(* The callback of socket.end runs, with or without an error.              *)
EndReported(c) ==
  /\ handler[c] = "ending"
  /\ handler' = [handler EXCEPT ![c] = "done"]
  /\ sock' = [sock EXCEPT ![c] = "lost"]
  /\ server' = Closed
  /\ served' = "resolved"
  /\ UNCHANGED <<timer, payload, settled, reader, inbox, hsTimer, inFlight, sent>>

(* Node runs the callback at once when the stream had already ended or     *)
(* failed. On a live socket it waits for the peer to read, and on one that *)
(* was destroyed before end() it may never run.                            *)
EndReportedAtOnce(c) == reader[c] # "open" /\ EndReported(c)

-----------------------------------------------------------------------------
Handshake(c) ==
  \/ TurnAway(c)
  \/ Admit(c)
  \/ PayloadReady(c)
  \/ HelloRead(c)
  \/ BadHello(c)
  \/ \E f \in Frame : FrameBuffered(c, f) \/ ProofRead(c, f)
  \/ ScryptDone(c)
  \/ PeerEnds(c)
  \/ SocketFails(c)
  \/ HandshakeDeadline(c)
  \/ EndReported(c)

Next ==
  \/ ListenSettles
  \/ Send
  \/ OverallTimeout
  \/ Stop
  \/ \E c \in Conn : Handshake(c)

Spec == Init /\ [][Next]_vars

(* What the runtime owes: timers fire, the thread pool finishes its work,  *)
(* resolved promises continue. Nothing is owed by the caller or a peer.    *)
Fairness ==
  /\ WF_vars(ListenSettles)
  /\ WF_vars(OverallTimeout)
  /\ \A c \in Conn :
       /\ WF_vars(PayloadReady(c))
       /\ WF_vars(ScryptDone(c))
       /\ WF_vars(HandshakeDeadline(c))
       /\ WF_vars(EndReportedAtOnce(c))

FairSpec == Spec /\ Fairness

-----------------------------------------------------------------------------
(* Safety.                                                                 *)

(* "Exactly one peer" (claim in sharerServe): the capsule is written to at *)
(* most one connection, of a peer that proved the passphrase, however many *)
(* authentic peers race.                                                   *)
AtMostOneServed == Cardinality(Holder) <= 1 /\ sent \subseteq Holder \cap Authentic

(* A share that reported a timeout ("nothing was sent") or a stop has put  *)
(* the capsule on no wire, and no handshake still running will (timeout    *)
(* and stop() against a proof that is being verified).                     *)
NothingSentAfterFailure == served \in {"expired", "stopped"} => sent = {} /\ Holder = {}

(* The cap on concurrent handshakes counts what it should: a slot is taken *)
(* by each unfinished handshake, once, and given back exactly once on      *)
(* every way out (pre-auth work stays bounded, and no slot is forgotten).  *)
SlotsAccounted ==
  /\ inFlight = Cardinality(HoldsSlot)
  /\ inFlight <= MaxConcurrentHandshakes

(* Peers that cannot authenticate do not end the wait: as long as no       *)
(* authentic peer claimed it, no timeout and no stop() ended it, the server*)
(* neither closes nor loses its overall timer, and nothing settles it.     *)
KeepsWaiting ==
  Holder = {} /\ served = "pending" => ~settled /\ timer = "armed" /\ server # "closed"

(* The overall timer never outlives the transfer, where it would keep the  *)
(* process alive, nor stops before it: both directions at every step.      *)
TimerTracksTransfer == (timer = "armed") = ~settled

(* A refusal is the refused peer's affair alone: it neither settles the    *)
(* transfer nor touches another connection, its deadline or its buffer.    *)
RefusalHarmless ==
  [][\A c \in Conn :
       handler[c] # "refused" /\ handler'[c] = "refused" =>
         /\ UNCHANGED <<shareVars, sent>>
         /\ \A d \in Conn \ {c} :
              /\ handler'[d] = handler[d]
              /\ sock'[d] = sock[d] /\ inbox'[d] = inbox[d]
              /\ hsTimer'[d] = hsTimer[d]]_vars

(* The server implements the one-shot hand-over.                           *)
Abstract == INSTANCE OneShot WITH
  Peer <- Conn, Trusted <- Authentic, holder <- Holder, outcome <- served
ImplementsOneShot == Abstract!Spec

-----------------------------------------------------------------------------
(* Liveness, under FairSpec.                                               *)

(* The window closes: whatever peers and caller do or fail to do, the      *)
(* transfer is settled at last.                                            *)
WindowCloses == <>settled

(* A peer that connects and then stalls or drips is dropped: its socket is *)
(* gone unless it became the one served.                                   *)
StalledPeerDropped ==
  \A c \in Conn : handler[c] \in Busy ~> sock[c] = "lost" \/ c \in Holder

(* Three things the repository says that the code does not do.             *)

(* "Sent - a peer received the encrypted data" (public/app.js): a share    *)
(* that reports success wrote the capsule to somebody.                     *)
ReportMeansSent == served = "resolved" => sent # {}

(* "dropped instead of holding a slot" (src/peer.js): once the payload is  *)
(* in, a handshake gives its slot back.                                    *)
SlotReleased ==
  \A c \in Conn : payload /\ handler[c] \in Busy ~> handler[c] \notin Busy

(* "settle served ... rather than leaving it hanging" (src/peer.js): a     *)
(* caller that asked for the transfer gets an answer.                      *)
ServedSettles == payload ~> served # "pending"

=============================================================================
