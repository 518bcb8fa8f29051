--------------------------- MODULE TransferProofs ---------------------------
(***************************************************************************)
(* The two ends of a transfer, put together, behave as each was proved to  *)
(* alone, and no sharer is told that nothing happened when it was received.*)
(***************************************************************************)
EXTENDS Transfer, ShareEnvProofs, SessionProofs

RP == INSTANCE ReceiverProofs WITH outcome <- rOutcome, timer <- rTimer, aborted <- rAborted

-----------------------------------------------------------------------------
(* Composition.                                                            *)

(* Every event of the server within a transfer is one of ShareEnv's.       *)
LEMMA ServerEventIsStep ==
  ASSUME NEW c \in Conn, created, ~ContinuationDue, Handshake(c), UNCHANGED envVars
  PROVE  ShareEnvNext
BY DEF ServerStep, ShareEnvNext

(* The share within a transfer takes ShareEnv's steps, and leaves the      *)
(* receive alone.                                                          *)
LEMMA ShareStepSimulates == ShareStep => ShareEnvNext /\ UNCHANGED rVars
<1> SUFFICES ASSUME ShareStep PROVE ShareEnvNext
  BY DEF ShareStep
<1>1. Link \in Conn
  BY TransferAssumption
<1>2. CASE ShareProceeds
  BY <1>2 DEF ShareProceeds, ServerEvent, ServerStep, ShareEnvNext
<1>3. CASE ShareDisturbed
  <2>1. CASE ServerEvent(HandshakeDeadline(Link))
    BY <1>1, <2>1, ServerEventIsStep DEF ServerEvent, Handshake
  <2> QED
    BY <1>3, <2>1 DEF ShareDisturbed, ServerEvent, ServerStep, ShareEnvNext
<1>4. CASE OtherConnections
  BY <1>4, ServerEventIsStep DEF OtherConnections, ServerEvent
<1>5. CASE ServerEvent(SharerProceeds)
  <2>1. Handshake(Link)
    BY <1>5 DEF ServerEvent, SharerProceeds, Handshake
  <2> QED
    BY <1>1, <1>5, <2>1, ServerEventIsStep DEF ServerEvent
<1>6. CASE ServerEvent(SharerHello \/ SharerProof) \/ ServerEvent(SharerReset)
  <2>1. Handshake(Link)
    BY <1>6 DEF ServerEvent, SharerHello, SharerProof, SharerReset, Handshake
  <2> QED
    BY <1>1, <1>6, <2>1, ServerEventIsStep DEF ServerEvent
<1> QED
  BY <1>2, <1>3, <1>4, <1>5, <1>6 DEF ShareStep

(* R and RP name the same receive.                                         *)
LEMMA SameReceiver ==
  (R!ReceiverInit <=> RP!ReceiverInit) /\ (R!ReceiverNext <=> RP!ReceiverNext)
<1>1. R!ReceiverInit <=> RP!ReceiverInit
  BY DEF R!ReceiverInit, RP!ReceiverInit
<1>2. /\ R!WindowCloses <=> RP!WindowCloses
      /\ R!Abort <=> RP!Abort
  BY DEF R!WindowCloses, R!Abort, R!finish, R!done, R!Live,
         RP!WindowCloses, RP!Abort, RP!finish, RP!done, RP!Live
<1>3. ASSUME NEW a PROVE R!Announcement(a) <=> RP!Announcement(a)
  BY DEF R!Announcement, R!MayTry, R!done, R!Cardinality,
         RP!Announcement, RP!MayTry, RP!done, RP!Cardinality
<1>4. ASSUME NEW a PROVE R!Fetching(a) <=> RP!Fetching(a)
  <2>1. /\ R!Connected(a) <=> RP!Connected(a)
        /\ R!HelloRead(a) <=> RP!HelloRead(a)
        /\ R!CapsuleBuffered(a) <=> RP!CapsuleBuffered(a)
        /\ R!ScryptDone(a) <=> RP!ScryptDone(a)
    BY DEF R!Connected, R!HelloRead, R!CapsuleBuffered, R!ScryptDone, R!Fail, R!Goes,
           RP!Connected, RP!HelloRead, RP!CapsuleBuffered, RP!ScryptDone, RP!Fail, RP!Goes
  <2>2. /\ R!CapsuleRead(a) <=> RP!CapsuleRead(a)
        /\ R!PeerEnds(a) <=> RP!PeerEnds(a)
        /\ R!SocketFails(a) <=> RP!SocketFails(a)
        /\ R!FetchTimeout(a) <=> RP!FetchTimeout(a)
    BY DEF R!CapsuleRead, R!PeerEnds, R!SocketFails, R!FetchTimeout, R!Fail, R!Goes, R!Live,
           RP!CapsuleRead, RP!PeerEnds, RP!SocketFails, RP!FetchTimeout, RP!Fail, RP!Goes, RP!Live
  <2>3. R!Decrypted(a) <=> RP!Decrypted(a)
    BY DEF R!Decrypted, R!finish, R!done, RP!Decrypted, RP!finish, RP!done
  <2> QED
    BY <2>1, <2>2, <2>3 DEF R!Fetching, RP!Fetching
<1> QED
  BY <1>1, <1>2, <1>3, <1>4 DEF R!ReceiverNext, RP!ReceiverNext

(* The receive within a transfer takes Receiver's steps, and leaves the    *)
(* share alone.                                                            *)
LEMMA ReceiveStepSimulates == ReceiveStep => RP!ReceiverNext /\ UNCHANGED shareEnvVars
<1> SUFFICES ASSUME ReceiveStep PROVE R!ReceiverNext
  BY SameReceiver DEF ReceiveStep
<1>1. Link \in Announcer
  BY TransferAssumption
<1>2. CASE ReceiverProceeds
  BY <1>1, <1>2 DEF ReceiverProceeds, R!ReceiverNext, R!Fetching
<1>3. CASE OtherAnnouncers
  BY <1>3 DEF OtherAnnouncers, R!ReceiverNext
<1>4. CASE ReceiverConnects \/ ReceiverReset
  BY <1>1, <1>4 DEF ReceiverConnects, ReceiverReset, R!ReceiverNext, R!Fetching
<1>5. CASE ReceiveDisturbed
  BY <1>1, <1>5 DEF ReceiveDisturbed, R!ReceiverNext, R!Fetching
<1> QED
  BY <1>2, <1>3, <1>4, <1>5 DEF ReceiveStep

(* A transfer contains a share and a receive as they were specified, so    *)
(* every theorem about either of them holds within a transfer.             *)
THEOREM ContainsShare == TransferSpec => ShareEnvSpec
<1>1. TransferInit => ShareEnvInit
  BY DEF TransferInit
<1>2. [TransferNext]_transferVars => [ShareEnvNext]_shareEnvVars
  BY ShareStepSimulates, ReceiveStepSimulates DEF TransferNext, transferVars
<1> QED
  BY <1>1, <1>2, PTL DEF TransferSpec, ShareEnvSpec

THEOREM ContainsReceive == TransferSpec => RP!ReceiverSpec
<1>1. TransferInit => RP!ReceiverInit
  BY SameReceiver DEF TransferInit
<1>2. [TransferNext]_transferVars => [RP!ReceiverNext]_(RP!receiverVars)
  BY ShareStepSimulates, ReceiveStepSimulates DEF TransferNext, transferVars, rVars, RP!receiverVars
<1> QED
  BY <1>1, <1>2, PTL DEF TransferSpec, RP!ReceiverSpec

-----------------------------------------------------------------------------
(* The connection between the two.                                         *)

(* Why the reports agree: a payload is the receiver's only out of a capsule*)
(* that was sent, and a grant is one for a proof the receiver computed. The*)
(* sharer sends none before it has that proof.                             *)
LinkInv ==
  /\ Link \notin early
  /\ handler[Link] = "idle" => sock[Link] = "none" /\ hsTimer[Link] = "off"
  /\ fetch[Link] = "decrypting" => Link \in sent
  /\ Link \in from => Link \in sent
  /\ "proof" \in passed => Link \in proofs
  /\ inbox[Link] # "none" => "proof" \in passed
  /\ Link \in Holder => "proof" \in passed
  /\ Link \in proofs => fetch[Link] \in {"capsule", "decrypting", "over"}

(* Why nothing is lost between ends left alone: a fetch is over because the*)
(* sharer refused it or was gone, or because the payload is there; so the  *)
(* sharer's socket is open whenever it may still claim.                    *)
FetchExplained ==
  \/ handler[Link] = "refused"
  \/ handler[Link] = "idle" /\ server = "closed"
  \/ from # {} /\ Link \in sent

CalmInv ==
  calm =>
    /\ rOutcome \in {"pending", "ok"}
    /\ handler[Link] \in Busy => sock[Link] = "open"
    /\ Link \in Holder => Link \in sent
    /\ Link \in gone => handler[Link] = "refused"
    /\ fetch[Link] = "over" => FetchExplained

TransferInv == ShareEnvInv /\ RP!ReceiverInv /\ LinkInv /\ CalmInv

-----------------------------------------------------------------------------
(* What the server's events do to a connection.                            *)

Apart(d) ==
  /\ handler'[d] = handler[d] /\ sock'[d] = sock[d]
  /\ inbox'[d] = inbox[d] /\ hsTimer'[d] = hsTimer[d]
  /\ d \in sent' <=> d \in sent

ClosedStays == server = "closed" => server' = "closed"

(* The end of a handshake touches no other connection.                     *)
LEMMA EndApart ==
  ASSUME IndInv, NEW c \in Conn, NEW d \in Conn, d # c,
         \/ Refuse(c) /\ UNCHANGED inbox
         \/ \E f : Judge(c, f) /\ (inbox' = inbox \/ inbox' = [inbox EXCEPT ![c] = "none"])
         \/ \E s, n : Hangup(c, s, n)
  PROVE  Apart(d) /\ ClosedStays
<1> USE DEF Apart, ClosedStays, IndInv, TypeOK, Release, shareVars
<1>1. CASE Refuse(c) /\ UNCHANGED inbox
  BY <1>1 DEF Refuse
<1>2. ASSUME NEW f, Judge(c, f), inbox' = inbox \/ inbox' = [inbox EXCEPT ![c] = "none"]
      PROVE  Apart(d) /\ ClosedStays
  BY <1>2 DEF Judge, Refuse, Claim
<1>3. ASSUME NEW s, NEW n, Hangup(c, s, n)
      PROVE  Apart(d) /\ ClosedStays
  BY <1>3 DEF Hangup, Refuse
<1> QED
  BY <1>1, <1>2, <1>3

(* Nor does any other event of a handshake.                                *)
LEMMA EventApart ==
  ASSUME IndInv, NEW c \in Conn, NEW d \in Conn, d # c, Handshake(c)
  PROVE  Apart(d) /\ ClosedStays
<1>1. CASE TurnAway(c) \/ Admit(c) \/ PayloadReady(c) \/ HelloRead(c) \/ HandshakeDeadline(c)
  BY <1>1 DEF TurnAway, Admit, PayloadReady, HelloRead, HandshakeDeadline, Apart, ClosedStays,
     IndInv, TypeOK, shareVars
<1>2. CASE BadHello(c) \/ (\E f \in Frame : ProofRead(c, f)) \/ PeerEnds(c) \/ SocketFails(c)
  BY <1>2, EndApart DEF BadHello, ProofRead, PeerEnds, SocketFails
<1>3. CASE \E f \in Frame : FrameBuffered(c, f)
  BY <1>3 DEF FrameBuffered, Apart, ClosedStays, IndInv, TypeOK, shareVars
<1>4. CASE ScryptDone(c)
  <2>1. CASE (Refuse(c) /\ UNCHANGED inbox)
             \/ (Judge(c, inbox[c]) /\ inbox' = [inbox EXCEPT ![c] = "none"])
    BY <2>1, EndApart
  <2>2. CASE handler' = [handler EXCEPT ![c] = "proof"]
             /\ UNCHANGED <<shareVars, sock, inbox, hsTimer, sent>>
    BY <2>2 DEF Apart, ClosedStays, IndInv, TypeOK, shareVars
  <2> QED
    BY <1>4, <2>1, <2>2 DEF ScryptDone
<1>5. CASE EndReported(c)
  BY <1>5 DEF EndReported, Closed, Apart, ClosedStays, IndInv, TypeOK
<1> QED
  BY <1>1, <1>2, <1>3, <1>4, <1>5 DEF Handshake

(* What leaves Link alone preserves what ties the two ends together.       *)
LEMMA ApartInv ==
  ASSUME LinkInv, CalmInv, Apart(Link), ClosedStays, IndInv, IndInv',
         UNCHANGED <<rVars, passed>>, calm' => calm
  PROVE  LinkInv' /\ CalmInv'
<1>1. Link \in Holder' <=> Link \in Holder
  BY TransferAssumption DEF Apart, Holder
<1>2. LinkInv'
  BY <1>1 DEF LinkInv, Apart, rVars
<1>3. CalmInv'
  BY <1>1 DEF CalmInv, FetchExplained, Apart, ClosedStays, rVars
<1> QED
  BY <1>2, <1>3

-----------------------------------------------------------------------------
(* What was typed decides what Link can do.                                *)

(* The proof sent over Link is the sharer's own MAC exactly when the two   *)
(* passphrases are the same, and then the capsule opens.                   *)
LEMMA LinkFacts ==
  /\ Link \in Conn /\ Link \in Announcer
  /\ Link \in Authentic => ReceivePass = SharePass /\ CapsuleOpens
<1>1. Link \in Conn /\ Link \in Announcer
  BY TransferAssumption
<1>2. ASSUME Link \in Authentic PROVE ReceivePass = SharePass
  <2>1. ProofMatches
    BY <1>2, TransferAssumption
  <2> QED
    BY <2>1, ProofAccepted DEF ProofMatches, AtReceiver, AtSharer, SameInputs
<1>3. ASSUME ReceivePass = SharePass PROVE CapsuleOpens
  <2> DEFINE blob == encrypt("env", SharePass, "salt")
  <2>1. opens(AtReceiver.kEnc, sealCapsule(AtSharer.kEnc, blob))
    BY <1>3, CapsuleOpensForProver DEF AtReceiver, AtSharer, SameInputs
  <2>2. decrypts(blob, ReceivePass)
    BY <1>3, PayloadDecrypts
  <2> QED
    BY <2>1, <2>2 DEF CapsuleOpens
<1> QED
  BY <1>1, <1>2, <1>3

-----------------------------------------------------------------------------
(* The sharer's events on Link.                                            *)

(* Such an event starts where the sharer has not refused and is there, and *)
(* takes nothing back.                                                     *)
GoesOn ==
  /\ handler[Link] # "refused"
  /\ handler[Link] = "idle" => server # "closed"
  /\ handler'[Link] # "idle"
  /\ sent \subseteq sent'

(* What has to be shown of one.                                            *)
LEMMA LinkEventInv ==
  ASSUME LinkInv, CalmInv, GoesOn, UNCHANGED rVars,
         calm' => calm,
         passed \subseteq passed',
         "proof" \in passed' => Link \in proofs,
         inbox'[Link] # "none" => inbox[Link] # "none" \/ "proof" \in passed',
         Link \in Holder' => Link \in Holder \/ "proof" \in passed',
         calm' => (handler'[Link] \in Busy => sock'[Link] = "open"),
         calm' => (Link \in Holder' => Link \in sent')
  PROVE  LinkInv' /\ CalmInv'
<1>1. LinkInv'
  BY DEF LinkInv, GoesOn, rVars
<1>2. CalmInv'
  BY DEF CalmInv, FetchExplained, GoesOn, rVars
<1> QED
  BY <1>1, <1>2

(* The verdict on a proof: Link is refused, or served while its socket is  *)
(* as it was.                                                              *)
LEMMA JudgeLink ==
  ASSUME IndInv, handler[Link] \in Busy, NEW f, Judge(Link, f) \/ Refuse(Link)
  PROVE  /\ GoesOn
         /\ handler'[Link] \notin Busy
         /\ Link \in Holder' => f = "proof" /\ (sock[Link] = "open" => Link \in sent')
<1>1. handler[Link] \notin {"refused", "idle"}
  BY DEF Busy
<1>2. CASE Claim(Link) /\ f = "proof"
  BY <1>1, <1>2, LinkFacts DEF Claim, GoesOn, Holder, Busy, IndInv, TypeOK
<1>3. CASE Refuse(Link)
  BY <1>1, <1>3, LinkFacts DEF Refuse, GoesOn, Holder, Busy, Claimed, IndInv, TypeOK
<1> QED
  BY <1>2, <1>3 DEF Judge

(* While the sharer may still serve Link and nothing has disturbed it, the *)
(* receiver has not closed.                                                *)
LEMMA NotYetClosed ==
  ASSUME IndInv, LinkInv, CalmInv, calm, handler[Link] \in Busy
  PROVE  ~ReceiverClosed
<1>1. Link \notin Holder
  BY DEF Holder, Claimed, Busy
<1>2. Link \notin sent
  BY <1>1 DEF IndInv, ShareInv
<1> QED
  BY <1>2 DEF LinkInv, CalmInv, FetchExplained, ReceiverClosed, Busy

(* A connection that is accepted or turned away, goes on with its          *)
(* handshake, or was ended.                                                *)
LEMMA SharerProceedsInv ==
  ASSUME IndInv, LinkInv, CalmInv, SharerProceeds, Undisturbed, UNCHANGED <<rVars, passed>>
  PROVE  LinkInv' /\ CalmInv'
<1>t. Link \in Conn /\ IndInv /\ TypeOK
  BY LinkFacts DEF IndInv
<1>1. CASE Admit(Link) \/ TurnAway(Link) \/ PayloadReady(Link)
  <2>1. /\ handler' = [handler EXCEPT ![Link] = handler'[Link]] /\ handler[Link] \in {"idle", "payload"}
        /\ handler'[Link] \in {"payload", "hello", "refused"} /\ UNCHANGED <<inbox, sent>>
        /\ handler[Link] = "idle" => server = "listening"
        /\ handler'[Link] \in Busy => sock'[Link] = "open" \/ (handler[Link] = "payload" /\ UNCHANGED sock)
    BY <1>1, <1>t DEF Admit, TurnAway, Arrives, PayloadReady, TypeOK, Busy
  <2>2. GoesOn /\ Link \notin Holder'
    BY <2>1 DEF GoesOn, Holder, Claimed
  <2>3. calm' => (handler'[Link] \in Busy => sock'[Link] = "open")
    BY <2>1 DEF CalmInv, Busy, Undisturbed
  <2> QED
    BY <2>1, <2>2, <2>3, LinkEventInv DEF LinkInv, Undisturbed
<1>2. CASE ScryptDone(Link)
  <2>1. handler[Link] = "scrypt" /\ handler[Link] \in Busy
    BY <1>2 DEF ScryptDone, Busy
  <2>2. CASE /\ Judge(Link, inbox[Link]) \/ Refuse(Link)
             /\ inbox' = inbox \/ inbox' = [inbox EXCEPT ![Link] = "none"]
    <3>1. inbox'[Link] # "none" => inbox[Link] # "none"
      BY <1>t, <2>2 DEF TypeOK
    <3>2. calm => sock[Link] = "open"
      BY <2>1 DEF CalmInv
    <3> QED
      BY <2>1, <2>2, <3>1, <3>2, JudgeLink, LinkEventInv DEF LinkInv, Undisturbed
  <2>3. CASE /\ handler' = [handler EXCEPT ![Link] = "proof"]
             /\ UNCHANGED <<shareVars, sock, inbox, hsTimer, inFlight, sent>>
    <3>1. GoesOn /\ Link \notin Holder' /\ UNCHANGED <<inbox, sock>>
      BY <1>t, <2>1, <2>3 DEF GoesOn, Holder, Claimed, TypeOK
    <3>2. calm => sock[Link] = "open"
      BY <2>1 DEF CalmInv
    <3> QED
      BY <3>1, <3>2, LinkEventInv DEF LinkInv, Undisturbed
  <2> QED
    BY <1>2, <2>2, <2>3 DEF ScryptDone
<1>3. CASE EndReported(Link)
  <2>1. GoesOn /\ handler'[Link] = "done" /\ Link \in Holder /\ UNCHANGED <<inbox, sent>>
    BY <1>3, <1>t DEF EndReported, GoesOn, Holder, Claimed, TypeOK
  <2> QED
    BY <2>1, LinkEventInv DEF LinkInv, CalmInv, Undisturbed, Busy
<1>4. CASE ReceiverClosed /\ PeerEnds(Link)
  <2>1. handler[Link] \in Busy /\ Hangup(Link, "ended", "ended")
    BY <1>4 DEF PeerEnds
  <2>2. ~calm
    BY <1>4, <2>1, NotYetClosed
  <2>3. CASE Waiting(Link)
    <3>1. Refuse(Link) /\ UNCHANGED inbox
      BY <2>1, <2>3 DEF Hangup
    <3>2. GoesOn /\ (Link \in Holder' => FALSE)
      BY <2>1, <3>1, JudgeLink, <1>t DEF Refuse, Holder, Claimed, TypeOK
    <3> QED
      BY <2>2, <3>1, <3>2, LinkEventInv DEF LinkInv, Undisturbed
  <2>4. CASE ~Waiting(Link)
    <3>1. UNCHANGED <<shareVars, handler, inbox, sent>>
      BY <2>1, <2>4 DEF Hangup
    <3>2. GoesOn /\ Link \notin Holder'
      BY <2>1, <3>1 DEF GoesOn, Busy, Holder, Claimed
    <3> QED
      BY <2>2, <3>1, <3>2, LinkEventInv DEF LinkInv, Undisturbed
  <2> QED
    BY <2>3, <2>4
<1> QED
  BY <1>1, <1>2, <1>3, <1>4 DEF SharerProceeds

(* What arrives over Link: the receiver's key, its proof, a reset.         *)
LEMMA SharerHearsInv ==
  ASSUME IndInv, LinkInv, CalmInv, UNCHANGED rVars,
         \/ (SharerHello \/ SharerProof) /\ Undisturbed
         \/ SharerReset /\ UNCHANGED passed
  PROVE  LinkInv' /\ CalmInv'
<1>t. Link \in Conn /\ TypeOK
  BY LinkFacts DEF IndInv
<1>1. CASE SharerHello /\ Undisturbed
  <2>1. /\ handler[Link] = "hello" /\ handler' = [handler EXCEPT ![Link] = "scrypt"]
        /\ UNCHANGED <<sock, inbox, sent>>
        /\ passed' = passed \cup {"helloS"}
    BY <1>1 DEF SharerHello, HelloRead
  <2>2. GoesOn /\ Link \notin Holder'
    BY <1>t, <2>1 DEF GoesOn, Holder, Claimed, TypeOK
  <2>3. calm => sock[Link] = "open"
    BY <2>1 DEF CalmInv, Busy
  <2> QED
    BY <1>1, <2>1, <2>2, <2>3, LinkEventInv DEF LinkInv, Undisturbed
<1>2. ASSUME NEW f \in Frame, FrameBuffered(Link, f), Undisturbed,
             Link \in proofs, passed' = passed \cup {"proof"}
      PROVE  LinkInv' /\ CalmInv'
  <2>1. handler[Link] = "scrypt" /\ UNCHANGED <<handler, sock, sent>>
    BY <1>2 DEF FrameBuffered
  <2>2. GoesOn /\ Link \notin Holder'
    BY <2>1 DEF GoesOn, Holder, Claimed
  <2>3. calm => sock[Link] = "open"
    BY <2>1 DEF CalmInv, Busy
  <2> QED
    BY <1>2, <2>1, <2>2, <2>3, LinkEventInv DEF LinkInv, Undisturbed
<1>3. ASSUME NEW f \in Frame, ProofRead(Link, f), Undisturbed,
             Link \in proofs, passed' = passed \cup {"proof"}
      PROVE  LinkInv' /\ CalmInv'
  <2>1. handler[Link] \in Busy /\ sock[Link] = "open" /\ Judge(Link, f)
    BY <1>3 DEF ProofRead, Busy
  <2> QED
    BY <1>3, <2>1, JudgeLink, LinkEventInv DEF LinkInv, Undisturbed
<1>4. CASE SharerReset /\ UNCHANGED passed
  <2>1. /\ SocketFails(Link) /\ Hangup(Link, "lost", "failed")
        /\ calm' = (calm /\ fetch[Link] = "over")
    BY <1>4 DEF SharerReset, SocketFails
  <2>2. calm' => calm /\ handler[Link] \notin Busy
    BY <2>1, NotYetClosed DEF ReceiverClosed
  <2>3. CASE Waiting(Link)
    <3>1. Refuse(Link) /\ UNCHANGED inbox /\ handler[Link] \in Busy
      BY <2>1, <2>3 DEF Hangup, Waiting, Busy
    <3>2. GoesOn /\ Link \notin Holder'
      BY <3>1, JudgeLink, <1>t DEF Refuse, Holder, Claimed, TypeOK
    <3> QED
      BY <1>4, <2>2, <3>1, <3>2, LinkEventInv DEF LinkInv
  <2>4. CASE ~Waiting(Link)
    <3>1. UNCHANGED <<shareVars, handler, inbox, sent>> /\ Holder' = Holder
      BY <2>1, <2>4 DEF Hangup, Holder
    <3>2. GoesOn
      BY <2>1, <3>1 DEF SocketFails, GoesOn, Busy
    <3> QED
      BY <1>4, <2>2, <3>1, <3>2, LinkEventInv DEF LinkInv, CalmInv
  <2> QED
    BY <2>3, <2>4
<1> QED
  BY <1>1, <1>2, <1>3, <1>4 DEF SharerProof

(* A step of the share that no event of Link takes part in.                *)
LEMMA ShareApart ==
  ASSUME \/ Call \/ Encrypted \/ Announce \/ Return \/ AnnouncerBound \/ Abort \/ ReadyRejects
         \/ ListenSettles \/ OverallTimeout
  PROVE  Apart(Link) /\ ClosedStays
<1>1. UNCHANGED connVars
  BY DEF Call, Encrypted, ThrowAborted, Announce, Return, AnnouncerBound, Abort, ReadyRejects,
         ListenSettles, OverallTimeout, Stop, Send, vars, connVars
<1>2. ClosedStays
  BY DEF Call, Encrypted, ThrowAborted, Announce, Return, AnnouncerBound, Abort, ReadyRejects,
         ListenSettles, OverallTimeout, Stop, Send, Closed, vars, ClosedStays
<1> QED
  BY <1>1, <1>2 DEF Apart, connVars

(* Every step of the share.                                                *)
LEMMA ShareStepInv ==
  ASSUME IndInv, IndInv', LinkInv, CalmInv, ShareStep
  PROVE  LinkInv' /\ CalmInv'
<1>1. UNCHANGED rVars
  BY DEF ShareStep
<1>2. CASE (ShareProceeds \/ OtherConnections) /\ Undisturbed /\ UNCHANGED passed
  <2>1. Apart(Link) /\ ClosedStays
    BY <1>2, ShareApart, EventApart, LinkFacts DEF ShareProceeds, OtherConnections, ServerEvent
  <2> QED
    BY <1>1, <1>2, <2>1, ApartInv DEF Undisturbed
<1>3. CASE ServerEvent(SharerProceeds) /\ Undisturbed /\ UNCHANGED passed
  BY <1>1, <1>3, SharerProceedsInv DEF ServerEvent
<1>4. CASE ShareDisturbed /\ Disturbed /\ UNCHANGED passed
  <2>1. CASE HandshakeDeadline(Link)
    <3>1. CalmInv'
      BY <1>4 DEF CalmInv, Disturbed
    <3>2. LinkInv'
      BY <1>1, <1>4, <2>1 DEF HandshakeDeadline, LinkInv, Holder, rVars
    <3> QED
      BY <3>1, <3>2
  <2>2. CASE ~HandshakeDeadline(Link)
    <3>1. Apart(Link) /\ ClosedStays
      BY <1>4, <2>2, ShareApart DEF ShareDisturbed, ServerEvent
    <3> QED
      BY <1>1, <1>4, <3>1, ApartInv DEF Disturbed
  <2> QED
    BY <2>1, <2>2
<1>5. CASE \/ ServerEvent(SharerHello \/ SharerProof) /\ Undisturbed
           \/ ServerEvent(SharerReset) /\ UNCHANGED passed
  BY <1>1, <1>5, SharerHearsInv DEF ServerEvent
<1> QED
  BY <1>2, <1>3, <1>4, <1>5 DEF ShareStep

-----------------------------------------------------------------------------
(* The receiver's events.                                                  *)

(* What has to be shown of one.                                            *)
LEMMA ReceiveEventInv ==
  ASSUME LinkInv, CalmInv, UNCHANGED shareEnvVars,
         calm' => calm,
         proofs \subseteq proofs',
         "proof" \in passed' <=> "proof" \in passed,
         Link \in early' => Link \in early,
         fetch'[Link] = "decrypting" => Link \in sent,
         Link \in from' => Link \in from \/ Link \in sent,
         Link \in proofs' => fetch'[Link] \in {"capsule", "decrypting", "over"},
         calm' => rOutcome' \in {"pending", "ok"},
         calm' => (Link \in gone' => Link \in gone \/ handler[Link] = "refused"),
         calm' => (fetch'[Link] = "over" => FetchExplained')
  PROVE  LinkInv' /\ CalmInv'
<1>1. UNCHANGED <<handler, sock, inbox, hsTimer, sent>> /\ Holder' = Holder
  BY DEF shareEnvVars, vars, Holder
<1>2. LinkInv'
  BY <1>1 DEF LinkInv
<1>3. CalmInv'
  BY <1>1 DEF CalmInv
<1> QED
  BY <1>2, <1>3

(* When the sharer has closed Link and nothing has disturbed it, it refused*)
(* the receiver, or granted the credential for the proof it was sent.      *)
LEMMA ClosedForCause ==
  ASSUME LinkInv, CalmInv, IndInv, calm, SharerClosed
  PROVE  handler[Link] = "refused" \/ (Link \in Holder /\ Link \in sent /\ Link \in proofs)
<1>1. Link \in Conn /\ TypeOK
  BY LinkFacts DEF IndInv
<1>2. handler[Link] \in {"idle", "refused"} \cup Busy \cup Claimed
  BY <1>1 DEF TypeOK
<1>3. CASE handler[Link] \in Claimed
  BY <1>1, <1>3 DEF Holder, LinkInv, CalmInv
<1>4. CASE handler[Link] \in {"idle"} \cup Busy
  BY <1>4 DEF SharerClosed, LinkInv, CalmInv, Busy, Claimed
<1> QED
  BY <1>2, <1>3, <1>4

(* Another announcer, heard of or fetched from.                            *)
LEMMA OtherAnnouncersInv ==
  ASSUME RP!ReceiverInv, LinkInv, CalmInv, OtherAnnouncers, Undisturbed,
         UNCHANGED <<passed, shareEnvVars>>
  PROVE  LinkInv' /\ CalmInv'
<1> PICK a \in Announcer \ {Link} : R!Announcement(a) \/ R!Fetching(a)
  BY DEF OtherAnnouncers
<1>t. Link \in Announcer /\ RP!ReceiverTypeOK
  BY LinkFacts DEF RP!ReceiverInv
<1>1. CASE R!Decrypted(a)
  <2>1. /\ fetch' = [fetch EXCEPT ![a] = "over"] /\ UNCHANGED <<gone, early, proofs>>
        /\ from' = IF R!done THEN from ELSE {a}
        /\ rOutcome' = IF R!done THEN rOutcome ELSE "ok"
    BY <1>1 DEF R!Decrypted, R!finish
  <2>2. fetch'[Link] = fetch[Link]
    BY <1>t, <2>1 DEF RP!ReceiverTypeOK
  <2>3. calm => (FetchExplained => FetchExplained')
    BY <2>1 DEF FetchExplained, shareEnvVars, vars
  <2> QED
    BY <2>1, <2>2, <2>3, ReceiveEventInv DEF LinkInv, CalmInv, Undisturbed
<1>2. CASE ~R!Decrypted(a)
  <2>1. /\ UNCHANGED <<rOutcome, from>>
        /\ gone' = gone \/ gone' = gone \cup {a}
        /\ Link \in early' => Link \in early
        /\ proofs' = proofs \/ proofs' = proofs \cup {a}
        /\ fetch' = fetch \/ \E phase : fetch' = [fetch EXCEPT ![a] = phase]
    BY <1>2 DEF R!Announcement, R!Fetching, R!Connected, R!HelloRead,
       R!CapsuleBuffered, R!ScryptDone, R!CapsuleRead, R!PeerEnds, R!SocketFails, R!FetchTimeout, R!Fail, R!Goes
  <2>2. fetch'[Link] = fetch[Link]
    BY <1>t, <2>1 DEF RP!ReceiverTypeOK
  <2>3. FetchExplained => FetchExplained'
    BY <2>1 DEF FetchExplained, shareEnvVars, vars
  <2> QED
    BY <2>1, <2>2, <2>3, ReceiveEventInv DEF LinkInv, CalmInv, Undisturbed
<1> QED
  BY <1>1, <1>2

(* The fetch over Link goes on.                                            *)
LEMMA ReceiverProceedsInv ==
  ASSUME IndInv, RP!ReceiverInv, LinkInv, CalmInv, ReceiverProceeds, Undisturbed,
         UNCHANGED <<passed, shareEnvVars>>
  PROVE  LinkInv' /\ CalmInv'
<1>t. Link \in Announcer /\ RP!ReceiverTypeOK
  BY LinkFacts DEF RP!ReceiverInv
<1>s. UNCHANGED <<handler, server, sent>>
  BY DEF shareEnvVars, vars
<1>1. CASE R!Announcement(Link)
  <2>1. fetch[Link] = "none"
    BY <1>1, <1>t DEF R!Announcement, RP!ReceiverInv, RP!AttemptsBounded, RP!ReceiverTypeOK
  <2>2. /\ UNCHANGED <<rOutcome, from, gone, early, proofs>>
        /\ fetch'[Link] \in {"none", "connecting"}
    BY <1>1, <1>t, <2>1 DEF R!Announcement, RP!ReceiverTypeOK
  <2> QED
    BY <2>1, <2>2, ReceiveEventInv DEF LinkInv, CalmInv, Undisturbed
<1>2. CASE R!HelloRead(Link) /\ fetch'[Link] = "scrypt"
  <2>1. /\ fetch[Link] = "hello"
        /\ early' \subseteq early /\ UNCHANGED <<rOutcome, from, gone, proofs>>
    BY <1>2 DEF R!HelloRead, R!Fail, R!Goes
  <2> QED
    BY <1>2, <2>1, ReceiveEventInv DEF LinkInv, CalmInv, Undisturbed
<1>3. CASE R!ScryptDone(Link)
  <2>0. Link \notin early
    BY DEF LinkInv
  <2>1. /\ fetch[Link] = "scrypt"
        /\ early' \subseteq early /\ UNCHANGED <<rOutcome, from, gone>>
        /\ proofs \subseteq proofs'
        /\ Link \in gone => fetch'[Link] = "over" /\ UNCHANGED proofs
        /\ Link \notin gone => fetch'[Link] = "capsule"
    BY <1>3, <1>t, <2>0 DEF R!ScryptDone, R!Goes, RP!ReceiverTypeOK
  <2>2. calm => (fetch'[Link] = "over" => FetchExplained')
    BY <1>s, <2>1 DEF CalmInv, FetchExplained
  <2> QED
    BY <2>1, <2>2, ReceiveEventInv DEF LinkInv, CalmInv, Undisturbed
<1>4. CASE Link \in sent /\ R!CapsuleRead(Link) /\ fetch'[Link] = IF CapsuleOpens THEN "decrypting" ELSE "over"
  <2>1. CapsuleOpens
    BY <1>4, LinkFacts DEF IndInv, ShareInv
  <2>2. /\ fetch[Link] = "capsule"
        /\ early' \subseteq early /\ UNCHANGED <<rOutcome, from, gone, proofs>>
    BY <1>4 DEF R!CapsuleRead, R!Fail, R!Goes
  <2> QED
    BY <1>4, <2>1, <2>2, ReceiveEventInv DEF LinkInv, CalmInv, Undisturbed
<1>5. CASE R!Decrypted(Link)
  <2>1. /\ fetch[Link] = "decrypting" /\ fetch'[Link] = "over"
        /\ UNCHANGED <<gone, early, proofs>>
        /\ from' = IF R!done THEN from ELSE {Link}
        /\ rOutcome' = IF R!done THEN rOutcome ELSE "ok"
    BY <1>5, <1>t DEF R!Decrypted, R!finish, RP!ReceiverTypeOK
  <2>2. Link \in sent
    BY <2>1 DEF LinkInv
  <2>3. calm => from' # {}
    BY <2>1 DEF R!done, CalmInv, RP!ReceiverInv, RP!VerdictHonest
  <2>4. calm => FetchExplained'
    BY <1>s, <2>2, <2>3 DEF FetchExplained
  <2> QED
    BY <2>1, <2>2, <2>4, ReceiveEventInv DEF LinkInv, CalmInv, Undisturbed
<1>6. CASE SharerClosed /\ ReceiverReadAll /\ R!PeerEnds(Link)
  <2>1. calm => handler[Link] = "refused"
    <3> SUFFICES ASSUME calm, Link \in Holder, Link \in sent, Link \in proofs PROVE FALSE
      BY <1>6, ClosedForCause
    <3>1. fetch[Link] \in {"capsule", "decrypting", "over"}
      BY DEF LinkInv
    <3>2. fetch[Link] \in {"hello", "capsule", "scrypt"}
      BY <1>6 DEF R!PeerEnds
    <3> QED
      BY <1>6, <3>1, <3>2 DEF ReceiverReadAll
  <2>2. /\ early' \subseteq early /\ UNCHANGED <<rOutcome, from, proofs>>
        /\ \/ fetch'[Link] = "over" /\ UNCHANGED gone
           \/ fetch' = fetch
    BY <1>6, <1>t DEF R!PeerEnds, R!Fail, R!Goes, RP!ReceiverTypeOK
  <2>3. calm => FetchExplained'
    BY <1>s, <2>1 DEF FetchExplained
  <2>4. Link \in proofs => fetch'[Link] \in {"capsule", "decrypting", "over"}
    BY <2>2 DEF LinkInv
  <2> QED
    BY <2>1, <2>2, <2>3, <2>4, ReceiveEventInv DEF LinkInv, CalmInv, Undisturbed
<1> QED
  BY <1>1, <1>2, <1>3, <1>4, <1>5, <1>6 DEF ReceiverProceeds

(* Every step of the receive.                                              *)
LEMMA ReceiveStepInv ==
  ASSUME IndInv, RP!ReceiverInv, LinkInv, CalmInv, ReceiveStep
  PROVE  LinkInv' /\ CalmInv'
<1>t. Link \in Announcer /\ RP!ReceiverTypeOK /\ UNCHANGED shareEnvVars
  BY LinkFacts DEF RP!ReceiverInv, ReceiveStep
<1>s. UNCHANGED <<handler, server, sent>>
  BY <1>t DEF shareEnvVars, vars
<1>1. CASE (ReceiverProceeds \/ OtherAnnouncers) /\ Undisturbed /\ UNCHANGED passed
  BY <1>1, <1>t, ReceiverProceedsInv, OtherAnnouncersInv
<1>2. CASE ReceiverConnects /\ Undisturbed
  <2>1. /\ fetch[Link] = "connecting" /\ fetch'[Link] = "hello"
        /\ early' \subseteq early /\ UNCHANGED <<rOutcome, from, gone, proofs>>
        /\ passed' = passed \cup {"helloR"}
    BY <1>2 DEF ReceiverConnects, R!Connected, R!Fail, R!Goes
  <2> QED
    BY <1>2, <1>t, <2>1, ReceiveEventInv DEF LinkInv, CalmInv, Undisturbed
<1>3. CASE ReceiveDisturbed /\ Disturbed /\ UNCHANGED passed
  <2>1. /\ early' \subseteq early /\ UNCHANGED <<from, gone, proofs>>
        /\ fetch'[Link] = "over" \/ fetch'[Link] = fetch[Link]
    BY <1>3, <1>t DEF ReceiveDisturbed, R!Connected, R!FetchTimeout, R!WindowCloses, R!Abort,
       R!Fail, R!Goes, RP!ReceiverTypeOK
  <2> QED
    BY <1>3, <1>t, <2>1, ReceiveEventInv DEF LinkInv, Disturbed
<1>4. CASE ReceiverReset /\ UNCHANGED passed
  <2>1. /\ fetch'[Link] = "over"
        /\ early' \subseteq early /\ UNCHANGED <<rOutcome, from, gone, proofs>>
        /\ calm' => calm /\ (handler[Link] = "refused" \/ (handler[Link] = "idle" /\ server = "closed"))
    BY <1>4, <1>t DEF ReceiverReset, R!SocketFails, R!Fail, R!Goes, RP!ReceiverTypeOK
  <2>2. calm' => FetchExplained'
    BY <1>s, <2>1 DEF FetchExplained
  <2> QED
    BY <1>4, <1>t, <2>1, <2>2, ReceiveEventInv DEF LinkInv, CalmInv
<1> QED
  BY <1>1, <1>2, <1>3, <1>4 DEF ReceiveStep

-----------------------------------------------------------------------------
(* The two reports.                                                        *)

(* What the receive assumes of its constants is assumed of the transfer's. *)
LEMMA ReceiveAssumption == RP!ReceiverAssumption
BY TransferAssumption DEF RP!ReceiverAssumption, RP!IsFiniteSet, IsFiniteSet

(* Nothing has happened on either side.                                    *)
LEMMA TransferInitInv == TransferInit => TransferInv
<1> SUFFICES ASSUME TransferInit PROVE TransferInv
  OBVIOUS
<1>1. ShareEnvInv /\ RP!ReceiverInv
  BY ShareEnvInitInv, SameReceiver, RP!ReceiverInitInv, ReceiveAssumption
     DEF TransferInit, RP!ReceiverAssumption
<1>2. /\ handler[Link] = "idle" /\ sock[Link] = "none" /\ hsTimer[Link] = "off" /\ inbox[Link] = "none"
      /\ Link \notin Holder
    BY LinkFacts DEF TransferInit, ShareEnvInit, Init, Holder, Claimed
<1>3. /\ fetch[Link] = "none" /\ from = {} /\ proofs = {} /\ gone = {} /\ early = {}
      /\ ~rAborted => rOutcome = "pending"
    BY LinkFacts DEF TransferInit, R!ReceiverInit
<1>4. LinkInv /\ CalmInv
  BY <1>2, <1>3 DEF TransferInit, LinkInv, CalmInv, Busy
<1> QED
  BY <1>1, <1>4 DEF TransferInv

(* Each step of either side.                                               *)
LEMMA TransferStepInv == TransferInv /\ [TransferNext]_transferVars => TransferInv'
<1> SUFFICES ASSUME TransferInv, [TransferNext]_transferVars PROVE TransferInv'
  OBVIOUS
<1> USE DEF TransferInv
<1>1. ShareEnvInv'
  BY ShareStepSimulates, ReceiveStepSimulates, ShareEnvStepInv DEF TransferNext, transferVars
<1>2. RP!ReceiverInv'
  <2>1. [RP!ReceiverNext]_(RP!receiverVars)
    BY ShareStepSimulates, ReceiveStepSimulates
       DEF TransferNext, transferVars, rVars, RP!receiverVars
  <2> QED
    BY <2>1, RP!ReceiverStepInv, ReceiveAssumption DEF RP!ReceiverAssumption
<1>3. CASE ShareStep
  BY <1>1, <1>2, <1>3, ShareStepInv DEF ShareEnvInv
<1>4. CASE ReceiveStep
  BY <1>1, <1>2, <1>4, ReceiveStepInv DEF ShareEnvInv
<1>5. CASE UNCHANGED transferVars
  BY <1>1, <1>2, <1>5 DEF transferVars, shareEnvVars, vars, rVars, linkVars, LinkInv, CalmInv,
     FetchExplained, Holder
<1> QED
  BY <1>3, <1>4, <1>5 DEF TransferNext

(* The invariant holds of every transfer.                                  *)
THEOREM TransferInductive == TransferSpec => []TransferInv
BY TransferInitInv, TransferStepInv, PTL DEF TransferSpec

(* Whatever either user cancels, whatever times out or breaks, and whoever *)
(* else connects or announces: what was received had been sent, its sharer *)
(* is not told otherwise, and the two typed the same passphrase.           *)
THEOREM ReportsAgree == TransferSpec => []Agreement
<1>1. TransferInv => Agreement
  <2> SUFFICES ASSUME TransferInv PROVE Agreement
    OBVIOUS
  <2> USE DEF TransferInv
  <2>1. OutcomeHonest /\ outcome \in {"pending", "ok", "aborted", "failed"}
    BY InvIsHonest DEF ShareEnvInv, ShareEnvTypeOK
  <2>2. Holder \subseteq Authentic
    BY DEF ShareEnvInv, IndInv, ShareInv
  <2> QED
    BY <2>1, <2>2, LinkFacts DEF OutcomeHonest, LinkInv, Agreement
<1> QED
  BY <1>1, TransferInductive, PTL

(* No capsule is lost between two ends that nothing disturbed.             *)
THEOREM GrantIsDelivered == TransferSpec => []GrantDelivers
<1>1. TransferInv => GrantDelivers
  <2> SUFFICES ASSUME TransferInv, calm, Link \in Holder, fetch[Link] = "over" PROVE from # {}
    BY DEF GrantDelivers
  <2>1. FetchExplained
    BY DEF TransferInv, CalmInv
  <2>2. handler[Link] \notin {"refused", "idle"}
    BY DEF Holder, Claimed
  <2> QED
    BY <2>1, <2>2 DEF FetchExplained
<1> QED
  BY <1>1, TransferInductive, PTL

-----------------------------------------------------------------------------
(* Refinement.                                                             *)

(* A step of the receive sends its proof or changes its report, not both;  *)
(* a report once made stands.                                              *)
LEMMA OneThingReceived ==
  ASSUME RP!ReceiverNext, RP!ReceiverTypeOK
  PROVE  /\ proofs \subseteq proofs'
         /\ UNCHANGED proofs \/ UNCHANGED <<rOutcome, from>>
         /\ rOutcome # "pending" => UNCHANGED <<rOutcome, from>>
<1>1. ASSUME NEW a \in Announcer, RP!Announcement(a) \/ RP!Fetching(a)
      PROVE  /\ proofs \subseteq proofs'
             /\ UNCHANGED proofs \/ UNCHANGED <<rOutcome, from>>
             /\ rOutcome # "pending" => UNCHANGED <<rOutcome, from>>
  BY <1>1 DEF RP!Announcement, RP!Fetching, RP!Connected, RP!HelloRead, RP!CapsuleBuffered,
     RP!ScryptDone, RP!CapsuleRead, RP!PeerEnds, RP!SocketFails, RP!FetchTimeout, RP!Decrypted,
     RP!Fail, RP!Goes, RP!finish, RP!done
<1>2. CASE RP!WindowCloses \/ RP!Abort
  BY <1>2 DEF RP!WindowCloses, RP!Abort, RP!finish, RP!done
<1> QED
  BY <1>1, <1>2 DEF RP!ReceiverNext

(* Likewise a step of the share grants the capsule or reports, not both;   *)
(* what shareEnv reported stands.                                          *)
LEMMA OneThingShared ==
  ASSUME ShareEnvNext, ShareEnvTypeOK
  PROVE  /\ UNCHANGED outcome \/ (Holder' = Holder /\ sent' = sent)
         /\ outcome # "pending" => UNCHANGED outcome
<1>1. CASE Call \/ Encrypted \/ ReadyRejects \/ Return \/ AnnouncerBound
  BY <1>1 DEF Call, Encrypted, ReadyRejects, Return, AnnouncerBound, ThrowAborted, Finish,
     ShareEnvTypeOK, vars, Holder
<1>2. CASE Announce
  BY <1>2 DEF Announce, Stop, Send, Finish, ShareEnvTypeOK, connVars, Holder
<1>3. CASE Abort \/ ServerStep
  BY <1>3 DEF Abort, ServerStep, envVars
<1> QED
  BY <1>1, <1>2, <1>3 DEF ShareEnvNext

(* A step of the receive proves, receives or gives up, or is nothing to    *)
(* the hand-over. What it receives on Link was sent, by LinkInv.           *)
LEMMA ReceiveRefines ==
  ASSUME TransferInv, TransferInv', ReceiveStep
  PROVE  [H!Next]_(H!handoverVars)
<1> USE DEF H!handoverVars
<1>1. RP!ReceiverNext /\ UNCHANGED shareEnvVars
  BY ReceiveStepSimulates
<1>2. UNCHANGED <<LinkGrant, outcome>>
  BY <1>1 DEF shareEnvVars, vars, envVars, LinkGrant, Holder
<1>3. /\ proofs \subseteq proofs'
      /\ UNCHANGED proofs \/ UNCHANGED <<rOutcome, from>>
      /\ rOutcome # "pending" => UNCHANGED <<rOutcome, from>>
  BY <1>1, OneThingReceived DEF TransferInv, RP!ReceiverInv
<1>4. CASE UNCHANGED <<rOutcome, from>>
  <2>1. UNCHANGED LinkReport
    BY <1>4 DEF LinkReport
  <2>2. CASE (Link \in proofs) = (Link \in proofs')
    BY <1>2, <2>1, <2>2
  <2>3. CASE Link \notin proofs /\ Link \in proofs'
    <3>1. H!Prove
      BY <1>2, <2>1, <2>3 DEF H!Prove
    <3> QED  BY <3>1 DEF H!Next
  <2> QED
    BY <1>3, <2>2, <2>3
<1>5. CASE ~UNCHANGED <<rOutcome, from>>
  <2>1. UNCHANGED proofs /\ rOutcome = "pending"
    BY <1>3, <1>5
  <2>2. from = {}
    BY <2>1 DEF TransferInv, RP!ReceiverInv, RP!VerdictHonest
  <2>3. LinkReport = "waiting"
    BY <2>1, <2>2 DEF LinkReport
  <2>4. CASE from' = {Link}
    <3>1. Link \in sent' /\ sent' \subseteq Holder'
      BY <2>4 DEF TransferInv, LinkInv, ShareEnvInv, IndInv, ShareInv
    <3>2. LinkGrant' = "sent" /\ LinkReport' = "received"
      BY <2>4, <3>1 DEF LinkGrant, LinkReport
    <3>3. H!Receive
      BY <1>2, <2>1, <2>3, <3>2 DEF H!Receive
    <3> QED  BY <3>3 DEF H!Next
  <2>5. CASE from' # {Link} /\ rOutcome' = "pending"
    <3>1. UNCHANGED LinkReport
      BY <2>3, <2>5 DEF LinkReport
    <3> QED  BY <1>2, <2>1, <3>1
  <2>6. CASE from' # {Link} /\ rOutcome' # "pending"
    <3>1. LinkReport' = "nothing"
      BY <2>6 DEF LinkReport
    <3>2. H!ReceiverGivesUp
      BY <1>2, <2>1, <2>3, <3>1 DEF H!ReceiverGivesUp
    <3> QED  BY <3>2 DEF H!Next
  <2> QED
    BY <2>4, <2>5, <2>6
<1> QED
  BY <1>4, <1>5

(* A step of the share grants, reports, or is nothing to the hand-over.    *)
(* The grant is one of OneShot's, to Link; that the receiver had proved    *)
(* and the sharer reported nothing yet is in what the reports agree on.    *)
LEMMA ShareRefines ==
  ASSUME TransferInv, TransferInv', OutcomeHonest', ShareStep
  PROVE  [H!Next]_(H!handoverVars)
<1> USE DEF H!handoverVars
<1>1. ShareEnvNext /\ UNCHANGED <<LinkReport, proofs>>
  BY ShareStepSimulates DEF rVars, LinkReport
<1>2. /\ UNCHANGED outcome \/ (Holder' = Holder /\ sent' = sent)
      /\ outcome # "pending" => UNCHANGED outcome
  BY <1>1, OneThingShared DEF TransferInv, ShareEnvInv
<1>3. OutcomeHonest /\ {outcome, outcome'} \subseteq {"pending", "ok", "aborted", "failed"}
  BY InvIsHonest DEF TransferInv, ShareEnvInv, ShareEnvTypeOK
<1>4. CASE Holder' = Holder /\ sent' = sent
  <2>1. UNCHANGED LinkGrant
    BY <1>4 DEF LinkGrant
  <2>2. CASE UNCHANGED outcome
    BY <1>1, <2>1, <2>2
  <2>3. CASE ~UNCHANGED outcome
    <3>1. outcome = "pending" /\ outcome' \in {"ok", "aborted", "failed"}
      BY <1>2, <1>3, <2>3
    <3>2. LinkGrant # "none" => outcome' = "ok"
      BY <1>3, <1>4, <3>1 DEF LinkGrant, OutcomeHonest
    <3>3. H!TellSharer
      BY <1>1, <2>1, <3>1, <3>2 DEF H!TellSharer
    <3> QED  BY <3>3 DEF H!Next
  <2> QED
    BY <2>2, <2>3
<1>5. CASE ~(Holder' = Holder /\ sent' = sent)
  <2>1. UNCHANGED outcome
    BY <1>2, <1>5
  <2>2. PICK c \in Conn : Abstract!Grant(c)
    <3>1. [Abstract!Next]_(Abstract!abstractVars)
      BY <1>1, EnvStepIsServerStep, StepRefines DEF TransferInv, ShareEnvInv
    <3> QED
      BY <1>5, <3>1 DEF Abstract!Next, Abstract!abstractVars, Abstract!GiveUp, Abstract!Complete
  <2>3. Holder = {} /\ Holder' = {c} /\ sent' \in {{}, {c}}
    BY <2>2 DEF Abstract!Grant
  <2>4. outcome = "pending"
    BY <1>3, <2>1, <2>3 DEF OutcomeHonest
  <2>5. LinkGrant = "none"
    BY <2>3 DEF LinkGrant
  <2>6. CASE c # Link
    <3>1. UNCHANGED LinkGrant
      BY <2>3, <2>5, <2>6 DEF LinkGrant
    <3> QED  BY <1>1, <2>1, <3>1
  <2>7. CASE c = Link
    <3>1. LinkGrant' \in {"sent", "lost"}
      BY <2>3, <2>7 DEF LinkGrant
    <3>2. Link \in proofs /\ SharePass = ReceivePass
      <4>1. Link \in proofs'
        BY <2>3, <2>7 DEF TransferInv, LinkInv
      <4>2. Link \in Authentic
        BY <2>2, <2>7 DEF Abstract!Grant
      <4> QED  BY <1>1, <4>1, <4>2, LinkFacts
    <3>3. H!Grant
      BY <1>1, <2>1, <2>4, <2>5, <3>1, <3>2 DEF H!Grant
    <3> QED  BY <3>3 DEF H!Next
  <2> QED
    BY <2>6, <2>7
<1> QED
  BY <1>4, <1>5

(* A transfer implements the hand-over that its users are promised.        *)
THEOREM TransferImplements == TransferSpec => ImplementsHandover
<1>1. TransferInit => H!Init
  <2> SUFFICES ASSUME TransferInit PROVE H!Init
    OBVIOUS
  <2>1. Holder = {} /\ outcome = "pending"
    BY DEF TransferInit, ShareEnvInit, Init, Holder, Claimed
  <2>2. from = {} /\ proofs = {}
    BY DEF TransferInit, R!ReceiverInit
  <2> QED
    BY <2>1, <2>2 DEF H!Init, LinkGrant, LinkReport
<1>2. TransferInv => OutcomeHonest
  BY InvIsHonest DEF TransferInv
<1>3. TransferInv /\ TransferInv' /\ OutcomeHonest' /\ [TransferNext]_transferVars
        => [H!Next]_(H!handoverVars)
  <2> SUFFICES ASSUME TransferInv, TransferInv', OutcomeHonest', [TransferNext]_transferVars
               PROVE  [H!Next]_(H!handoverVars)
    OBVIOUS
  <2>1. CASE UNCHANGED transferVars
    BY <2>1 DEF transferVars, shareEnvVars, vars, envVars, rVars, H!handoverVars,
       LinkGrant, LinkReport, Holder
  <2> QED
    BY <2>1, ReceiveRefines, ShareRefines DEF TransferNext
<1> QED
  BY <1>1, <1>2, <1>3, TransferInductive, PTL DEF TransferSpec, ImplementsHandover, H!Spec

=============================================================================
