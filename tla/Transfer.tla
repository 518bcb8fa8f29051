------------------------------ MODULE Transfer ------------------------------
(***************************************************************************)
(* Both ends of a transfer: one share (ShareEnv over Sharer) and one       *)
(* receive (Receiver), and the TCP connection Link between them. To the    *)
(* sharer Link is a connection like others, to the receiver its announcer; *)
(* the other connections and announcers stay what they are in the          *)
(* components, peers that do as they like.                                 *)
(*                                                                         *)
(* TCP keeps order: a side sees the other's end of stream after everything *)
(* sent before it. A reset may overtake.                                   *)
(***************************************************************************)
EXTENDS ShareEnv, Session

CONSTANTS
  Announcer, Genuine, MAX_ANNOUNCERS,   \* of the receive
  Link,
  SharePass, ReceivePass, RoomCode      \* what the two users typed

VARIABLES
  rOutcome, from, rTimer, listener, rAborted, seen, tried, fetch, gone, early, proofs,
  passed,     \* over Link: "hello"s of either side that were sent, "proof" once delivered
  calm        \* no deadline, cancellation, refused port or broken link so far

R == INSTANCE Receiver WITH outcome <- rOutcome, timer <- rTimer, aborted <- rAborted

rVars    == <<rOutcome, from, rTimer, listener, rAborted, seen, tried, fetch, gone, early, proofs>>
linkVars == <<passed, calm>>
transferVars == <<shareEnvVars, rVars, linkVars>>

(* The two sessions of an undisturbed key exchange over Link.              *)
AtSharer   == sharerSession("keyS", "keyR", SharePass, RoomCode)
AtReceiver == receiverSession("keyR", "keyS", ReceivePass, RoomCode)

ProofMatches == AtReceiver.confirmR = AtSharer.confirmR
CapsuleOpens ==
  LET blob == encrypt("env", SharePass, "salt")
  IN  opens(AtReceiver.kEnc, sealCapsule(AtSharer.kEnc, blob)) /\ decrypts(blob, ReceivePass)

(* Who can compute the proof, and whose capsule opens, follows for Link    *)
(* from what was typed.                                                    *)
ASSUME TransferAssumption ==
  /\ Link \in Conn \cap Announcer
  /\ Link \in Authentic <=> ProofMatches
  /\ Link \in Genuine <=> CapsuleOpens
  /\ Genuine \subseteq Announcer
  /\ IsFiniteSet(Announcer)
  /\ MAX_ANNOUNCERS \in Nat

TransferInit ==
  /\ ShareEnvInit
  /\ R!ReceiverInit
  /\ passed = {}
  /\ calm = (~aborted /\ ~rAborted)

Undisturbed == UNCHANGED calm
Disturbed   == calm' = FALSE

-----------------------------------------------------------------------------
(* The share.                                                              *)

ServerEvent(A) == created /\ ~ContinuationDue /\ A /\ UNCHANGED envVars

ShareProceeds ==
  \/ Call
  \/ Encrypted
  \/ Announce
  \/ Return
  \/ AnnouncerBound
  \/ ServerEvent(ListenSettles /\ server' = "listening")

ShareDisturbed ==
  \/ Abort
  \/ ReadyRejects
  \/ ServerEvent(OverallTimeout)
  \/ ServerEvent(ListenSettles /\ server' = "failed")
  \/ ServerEvent(HandshakeDeadline(Link))

OtherConnections == \E c \in Conn \ {Link} : ServerEvent(Handshake(c))

(* The receiver has closed its socket: its fetch is over, or has what it   *)
(* came for.                                                               *)
ReceiverClosed == fetch[Link] \in {"decrypting", "over"}

(* Everything the receiver sent has reached the sharer's reader.           *)
SharerReadAll ==
  /\ "helloR" \in passed => handler[Link] \notin {"payload", "hello"}
  /\ Link \in proofs => "proof" \in passed

(* The sharer's side of Link goes on: the connection is accepted or turned *)
(* away, and the handshake runs.                                           *)
SharerProceeds ==
  \/ fetch[Link] # "none" /\ (Admit(Link) \/ TurnAway(Link))
  \/ PayloadReady(Link)
  \/ ScryptDone(Link)
  \/ EndReported(Link)
  \/ ReceiverClosed /\ SharerReadAll /\ PeerEnds(Link)

(* The receiver's proof arrives, while scrypt runs or after it.            *)
SharerProof ==
  /\ Link \in proofs
  /\ "proof" \notin passed
  /\ \E f \in Frame :
       /\ f = "proof" <=> ProofMatches
       /\ FrameBuffered(Link, f) \/ ProofRead(Link, f)
  /\ passed' = passed \cup {"proof"}

(* The receiver's public key arrives, and the sharer's goes back.          *)
SharerHello ==
  /\ "helloR" \in passed
  /\ HelloRead(Link)
  /\ passed' = passed \cup {"helloS"}

(* A reset by a receiver that closed early, or a broken network.           *)
SharerReset == SocketFails(Link) /\ calm' = (calm /\ fetch[Link] = "over")

ShareStep ==
  /\ \/ /\ ShareProceeds \/ OtherConnections \/ ServerEvent(SharerProceeds)
        /\ Undisturbed /\ UNCHANGED passed
     \/ ShareDisturbed /\ Disturbed /\ UNCHANGED passed
     \/ ServerEvent(SharerHello \/ SharerProof) /\ Undisturbed
     \/ ServerEvent(SharerReset) /\ UNCHANGED passed
  /\ UNCHANGED rVars

-----------------------------------------------------------------------------
(* The receive.                                                            *)

OtherAnnouncers == \E a \in Announcer \ {Link} : R!Announcement(a) \/ R!Fetching(a)

(* The sharer has ended the connection, whatever for.                      *)
SharerClosed == sock[Link] \in {"ended", "lost"} \/ handler[Link] \in Claimed

(* Mutant: the frame reader reports an end before the frames in its buffer.*)
ReceiverReadNothing == "helloS" \in passed => fetch[Link] # "hello"

(* Everything the sharer sent has been read: a frame in the buffer comes   *)
(* before the end.                                                         *)
ReceiverReadAll ==
  /\ "helloS" \in passed => fetch[Link] # "hello"
  /\ Link \in sent => fetch[Link] # "capsule"

ReceiverProceeds ==
  \/ broadcast /\ R!Announcement(Link)
  \/ "helloS" \in passed /\ R!HelloRead(Link) /\ fetch'[Link] = "scrypt"
  \/ R!ScryptDone(Link)
  \/ /\ Link \in sent
     /\ R!CapsuleRead(Link)
     /\ fetch'[Link] = IF CapsuleOpens THEN "decrypting" ELSE "over"
  \/ R!Decrypted(Link)
  \/ SharerClosed /\ ReceiverReadAll /\ R!PeerEnds(Link)

(* The connection is up, and the HELLO goes out.                           *)
ReceiverConnects ==
  /\ server = "listening" \/ handler[Link] # "idle"
  /\ R!Connected(Link)
  /\ fetch'[Link] = "hello"
  /\ passed' = passed \cup {"helloR"}

(* The attempt budget may refuse the connection.                           *)
ReceiveDisturbed ==
  \/ R!Connected(Link) /\ fetch'[Link] = "over"
  \/ R!FetchTimeout(Link)
  \/ R!WindowCloses
  \/ R!Abort

(* The sharer refused, does not listen any more, or the network broke.     *)
ReceiverReset ==
  /\ R!SocketFails(Link)
  /\ calm' = (calm /\ (handler[Link] = "refused" \/ (handler[Link] = "idle" /\ server = "closed")))

ReceiveStep ==
  /\ \/ (ReceiverProceeds \/ OtherAnnouncers) /\ Undisturbed /\ UNCHANGED passed
     \/ ReceiverConnects /\ Undisturbed
     \/ ReceiveDisturbed /\ Disturbed /\ UNCHANGED passed
     \/ ReceiverReset /\ UNCHANGED passed
  /\ UNCHANGED shareEnvVars

-----------------------------------------------------------------------------
TransferNext == ShareStep \/ ReceiveStep

TransferSpec == TransferInit /\ [][TransferNext]_transferVars

(* What the two users' own processes and the network between them owe:     *)
(* due continuations run, scrypt finishes, the repeated announcement and   *)
(* what was sent over Link arrive. No deadline is owed, and nothing by     *)
(* other peers.                                                            *)
Progress ==
  \/ /\ \/ ShareProceeds
        \/ ServerEvent(SharerProceeds)
     /\ Undisturbed /\ UNCHANGED <<passed, rVars>>
  \/ ServerEvent(SharerHello \/ SharerProof) /\ Undisturbed /\ UNCHANGED rVars
  \/ ReceiverProceeds /\ Undisturbed /\ UNCHANGED <<passed, shareEnvVars>>
  \/ ReceiverConnects /\ Undisturbed /\ UNCHANGED shareEnvVars

TransferFairSpec == TransferSpec /\ WF_transferVars(Progress)

-----------------------------------------------------------------------------
(* Properties.                                                             *)

(* No sharer is told that nothing was handed over when it was: who has     *)
(* received from this sharer was granted the capsule and sent it, and that *)
(* share does not report a timeout, a failure or a cancellation. (A capsule*)
(* may be lost, so a sharer told Sent need not have a receiver that has    *)
(* it.) And a grant to Link is one for a proof that this receiver computed *)
(* from the same passphrase.                                               *)
Agreement ==
  /\ from = {Link} => Link \in sent /\ outcome \in {"pending", "ok"}
  /\ Link \in Holder => Link \in proofs /\ ReceivePass = SharePass

(* What became of the capsule on Link, and what the receiver was told.     *)
LinkGrant ==
  IF Link \notin Holder THEN "none" ELSE IF Link \in sent THEN "sent" ELSE "lost"
LinkReport ==
  IF from = {Link} THEN "received" ELSE IF rOutcome = "pending" THEN "waiting" ELSE "nothing"

(* The two ends implement the hand-over that their users are promised: at  *)
(* no step is a credential granted that the sharer was told is still safe, *)
(* received that was not sent, or a report to either user taken back.      *)
H == INSTANCE Handover WITH
  SamePassphrase <- (SharePass = ReceivePass),
  proved <- (Link \in proofs), grant <- LinkGrant,
  sharerTold <- outcome, receiverTold <- LinkReport
ImplementsHandover == H!Spec

(* A capsule is not lost between two ends that are left alone: a fetch     *)
(* that was granted the credential ends with the payload, behind whatever  *)
(* ends of stream follow. Only a deadline, a cancellation or a broken      *)
(* connection separates "Sent" from "Received".                            *)
GrantDelivers == calm /\ Link \in Holder /\ fetch[Link] = "over" => from # {}

(* Two users with the same passphrase who are left alone succeed, both     *)
(* told so, in whichever order they started and whoever else connects or   *)
(* announces, unless another genuine peer came first.                      *)
LeftAlone ==
  ([]calm) => <>( \/ from = {Link} /\ outcome = "ok"
                  \/ from \ {Link} # {}
                  \/ Holder \ {Link} # {} )

=============================================================================
