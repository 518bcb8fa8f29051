------------------------------ MODULE ShareEnv ------------------------------
(***************************************************************************)
(* shareEnv (src/sync.js): encrypt, listen, announce, serve once, with an  *)
(* AbortSignal that may fire at any moment, over the server of Sharer and  *)
(* the announcer of startAnnouncing (src/discovery.js).                    *)
(*                                                                         *)
(* A continuation of an await runs before the next event, so the server is *)
(* held still while one is due. An abort is not: the code expects one to   *)
(* land in that gap.                                                       *)
(***************************************************************************)
EXTENDS Sharer

VARIABLES
  pc,          \* where shareEnv stands: the await it is suspended in
  created,     \* has listenForOnePeer been called
  aborted,     \* signal.aborted
  announcer,   \* the announcer's socket
  broadcast,   \* has an announcement been sent
  outcome      \* how the promise of shareEnv settled

envVars   == <<pc, created, aborted, announcer, broadcast, outcome>>
shareEnvVars == <<vars, envVars>>

ShareEnvTypeOK ==
  /\ pc \in {"called", "encrypting", "ready", "serving", "done"}
  /\ created \in BOOLEAN
  /\ aborted \in BOOLEAN
  /\ announcer \in {"none", "binding", "announcing", "stopped"}
  /\ broadcast \in BOOLEAN
  /\ outcome \in {"pending", "ok", "aborted", "failed"}
  /\ outcome = "pending" <=> pc # "done"

(* A server that listenForOnePeer has not created yet takes no step.       *)
ShareEnvInit ==
  /\ Init
  /\ pc = "called"
  /\ created = FALSE
  /\ aborted \in BOOLEAN
  /\ announcer = "none"
  /\ broadcast = FALSE
  /\ outcome = "pending"

-----------------------------------------------------------------------------
Finish(o) == pc' = "done" /\ outcome' = o

ThrowAborted == Finish("aborted") /\ UNCHANGED <<vars, created, announcer>>

(* The call, up to the first await.                                        *)
Call ==
  /\ pc = "called"
  /\ IF aborted
       THEN ThrowAborted
       ELSE pc' = "encrypting" /\ UNCHANGED <<vars, created, announcer, outcome>>
  /\ UNCHANGED <<aborted, broadcast>>

(* The payload is encrypted; the server is created.                        *)
Encrypted ==
  /\ pc = "encrypting"
  /\ IF aborted
       THEN ThrowAborted
       ELSE /\ pc' = "ready"
            /\ created' = TRUE
            /\ UNCHANGED <<vars, announcer, outcome>>
  /\ UNCHANGED <<aborted, broadcast>>

(* Mutant: the rejection is swallowed.                                     *)
ReadyRejectsQuietly ==
  /\ pc = "ready"
  /\ server = "failed"
  /\ pc' = "done"
  /\ UNCHANGED <<vars, created, aborted, announcer, broadcast, outcome>>

(* ready rejects: shareEnv throws, and nobody has called send() or stop(). *)
ReadyRejects ==
  /\ pc = "ready"
  /\ server = "failed"
  /\ Finish("failed")
  /\ UNCHANGED <<vars, created, aborted, announcer, broadcast>>

(* Mutants: served is awaited before the payload is handed in; the abort is*)
(* not looked at again after the listener is attached.                     *)
AnnounceWithoutPayload ==
  /\ pc = "ready"
  /\ server = "listening"
  /\ pc' = "serving"
  /\ announcer' = "binding"
  /\ UNCHANGED <<vars, created, aborted, broadcast, outcome>>

AnnounceUnchecked ==
  /\ pc = "ready"
  /\ server = "listening"
  /\ Send
  /\ pc' = "serving"
  /\ announcer' = "binding"
  /\ UNCHANGED <<created, aborted, broadcast, outcome>>

(* ready resolves: the announcer starts, the abort listener is attached,   *)
(* the signal is looked at once more and the payload handed in.            *)
Announce ==
  /\ pc = "ready"
  /\ server = "listening"
  /\ IF aborted
       THEN Stop /\ Finish("aborted") /\ announcer' = "stopped"
       ELSE Send /\ pc' = "serving" /\ announcer' = "binding" /\ UNCHANGED outcome
  /\ UNCHANGED <<created, aborted, broadcast>>

(* Mutants of the end: the announcer is left running; the abort is         *)
(* reported without looking at what the server said.                       *)
ReturnAnnouncing ==
  /\ pc = "serving"
  /\ served # "pending"
  /\ Finish(CASE served = "resolved" -> "ok"
              [] served # "resolved" -> IF aborted THEN "aborted" ELSE "failed")
  /\ UNCHANGED <<vars, created, aborted, announcer, broadcast>>

ReturnAbortFirst ==
  /\ pc = "serving"
  /\ served # "pending"
  /\ Finish(IF aborted THEN "aborted" ELSE IF served = "resolved" THEN "ok" ELSE "failed")
  /\ announcer' = "stopped"
  /\ UNCHANGED <<vars, created, aborted, broadcast>>

(* served settles: shareEnv returns or throws, and the announcer stops.    *)
Return ==
  /\ pc = "serving"
  /\ served # "pending"
  /\ Finish(CASE served = "resolved" -> "ok"
              [] served # "resolved" -> IF aborted THEN "aborted" ELSE "failed")
  /\ announcer' = "stopped"
  /\ UNCHANGED <<vars, created, aborted, broadcast>>

(* The signal fires. Only while shareEnv awaits served is anyone listening.*)
Abort ==
  /\ ~aborted
  /\ aborted' = TRUE
  /\ IF pc = "serving"
       THEN Stop /\ announcer' = "stopped"
       ELSE UNCHANGED <<vars, announcer>>
  /\ UNCHANGED <<pc, created, broadcast, outcome>>

-----------------------------------------------------------------------------
(* The announcer's own events.                                             *)

(* Mutant: the bind callback does not look at stopped.                     *)
AnnouncerBoundUnchecked ==
  /\ announcer \in {"binding", "stopped"}
  /\ announcer' = "announcing"
  /\ broadcast' = TRUE
  /\ UNCHANGED <<vars, pc, created, aborted, outcome>>

(* The socket is bound: the first announcement goes out and the interval   *)
(* starts. After stop() the callback returns at once.                      *)
AnnouncerBound ==
  /\ announcer = "binding"
  /\ announcer' = "announcing"
  /\ broadcast' = TRUE
  /\ UNCHANGED <<vars, pc, created, aborted, outcome>>

-----------------------------------------------------------------------------
(* A continuation of shareEnv is due.                                      *)
ContinuationDue ==
  \/ pc = "ready" /\ server \in {"listening", "failed"}
  \/ pc = "serving" /\ served # "pending"

(* An event of the server, which shareEnv alone sends to and stops.        *)
ServerStep ==
  /\ created
  /\ ~ContinuationDue
  /\ \/ ListenSettles
     \/ OverallTimeout
     \/ \E c \in Conn : Handshake(c)
  /\ UNCHANGED envVars

ShareEnvNext ==
  \/ Call
  \/ Encrypted
  \/ ReadyRejects
  \/ Announce
  \/ Return
  \/ Abort
  \/ AnnouncerBound
  \/ ServerStep

ShareEnvSpec == ShareEnvInit /\ [][ShareEnvNext]_shareEnvVars

(* The runtime runs what is due; the server's own timers and callbacks     *)
(* fire as in Sharer. No fairness for the abort or the peers.              *)
ShareEnvFairSpec ==
  /\ ShareEnvSpec
  /\ WF_shareEnvVars(Call)
  /\ WF_shareEnvVars(Encrypted)
  /\ WF_shareEnvVars(ReadyRejects \/ Announce)
  /\ WF_shareEnvVars(Return)
  /\ WF_shareEnvVars(ServerStep /\ ListenSettles)
  /\ WF_shareEnvVars(ServerStep /\ OverallTimeout)

-----------------------------------------------------------------------------
(* Properties.                                                             *)

(* "share state never outlives the browser action that started it": once   *)
(* shareEnv has settled, whichever of its awaits it left from, it neither  *)
(* announces nor accepts.                                                  *)
NothingOutlives ==
  pc = "done" => announcer \in {"none", "stopped"} /\ server # "listening"

(* A disconnected client stops both listener and announcer at once: after  *)
(* an abort shareEnv awaits served only for a peer that already claimed it.*)
AbortStopsSharing ==
  aborted /\ pc = "serving" =>
    /\ announcer = "stopped"
    /\ server # "listening"
    /\ Holder # {} \/ served # "pending"

(* What shareEnv reports is what happened: ok after a grant to an authentic*)
(* peer, "cancelled before a peer arrived" and any other failure only when *)
(* nobody was given the capsule.                                           *)
OutcomeHonest ==
  /\ outcome = "ok" => Holder # {}
  /\ outcome = "aborted" => aborted /\ Holder = {} /\ sent = {}
  /\ outcome = "failed" => Holder = {} /\ sent = {}

(* Nothing reaches a wire once shareEnv has settled: handshakes that are   *)
(* still running, with proofs still to be checked, come to nothing.        *)
SilentAfterSettling == [][pc = "done" => sent' = sent]_shareEnvVars

(* No share is announced that the client had already cancelled, and the    *)
(* announcement stops with the share.                                      *)
AnnouncedWhileServing == [][broadcast' # broadcast => pc = "serving" /\ ~aborted]_shareEnvVars

(* Every share ends, unless a peer won it: encrypting, listening and the   *)
(* window all come to an end, with or without an abort.                    *)
ShareEnds == <>(pc = "done" \/ Holder # {})

(* What the repository says and the code does not do: "share state never   *)
(* outlives the browser action that started it" (src/sync.js). The overall *)
(* timer does when listening failed; its rejection of served is then one   *)
(* that nobody handles.                                                    *)
NoTimerOutlives == created /\ pc = "done" => timer # "armed"

=============================================================================
