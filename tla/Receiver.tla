------------------------------ MODULE Receiver ------------------------------
(***************************************************************************)
(* One receive: receiveEnv (src/sync.js), the announcements it hears       *)
(* through startListening (src/discovery.js) and the fetches it starts,    *)
(* fetchOnce (src/peer.js) running receiverFetch (src/handshake.js).       *)
(*                                                                         *)
(* A step is one callback of the event loop with its continuations. Timers *)
(* carry no clock: an armed timer may fire at any moment.                  *)
(***************************************************************************)
EXTENDS Naturals, FiniteSets

CONSTANTS
  Announcer,      \* who announces this room, as address and port
  Genuine,        \* those that hold the passphrase and a payload sealed under it
  MAX_ANNOUNCERS

ASSUME ReceiverAssumption ==
  /\ Genuine \subseteq Announcer
  /\ IsFiniteSet(Announcer)
  /\ MAX_ANNOUNCERS \in Nat

VARIABLES
  outcome,    \* how the promise of receiveEnv settled; done is outcome # "pending"
  from,       \* whose payload it was, as a set of at most one
  timer,      \* the receive window
  listener,   \* the UDP socket
  aborted,    \* signal.aborted
  seen,       \* announcers the listener has reported
  tried,      \* announcers receiveEnv has started a fetch for
  fetch,      \* where each fetch stands
  gone,       \* peers that ended the connection while scrypt ran
  early,      \* peers whose next frame arrived while scrypt runs
  proofs      \* announcers the passphrase proof was written to

receiverVars == <<outcome, from, timer, listener, aborted, seen, tried, fetch, gone, early, proofs>>

(* fetchOnce's promise is open: the socket is connecting, or receiverFetch *)
(* awaits the HELLO, scrypt or the capsule.                                *)
Live == {"connecting", "hello", "scrypt", "capsule"}

ReceiverTypeOK ==
  /\ outcome \in {"pending", "ok", "aborted", "nobody", "undecryptable"}
  /\ from \subseteq Announcer
  /\ timer \in {"none", "armed", "cleared", "fired"}
  /\ listener \in {"none", "on", "stopped"}
  /\ aborted \in BOOLEAN
  /\ seen \subseteq Announcer
  /\ tried \subseteq seen
  /\ fetch \in [Announcer -> {"none", "decrypting", "over"} \cup Live]
  /\ gone \subseteq Announcer
  /\ early \subseteq {a \in Announcer : fetch[a] = "scrypt"}
  /\ proofs \subseteq Announcer

(* A caller that is already cancelled is rejected at once, before anything *)
(* is started.                                                             *)
ReceiverInit ==
  /\ aborted \in BOOLEAN
  /\ outcome = IF aborted THEN "aborted" ELSE "pending"
  /\ timer = IF aborted THEN "none" ELSE "armed"
  /\ listener = IF aborted THEN "none" ELSE "on"
  /\ from = {}
  /\ seen = {}
  /\ tried = {}
  /\ fetch = [a \in Announcer |-> "none"]
  /\ gone = {}
  /\ early = {}
  /\ proofs = {}

done == outcome # "pending"

(* finish(): the first caller settles the receive and stops the listener.  *)
(* The timer is cleared, or has just fired.                                *)
finish(o, t) ==
  IF done
    THEN UNCHANGED <<outcome, listener, timer>>
    ELSE outcome' = o /\ timer' = t /\ listener' = "stopped"

-----------------------------------------------------------------------------
(* Discovery.                                                              *)

(* Mutant: off by one.                                                     *)
MayTryOneMore(a) == ~done /\ a \notin tried /\ Cardinality(tried) <= MAX_ANNOUNCERS

(* onFound goes on to fetch from a.                                        *)
MayTry(a) == ~done /\ a \notin tried /\ Cardinality(tried) < MAX_ANNOUNCERS

(* Mutant: the listener does not remember whom it reported.                *)
AnnouncementForgotten(a) ==
  /\ listener = "on"
  /\ a \notin seen
  /\ IF MayTry(a)
       THEN /\ tried' = tried \cup {a}
            /\ fetch' = [fetch EXCEPT ![a] = "connecting"]
       ELSE UNCHANGED <<tried, fetch>>
  /\ UNCHANGED <<outcome, from, timer, listener, aborted, seen, gone, early, proofs>>

(* The first datagram of announcer a for this room; later ones are ignored.*)
Announcement(a) ==
  /\ listener = "on"
  /\ a \notin seen
  /\ seen' = seen \cup {a}
  /\ IF MayTry(a)
       THEN /\ tried' = tried \cup {a}
            /\ fetch' = [fetch EXCEPT ![a] = "connecting"]
       ELSE UNCHANGED <<tried, fetch>>
  /\ UNCHANGED <<outcome, from, timer, listener, aborted, gone, early, proofs>>

-----------------------------------------------------------------------------
(* One fetch.                                                              *)

(* A fetch moves on: the frame that waited for scrypt is read, or dropped  *)
(* with the socket.                                                        *)
Goes(a, phase) ==
  /\ fetch' = [fetch EXCEPT ![a] = phase]
  /\ early' = early \ {a}
  /\ UNCHANGED <<outcome, from, timer, listener, aborted, seen, tried, gone>>

(* fetchOnce rejects: the socket is destroyed and the announcer given up.  *)
Fail(a) == Goes(a, "over") /\ UNCHANGED proofs

(* The connection is up: the attempt is counted, or refused by the room's  *)
(* attempt budget, and the HELLO goes out.                                 *)
Connected(a) ==
  /\ fetch[a] = "connecting"
  /\ \/ Fail(a)
     \/ Goes(a, "hello") /\ UNCHANGED proofs

(* The sharer's public key arrives, or something that is none.             *)
HelloRead(a) ==
  /\ fetch[a] = "hello"
  /\ \/ Fail(a)
     \/ Goes(a, "scrypt") /\ UNCHANGED proofs

(* A frame arrives while scrypt runs, and is kept for the next read.       *)
CapsuleBuffered(a) ==
  /\ fetch[a] = "scrypt"
  /\ a \notin early \cup gone
  /\ early' = early \cup {a}
  /\ UNCHANGED <<outcome, from, timer, listener, aborted, seen, tried, fetch, gone, proofs>>

(* The session is derived: the proof is written, and the capsule read. To  *)
(* a peer that ended nothing is sent, but its frame in the buffer is read  *)
(* before its end, and the failed write is reported only later.            *)
ScryptDone(a) ==
  /\ fetch[a] = "scrypt"
  /\ proofs' = IF a \in gone THEN proofs ELSE proofs \cup {a}
  /\ \/ a \in early /\ Goes(a, "over")
     \/ a \in early \cap Genuine /\ Goes(a, "decrypting")
     \/ a \notin early /\ Goes(a, IF a \in gone THEN "over" ELSE "capsule")

(* A capsule arrives. It opens only if the sharer knew the passphrase.     *)
CapsuleRead(a) ==
  /\ fetch[a] = "capsule"
  /\ \/ Fail(a)
     \/ a \in Genuine /\ Goes(a, "decrypting") /\ UNCHANGED proofs

(* The peer ends the connection: a pending read rejects at once.           *)
PeerEnds(a) ==
  \/ /\ fetch[a] \in {"hello", "capsule"}
     /\ Fail(a)
  \/ /\ fetch[a] = "scrypt"
     /\ a \notin gone
     /\ gone' = gone \cup {a}
     /\ UNCHANGED <<outcome, from, timer, listener, aborted, seen, tried, fetch, early, proofs>>

(* The connection is refused or breaks.                                    *)
SocketFails(a) == fetch[a] \in Live /\ Fail(a)

(* Mutant: the deadline counts from the connection only.                   *)
FetchTimeoutConnected(a) == fetch[a] \in Live \ {"connecting"} /\ Fail(a)

(* The fetch's own 15 seconds are over, whatever it is waiting for.        *)
FetchTimeout(a) == fetch[a] \in Live /\ Fail(a)

(* Mutant: the result is taken without asking whether the receive is over. *)
DecryptedLate(a) ==
  /\ fetch[a] = "decrypting"
  /\ outcome' = "ok"
  /\ timer' = "cleared"
  /\ listener' = "stopped"
  /\ from' = {a}
  /\ fetch' = [fetch EXCEPT ![a] = "over"]
  /\ UNCHANGED <<aborted, seen, tried, gone, early, proofs>>

(* The payload is decrypted: the receive succeeds, unless it ended before. *)
Decrypted(a) ==
  /\ fetch[a] = "decrypting"
  /\ finish("ok", "cleared")
  /\ from' = IF done THEN from ELSE {a}
  /\ fetch' = [fetch EXCEPT ![a] = "over"]
  /\ UNCHANGED <<aborted, seen, tried, gone, early, proofs>>

-----------------------------------------------------------------------------
(* The window and the caller.                                              *)

(* Mutant: the verdict counts announcers that completed, not those tried.  *)
WindowClosesUnseen ==
  /\ timer = "armed"
  /\ finish(IF proofs # {} THEN "undecryptable" ELSE "nobody", "fired")
  /\ UNCHANGED <<from, aborted, seen, tried, fetch, gone, early, proofs>>

(* The window closes. Fetches that are under way go on.                    *)
WindowCloses ==
  /\ timer = "armed"
  /\ finish(IF tried # {} THEN "undecryptable" ELSE "nobody", "fired")
  /\ UNCHANGED <<from, aborted, seen, tried, fetch, gone, early, proofs>>

(* Mutant: the signal is not handed to the fetches.                        *)
AbortReceiveOnly ==
  /\ ~aborted
  /\ aborted' = TRUE
  /\ finish("aborted", "cleared")
  /\ UNCHANGED <<from, seen, tried, fetch, gone, early, proofs>>

(* The signal fires: the receive is cancelled unless it is over, and every *)
(* open fetch is. A decryption cannot be cancelled.                        *)
Abort ==
  /\ ~aborted
  /\ aborted' = TRUE
  /\ finish("aborted", "cleared")
  /\ fetch' = [a \in Announcer |-> IF fetch[a] \in Live THEN "over" ELSE fetch[a]]
  /\ early' = {}
  /\ UNCHANGED <<from, seen, tried, gone, proofs>>

-----------------------------------------------------------------------------
Fetching(a) ==
  \/ Connected(a)
  \/ HelloRead(a)
  \/ CapsuleBuffered(a)
  \/ ScryptDone(a)
  \/ CapsuleRead(a)
  \/ PeerEnds(a)
  \/ SocketFails(a)
  \/ FetchTimeout(a)
  \/ Decrypted(a)

ReceiverNext ==
  \/ \E a \in Announcer : Announcement(a) \/ Fetching(a)
  \/ WindowCloses
  \/ Abort

ReceiverSpec == ReceiverInit /\ [][ReceiverNext]_receiverVars

(* Timers fire and the thread pool finishes. Nothing is owed by the        *)
(* network, the announcers or the caller.                                  *)
ReceiverFairSpec ==
  /\ ReceiverSpec
  /\ WF_receiverVars(WindowCloses)
  /\ \A a \in Announcer :
       /\ WF_receiverVars(ScryptDone(a))
       /\ WF_receiverVars(FetchTimeout(a))
       /\ WF_receiverVars(Decrypted(a))

-----------------------------------------------------------------------------
(* Properties.                                                             *)

(* Each attempt costs scrypt and a socket: at most MAX_ANNOUNCERS fetches  *)
(* are ever started, and tried accounts for every one of them.             *)
AttemptsBounded ==
  /\ tried = {a \in Announcer : fetch[a] # "none"}
  /\ Cardinality(tried) <= MAX_ANNOUNCERS

(* The verdict tells the truth: a success is the payload of a genuine peer *)
(* that was tried, and that got our proof unless it left before (a capsule *)
(* that came early is read all the same); "no matching peer" means nobody  *)
(* was tried; the decrypt failure means somebody was; a cancelled receive  *)
(* was cancelled.                                                          *)
VerdictHonest ==
  /\ outcome = "ok" <=> from # {}
  /\ from \subseteq Genuine \cap tried
  /\ from \subseteq proofs \cup gone
  /\ outcome = "nobody" => tried = {}
  /\ outcome = "undecryptable" => tried # {}
  /\ outcome = "aborted" => aborted

(* The first verdict stands: an answer that comes late, after the window   *)
(* or a cancellation, or second, changes nothing for the caller.           *)
VerdictFinal == [][done => UNCHANGED <<outcome, from>>]_receiverVars

(* A settled receive neither listens nor keeps its window timer.           *)
SettledIsQuiet == done => listener # "on" /\ timer # "armed"

(* "a live one stops the listener, the timer, and any in-flight fetches    *)
(* the moment it goes away": a cancelled receive neither listens nor waits,*)
(* and from then on proves the passphrase to nobody and tries nobody.      *)
CancelIsImmediate ==
  [][aborted => /\ listener # "on" /\ timer # "armed"
                /\ UNCHANGED <<proofs, tried>>]_receiverVars

(* Every fetch settles, whatever its announcer does, and so does the       *)
(* receive.                                                                *)
EverythingSettles ==
  /\ <>done
  /\ \A a \in Announcer : fetch[a] \in Live ~> fetch[a] \in {"decrypting", "over"}

=============================================================================
