---------------------------- MODULE SharerProofs ----------------------------
(***************************************************************************)
(* For any number of connections and any cap: the sharer's state keeps its *)
(* types and its slot count, serves at most one authentic peer, sends      *)
(* nothing after a failure, and implements OneShot.                        *)
(***************************************************************************)
EXTENDS Sharer, FiniteSetTheorems, TLAPS

(* What ties the share's outcome to the connections. Claiming is the only  *)
(* way to become a holder, and it needs ~settled: so the first conjunct    *)
(* makes a second claim impossible, and the third makes every claim, also  *)
(* one of a proof that waited in the buffer, an authentic peer's.          *)
ShareInv ==
  /\ settled = (Holder # {} \/ served # "pending")
  /\ TimerTracksTransfer
  /\ \A c \in Conn : inbox[c] = "proof" => c \in Authentic
  /\ Holder \subseteq Authentic
  /\ \A c, d \in Holder : c = d
  /\ sent \subseteq Holder
  /\ served \in {"expired", "stopped"} => Holder = {}
  /\ served = "resolved" => \E c \in Conn : handler[c] = "done"
  /\ server = "closed" => settled

IndInv == TypeOK /\ SlotsAccounted /\ ShareInv

-----------------------------------------------------------------------------
(* Slots.                                                                  *)

(* The connections that hold a slot are finitely many, and their number is *)
(* a natural number.                                                       *)
LEMMA SlotsFinite == IsFiniteSet(HoldsSlot) /\ Cardinality(HoldsSlot) \in Nat
<1>1. HoldsSlot \subseteq Conn  BY DEF HoldsSlot
<1>2. IsFiniteSet(HoldsSlot)  BY <1>1, FS_Subset, SharerAssumption
<1> QED  BY <1>2, FS_CardinalityType

(* A connection whose handler moves between two states that both hold a    *)
(* slot, or both hold none, leaves the set of slot holders as it is.       *)
LEMMA KeepSlot ==
  ASSUME TypeOK, NEW c \in Conn, NEW h,
         handler' = [handler EXCEPT ![c] = h],
         handler[c] \in Busy <=> h \in Busy
  PROVE  HoldsSlot' = HoldsSlot
BY DEF HoldsSlot, TypeOK

(* Admission takes exactly one slot.                                       *)
LEMMA TakeSlot ==
  ASSUME TypeOK, NEW c \in Conn, NEW h \in Busy,
         handler' = [handler EXCEPT ![c] = h],
         handler[c] \notin Busy
  PROVE  Cardinality(HoldsSlot') = Cardinality(HoldsSlot) + 1
<1>1. HoldsSlot' = HoldsSlot \cup {c}  BY DEF HoldsSlot, TypeOK
<1>2. c \notin HoldsSlot  BY DEF HoldsSlot
<1> QED  BY <1>1, <1>2, SlotsFinite, FS_AddElement

(* A refusal or a claim gives exactly one back.                            *)
LEMMA LeaveSlot ==
  ASSUME TypeOK, NEW c \in Conn, NEW h,
         handler' = [handler EXCEPT ![c] = h],
         handler[c] \in Busy, h \notin Busy
  PROVE  /\ Cardinality(HoldsSlot') = Cardinality(HoldsSlot) - 1
         /\ Cardinality(HoldsSlot) - 1 \in Nat
<1>1. HoldsSlot' = HoldsSlot \ {c}  BY DEF HoldsSlot, TypeOK
<1>2. c \in HoldsSlot  BY DEF HoldsSlot
<1>3. Cardinality(HoldsSlot') = Cardinality(HoldsSlot) - 1
  BY <1>1, <1>2, SlotsFinite, FS_RemoveElement
<1>4. IsFiniteSet(HoldsSlot')  BY <1>1, SlotsFinite, FS_RemoveElement
<1>5. Cardinality(HoldsSlot') \in Nat  BY <1>4, FS_CardinalityType
<1> QED  BY <1>3, <1>5

-----------------------------------------------------------------------------
(* The ways a handshake ends.                                              *)

(* Refusing a peer that holds a slot preserves the invariant, whatever     *)
(* becomes of its buffer and reader.                                       *)
LEMMA RefuseInv ==
  ASSUME IndInv, NEW c \in Conn, handler[c] \in Busy, Refuse(c),
         reader' \in [Conn -> {"open", "ended", "failed"}],
         inbox' = inbox \/ inbox' = [inbox EXCEPT ![c] = "none"]
  PROVE  IndInv'
<1> USE DEF IndInv
<1>h. handler' = [handler EXCEPT ![c] = "refused"]  BY DEF Refuse
<1>1. TypeOK'
  <2>1. inFlight' \in Nat
    BY <1>h, LeaveSlot DEF Refuse, Release, SlotsAccounted, Busy
  <2> QED  BY <2>1 DEF TypeOK, Refuse, Release, shareVars
<1>2. SlotsAccounted'
  <2>1. inFlight' = Cardinality(HoldsSlot') /\ inFlight' \in Nat
    BY <1>h, LeaveSlot DEF Refuse, Release, SlotsAccounted, Busy
  <2> QED  BY <2>1, SharerAssumption DEF Refuse, Release, SlotsAccounted, TypeOK
<1>3. Holder' = Holder
  BY <1>h DEF Holder, Claimed, Busy, TypeOK
<1>4. \A d \in Conn : handler[d] = "done" => handler'[d] = "done"
  BY <1>h DEF Busy, TypeOK
<1>5. \A d \in Conn : inbox'[d] = "proof" => inbox[d] = "proof"
  BY DEF TypeOK
<1>6. ShareInv'
  BY <1>3, <1>4, <1>5 DEF ShareInv, TimerTracksTransfer, Refuse, shareVars
<1> QED  BY <1>1, <1>2, <1>6

(* So does serving an authentic peer while nothing has settled.            *)
LEMMA ClaimInv ==
  ASSUME IndInv, NEW c \in Authentic, handler[c] \in Busy, ~settled, Claim(c),
         UNCHANGED reader,
         inbox' = inbox \/ inbox' = [inbox EXCEPT ![c] = "none"]
  PROVE  IndInv'
<1> USE DEF IndInv
<1>c. c \in Conn  BY SharerAssumption
<1>h. handler' = [handler EXCEPT ![c] = "ending"]  BY DEF Claim
<1>n. inFlight' = Cardinality(HoldsSlot') /\ inFlight' \in Nat
  BY <1>c, <1>h, LeaveSlot DEF Claim, Release, SlotsAccounted, Busy
<1>1. TypeOK'
  BY <1>c, <1>n DEF TypeOK, Claim, Release, Claimed
<1>2. SlotsAccounted'
  BY <1>n, SharerAssumption DEF Claim, Release, SlotsAccounted, TypeOK
<1>3. Holder = {} /\ Holder' = {c}
  <2>1. Holder = {}  BY DEF ShareInv
  <2>2. \A d \in Conn : handler[d] \notin Claimed  BY <2>1 DEF Holder
  <2>3. \A d \in Conn : handler'[d] \in Claimed <=> d = c
    BY <1>c, <1>h, <2>2 DEF Claimed, TypeOK
  <2> QED  BY <1>c, <2>1, <2>3 DEF Holder
<1>5. \A d \in Conn : inbox'[d] = "proof" => inbox[d] = "proof"
  BY DEF TypeOK
<1>6. served = "pending"  BY DEF ShareInv
<1>7. sent' \subseteq {c}  BY <1>3 DEF Claim, ShareInv
<1>8. ShareInv'
  BY <1>3, <1>5, <1>6, <1>7 DEF ShareInv, TimerTracksTransfer, Claim
<1> QED  BY <1>1, <1>2, <1>8

(* Hence what follows the peer's proof does, whichever frame was read.     *)
LEMMA JudgeInv ==
  ASSUME IndInv, NEW c \in Conn, NEW f \in Frame, handler[c] \in Busy,
         CanSend(c, f), Judge(c, f), UNCHANGED reader,
         inbox' = inbox \/ inbox' = [inbox EXCEPT ![c] = "none"]
  PROVE  IndInv'
<1>1. CASE f = "proof" /\ ~settled
  BY <1>1, ClaimInv DEF Judge, CanSend
<1>2. CASE ~(f = "proof" /\ ~settled)
  <2>1. Refuse(c)  BY <1>2 DEF Judge
  <2>2. reader' \in [Conn -> {"open", "ended", "failed"}]  BY DEF IndInv, TypeOK
  <2> QED  BY <2>1, <2>2, RefuseInv
<1> QED  BY <1>1, <1>2

(* The socket's end or failure refuses the peer or is only recorded.       *)
LEMMA HangupInv ==
  ASSUME IndInv, NEW c \in Conn, NEW s \in {"ended", "lost"},
         NEW n \in {"ended", "failed"}, Hangup(c, s, n)
  PROVE  IndInv'
<1> USE DEF IndInv
<1>1. CASE Waiting(c)
  <2>1. Refuse(c) /\ reader' = [reader EXCEPT ![c] = n] /\ inbox' = inbox
    BY <1>1 DEF Hangup
  <2>2. reader' \in [Conn -> {"open", "ended", "failed"}]  BY <2>1 DEF TypeOK
  <2>3. handler[c] \in Busy  BY <1>1 DEF Waiting, Busy
  <2> QED  BY <2>1, <2>2, <2>3, RefuseInv
<1>2. CASE ~Waiting(c)
  <2>1. UNCHANGED <<shareVars, handler, inbox, hsTimer, inFlight, sent>>
    BY <1>2 DEF Hangup
  <2>2. TypeOK'
    BY <1>2, <2>1 DEF Hangup, TypeOK, shareVars
  <2>3. SlotsAccounted'  BY <2>1 DEF SlotsAccounted, HoldsSlot
  <2>4. ShareInv'
    BY <2>1 DEF ShareInv, TimerTracksTransfer, Holder, shareVars
  <2> QED  BY <2>2, <2>3, <2>4
<1> QED  BY <1>1, <1>2

-----------------------------------------------------------------------------
(* The invariant is inductive.                                             *)

(* The initial state satisfies it.                                         *)
LEMMA InitInv == Init => IndInv
<1> SUFFICES ASSUME Init PROVE IndInv  OBVIOUS
<1> USE DEF Init
<1>1. TypeOK  BY DEF TypeOK
<1>2. HoldsSlot = {} /\ Holder = {}
  BY DEF HoldsSlot, Holder, Busy, Claimed
<1>3. SlotsAccounted
  BY <1>2, FS_EmptySet, SharerAssumption DEF SlotsAccounted
<1>4. ShareInv  BY <1>2 DEF ShareInv, TimerTracksTransfer
<1> QED  BY <1>1, <1>3, <1>4 DEF IndInv

(* So does whatever one connection's event leads to.                       *)
LEMMA HandshakeInv ==
  ASSUME IndInv, NEW c \in Conn, Handshake(c)
  PROVE  IndInv'
<1> USE DEF IndInv
<1>1. CASE TurnAway(c)
  <2>1. TypeOK'  BY <1>1 DEF TurnAway, TypeOK, shareVars
  <2>2. HoldsSlot' = HoldsSlot
    BY <1>1, KeepSlot DEF TurnAway, Arrives, Busy
  <2>3. SlotsAccounted'  BY <1>1, <2>2 DEF SlotsAccounted, TurnAway
  <2>4. Holder' = Holder
    BY <1>1 DEF TurnAway, Arrives, Holder, Claimed, TypeOK
  <2>5. ShareInv'
    BY <1>1, <2>4 DEF ShareInv, TimerTracksTransfer, TurnAway, Arrives, shareVars, TypeOK
  <2> QED  BY <2>1, <2>3, <2>5
<1>2. CASE Admit(c)
  <2>h. PICK h \in Busy : handler' = [handler EXCEPT ![c] = h]
    BY <1>2 DEF Admit, Busy
  <2>n. Cardinality(HoldsSlot') = Cardinality(HoldsSlot) + 1
    BY <1>2, <2>h, TakeSlot DEF Admit, Arrives, Busy
  <2>1. TypeOK'  BY <1>2, <2>h DEF Admit, TypeOK, shareVars
  <2>3. SlotsAccounted'
    BY <1>2, <2>n, SharerAssumption DEF SlotsAccounted, Admit, MayHandshake, TypeOK
  <2>4. Holder' = Holder
    BY <1>2, <2>h DEF Admit, Arrives, Holder, Claimed, Busy, TypeOK
  <2>5. ShareInv'
    BY <1>2, <2>4 DEF ShareInv, TimerTracksTransfer, Admit, MayHandshake, shareVars
  <2> QED  BY <2>1, <2>3, <2>5
<1>3. CASE PayloadReady(c) \/ HelloRead(c)
  <2>h. PICK h \in {"hello", "scrypt"} : handler' = [handler EXCEPT ![c] = h]
    BY <1>3 DEF PayloadReady, HelloRead
  <2>1. TypeOK'  BY <1>3, <2>h DEF PayloadReady, HelloRead, TypeOK, Busy, shareVars
  <2>2. HoldsSlot' = HoldsSlot
    BY <1>3, <2>h, KeepSlot DEF PayloadReady, HelloRead, Busy
  <2>3. SlotsAccounted'  BY <1>3, <2>2 DEF SlotsAccounted, PayloadReady, HelloRead
  <2>4. /\ Holder' = Holder
        /\ \A d \in Conn : handler[d] = "done" => handler'[d] = "done"
    BY <1>3, <2>h DEF PayloadReady, HelloRead, Holder, Claimed, TypeOK
  <2>5. ShareInv'
    BY <1>3, <2>4 DEF ShareInv, TimerTracksTransfer, PayloadReady, HelloRead, shareVars
  <2> QED  BY <2>1, <2>3, <2>5
<1>4. CASE BadHello(c)
  <2>1. handler[c] \in Busy /\ Refuse(c) /\ reader' = reader /\ inbox' = inbox
    BY <1>4 DEF BadHello, Busy
  <2>2. reader' \in [Conn -> {"open", "ended", "failed"}]  BY <2>1 DEF TypeOK
  <2> QED  BY <2>1, <2>2, RefuseInv
<1>5. ASSUME NEW f \in Frame, FrameBuffered(c, f) PROVE IndInv'
  <2>1. TypeOK'  BY <1>5 DEF FrameBuffered, TypeOK, shareVars
  <2>2. SlotsAccounted'  BY <1>5 DEF FrameBuffered, SlotsAccounted, HoldsSlot
  <2>3. \A d \in Conn : inbox'[d] = "proof" => d \in Authentic
    BY <1>5 DEF FrameBuffered, CanSend, ShareInv, TypeOK
  <2>4. ShareInv'
    BY <1>5, <2>3 DEF FrameBuffered, ShareInv, TimerTracksTransfer, Holder, shareVars
  <2> QED  BY <2>1, <2>2, <2>4
<1>6. ASSUME NEW f \in Frame, ProofRead(c, f) PROVE IndInv'
  BY <1>6, JudgeInv DEF ProofRead, Busy
<1>7. CASE ScryptDone(c)
  <2>b. handler[c] \in Busy /\ reader' = reader  BY <1>7 DEF ScryptDone, Busy
  <2>r. reader' \in [Conn -> {"open", "ended", "failed"}]  BY <2>b DEF TypeOK
  <2>1. CASE Refuse(c) /\ inbox' = inbox
    BY <2>1, <2>b, <2>r, RefuseInv
  <2>2. CASE /\ inbox[c] # "none"
             /\ Judge(c, inbox[c])
             /\ inbox' = [inbox EXCEPT ![c] = "none"]
    <3>1. inbox[c] \in Frame  BY <2>2 DEF TypeOK
    <3>2. CanSend(c, inbox[c])  BY DEF CanSend, ShareInv
    <3> QED  BY <2>2, <2>b, <3>1, <3>2, JudgeInv
  <2>3. CASE /\ handler' = [handler EXCEPT ![c] = "proof"]
             /\ UNCHANGED <<shareVars, sock, inbox, hsTimer, inFlight, sent>>
    <3>1. TypeOK'  BY <2>3, <2>b DEF TypeOK, Busy, shareVars
    <3>2. HoldsSlot' = HoldsSlot  BY <2>3, <2>b, KeepSlot DEF Busy
    <3>3. SlotsAccounted'  BY <2>3, <3>2 DEF SlotsAccounted
    <3>4. /\ Holder' = Holder
          /\ \A d \in Conn : handler[d] = "done" => handler'[d] = "done"
      BY <2>3, <2>b DEF Holder, Claimed, Busy, TypeOK
    <3>5. ShareInv'
      BY <2>3, <3>4 DEF ShareInv, TimerTracksTransfer, shareVars
    <3> QED  BY <3>1, <3>3, <3>5
  <2> QED  BY <1>7, <2>1, <2>2, <2>3 DEF ScryptDone
<1>8. CASE PeerEnds(c)
  BY <1>8, HangupInv DEF PeerEnds
<1>9. CASE SocketFails(c)
  BY <1>9, HangupInv DEF SocketFails
<1>10. CASE HandshakeDeadline(c)
  <2>1. TypeOK'  BY <1>10 DEF HandshakeDeadline, TypeOK, shareVars
  <2>2. SlotsAccounted'  BY <1>10 DEF HandshakeDeadline, SlotsAccounted, HoldsSlot
  <2>3. ShareInv'
    BY <1>10 DEF HandshakeDeadline, ShareInv, TimerTracksTransfer, Holder, shareVars
  <2> QED  BY <2>1, <2>2, <2>3
<1>11. CASE EndReported(c)
  <2>1. TypeOK'  BY <1>11 DEF EndReported, Closed, TypeOK, Claimed
  <2>2. HoldsSlot' = HoldsSlot
    BY <1>11, KeepSlot DEF EndReported, Busy
  <2>3. SlotsAccounted'  BY <1>11, <2>2 DEF SlotsAccounted, EndReported
  <2>4. Holder' = Holder /\ c \in Holder /\ handler'[c] = "done"
    BY <1>11 DEF EndReported, Holder, Claimed, TypeOK
  <2>5. ShareInv'
    BY <1>11, <2>4 DEF ShareInv, TimerTracksTransfer, EndReported
  <2> QED  BY <2>1, <2>3, <2>5
<1> QED  BY <1>1, <1>2, <1>3, <1>4, <1>5, <1>6, <1>7, <1>8, <1>9, <1>10, <1>11 DEF Handshake

(* And every step of the server.                                           *)
LEMMA StepInv == IndInv /\ [Next]_vars => IndInv'
<1> SUFFICES ASSUME IndInv, [Next]_vars PROVE IndInv'  OBVIOUS
<1> USE DEF IndInv
<1>1. CASE ListenSettles \/ Send \/ OverallTimeout \/ Stop
  <2>0. UNCHANGED connVars
    BY <1>1 DEF ListenSettles, Send, OverallTimeout, Stop
  <2>1. TypeOK'
    BY <1>1, <2>0 DEF ListenSettles, Send, OverallTimeout, Stop, Closed, TypeOK, connVars
  <2>2. SlotsAccounted' /\ Holder' = Holder
    BY <2>0 DEF SlotsAccounted, HoldsSlot, Holder, connVars
  <2>3. CASE ListenSettles \/ Send
    BY <2>0, <2>1, <2>2, <2>3
       DEF ListenSettles, Send, ShareInv, TimerTracksTransfer, connVars, TypeOK
  <2>4. CASE OverallTimeout
    BY <2>0, <2>1, <2>2, <2>4
       DEF OverallTimeout, ShareInv, TimerTracksTransfer, connVars, TypeOK
  <2>5. CASE Stop
    BY <2>0, <2>1, <2>2, <2>5
       DEF Stop, ShareInv, TimerTracksTransfer, connVars, TypeOK
  <2> QED  BY <1>1, <2>3, <2>4, <2>5
<1>2. ASSUME NEW c \in Conn, Handshake(c) PROVE IndInv'
  BY <1>2, HandshakeInv
<1>3. CASE UNCHANGED vars
  BY <1>3 DEF vars, TypeOK, SlotsAccounted, HoldsSlot, ShareInv, TimerTracksTransfer, Holder
<1> QED  BY <1>1, <1>2, <1>3 DEF Next

(* The inductive invariant holds of every behaviour.                       *)
THEOREM Inductive == Spec => []IndInv
BY InitInv, StepInv, PTL DEF Spec

-----------------------------------------------------------------------------
(* What the runs check, for every number of connections and every cap.     *)

(* Every variable of the server keeps its type; the slot counter never     *)
(* goes negative.                                                          *)
THEOREM TypeCorrect == Spec => []TypeOK
<1>1. IndInv => TypeOK  BY DEF IndInv
<1> QED  BY <1>1, Inductive, PTL

(* Concurrent handshakes are counted exactly and stay under the cap.       *)
THEOREM SlotsCorrect == Spec => []SlotsAccounted
<1>1. IndInv => SlotsAccounted  BY DEF IndInv
<1> QED  BY <1>1, Inductive, PTL

(* At most one peer is ever handed the capsule, and it proved the          *)
(* passphrase.                                                             *)
THEOREM ServesOne == Spec => []AtMostOneServed
<1>1. IndInv => AtMostOneServed
  <2> SUFFICES ASSUME IndInv PROVE AtMostOneServed  OBVIOUS
  <2>1. CASE Holder = {}
    BY <2>1, FS_EmptySet DEF IndInv, ShareInv, AtMostOneServed
  <2>2. CASE Holder # {}
    <3>1. PICK c \in Holder : Holder = {c}  BY <2>2 DEF IndInv, ShareInv
    <3>2. Cardinality(Holder) = 1  BY <3>1, FS_Singleton
    <3> QED  BY <3>2 DEF IndInv, ShareInv, AtMostOneServed
  <2> QED  BY <2>1, <2>2
<1> QED  BY <1>1, Inductive, PTL

(* After a reported timeout or stop nothing was sent and nobody holds the  *)
(* slot.                                                                   *)
THEOREM FailureIsHonest == Spec => []NothingSentAfterFailure
<1>1. IndInv => NothingSentAfterFailure
  BY DEF IndInv, ShareInv, NothingSentAfterFailure
<1> QED  BY <1>1, Inductive, PTL

(* Nobody but an authentic peer, the timer or stop() ends the wait.        *)
THEOREM WaitIsKept == Spec => []KeepsWaiting
<1>1. IndInv => KeepsWaiting
  BY DEF IndInv, ShareInv, KeepsWaiting, TimerTracksTransfer
<1> QED  BY <1>1, Inductive, PTL

(* The overall timer is armed exactly as long as the transfer is open.     *)
THEOREM TimerKept == Spec => []TimerTracksTransfer
<1>1. IndInv => TimerTracksTransfer
  BY DEF IndInv, ShareInv
<1> QED  BY <1>1, Inductive, PTL

-----------------------------------------------------------------------------
(* What a refusal leaves alone.                                            *)

(* A step of the listener of b leaves every other listener where it stands,*)
(* with what is buffered for it.                                           *)
LEMMA OwnHandlerOnly ==
  ASSUME TypeOK, NEW b \in Conn, NEW c \in Conn \ {b}, Handshake(b)
  PROVE  handler'[c] = handler[c] /\ inbox'[c] = inbox[c]
<1> DEFINE Own == /\ handler' = handler \/ \E h : handler' = [handler EXCEPT ![b] = h]
                  /\ inbox' = inbox \/ \E f : inbox' = [inbox EXCEPT ![b] = f]
<1>1. Own
  <2>1. CASE TurnAway(b) \/ Admit(b) \/ PayloadReady(b) \/ HelloRead(b)
    BY <2>1 DEF TurnAway, Admit, PayloadReady, HelloRead
  <2>2. CASE BadHello(b)  BY <2>2 DEF BadHello, Refuse
  <2>3. ASSUME NEW f \in Frame, FrameBuffered(b, f) \/ ProofRead(b, f)
        PROVE  Own
    BY <2>3 DEF FrameBuffered, ProofRead, Judge, Claim, Refuse
  <2>4. CASE ScryptDone(b)
    BY <2>4 DEF ScryptDone, Judge, Claim, Refuse
  <2>5. CASE PeerEnds(b) \/ SocketFails(b)
    BY <2>5 DEF PeerEnds, SocketFails, Hangup, Refuse
  <2>6. CASE HandshakeDeadline(b) \/ EndReported(b)
    BY <2>6 DEF HandshakeDeadline, EndReported
  <2> QED  BY <2>1, <2>2, <2>3, <2>4, <2>5, <2>6 DEF Handshake
<1> QED  BY <1>1 DEF TypeOK

(* However a peer comes to be refused - turned away at the door, by a bad  *)
(* HELLO, by a wrong or late proof, by the end of its stream or a failure -*)
(* the share, what was sent and every other connection stay as they are.   *)
LEMMA RefusalSpares ==
  ASSUME TypeOK, [Next]_vars, NEW c \in Conn,
         handler[c] # "refused", handler'[c] = "refused"
  PROVE  /\ UNCHANGED <<shareVars, sent>>
         /\ \A d \in Conn \ {c} :
              /\ handler'[d] = handler[d]
              /\ sock'[d] = sock[d] /\ inbox'[d] = inbox[d]
              /\ hsTimer'[d] = hsTimer[d]
<1> DEFINE Spared ==
      /\ UNCHANGED <<shareVars, sent>>
      /\ \A d \in Conn \ {c} :
           /\ handler'[d] = handler[d]
           /\ sock'[d] = sock[d]
           /\ hsTimer'[d] = hsTimer[d]
<1>1. ~(ListenSettles \/ Send \/ OverallTimeout \/ Stop \/ UNCHANGED vars)
  BY DEF ListenSettles, Send, OverallTimeout, Stop, connVars, vars
<1>2. PICK b \in Conn : Handshake(b)  BY <1>1 DEF Next
<1>3. b = c  BY <1>2, OwnHandlerOnly
<1>4. Handshake(c)  BY <1>2, <1>3
<1> SUFFICES Spared  BY <1>4, OwnHandlerOnly
<1>5. ASSUME Refuse(c) PROVE Spared
  BY <1>5 DEF Refuse, Release, TypeOK
<1>6. ASSUME NEW f, Judge(c, f) PROVE Spared
  <2>1. ~Claim(c)  BY DEF Claim, TypeOK
  <2> QED  BY <1>5, <1>6, <2>1 DEF Judge
<1>7. ASSUME NEW s, NEW n, Hangup(c, s, n) PROVE Spared
  <2>1. CASE Waiting(c)  BY <1>5, <1>7, <2>1 DEF Hangup
  <2>2. CASE ~Waiting(c)  BY <1>7, <2>2 DEF Hangup
  <2> QED  BY <2>1, <2>2
<1>8. CASE TurnAway(c)
  BY <1>8 DEF TurnAway, TypeOK
<1>9. CASE BadHello(c)
  BY <1>5, <1>9 DEF BadHello
<1>10. CASE \E f \in Frame : ProofRead(c, f)
  BY <1>6, <1>10 DEF ProofRead
<1>11. CASE ScryptDone(c)
  <2>1. Refuse(c) \/ Judge(c, inbox[c]) \/ handler' = [handler EXCEPT ![c] = "proof"]
    BY <1>11 DEF ScryptDone
  <2>2. handler' # [handler EXCEPT ![c] = "proof"]  BY DEF TypeOK
  <2> QED  BY <1>5, <1>6, <2>1, <2>2
<1>12. CASE PeerEnds(c) \/ SocketFails(c)
  BY <1>7, <1>12 DEF PeerEnds, SocketFails
<1>13. ~(Admit(c) \/ PayloadReady(c) \/ HelloRead(c) \/ HandshakeDeadline(c) \/ EndReported(c))
  BY DEF Admit, PayloadReady, HelloRead, HandshakeDeadline, EndReported, TypeOK
<1>14. ~\E f \in Frame : FrameBuffered(c, f)
  BY DEF FrameBuffered
<1> QED
  BY <1>4, <1>8, <1>9, <1>10, <1>11, <1>12, <1>13, <1>14 DEF Handshake

(* Peers that cannot authenticate cost the others nothing: a refusal       *)
(* settles nothing and touches no other connection.                        *)
THEOREM RefusalIsHarmless == Spec => RefusalHarmless
<1> DEFINE Spares ==
      \A c \in Conn :
        handler[c] # "refused" /\ handler'[c] = "refused" =>
          /\ UNCHANGED <<shareVars, sent>>
          /\ \A d \in Conn \ {c} :
               /\ handler'[d] = handler[d]
               /\ sock'[d] = sock[d] /\ inbox'[d] = inbox[d]
               /\ hsTimer'[d] = hsTimer[d]
<1>1. IndInv /\ [Next]_vars => [Spares]_vars
  BY RefusalSpares DEF IndInv
<1> QED  BY <1>1, Inductive, PTL DEF Spec, RefusalHarmless

-----------------------------------------------------------------------------
(* Refinement.                                                             *)

(* Each step of the server is a grant, a failure, a completion or nothing  *)
(* to the one-shot hand-over.                                              *)
LEMMA StepRefines ==
  ASSUME IndInv, [Next]_vars
  PROVE  [Abstract!Next]_(Abstract!abstractVars)
<1> USE DEF Abstract!abstractVars, IndInv
<1>1. CASE ListenSettles \/ Send
  <2>1. UNCHANGED <<Holder, sent, served>>
    BY <1>1 DEF ListenSettles, Send, connVars, Holder
  <2> QED  BY <2>1
<1>2. CASE OverallTimeout \/ Stop
  <2>1. UNCHANGED <<Holder, sent>>
    BY <1>2 DEF OverallTimeout, Stop, connVars, Holder
  <2>2. CASE settled
    <3>1. UNCHANGED served  BY <1>2, <2>2 DEF OverallTimeout, Stop
    <3> QED  BY <2>1, <3>1
  <2>3. CASE ~settled
    <3>1. Abstract!GiveUp
      BY <1>2, <2>1, <2>3
         DEF OverallTimeout, Stop, ShareInv, Abstract!GiveUp, Abstract!Failures
    <3> QED  BY <3>1 DEF Abstract!Next
  <2> QED  BY <2>2, <2>3
<1>3. ASSUME NEW c \in Conn, handler[c] \in Busy, Refuse(c)
      PROVE  UNCHANGED <<Holder, sent, served>>
  BY <1>3 DEF Refuse, Holder, Claimed, Busy, TypeOK, shareVars
<1>4. ASSUME NEW c \in Conn, NEW f \in Frame, handler[c] \in Busy,
             CanSend(c, f), Judge(c, f)
      PROVE  [Abstract!Next]_(Abstract!abstractVars)
  <2>1. CASE f = "proof" /\ ~settled
    <3>1. Claim(c) /\ c \in Authentic  BY <1>4, <2>1 DEF Judge, CanSend
    <3>2. Holder = {} /\ served = "pending" /\ sent = {}
      BY <2>1 DEF ShareInv
    <3>3. Holder' = {c}
      BY <1>4, <3>1, <3>2 DEF Claim, Holder, Claimed, Busy, TypeOK
    <3>4. sent' \in {{}, {c}} /\ served' = served
      BY <3>1, <3>2 DEF Claim
    <3>5. Abstract!Grant(c)
      BY <3>1, <3>2, <3>3, <3>4 DEF Abstract!Grant
    <3> QED  BY <3>5 DEF Abstract!Next
  <2>2. CASE ~(f = "proof" /\ ~settled)
    <3>1. Refuse(c)  BY <1>4, <2>2 DEF Judge
    <3> QED  BY <1>3, <1>4, <3>1
  <2> QED  BY <2>1, <2>2
<1>5. ASSUME NEW c \in Conn, NEW s, NEW n, Hangup(c, s, n)
      PROVE  UNCHANGED <<Holder, sent, served>>
  <2>1. CASE Waiting(c)
    BY <1>3, <1>5, <2>1 DEF Hangup, Waiting, Busy
  <2>2. CASE ~Waiting(c)
    BY <1>5, <2>2 DEF Hangup, Holder, shareVars
  <2> QED  BY <2>1, <2>2
<1>6. ASSUME NEW c \in Conn, Handshake(c)
      PROVE  [Abstract!Next]_(Abstract!abstractVars)
  <2>1. CASE TurnAway(c) \/ Admit(c) \/ PayloadReady(c) \/ HelloRead(c)
    <3>1. UNCHANGED <<Holder, sent, served>>
      BY <2>1 DEF TurnAway, Admit, Arrives, PayloadReady, HelloRead, Holder,
                  Claimed, TypeOK, shareVars
    <3> QED  BY <3>1
  <2>2. CASE BadHello(c)
    BY <1>3, <2>2 DEF BadHello, Busy
  <2>3. ASSUME NEW f \in Frame, FrameBuffered(c, f)
        PROVE  [Abstract!Next]_(Abstract!abstractVars)
    <3>1. UNCHANGED <<Holder, sent, served>>
      BY <2>3 DEF FrameBuffered, Holder, shareVars
    <3> QED  BY <3>1
  <2>4. ASSUME NEW f \in Frame, ProofRead(c, f)
        PROVE  [Abstract!Next]_(Abstract!abstractVars)
    BY <1>4, <2>4 DEF ProofRead, Busy
  <2>5. CASE ScryptDone(c)
    <3>b. handler[c] = "scrypt" /\ handler[c] \in Busy
      BY <2>5 DEF ScryptDone, Busy
    <3>1. CASE Refuse(c)  BY <1>3, <3>b, <3>1
    <3>2. CASE inbox[c] # "none" /\ Judge(c, inbox[c])
      <4>1. inbox[c] \in Frame /\ CanSend(c, inbox[c])
        BY <3>2 DEF TypeOK, CanSend, ShareInv
      <4> QED  BY <1>4, <3>b, <3>2, <4>1
    <3>3. CASE /\ handler' = [handler EXCEPT ![c] = "proof"]
               /\ UNCHANGED <<shareVars, sent>>
      <4>1. UNCHANGED <<Holder, sent, served>>
        BY <3>3, <3>b DEF Holder, Claimed, TypeOK, shareVars
      <4> QED  BY <4>1
    <3> QED  BY <2>5, <3>1, <3>2, <3>3 DEF ScryptDone
  <2>6. CASE PeerEnds(c)  BY <1>5, <2>6 DEF PeerEnds
  <2>7. CASE SocketFails(c)  BY <1>5, <2>7 DEF SocketFails
  <2>8. CASE HandshakeDeadline(c)
    <3>1. UNCHANGED <<Holder, sent, served>>
      BY <2>8 DEF HandshakeDeadline, Holder, shareVars
    <3> QED  BY <3>1
  <2>9. CASE EndReported(c)
    <3>1. Holder' = Holder /\ c \in Holder
      BY <2>9 DEF EndReported, Holder, Claimed, TypeOK
    <3>2. served # "resolved"
      <4>1. \A d \in Conn : handler[d] = "done" => d \in Holder
        BY DEF Holder, Claimed
      <4>2. handler[c] # "done"  BY <2>9 DEF EndReported
      <4> QED  BY <3>1, <4>1, <4>2 DEF ShareInv
    <3>3. served = "pending"  BY <3>1, <3>2 DEF ShareInv, TypeOK
    <3>4. Abstract!Complete
      BY <2>9, <3>1, <3>3 DEF EndReported, Abstract!Complete
    <3> QED  BY <3>4 DEF Abstract!Next
  <2> QED  BY <1>6, <2>1, <2>2, <2>3, <2>4, <2>5, <2>6, <2>7, <2>8, <2>9 DEF Handshake
<1>7. CASE UNCHANGED vars
  BY <1>7 DEF vars, Holder
<1> QED  BY <1>1, <1>2, <1>6, <1>7 DEF Next

(* The server implements OneShot: the credential is granted to at most one *)
(* trusted peer, and a transfer that failed granted it to nobody.          *)
THEOREM Implements == Spec => ImplementsOneShot
<1>1. Init => Abstract!Init
  BY DEF Init, Abstract!Init, Holder, Claimed
<1>2. IndInv /\ [Next]_vars => [Abstract!Next]_(Abstract!abstractVars)
  BY StepRefines
<1> QED  BY <1>1, <1>2, Inductive, PTL DEF Spec, ImplementsOneShot, Abstract!Spec

=============================================================================
