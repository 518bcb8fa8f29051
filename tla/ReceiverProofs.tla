--------------------------- MODULE ReceiverProofs ---------------------------
(***************************************************************************)
(* For any number of announcers and any budget: a receive keeps to its     *)
(* budget, its verdict is true and final, and once cancelled it proves the *)
(* passphrase to nobody.                                                   *)
(***************************************************************************)
EXTENDS Receiver, FiniteSetTheorems, TLAPS

(* A capsule is asked for with a proof, or comes from a peer that left too *)
(* soon to get one.                                                        *)
Asked == proofs \cup gone

(* Why a payload is a genuine peer's (it came out of a capsule that        *)
(* opened), and why a cancelled receive is silent (it is over, and its     *)
(* fetches with it).                                                       *)
FetchInv ==
  /\ \A a \in Announcer : fetch[a] = "capsule" => a \in proofs
  /\ \A a \in Announcer : fetch[a] = "decrypting" => a \in Genuine \cap Asked
  /\ aborted => done /\ \A a \in Announcer : fetch[a] \notin Live

ReceiverInv ==
  ReceiverTypeOK /\ AttemptsBounded /\ VerdictHonest /\ SettledIsQuiet /\ FetchInv

-----------------------------------------------------------------------------
(* The budget.                                                             *)

(* Trying one more announcer within the budget stays within it.            *)
LEMMA TryOneMore ==
  ASSUME ReceiverTypeOK, NEW a \in Announcer, MayTry(a)
  PROVE  Cardinality(tried \cup {a}) <= MAX_ANNOUNCERS
<1>1. IsFiniteSet(tried)
  BY FS_Subset, ReceiverAssumption DEF ReceiverTypeOK
<1>2. Cardinality(tried) \in Nat  BY <1>1, FS_CardinalityType
<1>3. Cardinality(tried \cup {a}) = Cardinality(tried) + 1
  BY <1>1, FS_AddElement DEF MayTry
<1> QED  BY <1>2, <1>3, ReceiverAssumption DEF MayTry

(* A fetch under way that moves to another phase, and changes nothing else *)
(* but its buffer and whom a proof was written to, preserves the invariant.*)
LEMMA FetchMoves ==
  ASSUME ReceiverInv, NEW a \in Announcer, NEW phase \in {"hello", "scrypt", "capsule", "decrypting", "over"},
         fetch[a] # "none", ~aborted \/ phase = "over",
         fetch' = [fetch EXCEPT ![a] = phase],
         proofs' = proofs \/ proofs' = proofs \cup {a},
         phase = "capsule" => a \in proofs',
         phase = "decrypting" => a \in Genuine \cap Asked',
         UNCHANGED <<outcome, from, timer, listener, aborted, seen, tried, gone>>,
         early' = early \ {a}
  PROVE  ReceiverInv'
<1> USE DEF ReceiverInv, Asked
<1>1. ReceiverTypeOK'  BY DEF ReceiverTypeOK, Live
<1>2. AttemptsBounded'  BY DEF AttemptsBounded, ReceiverTypeOK
<1>3. VerdictHonest'  BY DEF VerdictHonest
<1>4. SettledIsQuiet'  BY DEF SettledIsQuiet, done
<1>5. FetchInv'  BY DEF FetchInv, ReceiverTypeOK, done, Live
<1> QED  BY <1>1, <1>2, <1>3, <1>4, <1>5

-----------------------------------------------------------------------------
(* The invariant is inductive.                                             *)

(* Both ways a receive can begin satisfy it.                               *)
LEMMA ReceiverInitInv == ReceiverInit => ReceiverInv
<1> SUFFICES ASSUME ReceiverInit PROVE ReceiverInv  OBVIOUS
<1>1. Cardinality(tried) = 0  BY FS_EmptySet DEF ReceiverInit
<1>2. AttemptsBounded
  BY <1>1, ReceiverAssumption DEF ReceiverInit, AttemptsBounded
<1> QED
  BY <1>2 DEF ReceiverInit, ReceiverInv, ReceiverTypeOK, VerdictHonest, SettledIsQuiet,
              FetchInv, done, Live

(* A datagram starts a fetch or is only remembered.                        *)
LEMMA AnnouncementInv ==
  ASSUME ReceiverInv, NEW a \in Announcer, Announcement(a)
  PROVE  ReceiverInv'
<1> USE DEF ReceiverInv
<1>d. ~done /\ ~aborted  BY DEF Announcement, SettledIsQuiet, FetchInv
<1>1. CASE MayTry(a)
  <2>1. /\ tried' = tried \cup {a} /\ seen' = seen \cup {a}
        /\ fetch' = [fetch EXCEPT ![a] = "connecting"]
        /\ UNCHANGED <<outcome, from, timer, listener, aborted, gone, early, proofs>>
    BY <1>1 DEF Announcement
  <2>t. a \notin early
    BY <1>1 DEF MayTry, ReceiverTypeOK, AttemptsBounded
  <2>2. ReceiverTypeOK'  BY <2>1, <2>t DEF ReceiverTypeOK, Live
  <2>3. AttemptsBounded'
    BY <1>1, <2>1, TryOneMore DEF AttemptsBounded, ReceiverTypeOK
  <2>4. VerdictHonest' /\ SettledIsQuiet'
    BY <1>d, <2>1 DEF VerdictHonest, SettledIsQuiet, done
  <2>5. FetchInv'  BY <1>d, <2>1 DEF FetchInv, Asked, ReceiverTypeOK
  <2> QED  BY <2>2, <2>3, <2>4, <2>5
<1>2. CASE ~MayTry(a)
  <2>1. /\ seen' = seen \cup {a}
        /\ UNCHANGED <<outcome, from, timer, listener, aborted, tried, fetch, gone, early, proofs>>
    BY <1>2 DEF Announcement
  <2> QED
    BY <2>1 DEF ReceiverTypeOK, AttemptsBounded, VerdictHonest, SettledIsQuiet, FetchInv, Asked, done
<1> QED  BY <1>1, <1>2

(* Whatever happens to a fetch, up to the decrypted payload.               *)
LEMMA FetchingInv ==
  ASSUME ReceiverInv, NEW a \in Announcer, Fetching(a)
  PROVE  ReceiverInv'
<1> USE DEF ReceiverInv
<1>f. ASSUME fetch[a] # "none", Fail(a) PROVE ReceiverInv'
  BY <1>f, FetchMoves DEF Fail, Goes
<1>l. fetch[a] \in Live => fetch[a] # "none" /\ ~aborted
  BY DEF Live, FetchInv
<1>1. CASE Connected(a)
  BY <1>1, <1>f, <1>l, FetchMoves DEF Connected, Goes, Live
<1>2. CASE HelloRead(a)
  BY <1>2, <1>f, <1>l, FetchMoves DEF HelloRead, Goes, Live
<1>3. CASE ScryptDone(a)
  <2> DEFINE Written == IF a \in gone THEN proofs ELSE proofs \cup {a}
  <2>1. fetch[a] # "none" /\ ~aborted /\ proofs' = Written
    BY <1>3, <1>l DEF ScryptDone, Live
  <2>2. CASE Goes(a, "over")
    BY <2>1, <2>2, FetchMoves DEF Goes
  <2>3. CASE a \in early \cap Genuine /\ Goes(a, "decrypting")
    <3>1. a \in Genuine \cap Asked'  BY <2>1, <2>3 DEF Goes, Asked
    <3> QED  BY <2>1, <2>3, <3>1, FetchMoves DEF Goes
  <2>4. CASE a \notin gone /\ Goes(a, "capsule")
    BY <2>1, <2>4, FetchMoves DEF Goes
  <2> QED  BY <1>3, <2>2, <2>3, <2>4 DEF ScryptDone
<1>4. CASE CapsuleRead(a)
  <2>1. fetch[a] = "capsule" /\ a \in proofs  BY <1>4 DEF CapsuleRead, FetchInv
  <2>2. CASE Fail(a)  BY <1>f, <2>1, <2>2
  <2>3. CASE a \in Genuine /\ Goes(a, "decrypting") /\ UNCHANGED proofs
    <3>1. a \in Genuine \cap Asked'  BY <2>1, <2>3 DEF Asked
    <3> QED  BY <1>l, <2>1, <2>3, <3>1, FetchMoves DEF Goes, Live
  <2> QED  BY <1>4, <2>2, <2>3 DEF CapsuleRead
<1>5. CASE PeerEnds(a)
  <2>1. CASE fetch[a] \in {"hello", "capsule"} /\ Fail(a)  BY <1>f, <2>1
  <2>2. CASE /\ gone' = gone \cup {a}
             /\ UNCHANGED <<outcome, from, timer, listener, aborted, seen, tried, fetch, early, proofs>>
    BY <2>2 DEF ReceiverTypeOK, AttemptsBounded, VerdictHonest, SettledIsQuiet, FetchInv,
                Asked, done
  <2> QED  BY <1>5, <2>1, <2>2 DEF PeerEnds
<1>6. CASE CapsuleBuffered(a)
  BY <1>6 DEF CapsuleBuffered, ReceiverTypeOK, AttemptsBounded, VerdictHonest, SettledIsQuiet,
              FetchInv, Asked, done
<1>7. CASE SocketFails(a) \/ FetchTimeout(a)
  BY <1>7, <1>f, <1>l DEF SocketFails, FetchTimeout
<1>8. CASE Decrypted(a)
  <2>t. fetch[a] = "decrypting" /\ early \ {a} = early
    BY <1>8 DEF Decrypted, ReceiverTypeOK
  <2>1. CASE done
    BY <1>8, <2>1, <2>t, FetchMoves DEF Decrypted, finish
  <2>2. CASE ~done
    <3>1. /\ outcome' = "ok" /\ timer' = "cleared" /\ listener' = "stopped"
          /\ from' = {a} /\ fetch' = [fetch EXCEPT ![a] = "over"]
          /\ UNCHANGED <<aborted, seen, tried, gone, early, proofs>>
      BY <1>8, <2>2 DEF Decrypted, finish
    <3>2. fetch[a] = "decrypting" /\ a \in Genuine \cap Asked
      BY <1>8 DEF Decrypted, FetchInv
    <3>3. ReceiverTypeOK'  BY <2>t, <3>1 DEF ReceiverTypeOK
    <3>4. AttemptsBounded'  BY <3>1, <3>2 DEF AttemptsBounded, ReceiverTypeOK
    <3>5. a \in tried  BY <3>2 DEF AttemptsBounded
    <3>6. VerdictHonest' /\ SettledIsQuiet'
      BY <3>1, <3>2, <3>5 DEF VerdictHonest, SettledIsQuiet, Asked
    <3>7. FetchInv'  BY <2>2, <3>1 DEF FetchInv, Asked, ReceiverTypeOK, done
    <3> QED  BY <3>3, <3>4, <3>6, <3>7
  <2> QED  BY <2>1, <2>2
<1> QED  BY <1>1, <1>2, <1>3, <1>4, <1>5, <1>6, <1>7, <1>8 DEF Fetching

(* And every step of the receive.                                          *)
LEMMA ReceiverStepInv == ReceiverInv /\ [ReceiverNext]_receiverVars => ReceiverInv'
<1> SUFFICES ASSUME ReceiverInv, [ReceiverNext]_receiverVars PROVE ReceiverInv'  OBVIOUS
<1> USE DEF ReceiverInv
<1>1. ASSUME NEW a \in Announcer, Announcement(a) \/ Fetching(a) PROVE ReceiverInv'
  BY <1>1, AnnouncementInv, FetchingInv
<1>2. CASE WindowCloses
  <2>1. ~done  BY <1>2 DEF WindowCloses, SettledIsQuiet
  <2>2. /\ outcome' = (IF tried # {} THEN "undecryptable" ELSE "nobody")
        /\ timer' = "fired" /\ listener' = "stopped"
        /\ UNCHANGED <<from, aborted, seen, tried, fetch, gone, early, proofs>>
    BY <1>2, <2>1 DEF WindowCloses, finish
  <2>3. ReceiverTypeOK' /\ AttemptsBounded'
    BY <2>2 DEF ReceiverTypeOK, AttemptsBounded
  <2>4. VerdictHonest' /\ SettledIsQuiet' /\ FetchInv'
    BY <2>1, <2>2 DEF VerdictHonest, SettledIsQuiet, FetchInv, Asked, done
  <2> QED  BY <2>3, <2>4
<1>3. CASE Abort
  <2>1. /\ aborted' = TRUE
        /\ fetch' = [a \in Announcer |-> IF fetch[a] \in Live THEN "over" ELSE fetch[a]]
        /\ early' = {} /\ UNCHANGED <<from, seen, tried, gone, proofs>>
    BY <1>3 DEF Abort
  <2>2. AttemptsBounded'  BY <2>1 DEF AttemptsBounded, Live
  <2>3. done'  BY <1>3 DEF Abort, finish, done
  <2>4. \A a \in Announcer : fetch'[a] \notin Live  BY <2>1 DEF Live
  <2>5. FetchInv'  BY <2>1, <2>3, <2>4 DEF FetchInv, Asked, Live
  <2>6. CASE done
    <3>1. UNCHANGED <<outcome, timer, listener>>  BY <1>3, <2>6 DEF Abort, finish
    <3>2. ReceiverTypeOK'  BY <2>1, <3>1 DEF ReceiverTypeOK
    <3>3. VerdictHonest' /\ SettledIsQuiet'
      BY <2>1, <3>1 DEF VerdictHonest, SettledIsQuiet, done
    <3> QED  BY <2>2, <2>5, <3>2, <3>3
  <2>7. CASE ~done
    <3>1. outcome' = "aborted" /\ timer' = "cleared" /\ listener' = "stopped"
      BY <1>3, <2>7 DEF Abort, finish
    <3>2. ReceiverTypeOK'  BY <2>1, <3>1 DEF ReceiverTypeOK
    <3>3. VerdictHonest' /\ SettledIsQuiet'
      BY <2>1, <2>7, <3>1 DEF VerdictHonest, SettledIsQuiet, done
    <3> QED  BY <2>2, <2>5, <3>2, <3>3
  <2> QED  BY <2>6, <2>7
<1>4. CASE UNCHANGED receiverVars
  BY <1>4 DEF receiverVars, ReceiverTypeOK, AttemptsBounded, VerdictHonest,
              SettledIsQuiet, FetchInv, Asked, done
<1> QED  BY <1>1, <1>2, <1>3, <1>4 DEF ReceiverNext

(* The invariant holds of every receive.                                   *)
THEOREM ReceiverInductive == ReceiverSpec => []ReceiverInv
BY ReceiverInitInv, ReceiverStepInv, PTL DEF ReceiverSpec

-----------------------------------------------------------------------------
(* What the run checks, for every number of announcers and every budget.   *)

(* The receive's state keeps its types.                                    *)
THEOREM ReceiverTypeCorrect == ReceiverSpec => []ReceiverTypeOK
<1>1. ReceiverInv => ReceiverTypeOK  BY DEF ReceiverInv
<1> QED  BY <1>1, ReceiverInductive, PTL

(* At most MAX_ANNOUNCERS fetches are ever started, one per announcer.     *)
THEOREM BudgetKept == ReceiverSpec => []AttemptsBounded
<1>1. ReceiverInv => AttemptsBounded  BY DEF ReceiverInv
<1> QED  BY <1>1, ReceiverInductive, PTL

(* What the caller is told is true.                                        *)
THEOREM VerdictCorrect == ReceiverSpec => []VerdictHonest
<1>1. ReceiverInv => VerdictHonest  BY DEF ReceiverInv
<1> QED  BY <1>1, ReceiverInductive, PTL

(* A settled receive has stopped listening and has no timer.               *)
THEOREM SettledStops == ReceiverSpec => []SettledIsQuiet
<1>1. ReceiverInv => SettledIsQuiet  BY DEF ReceiverInv
<1> QED  BY <1>1, ReceiverInductive, PTL

(* What the caller was told is never taken back.                           *)
THEOREM VerdictStands == ReceiverSpec => VerdictFinal
<1>1. [ReceiverNext]_receiverVars => [done => UNCHANGED <<outcome, from>>]_receiverVars
  <2> SUFFICES ASSUME ReceiverNext, done PROVE UNCHANGED <<outcome, from>>
    OBVIOUS
  <2>1. ASSUME NEW a \in Announcer, Announcement(a) \/ Fetching(a)
        PROVE  UNCHANGED <<outcome, from>>
    BY <2>1 DEF Announcement, Fetching, Connected, HelloRead, CapsuleBuffered, ScryptDone,
                CapsuleRead, PeerEnds, SocketFails, FetchTimeout, Decrypted, Fail, Goes, finish
  <2>2. CASE WindowCloses \/ Abort
    BY <2>2 DEF WindowCloses, Abort, finish
  <2> QED  BY <2>1, <2>2 DEF ReceiverNext
<1> QED  BY <1>1, PTL DEF ReceiverSpec, VerdictFinal

(* After a cancellation the receive neither listens nor waits, no proof is *)
(* sent and no announcer is tried.                                         *)
THEOREM CancelStops == ReceiverSpec => CancelIsImmediate
<1>1. ReceiverInv /\ [ReceiverNext]_receiverVars
        => [aborted => /\ listener # "on" /\ timer # "armed"
                       /\ UNCHANGED <<proofs, tried>>]_receiverVars
  <2> SUFFICES ASSUME ReceiverInv, ReceiverNext, aborted
               PROVE  /\ listener # "on" /\ timer # "armed"
                      /\ UNCHANGED <<proofs, tried>>
    OBVIOUS
  <2>0. done /\ listener # "on" /\ timer # "armed" /\ \A a \in Announcer : fetch[a] \notin Live
    BY DEF ReceiverInv, FetchInv, SettledIsQuiet
  <2>1. ASSUME NEW a \in Announcer, Announcement(a) \/ Fetching(a)
        PROVE  proofs' = proofs /\ tried' = tried
    BY <2>0, <2>1 DEF Announcement, Fetching, Connected, HelloRead, CapsuleBuffered, ScryptDone,
                CapsuleRead, PeerEnds, SocketFails, FetchTimeout, Decrypted, Fail, Live
  <2>2. CASE WindowCloses \/ Abort
    BY <2>0, <2>2 DEF WindowCloses, Abort
  <2>3. proofs' = proofs /\ tried' = tried  BY <2>1, <2>2 DEF ReceiverNext
  <2> QED  BY <2>0, <2>3
<1> QED  BY <1>1, ReceiverInductive, PTL DEF ReceiverSpec, CancelIsImmediate

=============================================================================
