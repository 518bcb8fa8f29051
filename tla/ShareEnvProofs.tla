--------------------------- MODULE ShareEnvProofs ---------------------------
(***************************************************************************)
(* For any number of connections: shareEnv runs the server only as Sharer  *)
(* allows, leaves nothing listening or announcing, and reports the truth.  *)
(***************************************************************************)
EXTENDS ShareEnv, SharerProofs

(* A server that never listened has met nobody, and one whose caller has   *)
(* an answer neither listens nor will.                                     *)
ServerInv ==
  /\ server \in {"binding", "failed"} => \A c \in Conn : handler[c] = "idle"
  /\ served # "pending" => server \notin {"binding", "listening"}

(* Why shareEnv's verdict stays true: a share that failed has a server that*)
(* was never created, could not listen, or has rejected served for good;   *)
(* and until shareEnv serves, nobody was met and nothing announced.        *)
EnvInv ==
  /\ pc \in {"called", "encrypting"} => ~created
  /\ pc \in {"ready", "serving"} => created
  /\ ~created => server = "binding"
  /\ pc \in {"called", "encrypting", "ready"} =>
       announcer = "none" /\ \A c \in Conn : handler[c] = "idle"
  /\ pc = "serving" => server # "binding"
  /\ pc = "done" => announcer \in {"none", "stopped"}
  /\ pc = "done" /\ created => served # "pending" \/ server = "failed"
  /\ outcome = "ok" => Holder # {}
  /\ outcome = "aborted" => aborted /\ (served \in {"expired", "stopped"} \/ ~created)
  /\ outcome = "failed" => served \in {"expired", "stopped"} \/ server = "failed"

ShareEnvInv ==
  IndInv /\ ServerInv /\ ShareEnvTypeOK /\ EnvInv /\ AbortStopsSharing

-----------------------------------------------------------------------------
(* The server's steps.                                                     *)

(* Only a listening server meets a peer.                                   *)
NobodyNew ==
  server # "listening" => \A c \in Conn : handler[c] = "idle" => handler'[c] = "idle"

(* What shareEnv may rely on between two of its own steps: a server that   *)
(* failed to listen stays so, a settled transfer sends nothing more, an    *)
(* answer is final, and what stopped listening does not start again.       *)
ServerStable ==
  /\ server = "failed" => server' = "failed"
  /\ server' = "listening" => server \in {"binding", "listening"}
  /\ server' = "binding" => server = "binding"
  /\ served # "pending" => served' = served
  /\ settled => settled' /\ sent' = sent
  /\ server \in {"binding", "failed"} => sent' = sent
  /\ Holder # {} => Holder' # {}
  /\ NobodyNew

(* An event that is no shareEnv business at all.                           *)
Quiet ==
  /\ UNCHANGED <<server, served, settled, sent>>
  /\ Holder' = Holder
  /\ NobodyNew

(* Such an event leaves everything as shareEnv relies on.                  *)
LEMMA QuietStable == ServerInv /\ Quiet => ServerStable /\ ServerInv'
BY DEF ServerInv, Quiet, NobodyNew, ServerStable

(* A refusal is one.                                                       *)
LEMMA RefuseQuiet ==
  ASSUME IndInv, ServerInv, NEW c \in Conn, handler[c] \in Busy, Refuse(c)
  PROVE  Quiet
BY DEF Quiet, NobodyNew, Refuse, shareVars, Holder, Claimed, Busy, IndInv, TypeOK, ServerInv

(* What follows the peer's proof is one too, or the first claim.           *)
LEMMA JudgeStable ==
  ASSUME IndInv, ServerInv, NEW c \in Conn, NEW f, handler[c] \in Busy, Judge(c, f)
  PROVE  ServerStable /\ ServerInv'
<1>1. CASE f = "proof" /\ ~settled
  <2>1. Claim(c)  BY <1>1 DEF Judge
  <2>2. c \in Holder'
    BY <2>1 DEF Claim, Holder, Claimed, IndInv, TypeOK
  <2>3. server \notin {"binding", "failed"}  BY DEF ServerInv, Busy
  <2>4. NobodyNew  BY <2>1 DEF NobodyNew, Claim, Busy, IndInv, TypeOK
  <2> QED  BY <1>1, <2>1, <2>2, <2>3, <2>4 DEF Claim, ServerStable, ServerInv
<1>2. CASE ~(f = "proof" /\ ~settled)
  <2>1. Refuse(c)  BY <1>2 DEF Judge
  <2> QED  BY <2>1, RefuseQuiet, QuietStable
<1> QED  BY <1>1, <1>2

(* The end or the failure of a socket is one.                              *)
LEMMA HangupQuiet ==
  ASSUME IndInv, ServerInv, NEW c \in Conn, NEW s, NEW n, Hangup(c, s, n)
  PROVE  Quiet
<1>1. CASE Waiting(c)
  BY <1>1, RefuseQuiet DEF Hangup, Waiting, Busy
<1>2. CASE ~Waiting(c)
  BY <1>2 DEF Hangup, Quiet, NobodyNew, Holder, shareVars
<1> QED  BY <1>1, <1>2

(* The events of a connection, one by one.                                 *)
LEMMA HandshakeStable ==
  ASSUME IndInv, ServerInv, NEW c \in Conn, Handshake(c)
  PROVE  ServerStable /\ ServerInv'
<1>1. CASE TurnAway(c) \/ Admit(c) \/ PayloadReady(c) \/ HelloRead(c)
  <2>1. UNCHANGED <<server, served, settled, sent>> /\ Holder' = Holder
    BY <1>1 DEF TurnAway, Admit, Arrives, PayloadReady, HelloRead, shareVars,
                Holder, Claimed, IndInv, TypeOK
  <2>2. NobodyNew
    BY <1>1 DEF TurnAway, Admit, Arrives, PayloadReady, HelloRead, NobodyNew,
                IndInv, TypeOK
  <2> QED  BY <2>1, <2>2, QuietStable DEF Quiet
<1>2. CASE BadHello(c)
  BY <1>2, RefuseQuiet, QuietStable DEF BadHello, Busy
<1>3. ASSUME NEW f \in Frame, FrameBuffered(c, f)
      PROVE  ServerStable /\ ServerInv'
  <2>1. Quiet  BY <1>3 DEF FrameBuffered, Quiet, NobodyNew, Holder, shareVars
  <2> QED  BY <2>1, QuietStable
<1>4. ASSUME NEW f \in Frame, ProofRead(c, f)
      PROVE  ServerStable /\ ServerInv'
  BY <1>4, JudgeStable DEF ProofRead, Busy
<1>5. CASE ScryptDone(c)
  <2>b. handler[c] = "scrypt" /\ handler[c] \in Busy  BY <1>5 DEF ScryptDone, Busy
  <2>1. CASE Refuse(c)  BY <2>1, <2>b, RefuseQuiet, QuietStable
  <2>2. CASE Judge(c, inbox[c])  BY <2>2, <2>b, JudgeStable
  <2>3. CASE handler' = [handler EXCEPT ![c] = "proof"] /\ UNCHANGED <<shareVars, sent>>
    <3>1. Holder' = Holder  BY <2>3, <2>b DEF Holder, Claimed, IndInv, TypeOK
    <3>2. NobodyNew  BY <2>3, <2>b DEF NobodyNew, IndInv, TypeOK
    <3> QED  BY <2>3, <3>1, <3>2, QuietStable DEF Quiet, shareVars
  <2> QED  BY <1>5, <2>1, <2>2, <2>3 DEF ScryptDone
<1>6. CASE PeerEnds(c)  BY <1>6, HangupQuiet, QuietStable DEF PeerEnds
<1>7. CASE SocketFails(c)  BY <1>7, HangupQuiet, QuietStable DEF SocketFails
<1>8. CASE HandshakeDeadline(c)
  <2>1. Quiet  BY <1>8 DEF HandshakeDeadline, Quiet, NobodyNew, Holder, shareVars
  <2> QED  BY <2>1, QuietStable
<1>9. CASE EndReported(c)
  <2>1. c \in Holder /\ c \in Holder'
    BY <1>9 DEF EndReported, Holder, Claimed, IndInv, TypeOK
  <2>2. served \in {"pending", "resolved"} /\ settled
    BY <2>1 DEF IndInv, ShareInv, TypeOK
  <2>3. server \notin {"binding", "failed"}  BY <1>9 DEF EndReported, ServerInv
  <2>4. NobodyNew  BY <1>9 DEF NobodyNew, EndReported, IndInv, TypeOK
  <2> QED
    BY <1>9, <2>1, <2>2, <2>3, <2>4 DEF EndReported, Closed, ServerStable, ServerInv
<1> QED
  BY <1>1, <1>2, <1>3, <1>4, <1>5, <1>6, <1>7, <1>8, <1>9 DEF Handshake

(* Every step of the server, the caller's send() and stop() included.      *)
LEMMA StepStable ==
  ASSUME IndInv, ServerInv, [Next]_vars
  PROVE  ServerStable /\ ServerInv'
<1>1. CASE ListenSettles \/ Send \/ OverallTimeout \/ Stop
  <2>0. UNCHANGED <<handler, sent>> /\ Holder' = Holder
    BY <1>1 DEF ListenSettles, Send, OverallTimeout, Stop, connVars, Holder
  <2>1. served # "pending" => settled  BY DEF IndInv, ShareInv
  <2>2. server \in {"binding", "listening", "failed", "closed"}  BY DEF IndInv, TypeOK
  <2>3. CASE ListenSettles
    BY <2>0, <2>1, <2>2, <2>3 DEF ListenSettles, ServerInv, ServerStable,
       NobodyNew
  <2>4. CASE Send
    BY <2>0, <2>4 DEF Send, ServerInv, ServerStable, NobodyNew
  <2>5. CASE OverallTimeout
    BY <2>0, <2>1, <2>2, <2>5 DEF OverallTimeout, Closed, ServerInv, ServerStable, NobodyNew
  <2>6. CASE Stop
    BY <2>0, <2>1, <2>2, <2>6 DEF Stop, Closed, ServerInv, ServerStable, NobodyNew
  <2> QED  BY <1>1, <2>3, <2>4, <2>5, <2>6
<1>2. ASSUME NEW c \in Conn, Handshake(c) PROVE ServerStable /\ ServerInv'
  BY <1>2, HandshakeStable
<1>3. CASE UNCHANGED vars
  <2>1. Quiet  BY <1>3 DEF vars, Quiet, NobodyNew, Holder
  <2> QED  BY <2>1, QuietStable
<1> QED  BY <1>1, <1>2, <1>3 DEF Next

-----------------------------------------------------------------------------
(* shareEnv over the server.                                               *)

(* shareEnv moves the server only as the server can move.                  *)
LEMMA EnvStepIsServerStep == [ShareEnvNext]_shareEnvVars => [Next]_vars
BY DEF ShareEnvNext, shareEnvVars, vars, Call, Encrypted, ThrowAborted, ReadyRejects,
       Announce, Return, Abort, AnnouncerBound, ServerStep, Next

(* Nothing has happened yet.                                               *)
LEMMA ShareEnvInitInv == ShareEnvInit => ShareEnvInv
<1> SUFFICES ASSUME ShareEnvInit PROVE ShareEnvInv  OBVIOUS
<1>1. IndInv  BY InitInv DEF ShareEnvInit
<1>2. ServerInv  BY DEF ShareEnvInit, Init, ServerInv
<1>3. ShareEnvTypeOK /\ EnvInv /\ AbortStopsSharing
  BY DEF ShareEnvInit, Init, ShareEnvTypeOK, EnvInv, AbortStopsSharing
<1> QED  BY <1>1, <1>2, <1>3 DEF ShareEnvInv

(* Each step of shareEnv, of its announcer and of its server.              *)
LEMMA ShareEnvStepInv == ShareEnvInv /\ [ShareEnvNext]_shareEnvVars => ShareEnvInv'
<1> SUFFICES ASSUME ShareEnvInv, [ShareEnvNext]_shareEnvVars PROVE ShareEnvInv'
  OBVIOUS
<1> USE DEF ShareEnvInv
<1>0. IndInv' /\ ServerInv' /\ ServerStable
  BY EnvStepIsServerStep, StepInv, StepStable
<1>s. /\ served \in {"pending", "resolved", "expired", "stopped"}
      /\ settled = (Holder # {} \/ served # "pending")
      /\ served = "resolved" => Holder # {}
  BY DEF IndInv, TypeOK, ShareInv, Holder, Claimed
<1>1. ShareEnvTypeOK'
  BY DEF ShareEnvNext, Call, Encrypted, ThrowAborted, ReadyRejects, Announce, Return,
         Abort, AnnouncerBound, ServerStep, Finish, ShareEnvTypeOK, shareEnvVars, envVars
<1>2. CASE UNCHANGED shareEnvVars
  BY <1>0, <1>1, <1>2 DEF shareEnvVars, envVars, vars, EnvInv, AbortStopsSharing, Holder
<1>3. CASE Call \/ Encrypted
  <2>1. UNCHANGED <<vars, announcer, aborted>> /\ Holder' = Holder
    BY <1>3 DEF Call, Encrypted, ThrowAborted, vars, Holder
  <2>2. EnvInv'
    BY <1>3, <2>1 DEF Call, Encrypted, ThrowAborted, Finish, EnvInv, vars,
       ShareEnvTypeOK
  <2>3. AbortStopsSharing'
    BY <1>3, <2>1 DEF Call, Encrypted, ThrowAborted, Finish, AbortStopsSharing
  <2> QED  BY <1>0, <1>1, <2>2, <2>3
<1>4. CASE ReadyRejects
  <2>1. UNCHANGED <<vars, announcer, aborted, created>> /\ Holder' = Holder
    BY <1>4 DEF ReadyRejects, vars, Holder
  <2>2. EnvInv' /\ AbortStopsSharing'
    BY <1>4, <2>1 DEF ReadyRejects, Finish, EnvInv, vars, AbortStopsSharing
  <2> QED  BY <1>0, <1>1, <2>2
<1>5. CASE Announce
  <2>1. /\ \A c \in Conn : handler[c] = "idle"
        /\ created /\ outcome = "pending"
    BY <1>5 DEF Announce, EnvInv, ShareEnvTypeOK
  <2>2. Holder = {}  BY <2>1 DEF Holder, Claimed
  <2>3. served = "pending" /\ ~settled  BY <1>5, <1>s, <2>2 DEF Announce, ServerInv
  <2>4. CASE aborted
    BY <1>0, <1>1, <1>5, <2>1, <2>3, <2>4
       DEF Announce, Stop, Closed, Finish, EnvInv, AbortStopsSharing
  <2>5. CASE ~aborted
    BY <1>0, <1>1, <1>5, <2>1, <2>3, <2>5
       DEF Announce, Send, EnvInv, AbortStopsSharing
  <2> QED  BY <2>4, <2>5
<1>6. CASE Return
  <2>1. UNCHANGED <<vars, created, aborted>> /\ Holder' = Holder
    BY <1>6 DEF Return, vars, Holder
  <2>2. EnvInv' /\ AbortStopsSharing'
    BY <1>6, <1>s, <2>1 DEF Return, Finish, EnvInv, vars, AbortStopsSharing
  <2> QED  BY <1>0, <1>1, <2>2
<1>7. CASE Abort /\ pc = "serving"
  <2>1. Stop /\ UNCHANGED <<created, pc, outcome, handler>> /\ Holder' = Holder
    BY <1>7 DEF Abort, Stop, connVars, Holder
  <2>2. /\ server' # "listening" /\ server' # "binding"
        /\ Holder' # {} \/ served' # "pending"
    BY <1>s, <2>1 DEF Stop, Closed
  <2>3. created /\ outcome = "pending"
    BY <1>7 DEF EnvInv, ShareEnvTypeOK
  <2>4. EnvInv' /\ AbortStopsSharing'
    BY <1>7, <2>1, <2>2, <2>3 DEF Abort, EnvInv, AbortStopsSharing
  <2> QED  BY <1>0, <1>1, <2>4
<1>8. CASE Abort /\ pc # "serving"
  <2>1. UNCHANGED <<vars, announcer, pc, created, outcome>> /\ Holder' = Holder
    BY <1>8 DEF Abort, vars, Holder
  <2>2. EnvInv' /\ AbortStopsSharing'
    BY <1>8, <2>1 DEF Abort, EnvInv, vars, AbortStopsSharing
  <2> QED  BY <1>0, <1>1, <2>2
<1>9. CASE AnnouncerBound
  <2>1. UNCHANGED <<vars, pc, created, aborted, outcome>> /\ Holder' = Holder
    BY <1>9 DEF AnnouncerBound, vars, Holder
  <2>2. EnvInv' /\ AbortStopsSharing'
    BY <1>9, <2>1 DEF AnnouncerBound, EnvInv, vars, AbortStopsSharing, ShareEnvTypeOK
  <2> QED  BY <1>0, <1>1, <2>2
<1>10. CASE ServerStep
  <2>1. created /\ UNCHANGED envVars  BY <1>10 DEF ServerStep
  <2>2. pc = "ready" => server # "listening"
    BY <1>10 DEF ServerStep, ContinuationDue
  <2>3. EnvInv'
    BY <1>0, <2>1, <2>2 DEF EnvInv, envVars, ServerStable, NobodyNew
  <2>4. AbortStopsSharing'
    BY <1>0, <2>1 DEF AbortStopsSharing, envVars, EnvInv, ServerStable
  <2> QED  BY <1>0, <1>1, <2>3, <2>4
<1> QED
  BY <1>2, <1>3, <1>4, <1>5, <1>6, <1>7, <1>8, <1>9, <1>10 DEF ShareEnvNext

(* The invariant holds of every share.                                     *)
THEOREM ShareEnvInductive == ShareEnvSpec => []ShareEnvInv
BY ShareEnvInitInv, ShareEnvStepInv, PTL DEF ShareEnvSpec

-----------------------------------------------------------------------------
(* What follows for every share.                                           *)

(* shareEnv runs a Sharer: whatever SharerProofs shows of the server holds *)
(* of the one inside a share, and the share implements OneShot.            *)
THEOREM RunsSharer == ShareEnvSpec => Spec
<1>1. ShareEnvInit => Init  BY DEF ShareEnvInit
<1> QED  BY <1>1, EnvStepIsServerStep, PTL DEF ShareEnvSpec, Spec

(* The share's own state keeps its types.                                  *)
THEOREM ShareEnvTypeCorrect == ShareEnvSpec => []ShareEnvTypeOK
<1>1. ShareEnvInv => ShareEnvTypeOK  BY DEF ShareEnvInv
<1> QED  BY <1>1, ShareEnvInductive, PTL

(* Once shareEnv has settled, by whichever way, it neither announces nor   *)
(* accepts.                                                                *)
THEOREM NothingIsLeft == ShareEnvSpec => []NothingOutlives
<1>1. ShareEnvInv => NothingOutlives
  BY DEF ShareEnvInv, EnvInv, ServerInv, NothingOutlives
<1> QED  BY <1>1, ShareEnvInductive, PTL

(* An abort during the wait stops listener and announcer at once, and      *)
(* shareEnv waits on only for a peer that already claimed the capsule.     *)
THEOREM AbortIsImmediate == ShareEnvSpec => []AbortStopsSharing
<1>1. ShareEnvInv => AbortStopsSharing  BY DEF ShareEnvInv
<1> QED  BY <1>1, ShareEnvInductive, PTL

(* Each report follows from what the invariant keeps of its cause.         *)
LEMMA InvIsHonest == ShareEnvInv => OutcomeHonest
<1> SUFFICES ASSUME ShareEnvInv PROVE OutcomeHonest  OBVIOUS
<1> USE DEF ShareEnvInv
<1>1. server \in {"binding", "failed"} => Holder = {}
  BY DEF ServerInv, Holder, Claimed
<1>2. /\ served \in {"expired", "stopped"} => Holder = {}
      /\ sent \subseteq Holder
  BY DEF IndInv, ShareInv
<1> QED  BY <1>1, <1>2 DEF EnvInv, OutcomeHonest

(* What shareEnv reports is what happened.                                 *)
THEOREM ReportIsTrue == ShareEnvSpec => []OutcomeHonest
BY InvIsHonest, ShareEnvInductive, PTL

(* No handshake that outlives the share puts the capsule on a wire.        *)
THEOREM SettledIsSilent == ShareEnvSpec => SilentAfterSettling
<1>1. ASSUME ShareEnvInv, [ShareEnvNext]_shareEnvVars, pc = "done" PROVE sent' = sent
  <2>1. ServerStable
    BY <1>1, EnvStepIsServerStep, StepStable DEF ShareEnvInv
  <2>2. settled \/ server \in {"binding", "failed"}
    BY <1>1 DEF ShareEnvInv, EnvInv, IndInv, ShareInv
  <2> QED  BY <2>1, <2>2 DEF ServerStable
<1> QED
  BY <1>1, ShareEnvInductive, PTL DEF ShareEnvSpec, SilentAfterSettling

(* No cancelled share is announced.                                        *)
THEOREM AnnouncesOnlyWhileServing == ShareEnvSpec => AnnouncedWhileServing
<1>1. ASSUME ShareEnvInv, [ShareEnvNext]_shareEnvVars, broadcast' # broadcast
      PROVE  pc = "serving" /\ ~aborted
  <2>1. announcer = "binding"
    BY <1>1 DEF ShareEnvNext, shareEnvVars, envVars, Call, Encrypted, ReadyRejects,
       Announce, Return, Abort, AnnouncerBound, ServerStep
  <2> QED
    BY <1>1, <2>1 DEF ShareEnvInv, ShareEnvTypeOK, EnvInv, AbortStopsSharing
<1> QED
  BY <1>1, ShareEnvInductive, PTL DEF ShareEnvSpec, AnnouncedWhileServing

=============================================================================
