--------------------------- MODULE SessionProofs ---------------------------
(***************************************************************************)
(* What the key schedule of a handshake guarantees, for every passphrase,  *)
(* room and key pair.                                                      *)
(***************************************************************************)
EXTENDS Session, TLAPS

(* Terms of the same constructor are equal only if their parts are.        *)
LEMMA PairsEqual ==
  ASSUME NEW a, NEW b, NEW c, NEW d, <<a, b>> = <<c, d>>
  PROVE  a = c /\ b = d
  BY <<a, b>>[1] = a, <<a, b>>[2] = b, <<c, d>>[1] = c, <<c, d>>[2] = d

LEMMA TriplesEqual ==
  ASSUME NEW a, NEW b, NEW c, NEW d, NEW e, NEW f, <<a, b, c>> = <<d, e, f>>
  PROVE  a = d /\ b = e /\ c = f
  BY <<a, b, c>>[1] = a, <<a, b, c>>[2] = b, <<a, b, c>>[3] = c,
     <<d, e, f>>[1] = d, <<d, e, f>>[2] = e, <<d, e, f>>[3] = f

(* The passphrase key determines passphrase, room and handshake: it is     *)
(* another one in every session, so no guess serves for two ("the derived  *)
(* passphrase key" was identical across sessions when salted by room).     *)
THEOREM PassphraseKeyUnique ==
  ASSUME NEW p, NEW q, NEW r, NEW s, NEW t, NEW u,
         passphraseKey(p, r, t) = passphraseKey(q, s, u)
  PROVE  p = q /\ r = s /\ t = u
  <1>1. p = q /\ kdfSalt(r, t) = kdfSalt(s, u)
    BY TriplesEqual DEF passphraseKey
  <1>2. roomHash(r) = roomHash(s) /\ t = u
    BY <1>1, TriplesEqual DEF kdfSalt
  <1>3. r = s
    BY <1>2, PairsEqual DEF roomHash
  <1> QED
    BY <1>1, <1>2, <1>3

(* The capsule key and the key of the MAC that travels in the clear are    *)
(* never the same.                                                         *)
THEOREM KeysIndependent ==
  ASSUME NEW i, NEW j, NEW t, NEW u
  PROVE  deriveSessionKeys(i, t).kEnc # deriveSessionKeys(j, u).kMac
  <1> SUFFICES ASSUME deriveSessionKeys(i, t).kEnc = deriveSessionKeys(j, u).kMac
               PROVE  FALSE
    OBVIOUS
  <1>1. <<"capsule-enc", i, t>> = <<"confirm-mac", j, u>>
    BY DEF deriveSessionKeys
  <1>2. "capsule-enc" = "confirm-mac"
    BY <1>1, TriplesEqual
  <1> QED
    BY <1>2

(* The inputs of both ends' sessions agree.                                *)
SameInputs(s, pubR, p, room, r, pubS, q, sroom) ==
  s = pubS /\ r = pubR /\ p = q /\ room = sroom

LEMMA KeysEqual ==
  ASSUME NEW m, NEW h, NEW pubR, NEW pubS, NEW p, NEW room,
         NEW n, NEW g, NEW qubR, NEW qubS, NEW q, NEW soom,
         <<diffieHellman(m, h), passphraseKey(p, room, transcript(pubR, pubS))>>
           = <<diffieHellman(n, g), passphraseKey(q, soom, transcript(qubR, qubS))>>
  PROVE  pubR = qubR /\ pubS = qubS /\ p = q /\ room = soom
  <1>1. passphraseKey(p, room, transcript(pubR, pubS)) = passphraseKey(q, soom, transcript(qubR, qubS))
    BY PairsEqual
  <1>2. p = q /\ room = soom /\ transcript(pubR, pubS) = transcript(qubR, qubS)
    BY <1>1, PassphraseKeyUnique
  <1> QED
    BY <1>2, PairsEqual DEF transcript

(* The two ends of one handshake that saw each other's keys.               *)
LEMMA HonestExchange ==
  ASSUME NEW s, NEW r, NEW p, NEW room
  PROVE  sharerSession(s, r, p, room) = receiverSession(r, s, p, room)
  <1>1. diffieHellman(s, r) = diffieHellman(r, s)
    BY DEF diffieHellman
  <1> QED
    BY <1>1 DEF sharerSession, receiverSession, session, keys

(* The sharer accepts a proof exactly if its sender typed the same         *)
(* passphrase and room, and each side saw the key that the other one sent. *)
THEOREM ProofAccepted ==
  ASSUME NEW s, NEW pubR, NEW p, NEW room, NEW r, NEW pubS, NEW q, NEW soom
  PROVE  sharerSession(s, pubR, p, room).confirmR = receiverSession(r, pubS, q, soom).confirmR
           <=> SameInputs(s, pubR, p, room, r, pubS, q, soom)
  <1> DEFINE t  == transcript(pubR, s)
             u  == transcript(r, pubS)
             i  == <<diffieHellman(s, pubR), passphraseKey(p, room, t)>>
             j  == <<diffieHellman(r, pubS), passphraseKey(q, soom, u)>>
             k  == <<"confirm-mac", i, t>>
             l  == <<"confirm-mac", j, u>>
  <1>1. /\ sharerSession(s, pubR, p, room).confirmR = <<"hmac", k, "confirm-receiver", t>>
        /\ receiverSession(r, pubS, q, soom).confirmR = <<"hmac", l, "confirm-receiver", u>>
    BY DEF sharerSession, receiverSession, session, keys, deriveSessionKeys
  <1>2. ASSUME <<"hmac", k, "confirm-receiver", t>> = <<"hmac", l, "confirm-receiver", u>>
        PROVE  SameInputs(s, pubR, p, room, r, pubS, q, soom)
    <2> HIDE DEF k, l, t, u
    <2>1. k = l
      BY <1>2, <<"hmac", k, "confirm-receiver", t>>[2] = k, <<"hmac", l, "confirm-receiver", u>>[2] = l
    <2> HIDE DEF i, j
    <2>2. i = j
      BY <2>1, TriplesEqual DEF k, l
    <2>3. pubR = r /\ s = pubS /\ p = q /\ room = soom
      BY <2>2, KeysEqual DEF i, j, t, u
    <2> QED
      BY <2>3 DEF SameInputs
  <1>3. ASSUME SameInputs(s, pubR, p, room, r, pubS, q, soom)
        PROVE  sharerSession(s, pubR, p, room).confirmR = receiverSession(r, pubS, q, soom).confirmR
    BY <1>3, HonestExchange DEF SameInputs
  <1> QED
    BY <1>1, <1>2, <1>3

(* A capsule opens exactly at the receiver whose proof would be accepted:  *)
(* a wrong passphrase, another room or an impostor in between give a key   *)
(* that does not fit.                                                      *)
THEOREM CapsuleOpensForProver ==
  ASSUME NEW s, NEW pubR, NEW p, NEW room, NEW r, NEW pubS, NEW q, NEW soom, NEW data
  PROVE  opens(receiverSession(r, pubS, q, soom).kEnc,
               sealCapsule(sharerSession(s, pubR, p, room).kEnc, data))
           <=> SameInputs(s, pubR, p, room, r, pubS, q, soom)
  <1> DEFINE t  == transcript(pubR, s)
             u  == transcript(r, pubS)
             i  == <<diffieHellman(s, pubR), passphraseKey(p, room, t)>>
             j  == <<diffieHellman(r, pubS), passphraseKey(q, soom, u)>>
  <1>1. /\ sharerSession(s, pubR, p, room).kEnc = <<"capsule-enc", i, t>>
        /\ receiverSession(r, pubS, q, soom).kEnc = <<"capsule-enc", j, u>>
    BY DEF sharerSession, receiverSession, session, keys, deriveSessionKeys
  <1>2. ASSUME <<"capsule-enc", i, t>> = <<"capsule-enc", j, u>>
        PROVE  SameInputs(s, pubR, p, room, r, pubS, q, soom)
    <2> HIDE DEF i, j
    <2>1. i = j
      BY <1>2, TriplesEqual
    <2> QED
      BY <2>1, KeysEqual DEF i, j, SameInputs
  <1>3. ASSUME SameInputs(s, pubR, p, room, r, pubS, q, soom)
        PROVE  receiverSession(r, pubS, q, soom).kEnc = sharerSession(s, pubR, p, room).kEnc
    BY <1>3, HonestExchange DEF SameInputs
  <1>4. opens(receiverSession(r, pubS, q, soom).kEnc, sealCapsule(sharerSession(s, pubR, p, room).kEnc, data))
          <=> receiverSession(r, pubS, q, soom).kEnc = sharerSession(s, pubR, p, room).kEnc
    BY DEF opens, sealCapsule
  <1> QED
    BY <1>1, <1>2, <1>3, <1>4

(* A payload is decrypted exactly by the passphrase it was encrypted with. *)
THEOREM PayloadDecrypts ==
  ASSUME NEW text, NEW salt, NEW p, NEW q
  PROVE  decrypts(encrypt(text, p, salt), q) <=> p = q
  <1>1. decrypts(encrypt(text, p, salt), q) <=> <<"scrypt", p, salt>> = <<"scrypt", q, salt>>
    BY DEF decrypts, encrypt, sealCapsule, opens
  <1> QED
    BY <1>1, TriplesEqual
=============================================================================
