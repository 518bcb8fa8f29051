------------------------------- MODULE Session -------------------------------
(***************************************************************************)
(* The keys and messages of one handshake as symbolic terms: session in    *)
(* src/handshake.js over the primitives of src/crypto.js. A hash, a key    *)
(* derivation or a cipher is a free constructor of its inputs; a key pair  *)
(* stands for its public key; two key pairs agree on the set of the two.   *)
(***************************************************************************)

roomHash(room)        == <<"room", room>>
transcript(pubR, pubS) == <<pubR, pubS>>

kdfSalt(room, t)             == <<"salt", roomHash(room), t>>
passphraseKey(pass, room, t) == <<"scrypt", pass, kdfSalt(room, t)>>
diffieHellman(mine, theirs)  == {mine, theirs}

deriveSessionKeys(ikm, t) ==
  [kEnc |-> <<"capsule-enc", ikm, t>>, kMac |-> <<"confirm-mac", ikm, t>>]

(* The keys a side derives from its own key pair, the public key it was    *)
(* sent, and the passphrase.                                               *)
keys(mine, theirs, pubR, pubS, pass, room) ==
  LET t == transcript(pubR, pubS)
  IN  deriveSessionKeys(<<diffieHellman(mine, theirs), passphraseKey(pass, room, t)>>, t)

session(mine, theirs, pubR, pubS, pass, room) ==
  LET k == keys(mine, theirs, pubR, pubS, pass, room)
  IN  [kEnc |-> k.kEnc, confirmR |-> <<"hmac", k.kMac, "confirm-receiver", transcript(pubR, pubS)>>]

(* The session of a sharer that was sent pubR, and of a receiver that was  *)
(* sent pubS.                                                              *)
sharerSession(me, pubR, pass, room)   == session(me, pubR, pubR, me, pass, room)
receiverSession(me, pubS, pass, room) == session(me, pubS, me, pubS, pass, room)

(* AES-GCM, in a capsule under a session key and in a payload under a      *)
(* passphrase with a salt of its own. Opening throws under another key.    *)
sealCapsule(k, data)       == [key |-> k, data |-> data]
encrypt(text, pass, salt)  == sealCapsule(<<"scrypt", pass, salt>>, [salt |-> salt, text |-> text])
opens(k, capsule)          == capsule.key = k
decrypts(blob, pass)       == opens(<<"scrypt", pass, blob.data.salt>>, blob)
=============================================================================
