------------------------------ MODULE MCSharer ------------------------------
(* Small instances of Sharer: two authentic peers that race, and one that  *)
(* does not know the passphrase, over fewer handshake slots than peers.    *)
EXTENDS Sharer

CONSTANTS a1, a2, x1

AuthenticTwo == {a1, a2}
ConnThree    == {a1, a2, x1}
=============================================================================
