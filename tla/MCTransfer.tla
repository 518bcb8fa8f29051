----------------------------- MODULE MCTransfer -----------------------------
(* One share and one receive with the same passphrase; another receiver    *)
(* and another sharer with that passphrase, who may misbehave.             *)
EXTENDS Transfer

CONSTANTS l, a1, g1

ConnTwo      == {l, a1}
AnnouncerTwo == {l, g1}
=============================================================================
