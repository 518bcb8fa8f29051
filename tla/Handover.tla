------------------------------ MODULE Handover ------------------------------
(***************************************************************************)
(* What the two users of one connection are promised about one credential: *)
(* it is granted once, for a proof of the passphrase that both typed, and  *)
(* never after the sharer was told that nothing happened; it is received   *)
(* only after it was sent; and each side is told one thing, once.          *)
(*                                                                         *)
(* What is not promised: a grant may be lost on its way, and the receiver  *)
(* may have given up by then. The sharer's "ok" can be another receiver's, *)
(* the receiver's end another sharer's.                                    *)
(***************************************************************************)

CONSTANT SamePassphrase

VARIABLES
  proved,        \* the receiver has sent its proof
  grant,         \* what became of the capsule on this connection
  sharerTold,    \* what the sharing user was told
  receiverTold   \* what the receiving user was told

handoverVars == <<proved, grant, sharerTold, receiverTold>>

Init ==
  /\ proved = FALSE
  /\ grant = "none"
  /\ sharerTold = "pending"
  /\ receiverTold \in {"waiting", "nothing"}

Prove ==
  /\ ~proved
  /\ proved' = TRUE
  /\ UNCHANGED <<grant, sharerTold, receiverTold>>

Grant ==
  /\ proved /\ SamePassphrase
  /\ grant = "none"
  /\ sharerTold = "pending"
  /\ grant' \in {"sent", "lost"}
  /\ UNCHANGED <<proved, sharerTold, receiverTold>>

Receive ==
  /\ grant = "sent"
  /\ receiverTold = "waiting"
  /\ receiverTold' = "received"
  /\ UNCHANGED <<proved, grant, sharerTold>>

ReceiverGivesUp ==
  /\ receiverTold = "waiting"
  /\ receiverTold' = "nothing"
  /\ UNCHANGED <<proved, grant, sharerTold>>

TellSharer ==
  /\ sharerTold = "pending"
  /\ sharerTold' \in {"ok", "aborted", "failed"}
  /\ grant # "none" => sharerTold' = "ok"
  /\ UNCHANGED <<proved, grant, receiverTold>>

Next == Prove \/ Grant \/ Receive \/ ReceiverGivesUp \/ TellSharer

Spec == Init /\ [][Next]_handoverVars

=============================================================================
