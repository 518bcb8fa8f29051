------------------------------ MODULE OneShot ------------------------------
(***************************************************************************)
(* What a sharer promises about its credential: it is granted to at most   *)
(* one trusted peer, and a transfer that ended without a grant has given   *)
(* nothing to anybody. A grant may still come to nothing (the peer's       *)
(* connection can be gone by then), so sent lags behind holder.            *)
(***************************************************************************)

CONSTANTS
  Peer,      \* whoever may connect
  Trusted    \* the peers that hold the shared secret

VARIABLES
  holder,    \* the peer the credential was granted to, as a set of at most one
  sent,      \* the peers the credential was put on the wire for
  outcome    \* how the transfer ended for the caller

abstractVars == <<holder, sent, outcome>>

Failures == {"expired", "stopped"}

Init ==
  /\ holder = {}
  /\ sent = {}
  /\ outcome = "pending"

Grant(p) ==
  /\ p \in Trusted
  /\ holder = {}
  /\ outcome = "pending"
  /\ holder' = {p}
  /\ sent' \in {{}, {p}}
  /\ UNCHANGED outcome

GiveUp ==
  /\ holder = {}
  /\ outcome = "pending"
  /\ outcome' \in Failures
  /\ UNCHANGED <<holder, sent>>

Complete ==
  /\ holder # {}
  /\ outcome = "pending"
  /\ outcome' = "resolved"
  /\ UNCHANGED <<holder, sent>>

Next == (\E p \in Peer : Grant(p)) \/ GiveUp \/ Complete

Spec == Init /\ [][Next]_abstractVars

=============================================================================
