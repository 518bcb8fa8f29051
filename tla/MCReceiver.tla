----------------------------- MODULE MCReceiver -----------------------------
(* More announcers than the budget admits, some genuine.                   *)
EXTENDS Receiver

CONSTANTS g1, g2, i1

GenuineTwo     == {g1, g2}
AnnouncerThree == {g1, g2, i1}
=============================================================================
