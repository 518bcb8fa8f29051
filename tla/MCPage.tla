------------------------------- MODULE MCPage -------------------------------
(* One page and other clients over two requests.                         *)
EXTENDS Page

CONSTANTS r1, r2

RequestTwo == {r1, r2}
=============================================================================
