----------------------------- MODULE MCShareEnv -----------------------------
(* One share with an authentic peer and one that is not, and an abort.     *)
EXTENDS ShareEnv

CONSTANTS a1, x1

AuthenticOne == {a1}
ConnTwo      == {a1, x1}
=============================================================================
