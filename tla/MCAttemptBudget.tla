-------------------------- MODULE MCAttemptBudget --------------------------
(* One room over four windows, a budget of two attempts, two refusals.     *)
EXTENDS AttemptBudget

CONSTANTS r1

OneRoom == {r1}
=============================================================================
