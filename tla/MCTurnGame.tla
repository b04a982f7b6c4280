----------------------------- MODULE MCTurnGame -----------------------------
(***************************************************************************)
(* TurnGame, and the number of plates it may have, made finite for TLC.    *)
(***************************************************************************)
EXTENDS PlateCountProperties, TLC

CONSTANT PurseBound   \* tokens in the two purses together

\* Misses fill the purses without end.
Bounded == purse[0] + purse[1] <= PurseBound

Symmetric == Permutations(Plates)
=============================================================================
