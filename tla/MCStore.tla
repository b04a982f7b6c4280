------------------------------- MODULE MCStore -------------------------------
(***************************************************************************)
(* Store made finite for TLC.                                              *)
(***************************************************************************)
EXTENDS Store, TLC

Symmetric == Permutations(Callers) \cup Permutations(Values)
=============================================================================
