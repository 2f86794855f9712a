------------------------------ MODULE MCRecovery ------------------------------
(* Model-checking instance of the account recovery. *)
EXTENDS Recovery, TLC

Symmetry == Permutations(Workers)
=============================================================================
