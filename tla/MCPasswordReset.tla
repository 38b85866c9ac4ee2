-------------------------- MODULE MCPasswordReset --------------------------
(***************************************************************************)
(* Small instances of PasswordReset for TLC: the constants are in the .cfg.*)
(***************************************************************************)
EXTENDS PasswordReset, TLC

Symmetry == Permutations(Code) \cup Permutations(Request)
==============================================================================
