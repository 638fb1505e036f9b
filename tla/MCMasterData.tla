---------------------------- MODULE MCMasterData -----------------------------
(* A terminal with three revisions and an account with three credentials. *)
EXTENDS MasterData, TLC

Symmetry == Permutations(Revision)
===============================================================================
