-------------------------- MODULE MCModelConfiguration --------------------------
(* Two configurations and two people, one of them a super administrator.  *)
EXTENDS ModelConfiguration, TLC

Symmetry == Permutations(Model) \cup Permutations(Attempt)
================================================================================
