--------------------------- MODULE MCAIExploration ---------------------------
(* Sessions that may start the attempts of one RunTask on one identity and one slot, with   *)
(* one cancel request in flight at a time.  The configurations choose how many of each.     *)
EXTENDS AIExploration, TLC

CONSTANTS o1, t1, a1, r1, i1, s1, x1, x2, q1

MCTaskOf == a1 :> t1
MCRunnerOf == a1 :> r1
MCSlotRunner == s1 :> r1

\* Nothing but quantifiers over Session tells two sessions apart.
MCSymmetry == Permutations({x1, x2})
===============================================================================
