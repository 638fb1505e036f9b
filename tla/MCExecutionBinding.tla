-------------------------- MODULE MCExecutionBinding --------------------------
(* Two attempts of one RunTask compete for two identities and two slots of one Runner,    *)
(* under the commands of one operator, in two transactions that overlap.  Attempts,       *)
(* identities, slots and calls are each interchangeable: nothing but quantifiers over     *)
(* them tells their members apart.                                                        *)
EXTENDS ExecutionTransactions, TLC

CONSTANTS o1, t1, a1, a2, r1, i1, i2, s1, s2, c1, c2

MCTaskOf == a1 :> t1 @@ a2 :> t1
MCRunnerOf == a1 :> r1 @@ a2 :> r1
MCSlotRunner == s1 :> r1 @@ s2 :> r1

MCSymmetry == Permutations({a1, a2}) \cup Permutations({i1, i2}) \cup Permutations({s1, s2})
                \cup Permutations({c1, c2})
===============================================================================
