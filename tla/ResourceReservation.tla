------------------------- MODULE ResourceReservation -------------------------
(***************************************************************************)
(* What execution bindings promise about the resources they lease, with    *)
(* the bindings, lease rows, clocks and owners taken away: a holder takes  *)
(* an identity and a Runner slot together or not at all, only from among   *)
(* the free ones; every grant of a resource carries a new fencing token;   *)
(* what was taken together is given back together; and a holder that gave  *)
(* up its reservation never gets another.                                  *)
(***************************************************************************)
EXTENDS Naturals

CONSTANTS Holder, Identity, Slot

Resource == Identity \cup Slot

VARIABLES
  held,     \* the resources each holder has
  token,    \* the last fencing token issued for each resource
  served    \* the holders that were ever given a reservation

vars == <<held, token, served>>

TypeOK ==
  /\ held \in [Holder -> SUBSET Resource]
  /\ token \in [Resource -> Nat]
  /\ served \in SUBSET Holder

Init ==
  /\ held = [h \in Holder |-> {}]
  /\ token = [r \in Resource |-> 0]
  /\ served = {}

Free(r) == \A h \in Holder : r \notin held[h]

Reserve(h, i, s) ==
  /\ h \notin served
  /\ Free(i) /\ Free(s)
  /\ held' = [held EXCEPT ![h] = {i, s}]
  /\ token' = [r \in Resource |-> IF r \in {i, s} THEN token[r] + 1 ELSE token[r]]
  /\ served' = served \cup {h}

Vacate(h) ==
  /\ held[h] # {}
  /\ held' = [held EXCEPT ![h] = {}]
  /\ UNCHANGED <<token, served>>

Next ==
  \/ \E h \in Holder, i \in Identity, s \in Slot : Reserve(h, i, s)
  \/ \E h \in Holder : Vacate(h)

Spec == Init /\ [][Next]_vars
===============================================================================
