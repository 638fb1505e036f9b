------------------------------ MODULE MCPlanning ------------------------------
(* Two requests at a time, two bodies, and a ring that is rotated twice.                    *)
EXTENDS Planning, TLC

CONSTANTS q1, q2, p1, p2, k1, k2, k3

\* Nothing but quantifiers tells requests apart, and the later keys of the ring.
MCSymmetry == Permutations({q1, q2}) \cup Permutations({k2, k3})
===============================================================================
