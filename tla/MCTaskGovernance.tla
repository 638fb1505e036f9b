--------------------------- MODULE MCTaskGovernance ---------------------------
EXTENDS TaskGovernance, TLC
CONSTANTS f1, g1, g2

\* The file that the impact scan sees requires both gates, which execute one
\* command.
Gates == [f \in File |-> IF f = f1 THEN {g1, g2} ELSE {}]
OneCommand == [g \in Gate |-> "pytest"]
===============================================================================
