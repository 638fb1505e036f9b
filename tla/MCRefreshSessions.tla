-------------------------- MODULE MCRefreshSessions --------------------------
EXTENDS RefreshSessions, TLC

Symmetry == Permutations(Request)
===============================================================================
