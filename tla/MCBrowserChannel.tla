--------------------------- MODULE MCBrowserChannel ---------------------------
(* Two explorations on one Runner: stale answers of one come before the other.              *)
EXTENDS BrowserChannel

CONSTANTS x1, x2
===============================================================================
