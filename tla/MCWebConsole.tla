----------------------------- MODULE MCWebConsole -----------------------------
EXTENDS WebConsole

\* One store at a time: they meet in the session only.
OneStore == {{s} : s \in Store}
===============================================================================
