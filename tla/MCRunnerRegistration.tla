------------------------ MODULE MCRunnerRegistration -------------------------
EXTENDS RunnerRegistration, TLC

Symmetry == Permutations(Host) \cup Permutations(Process) \cup Permutations(Call)
==============================================================================
