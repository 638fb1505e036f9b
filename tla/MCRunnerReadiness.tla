-------------------------- MODULE MCRunnerReadiness --------------------------
(* One version capability beside FORMAL_EXECUTION, and two people.         *)
EXTENDS RunnerReadiness, TLC

MCVersionCapability == {"AGENT_VERSION"}

MCObserved == {"SUPPORTED", "OLDER"}

Symmetry == Permutations(Command)
==============================================================================
