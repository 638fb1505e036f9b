SPECIFICATION Spec
CONSTANTS
  Revision = {r1, r2, r3}
  MaxCredential = 3
  MaxPolicy = 2
SYMMETRY Symmetry
INVARIANTS
  PublishedIsCurrent
  FrozenFactsStand
  ActivatedHasEntry
CHECK_DEADLOCK FALSE
