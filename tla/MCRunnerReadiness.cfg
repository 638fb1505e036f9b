SPECIFICATION Spec
CONSTANTS
  Command = {c1, c2}
  VersionCapability <- MCVersionCapability
  Observed <- MCObserved
SYMMETRY Symmetry
INVARIANTS
  ProjectionsFollowRows
PROPERTIES
  ValidatedAsSeen
