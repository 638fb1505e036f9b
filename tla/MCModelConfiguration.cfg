SPECIFICATION ModelSpec
CONSTANTS
  Model = {m1, m2}
  Person = {u1, u2}
  SuperAdmin = {u2}
  Attempt = {x1, x2}
  MaxEdition = 2
SYMMETRY Symmetry
INVARIANTS
  FourEyes
  SnapshotStillMatches
PROPERTY VerdictOfUnchanged
