SPECIFICATION AccountSpec
CONSTANTS
  Request = {q1, q2}
  MaxSession = 3
  MaxPasswords = 2
  SessionLimit = 2
  SessionTTL = 2
  MaxFailures = 2
  LockTTL = 1
SYMMETRY Symmetry
INVARIANTS
  UsableDescendsFromLogin
  DisabledHasNoSession
  SerialRotation
