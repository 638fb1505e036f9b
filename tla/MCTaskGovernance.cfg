SPECIFICATION Spec
CONSTANTS
  f1 = f1
  g1 = g1
  g2 = g2
  Task = {t1, t2}
  File = {f1}
  Routable = {f1}
  Gate = {g1, g2}
  GatesOf <- Gates
  CommandOf <- OneCommand
  MaxRounds = 1
  Gating = {t1}
CHECK_DEADLOCK FALSE
INVARIANTS
  WriterHoldsLock
PROPERTIES
  SuccessIsGated
