CONSTANTS
  t1 = t1
  a1 = a1
  a2 = a2
  r1 = r1
  i1 = i1
  i2 = i2
  s1 = s1
  s2 = s2
  o1 = o1
  c1 = c1
  c2 = c2
  RunTask = {t1}
  Attempt = {a1, a2}
  Runner = {r1}
  Operator = {o1}
  Identity = {i1, i2}
  Slot = {s1, s2}
  NoResource = NoResource
  TaskOf <- MCTaskOf
  RunnerOf <- MCRunnerOf
  SlotRunner <- MCSlotRunner
  IdentityTTL = 1
  RunnerTTL = 1
  MaxVersion = 2
  Call = {c1, c2}
  NoCall = NoCall
SYMMETRY MCSymmetry
SPECIFICATION TxSpec
INVARIANTS
  LeaseExclusive
  BindingLeaseCoherent
  FencingSound
  OwnersAgree
  EvidenceReplays
PROPERTIES
  StepsAreAtomic
  ImplementsReservation
