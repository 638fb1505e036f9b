CONSTANTS
  t1 = t1
  a1 = a1
  r1 = r1
  i1 = i1
  s1 = s1
  o1 = o1
  x1 = x1
  x2 = x2
  q1 = q1
  RunTask = {t1}
  Attempt = {a1}
  Runner = {r1}
  Operator = {o1}
  Identity = {i1}
  Slot = {s1}
  NoResource = NoResource
  TaskOf <- MCTaskOf
  RunnerOf <- MCRunnerOf
  SlotRunner <- MCSlotRunner
  IdentityTTL = 1
  RunnerTTL = 1
  MaxVersion = 3
  Session = {x1, x2}
  Request = {q1}
  MaxSteps = 1
  NoAttempt = NoAttempt
  Crashes = TRUE
SPECIFICATION FairXSpec
INVARIANTS
  ExecutionOwned
  NoAbandonedRun
  EventTellsOutcome
PROPERTIES
  CoreSpec
  RunEnds
  CleanupRecorded
