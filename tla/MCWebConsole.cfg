SPECIFICATION ConsoleSpec
CONSTANTS
  Person = {u1, u2}
  Nobody = none
  MaxCalls = 3
  InUse <- OneStore
CHECK_DEADLOCK FALSE
INVARIANTS
  CachesOfSession
  WaitsEnd
PROPERTIES
  NewestReadShown
