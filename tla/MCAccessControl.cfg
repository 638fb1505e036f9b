SPECIFICATION Spec
CONSTANTS
  p1 = p1
  User = {admin, u1}
  Admin = admin
  Project = {p1}
  None = none
  AnyPermission = any
  Assignment <- Assignments
  Call = {c1, c2}
  MaxBinding = 3
  MaxVersion = 1
  MaxChange = 5
SYMMETRY Calls
INVARIANTS
  ListAgreesWithGet
  OwnerKeepsSight
  OneEffectiveBinding
PROPERTIES
  ChangedByDuty
