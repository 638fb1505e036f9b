--------------------------- MODULE MCAccessControl ---------------------------
EXTENDS AccessControl, TLC
CONSTANTS p1

Calls == Permutations(Call)

Over(scope) == [scope |-> scope, permission |-> AnyPermission]

\* The platform administrator with sight of one project, the owner's duty
\* bound outside that project, a business role bound in it.
Assignments ==
  {[role |-> "PLATFORM_ADMIN", project |-> None,
    grants |-> {Over(None), [scope |-> p1, permission |-> "PROJECT_VIEW"]}],
   [role |-> "OWNER_DUTY", project |-> None, grants |-> {Over(p1)}],
   [role |-> "TEST_LEAD", project |-> p1, grants |-> {Over(None), Over(p1)}]}
==============================================================================
