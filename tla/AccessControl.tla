---------------------------- MODULE AccessControl ----------------------------
(***************************************************************************)
(* Who may do what on the platform: users, their role bindings with data   *)
(* scope grants, the owners of projects, and the three evaluations of the  *)
(* role/permission matrix that the API carries side by side (platform      *)
(* commands, commands on one project, the list of visible projects).       *)
(*                                                                         *)
(* A command is one database transaction at REPEATABLE READ.  It           *)
(* authenticates and authorises from the snapshot of its first read, and   *)
(* then locks its target and decides on the current row - except a row it  *)
(* has loaded before (its own user, the binding it was pointed at), whose  *)
(* attributes stay as first read.  Other commands commit in between.       *)
(***************************************************************************)
EXTENDS Naturals, FiniteSets, Sequences

CONSTANTS
  User,        \* every user the platform may come to have
  Admin,       \* the bootstrapped administrator
  Project,     \* every project it may come to have
  None,        \* no project; also: the whole platform as a data scope
  AnyPermission,  \* a grant without a permission code
  Assignment,  \* the [role, project, grants] that callers ask for
  Call,        \* the requests that may be under way at once
  MaxBinding,  \* bound: role bindings ever made
  MaxVersion,  \* bound: row version of a user
  MaxChange    \* bound: row version from which a project changes no more

Role == {"SUPER_ADMIN", "PLATFORM_ADMIN", "OWNER_DUTY", "TEST_LEAD"}

Permission == {"PROJECT_VIEW", "PROJECT_CREATE", "PROJECT_EDIT", "USER_CREATE",
               "ROLE_BIND", "PROJECT_MEMBER_MANAGE", "PROJECT_OWNER_ELIGIBLE"}

Grant == [scope : Project \cup {None}, permission : Permission \cup {AnyPermission}]

ASSUME AccessAssumption ==
  /\ Admin \in User
  /\ None \notin Project
  /\ AnyPermission \notin Permission
  /\ MaxBinding \in Nat /\ MaxVersion \in Nat /\ MaxChange \in Nat
  /\ Assignment \subseteq
       [role : Role, project : Project \cup {None}, grants : SUBSET Grant]

VARIABLES
  user,     \* user[u]: lifecycle and row version
  binding,  \* the role bindings in the order they were made
  member,   \* member[p]: the users with an ACTIVE owner duty in p
  project,  \* project[p]: lifecycle and row version
  tx,       \* tx[c]: the command of request c, its caller and what it has read
  overwritten  \* history: the users a command of their own wrote over a newer row of theirs

vars == <<user, binding, member, project, tx, overwritten>>

NoCommand == [op |-> "none"]

UserState    == {"absent", "ACTIVE", "DISABLED"}
ProjectState == {"absent", "ACTIVE", "DISABLED", "ARCHIVED"}

BindingRow == [user : User, role : Role, project : Project \cup {None},
               grants : SUBSET Grant, ended : BOOLEAN, by : User]

Bindings == DOMAIN binding
----------------------------------------------------------------------------
(* The matrix and its evaluations.                                         *)

\* The seeded matrix.  TEST_LEAD stands for the business roles: their rows
\* differ in permissions no command of this module asks for.
Allowed(r, perm) ==
  CASE r = "SUPER_ADMIN"    -> TRUE
    [] r = "PLATFORM_ADMIN" -> perm \notin {"PROJECT_EDIT", "PROJECT_OWNER_ELIGIBLE"}
    [] r = "OWNER_DUTY"     -> perm \notin {"PROJECT_CREATE", "USER_CREATE", "ROLE_BIND"}
    [] r = "TEST_LEAD"      -> perm = "PROJECT_VIEW"

EffectiveOf(u) == {b \in Bindings : binding[b].user = u /\ ~binding[b].ended}

IsOwner(u, p) == u \in member[p]

\* The live duty of u in p that a binding of role r leans on.  Only creating a
\* project makes a member, and it makes an owner.
HasDuty(u, p, r) == r = "OWNER_DUTY" /\ IsOwner(u, p)

Grants(b, scope, perm) ==
  \E g \in binding[b].grants : g.scope = scope /\ g.permission \in {AnyPermission, perm}

\* A verdict over the bindings that apply: one denial refuses.
NoneDenies(applicable, perm) == \A b \in applicable : Allowed(binding[b].role, perm)
SomeAllows(applicable, perm) == \E b \in applicable : Allowed(binding[b].role, perm)

\* require_platform_permissions_in_transaction: bindings without a project
\* that carry a grant over the platform.
PlatformAllowed(u, perm) ==
  LET applicable == {b \in EffectiveOf(u) :
                       /\ binding[b].project = None
                       /\ binding[b].role = "SUPER_ADMIN" \/ Grants(b, None, perm)}
  IN  NoneDenies(applicable, perm) /\ SomeAllows(applicable, perm)

\* Mutated AppliesTo: the grant alone decides, without the live duty.
AppliesWithoutDuty(b, u, p, perm) ==
  \/ binding[b].role = "SUPER_ADMIN"
  \/ binding[b].project \in {None, p} /\ Grants(b, p, perm)

\* A binding of u bears on project p: a business role needs the grant and the
\* same duty in the project, the platform administrator an explicit grant.
AppliesTo(b, u, p, perm) ==
  \/ binding[b].role = "SUPER_ADMIN"
  \/ /\ binding[b].project \in {None, p}
     /\ Grants(b, p, perm)
     /\ binding[b].role = "PLATFORM_ADMIN" \/ HasDuty(u, p, binding[b].role)

\* Mutated ProjectAllowed: what the owner's duty does not grant, it refuses.
OwnerDutyOnly(u, p, perm) ==
  LET applicable == {b \in EffectiveOf(u) : AppliesTo(b, u, p, perm)}
  IN  /\ NoneDenies(applicable, perm)
      /\ SomeAllows(applicable, perm)

\* require_project_permissions_in_transaction: the bindings that bear on p,
\* beside them the owner's duty, which never refuses.
ProjectAllowed(u, p, perm) ==
  LET applicable == {b \in EffectiveOf(u) : AppliesTo(b, u, p, perm)}
  IN  /\ NoneDenies(applicable, perm)
      /\ \/ SomeAllows(applicable, perm)
         \/ IsOwner(u, p) /\ Allowed("OWNER_DUTY", perm)

\* authorized_project_ids_in_transaction: a super administrator sees every
\* project; anyone else what some row allows and no row denies.
VisibleProjects(u, perm) ==
  LET own       == EffectiveOf(u)
      global    == {b \in own : binding[b].role = "SUPER_ADMIN"}
      reach(b)  == {p \in Project :
                      /\ Grants(b, p, perm)
                      /\ binding[b].project \in {None, p}
                      /\ \/ binding[b].role = "PLATFORM_ADMIN"
                         \/ HasDuty(u, p, binding[b].role)}
      owned     == {p \in Project : IsOwner(u, p)}
      opened(S) == UNION {reach(b) : b \in S \ global}
      positive  == {b \in own : Allowed(binding[b].role, perm)}
      ownerMay  == Allowed("OWNER_DUTY", perm)
  IN  IF global # {}
      THEN IF global \subseteq positive THEN Project ELSE {}
      ELSE (opened(positive) \cup IF ownerMay THEN owned ELSE {})
             \ (opened(own \ positive) \cup IF ownerMay THEN {} ELSE owned)

\* authorize_access of a project: here a denial counts before the duty is asked
\* for, and a duty without a binding of its role is none.
AccessAllowed(u, p, perm) ==
  LET applicable == {b \in EffectiveOf(u) :
                       \/ binding[b].role = "SUPER_ADMIN"
                       \/ binding[b].project \in {None, p} /\ Grants(b, p, perm)}
  IN  /\ NoneDenies(applicable, perm)
      /\ \E b \in applicable :
           /\ Allowed(binding[b].role, perm)
           /\ \/ binding[b].role \in {"SUPER_ADMIN", "PLATFORM_ADMIN"}
              \/ HasDuty(u, p, binding[b].role)

\* user_has_permission_qualification_in_transaction: every binding counts,
\* whatever its project and grants, and every membership.
Eligible(u) ==
  /\ NoneDenies(EffectiveOf(u), "PROJECT_OWNER_ELIGIBLE")
  /\ \/ SomeAllows(EffectiveOf(u), "PROJECT_OWNER_ELIGIBLE")
     \/ \E p \in Project : IsOwner(u, p)
----------------------------------------------------------------------------
(* A command opens: authentication, authorisation and every decision taken *)
(* from what it has read without a lock.  A command these refuse writes    *)
(* nothing but its audit row and is left out.                              *)

\* A command is heard from an ACTIVE user; the sessions and passwords that let
\* them in are RefreshSessions.
Heard(c, u) ==
  /\ tx[c] = NoCommand
  /\ user[u].status = "ACTIVE"

Open(c, command) ==
  /\ tx' = [tx EXCEPT ![c] = command]
  /\ UNCHANGED <<user, binding, member, project, overwritten>>

\* What binding a role to somebody asks for, in a project and outside.
MayAssign(u, a) ==
  IF a.project # None
  THEN \A perm \in {"ROLE_BIND", "PROJECT_MEMBER_MANAGE"} :
         ProjectAllowed(u, a.project, perm)
  ELSE \A perm \in {"ROLE_BIND"} \cup
                   (IF a.grants # {} THEN {"PROJECT_MEMBER_MANAGE"} ELSE {}) :
         PlatformAllowed(u, perm)

BeginCreateUser(c, u) ==
  /\ Heard(c, u)
  /\ PlatformAllowed(u, "USER_CREATE")
  /\ \E a \in Assignment, t \in User :
       /\ MayAssign(u, a)
       /\ a.role # "SUPER_ADMIN"
       /\ user[t].status = "absent"
       /\ Open(c, [op |-> "create_user", by |-> u, target |-> t, as |-> a])

BeginSetUserState(c, u) ==
  /\ Heard(c, u)
  /\ PlatformAllowed(u, "USER_CREATE")
  /\ \E t \in User \ {Admin}, to \in {"ACTIVE", "DISABLED"} :   \* _protect_admin
       /\ user[t].status \notin {"absent", to}
       /\ Open(c, [op |-> "set_user_state", by |-> u, target |-> t, to |-> to,
                   version |-> user[t].version])

\* The current binding is looked up by a plain read, so it is the snapshot's.
Taken(t, a) ==
  \E b \in EffectiveOf(t) : binding[b].role = a.role /\ binding[b].project = a.project

BeginCreateRoleBinding(c, u) ==
  /\ Heard(c, u)
  /\ \E t \in User, a \in Assignment :
       /\ MayAssign(u, a)
       /\ a.role # "SUPER_ADMIN"
       /\ user[t].status # "absent"
       /\ ~Taken(t, a)
       /\ Open(c, [op |-> "create_role_binding", by |-> u, target |-> t, as |-> a,
                   version |-> user[t].version])

\* The binding read to find its project is the one decided on: the locking
\* read that follows keeps its attributes.
BeginRevokeRoleBinding(c, u) ==
  /\ Heard(c, u)
  /\ \E b \in Bindings :
       /\ IF binding[b].project # None
          THEN \A perm \in {"ROLE_BIND", "PROJECT_MEMBER_MANAGE"} :
                 ProjectAllowed(u, binding[b].project, perm)
          ELSE PlatformAllowed(u, "ROLE_BIND")
       /\ binding[b].role # "SUPER_ADMIN"
       /\ ~binding[b].ended
       /\ Open(c, [op |-> "revoke_role_binding", by |-> u, binding |-> b])

BeginCreateProject(c, u) ==
  /\ Heard(c, u)
  /\ PlatformAllowed(u, "PROJECT_CREATE")
  /\ \E p \in Project, o \in User :
       /\ project[p].status = "absent"
       /\ user[o].status # "absent"
       /\ Eligible(o)
       /\ Open(c, [op |-> "create_project", by |-> u, project |-> p, target |-> o])

\* disable, recover and archive.
Transition == {<<"ACTIVE", "DISABLED">>, <<"DISABLED", "ACTIVE">>, <<"DISABLED", "ARCHIVED">>}

\* A command that moves a project as one of the given pairs says.
BeginMoveProject(c, u, moves) ==
  /\ Heard(c, u)
  /\ \E p \in Project, move \in moves :
       /\ ProjectAllowed(u, p, "PROJECT_EDIT")
       /\ project[p].status = move[1]
       /\ Open(c, [op |-> "change_project", by |-> u, project |-> p, move |-> move,
                   version |-> project[p].version])

\* transition_project.  PROJECT_ARCHIVE is decided as PROJECT_EDIT is.
BeginTransitionProject(c, u) == BeginMoveProject(c, u, Transition)

\* update_project: another display_name, for an ACTIVE project.
BeginUpdateProject(c, u) == BeginMoveProject(c, u, {<<"ACTIVE", "ACTIVE">>})
----------------------------------------------------------------------------
(* A command decides on its locked target and commits.                     *)

\* Its transaction ends without a write: a check failed, the key was claimed,
\* the connection broke.
Refuse(c) ==
  /\ tx[c] # NoCommand
  /\ tx' = [tx EXCEPT ![c] = NoCommand]
  /\ UNCHANGED <<user, binding, member, project, overwritten>>

Close(c) == tx' = [tx EXCEPT ![c] = NoCommand]

\* A command on the caller's own row takes the version it loaded for the current one: when
\* it is not, the row goes back to a version it has had.
Overwrites(c) ==
  {u \in {tx[c].by} : tx[c].target = u /\ tx[c].version # user[u].version}

\* A row locked by the command shows its current version - unless it is the
\* caller's own, loaded when the call was authenticated.
SeenVersion(c, current) ==
  IF tx[c].target = tx[c].by THEN tx[c].version ELSE current

Assigned(c) ==
  LET a == tx[c].as IN
  Append(binding, [user |-> tx[c].target, role |-> a.role, project |-> a.project,
                   grants |-> a.grants, ended |-> FALSE, by |-> tx[c].by])

CreateUser(c) ==
  LET t == tx[c] IN
  /\ t.op = "create_user"
  /\ user[t.target].status = "absent"                  \* unique username
  /\ Len(binding) < MaxBinding
  /\ user' = [user EXCEPT ![t.target] = [status |-> "ACTIVE", version |-> 0]]
  /\ binding' = Assigned(c)
  /\ Close(c)
  /\ UNCHANGED <<member, project, overwritten>>

SetUserState(c) ==
  LET t == tx[c] IN
  /\ t.op = "set_user_state"
  /\ SeenVersion(c, user[t.target].version) = t.version
  /\ t.version < MaxVersion
  /\ user' = [user EXCEPT ![t.target] = [status |-> t.to, version |-> t.version + 1]]
  /\ overwritten' = overwritten \cup Overwrites(c)
  /\ Close(c)
  /\ UNCHANGED <<binding, member, project>>

\* Mutated CreateRoleBinding: the version the caller saw is not compared.
BindsUnchecked(c) ==
  LET t == tx[c] IN
  /\ t.op = "create_role_binding"
  /\ Len(binding) < MaxBinding
  /\ t.version < MaxVersion
  /\ binding' = Assigned(c)
  /\ user' = [user EXCEPT ![t.target].version = t.version + 1]
  /\ overwritten' = overwritten \cup Overwrites(c)
  /\ Close(c)
  /\ UNCHANGED <<member, project>>

CreateRoleBinding(c) ==
  LET t == tx[c] IN
  /\ t.op = "create_role_binding"
  /\ SeenVersion(c, user[t.target].version) = t.version
  /\ Len(binding) < MaxBinding
  /\ t.version < MaxVersion
  /\ binding' = Assigned(c)
  /\ user' = [user EXCEPT ![t.target].version = t.version + 1]
  /\ overwritten' = overwritten \cup Overwrites(c)
  /\ Close(c)
  /\ UNCHANGED <<member, project>>

\* The binding decided on is the one first read, still in effect then: of two
\* overlapping calls both succeed.
RevokeRoleBinding(c) ==
  LET t == tx[c] IN
  /\ t.op = "revoke_role_binding"
  /\ binding' = [binding EXCEPT ![t.binding].ended = TRUE]
  /\ Close(c)
  /\ UNCHANGED <<user, member, project, overwritten>>

\* Mutated CreateProject: the owner's membership is left to a later command.
CreatesUnowned(c) ==
  LET t == tx[c] IN
  /\ t.op = "create_project"
  /\ project[t.project].status = "absent"
  /\ t.target = t.by \/ user[t.target].status = "ACTIVE"
  /\ project' = [project EXCEPT ![t.project] = [status |-> "ACTIVE", version |-> 3]]
  /\ Close(c)
  /\ UNCHANGED <<user, binding, member, overwritten>>

\* The project passes CREATED, CONFIGURING and VALIDATING inside the
\* transaction and becomes visible ACTIVE, with its owner.
CreateProject(c) ==
  LET t == tx[c] IN
  /\ t.op = "create_project"
  /\ project[t.project].status = "absent"              \* unique project code
  /\ t.target = t.by \/ user[t.target].status = "ACTIVE"
  /\ project' = [project EXCEPT ![t.project] = [status |-> "ACTIVE", version |-> 3]]
  /\ member' = [member EXCEPT ![t.project] = {t.target}]
  /\ Close(c)
  /\ UNCHANGED <<user, binding, overwritten>>

\* Recovery writes twice, RECOVERING and then ACTIVE.
ChangeProject(c) ==
  LET t == tx[c]
      p == t.project
  IN
  /\ t.op = "change_project"
  /\ project[p].version = t.version
  /\ t.version < MaxChange
  /\ project' = [project EXCEPT ![p] =
       [status  |-> t.move[2],
        version |-> t.version + IF t.move = <<"DISABLED", "ACTIVE">> THEN 2 ELSE 1]]
  /\ Close(c)
  /\ UNCHANGED <<user, binding, member, overwritten>>

----------------------------------------------------------------------------
\* The bootstrapped administrator, and users made before, whose first bindings
\* have ended: an ended binding bears on nothing.  Versions count from here.
Init ==
  /\ \E known \in SUBSET User :
       /\ Admin \in known
       /\ user = [u \in User |-> [status |-> IF u \in known THEN "ACTIVE" ELSE "absent",
                                  version |-> 0]]
  /\ binding = <<[user |-> Admin, role |-> "SUPER_ADMIN", project |-> None,
                  grants |-> {[scope |-> None, permission |-> AnyPermission]},
                  ended |-> FALSE, by |-> Admin]>>
  /\ member = [p \in Project |-> {}]
  /\ project = [p \in Project |-> [status |-> "absent", version |-> 0]]
  /\ tx = [c \in Call |-> NoCommand]
  /\ overwritten = {}

Begin(c, u) ==
  \/ BeginCreateUser(c, u) \/ BeginSetUserState(c, u)
  \/ BeginCreateRoleBinding(c, u) \/ BeginRevokeRoleBinding(c, u)
  \/ BeginCreateProject(c, u)
  \/ BeginTransitionProject(c, u) \/ BeginUpdateProject(c, u)

Commit(c) ==
  \/ CreateUser(c) \/ SetUserState(c)
  \/ CreateRoleBinding(c) \/ RevokeRoleBinding(c)
  \/ CreateProject(c) \/ ChangeProject(c)

Next == \E c \in Call : Commit(c) \/ Refuse(c) \/ \E u \in User : Begin(c, u)

Spec == Init /\ [][Next]_vars
----------------------------------------------------------------------------
Command ==
  {NoCommand}
  \cup [op : {"create_user"}, by : User, target : User, as : Assignment]
  \cup [op : {"set_user_state"}, by : User, target : User, to : UserState \ {"absent"},
        version : Nat]
  \cup [op : {"create_role_binding"}, by : User, target : User, as : Assignment,
        version : Nat]
  \cup [op : {"revoke_role_binding"}, by : User, binding : Nat]
  \cup [op : {"create_project"}, by : User, project : Project, target : User]
  \cup [op : {"change_project"}, by : User, project : Project,
        move : Transition \cup {<<"ACTIVE", "ACTIVE">>}, version : Nat]

\* Every variable holds a value of its kind.
TypeOK ==
  /\ user \in [User -> [status : UserState, version : Nat]]
  /\ binding \in Seq(BindingRow)
  /\ member \in [Project -> SUBSET User]
  /\ project \in [Project -> [status : ProjectState, version : Nat]]
  /\ tx \in [Call -> Command]
  /\ overwritten \subseteq User

\* The list and the single read of projects are two evaluations written apart
\* (list_projects uses authorized_project_ids_in_transaction, get_project
\* require_project_permissions_in_transaction): whatever roles, grants and
\* duties a user collects, they show the same projects, and authorize_access,
\* a third one, opens none that they hide.
ListAgreesWithGet ==
  \A u \in User, p \in Project :
    /\ ProjectAllowed(u, p, "PROJECT_VIEW") <=> p \in VisibleProjects(u, "PROJECT_VIEW")
    /\ AccessAllowed(u, p, "PROJECT_VIEW") => ProjectAllowed(u, p, "PROJECT_VIEW")

\* The owner of a project keeps sight of it whatever other role is bound to
\* them: no combination of bindings puts a denial above the duty.
OwnerKeepsSight ==
  \A p \in Project :
    project[p].status # "absent" =>
      \E u \in member[p] : p \in VisibleProjects(u, "PROJECT_VIEW")
                             /\ ProjectAllowed(u, p, "PROJECT_VIEW")

\* A role is bound to a user at most once at a time in the same scope, however
\* commands overlap, as long as no command of the user's own has written over
\* a newer row of theirs: from then on the version other callers compare no
\* longer tells them what has changed.
OneEffectiveBinding ==
  \A b, c \in Bindings :
    (b < c /\ ~binding[b].ended /\ ~binding[c].ended
       /\ binding[b].user = binding[c].user
       /\ binding[b].role = binding[c].role
       /\ binding[b].project = binding[c].project)
    => binding[c].user \in overwritten

\* A project is changed by its owner or a super administrator only: no grant
\* stands in for the duty it needs in that project.
ChangedByDuty ==
  [][\A p \in Project :
       (project[p].status # "absent" /\ project'[p] # project[p]) =>
         \E c \in Call :
           /\ tx[c].op = "change_project" /\ tx[c].project = p
           /\ \/ tx[c].by \in member[p]
              \/ \E b \in Bindings :
                   binding[b].user = tx[c].by /\ binding[b].role = "SUPER_ADMIN"]_vars
==============================================================================
