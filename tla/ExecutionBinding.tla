--------------------------- MODULE ExecutionBinding ---------------------------
(***************************************************************************)
(* Formal execution ownership: RunTask and ExecutionAttempt, the           *)
(* ExecutionBindingSnapshot of an attempt, and the two resource leases     *)
(* (normalized login identity, Runner resource) a binding stands on.       *)
(*                                                                         *)
(* Each action is one database transaction of                              *)
(*   execution_owner_service.py      (create_run_task, create_..._attempt) *)
(*   execution_binding_service.py    (create and the four commands)        *)
(*   execution_owner_transitions.py  (the lifecycle edges they drive)      *)
(*   ai_exploration_service.py       (the part of start and of             *)
(*                                    _release_execution that is theirs).  *)
(* A transaction locks every row it decides on with SELECT ... FOR UPDATE, *)
(* and what it reads without a lock (lease availability, the RunTask) is   *)
(* protected by a unique key, so it is one atomic step here.  A rejected   *)
(* request rolls back and is a step that is not taken.                     *)
(*                                                                         *)
(* An attempt has at most one binding (uq_atp_execution_binding_attempt)   *)
(* and a binding exactly two lease rows, inserted with it, so bindings     *)
(* are indexed by their attempt and leases by attempt and kind.            *)
(***************************************************************************)
EXTENDS Naturals

CONSTANTS
  RunTask, Attempt,     \* identifiers clients will create
  Runner, Operator,     \* Runners, and the people who issue binding commands
  Identity,             \* normalized identities: project:environment:sso digest
  Slot,                 \* Runner resources: runner:type:slot or capability
  NoResource,           \* resource of a lease row that does not exist yet
  TaskOf, RunnerOf,     \* what each attempt is created for, and on
  SlotRunner,           \* the Runner a slot belongs to
  IdentityTTL,          \* IDENTITY_LEASE_TTL_SECONDS and RUNNER_LEASE_TTL_SECONDS,
  RunnerTTL,            \*   in ticks of the model's clock
  MaxVersion            \* bound: renewals stop at this row_version of a binding

Resource == Identity \cup Slot

ASSUME OwnersAssumption ==
  /\ TaskOf \in [Attempt -> RunTask]
  /\ RunnerOf \in [Attempt -> Runner]
  /\ SlotRunner \in [Slot -> Runner]

ASSUME ResourcesAssumption ==
  /\ Identity \cap Slot = {}
  /\ NoResource \notin Resource

ASSUME BoundsAssumption ==
  /\ IdentityTTL \in Nat \ {0}
  /\ RunnerTTL \in Nat \ {0}
  /\ MaxVersion \in Nat

VARIABLES
  task,         \* RunTask.lifecycle_status and final_result
  attempt,      \* ExecutionAttempt.lifecycle_status and execution_status
  binding,      \* status, row_version and frozen generations, by attempt
  lease,        \* lease rows, by attempt and kind
  generation,   \* ResourceLeaseGeneration.current_generation, by resource
  runner,       \* what the readiness checks say of a Runner
  view          \* status and row_version of a binding as an operator last read it

vars == <<task, attempt, binding, lease, generation, runner, view>>

Kind == {"IDENTITY", "RUNNER"}
TTL == [k \in Kind |-> IF k = "IDENTITY" THEN IdentityTTL ELSE RunnerTTL]

Outcome == {"SUCCEEDED", "FAILED", "CANCELLED"}

\* The stages SNAPSHOTTED, VALIDATING, WAITING_RESOURCE, DISPATCHING and CANCELING are
\* passed inside one transaction and never committed.
Task == [lifecycle : {"NONE", "CREATED", "PREPARING", "RUNNING", "COMPLETED"},
         result : {"UNKNOWN", "PASSED", "FAILED", "CANCELED"}]

AttemptRow == [lifecycle : {"NONE", "CREATED", "PREPARING", "RUNNING", "COMPLETED"},
               status : {"READY", "RUNNING"} \cup Outcome]

BindingStatus == {"NONE", "READY", "IN_USE", "RELEASED", "EXPIRED"}

Binding == [status : BindingStatus, version : Nat, frozen : [Kind -> Nat]]

\* ttl is expires_at minus the database clock, 0 once expired.
Lease == [status : {"NONE", "ACTIVE", "RELEASED", "EXPIRED"},
          resource : Resource \cup {NoResource},
          generation : Nat,
          ttl : Nat]

\* READY: every check of runner_base_execution_blockers passes.  BLOCKED: ONLINE, but
\* disabled, unhealthy, incompatible or unbound.
RunnerStatus == {"READY", "BLOCKED", "OFFLINE"}

TypeOK ==
  /\ task \in [RunTask -> Task]
  /\ attempt \in [Attempt -> AttemptRow]
  /\ binding \in [Attempt -> Binding]
  /\ lease \in [Attempt -> [Kind -> Lease]]
  /\ generation \in [Resource -> Nat]
  /\ runner \in [Runner -> RunnerStatus]
  /\ view \in [Operator -> [Attempt -> [status : BindingStatus, version : Nat]]]

Init ==
  /\ task = [t \in RunTask |-> [lifecycle |-> "NONE", result |-> "UNKNOWN"]]
  /\ attempt = [a \in Attempt |-> [lifecycle |-> "NONE", status |-> "READY"]]
  /\ binding = [a \in Attempt |->
                  [status |-> "NONE", version |-> 0, frozen |-> [k \in Kind |-> 0]]]
  /\ lease = [a \in Attempt |-> [k \in Kind |->
                [status |-> "NONE", resource |-> NoResource, generation |-> 0, ttl |-> 0]]]
  /\ generation = [r \in Resource |-> 0]
  /\ runner \in [Runner -> RunnerStatus]
  /\ view = [o \in Operator |-> [a \in Attempt |-> [status |-> "NONE", version |-> 0]]]

-----------------------------------------------------------------------------
(* What the transactions check and change *)

Live(a) == binding[a].status \in {"READY", "IN_USE"}

\* Mutated Available: an expired lease does not count.
AvailableOnceExpired(r) ==
  \A a \in Attempt, k \in Kind :
    lease[a][k].status = "ACTIVE" /\ lease[a][k].ttl > 0 => lease[a][k].resource # r

\* _lease_available and, for a reader of an old snapshot, uq_atp_resource_lease_active.
Available(r) ==
  \A a \in Attempt, k \in Kind : lease[a][k].status = "ACTIVE" => lease[a][k].resource # r

\* _assert_generations: the lease rows still carry the generations the binding froze.
GenerationsMatch(a) == \A k \in Kind : lease[a][k].generation = binding[a].frozen[k]

\* _assert_active_leases: both ACTIVE and expires_at > now.
LeasesHeld(a) == \A k \in Kind : lease[a][k].status = "ACTIVE" /\ lease[a][k].ttl > 0

\* _command_from_locked_rows, as far as it reads rows of this module.
CommandHolds(a) == binding[a].status = "IN_USE" /\ LeasesHeld(a) /\ GenerationsMatch(a)

\* Mutated Preparable: a RunTask that runs may be prepared again.
PreparableWhileRunning(t) == task[t].lifecycle \in {"CREATED", "PREPARING", "RUNNING"}

\* The stages prepare_run_task accepts; it raises from RUNNING and COMPLETED.
Preparable(t) == task[t].lifecycle \in {"CREATED", "PREPARING"}

\* Mutated Acquire: the generation in force is used again.
AcquireSameGeneration(a, resourceOf) ==
  /\ lease' = [lease EXCEPT ![a] = [k \in Kind |->
        [status |-> "ACTIVE", resource |-> resourceOf[k],
         generation |-> generation[resourceOf[k]], ttl |-> TTL[k]]]]
  /\ UNCHANGED generation

\* _acquire_lease for both resources, in the order identity, Runner.
Acquire(a, resourceOf) ==
  /\ generation' = [r \in Resource |->
        IF \E k \in Kind : resourceOf[k] = r THEN generation[r] + 1 ELSE generation[r]]
  /\ lease' = [lease EXCEPT ![a] = [k \in Kind |->
        [status |-> "ACTIVE", resource |-> resourceOf[k],
         generation |-> generation[resourceOf[k]] + 1, ttl |-> TTL[k]]]]

\* Mutated CloseLeases: a lease that has expired is passed over.
CloseUnexpiredLeases(a, s) ==
  lease' = [lease EXCEPT ![a] = [k \in Kind |->
     IF lease[a][k].status = "ACTIVE" /\ lease[a][k].ttl > 0
     THEN [lease[a][k] EXCEPT !.status = s] ELSE lease[a][k]]]

\* _release_lease, _expire_lease: an ACTIVE row takes the terminal status s.
CloseLeases(a, s) ==
  lease' = [lease EXCEPT ![a] = [k \in Kind |->
     IF lease[a][k].status = "ACTIVE" THEN [lease[a][k] EXCEPT !.status = s] ELSE lease[a][k]]]

\* Every change of a binding takes the next row_version.
SetBinding(a, s) ==
  binding' = [binding EXCEPT ![a].status = s, ![a].version = binding[a].version + 1]

\* The response of a command shows the operator the row it leaves.
Respond(o, a) ==
  view' = [view EXCEPT ![o][a] = [status |-> binding'[a].status, version |-> binding'[a].version]]

-----------------------------------------------------------------------------
(* Owners and binding creation *)

\* create_run_task
CreateRunTask(t) ==
  /\ task[t].lifecycle = "NONE"
  /\ task' = [task EXCEPT ![t].lifecycle = "CREATED"]
  /\ UNCHANGED <<attempt, binding, lease, generation, runner, view>>

\* create_execution_attempt
CreateAttempt(a) ==
  /\ attempt[a].lifecycle = "NONE"
  /\ Preparable(TaskOf[a])
  /\ runner[RunnerOf[a]] = "READY"
  /\ attempt' = [attempt EXCEPT ![a].lifecycle = "CREATED"]
  /\ UNCHANGED <<task, binding, lease, generation, runner, view>>

\* What _resolve_preflight asks of the Runner: it may continue bound executions, the resource
\* asked for is one of its own, in use and validated, and it has the capabilities that the
\* request, the terminal and the runtime policy require.
RunnerAdmits(a, s) ==
  /\ runner[RunnerOf[a]] = "READY"
  /\ SlotRunner[s] = RunnerOf[a]

\* _resolve_preflight, as far as it reads rows of this module.  The master data it checks
\* besides (terminal, login strategy, account, credential, policy) holds or the request fails.
Admissible(a, i, s) ==
  /\ attempt[a].lifecycle \in {"CREATED", "PREPARING"}
  /\ attempt[a].status = "READY"
  /\ binding[a].status = "NONE"
  /\ RunnerAdmits(a, s)
  /\ Available(i) /\ Available(s)

\* What create writes: both leases, the binding, and LC-035/LC-036 preparation of its owners.
\* prepare_run_task leaves a RunTask alone that it finds past CREATED.
BindResources(a, i, s, found) ==
  /\ Acquire(a, [k \in Kind |-> IF k = "IDENTITY" THEN i ELSE s])
  /\ binding' = [binding EXCEPT ![a] =
        [status |-> "READY", version |-> 1,
         frozen |-> [k \in Kind |-> lease'[a][k].generation]]]
  /\ task' = [task EXCEPT ![TaskOf[a]].lifecycle = IF found = "CREATED" THEN "PREPARING" ELSE @]
  /\ attempt' = [attempt EXCEPT ![a].lifecycle = "PREPARING"]
  /\ UNCHANGED <<runner, view>>

\* create.  i is what the test account normalizes to, s the requested Runner resource.
\* prepare_run_task raises unless it finds the RunTask Preparable, but the row it looks at is
\* that of a snapshot: another attempt may run the RunTask by now (ExecutionTransactions).
CreateBinding(a, i, s) ==
  /\ Admissible(a, i, s)
  /\ BindResources(a, i, s, task[TaskOf[a]].lifecycle)

-----------------------------------------------------------------------------
(* Binding commands: command() with action consume, renew, release, recover *)

\* get and list
Read(o, a) ==
  /\ binding[a].status # "NONE"
  /\ view[o][a].version # binding[a].version
  /\ view' = [view EXCEPT ![o][a] = [status |-> binding[a].status, version |-> binding[a].version]]
  /\ UNCHANGED <<task, attempt, binding, lease, generation, runner>>

\* The checks the commands share; expected_version is the version the operator read.
Commandable(o, a) ==
  /\ Live(a)
  /\ GenerationsMatch(a)
  /\ view[o][a].version = binding[a].version

Consume(o, a) ==
  /\ Commandable(o, a)
  /\ LeasesHeld(a)
  /\ binding[a].status = "READY"
  /\ SetBinding(a, "IN_USE")
  /\ Respond(o, a)
  /\ UNCHANGED <<task, attempt, lease, generation, runner>>

\* Mutated Renew: renewal issues a new generation of the identity.
RenewFencing(o, a) ==
  /\ Commandable(o, a)
  /\ LeasesHeld(a)
  /\ binding[a].version < MaxVersion
  /\ generation' = [generation EXCEPT ![lease[a]["IDENTITY"].resource] = @ + 1]
  /\ lease' = [lease EXCEPT ![a] = [k \in Kind |-> [lease[a][k] EXCEPT !.ttl = TTL[k]]]]
  /\ SetBinding(a, binding[a].status)
  /\ Respond(o, a)
  /\ UNCHANGED <<task, attempt, runner>>

Renew(o, a) ==
  /\ Commandable(o, a)
  /\ LeasesHeld(a)
  /\ binding[a].version < MaxVersion
  /\ lease' = [lease EXCEPT ![a] = [k \in Kind |-> [lease[a][k] EXCEPT !.ttl = TTL[k]]]]
  /\ SetBinding(a, binding[a].status)
  /\ Respond(o, a)
  /\ UNCHANGED <<task, attempt, generation, runner>>

\* A second release of a RELEASED binding answers the row and changes nothing.
Release(o, a) ==
  /\ Commandable(o, a)
  /\ LeasesHeld(a)
  /\ CloseLeases(a, "RELEASED")
  /\ SetBinding(a, "RELEASED")
  /\ Respond(o, a)
  /\ UNCHANGED <<task, attempt, generation, runner>>

\* What recovery accepts as evidence that the owner is gone.
Stale(a) ==
  \/ \E k \in Kind : lease[a][k].ttl = 0
  \/ runner[RunnerOf[a]] = "OFFLINE"
  \/ attempt[a].status \in Outcome

Recover(o, a) ==
  /\ Commandable(o, a)
  /\ Stale(a)
  /\ CloseLeases(a, "EXPIRED")
  /\ SetBinding(a, "EXPIRED")
  /\ Respond(o, a)
  /\ UNCHANGED <<task, attempt, generation, runner>>

-----------------------------------------------------------------------------
(* The execution itself, driven by the AI exploration that holds the attempt *)

\* _validate_start_preflight
Startable(a) ==
  /\ attempt[a].lifecycle \in {"CREATED", "PREPARING"}
  /\ attempt[a].status = "READY"
  /\ binding[a].status = "READY"
  /\ LeasesHeld(a) /\ GenerationsMatch(a)
  /\ runner[RunnerOf[a]] = "READY"

\* What start writes here: prepare_ and run_ of both owners.
RunOwners(a) ==
  /\ SetBinding(a, "IN_USE")
  /\ attempt' = [attempt EXCEPT ![a] = [lifecycle |-> "RUNNING", status |-> "RUNNING"]]
  /\ task' = [task EXCEPT ![TaskOf[a]] = [lifecycle |-> "RUNNING", result |-> "UNKNOWN"]]
  /\ UNCHANGED <<lease, generation, runner, view>>

\* start, its part here.
StartExecution(a) ==
  /\ Startable(a)
  /\ Preparable(TaskOf[a])
  /\ RunOwners(a)

ResultOf(outcome) ==
  CASE outcome = "SUCCEEDED" -> "PASSED"
    [] outcome = "FAILED"    -> "FAILED"
    [] outcome = "CANCELLED" -> "CANCELED"

\* _release_execution.  complete_execution_attempt and complete_run_task raise, and undo
\* everything, unless both owners are RUNNING.
EndExecution(a, outcome) ==
  /\ attempt[a].lifecycle = "RUNNING"
  /\ task[TaskOf[a]].lifecycle = "RUNNING"
  /\ CloseLeases(a, "RELEASED")
  /\ IF Live(a) THEN SetBinding(a, "RELEASED") ELSE UNCHANGED binding
  /\ attempt' = [attempt EXCEPT ![a] = [lifecycle |-> "COMPLETED", status |-> outcome]]
  /\ task' = [task EXCEPT ![TaskOf[a]] =
                [lifecycle |-> "COMPLETED", result |-> ResultOf(outcome)]]
  /\ UNCHANGED <<generation, runner, view>>

\* Success and cancellation revalidate the command under lock; failure does not.
Finish(a, outcome) ==
  /\ outcome # "FAILED" => CommandHolds(a)
  /\ EndExecution(a, outcome)

-----------------------------------------------------------------------------
(* Environment *)

\* The database clock advances for every lease row.
Tick ==
  /\ \E a \in Attempt, k \in Kind : lease[a][k].ttl > 0
  /\ lease' = [a \in Attempt |-> [k \in Kind |->
        [lease[a][k] EXCEPT !.ttl = IF lease[a][k].ttl > 0 THEN lease[a][k].ttl - 1 ELSE 0]]]
  /\ UNCHANGED <<task, attempt, binding, generation, runner, view>>

\* Heartbeats, human commands and token revocation move a Runner between the three.
RunnerChanges(r, s) ==
  /\ runner[r] # s
  /\ runner' = [runner EXCEPT ![r] = s]
  /\ UNCHANGED <<task, attempt, binding, lease, generation, view>>

Next ==
  \/ \E t \in RunTask : CreateRunTask(t)
  \/ \E a \in Attempt : CreateAttempt(a)
  \/ \E a \in Attempt, i \in Identity, s \in Slot : CreateBinding(a, i, s)
  \/ \E o \in Operator, a \in Attempt : Read(o, a)
  \/ \E o \in Operator, a \in Attempt : Consume(o, a)
  \/ \E o \in Operator, a \in Attempt : Renew(o, a)
  \/ \E o \in Operator, a \in Attempt : Release(o, a)
  \/ \E o \in Operator, a \in Attempt : Recover(o, a)
  \/ \E a \in Attempt : StartExecution(a)
  \/ \E a \in Attempt, outcome \in Outcome : Finish(a, outcome)
  \/ Tick
  \/ \E r \in Runner, s \in RunnerStatus : RunnerChanges(r, s)

Spec == Init /\ [][Next]_vars

-----------------------------------------------------------------------------
(* Properties *)

\* No two lease rows are ACTIVE on one resource: an identity, or a Runner slot, serves one
\* binding at a time whatever creations race for it.
LeaseExclusive ==
  \A a, b \in Attempt, j, k \in Kind :
    /\ lease[a][j].status = "ACTIVE"
    /\ lease[b][k].status = "ACTIVE"
    /\ lease[a][j].resource = lease[b][k].resource
    => a = b /\ j = k

\* A binding and its two lease rows move together: it is READY or IN_USE exactly while both
\* are ACTIVE, and a terminal binding leaves neither row ACTIVE behind to block the resource.
BindingLeaseCoherent ==
  \A a \in Attempt, k \in Kind :
    lease[a][k].status = (IF Live(a) THEN "ACTIVE" ELSE binding[a].status)

\* Fencing: the generation of an ACTIVE lease is the newest ever issued for its resource, is
\* the one its binding froze, and no two lease rows of one resource ever share a generation.
FencingSound ==
  \A a \in Attempt, k \in Kind : lease[a][k].status # "NONE" =>
    /\ lease[a][k].generation = binding[a].frozen[k]
    /\ lease[a][k].generation <= generation[lease[a][k].resource]
    /\ lease[a][k].status = "ACTIVE" =>
         lease[a][k].generation = generation[lease[a][k].resource]
    /\ \A b \in Attempt, j \in Kind :
         /\ lease[b][j].status # "NONE"
         /\ lease[b][j].resource = lease[a][k].resource
         /\ lease[b][j].generation = lease[a][k].generation
         => a = b /\ j = k

\* A RunTask runs exactly while one of its attempts runs, and only one: whatever ends the
\* execution finds both owners RUNNING, so the completion in _fail_running never raises.
OwnersAgree ==
  /\ \A a, b \in Attempt :
       /\ attempt[a].lifecycle = "RUNNING"
       /\ attempt[b].lifecycle = "RUNNING"
       /\ TaskOf[a] = TaskOf[b]
       => a = b
  /\ \A t \in RunTask : task[t].lifecycle = "RUNNING" <=>
       \E a \in Attempt : TaskOf[a] = t /\ attempt[a].lifecycle = "RUNNING"

\* A row_version identifies the status it was read with: expected_version is enough to stop
\* an operator who saw READY from releasing a binding an exploration has since taken.
VersionIdentifiesStatus ==
  \A o \in Operator, a \in Attempt :
    view[o][a].version = binding[a].version => view[o][a].status = binding[a].status

\* A RELEASED or EXPIRED binding is never revived: its status and generations stay, and its
\* lease rows change only by the clock.
TerminalBindingFrozen ==
  [][\A a \in Attempt : binding[a].status \in {"RELEASED", "EXPIRED"} =>
       /\ binding'[a] = binding[a]
       /\ \A k \in Kind :
            /\ lease'[a][k].status = lease[a][k].status
            /\ lease'[a][k].generation = lease[a][k].generation]_vars

\* The RunTask takes the verdict of the attempt that ran, once: a COMPLETED owner never
\* changes again, and a task completes only together with the attempt it ran.
VerdictFinal ==
  [][/\ \A a \in Attempt :
          attempt[a].lifecycle = "COMPLETED" => attempt'[a] = attempt[a]
     /\ \A t \in RunTask :
          /\ task[t].lifecycle = "COMPLETED" => task'[t] = task[t]
          /\ task'[t].lifecycle = "COMPLETED" /\ task[t].lifecycle # "COMPLETED" =>
               \E a \in Attempt : /\ TaskOf[a] = t
                                  /\ attempt[a].lifecycle = "RUNNING"
                                  /\ attempt'[a].lifecycle = "COMPLETED"
                                  /\ task'[t].result = ResultOf(attempt'[a].status)]_vars

\* The resources an attempt holds are those its ACTIVE leases name.  Bindings implement
\* reservations of an identity and a slot, taken and given back together, under tokens that
\* only grow: the four commands, start and completion in any order do no more than that.
Reservation == INSTANCE ResourceReservation WITH
  Holder <- Attempt,
  held <- [a \in Attempt |->
             {lease[a][k].resource : k \in {j \in Kind : lease[a][j].status = "ACTIVE"}}],
  token <- generation,
  served <- {a \in Attempt : binding[a].status # "NONE"}

ImplementsReservation == Reservation!Spec
===============================================================================
