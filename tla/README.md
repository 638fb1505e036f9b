# TLA+ specifications of the AI auto-test platform

The platform lets people bind an *execution attempt* of a test task to a test account
(an SSO identity) and to a slot of a *Runner* machine, and then lets an AI model drive
a real browser on that Runner. This directory specifies the parts of it where
concurrency, failure and ordering decide whether it is correct: who holds which
resource, what happens to an execution when several people and threads act on it, what
becomes of the browser, who is let in, what a person's tab shows, and who may write to
the repository's own workspace. The code is the reference; every definition that models
code is listed with the lines it stands for in `PROJECT.json` under `map`.

1. [Inventory](#1-inventory) - the system's parts, and what makes each correct
2. [Modules](#2-modules) - which module models what, and how
3. [Runs](#3-runs) - what TLC checks, on which instances
4. [Proofs](#4-proofs) - what TLAPS proves for every instance
5. [Known deviations](#5-known-deviations) - where code and documentation, tests or intent part
6. [Not modelled](#6-not-modelled)
7. [Plan](#7-plan)

Paths below are relative to the repository; `api/` is
`services/api/src/platform_api/`, `agent/` is `runner/agent/src/platform_runner/`,
`web/` is `apps/web/src/`, `governance/` is `tools/governance/`.

## 1. Inventory

### The API (Python, FastAPI, MySQL)

| Component | State | Operations | Correct when |
|---|---|---|---|
| **Execution owners** `api/execution_owner_service.py`, `execution_owner_transitions.py` | RunTask and ExecutionAttempt: lifecycle, status, result; an outbox event per edge | create, update (display name), the LC-035/LC-036 transitions driven by others | a task runs exactly while one of its attempts does; the events tell the rows' life |
| **Execution bindings** `api/execution_binding_service.py` | ExecutionBindingSnapshot, two ResourceLease rows per binding, ResourceLeaseGeneration per resource, runtime policy revisions | create, get, list; consume, renew, release, recover; create_runtime_policy | a resource serves one binding; binding and leases agree; generations fence old holders |
| **Planning** `create` of `api/ai_exploration_service.py` | AIExploration session, its task, its call, its idempotency record | create, repeat, recover an interrupted planning | one call of the model and one outcome, told to everybody who asks |
| **AI exploration** `api/ai_exploration_service.py` | AIExploration session, steps, outbox, audit | start, `run()` (the Browser Loop, a thread), cancel in three stages | rows of one execution end together and once; late answers change nothing; every run ends; the browser is accounted for |
| **Runner browser channel** `api/runner_browser_channel.py` | in memory: one exchange per Runner and lane | dispatch, claim, claim_cancel, complete | an answer answers its own command; a command runs at most once |
| **Runner registration and tokens** `api/runner_service.py` | enrollments, Runner, RunnerAgent with its token | enroll, register, rotate, revoke | one host becomes the Runner; a token is the Runner's |
| **Runner readiness** `api/runner_service.py`, `runner_readiness.py`, `runner_resource_reconciler.py`, `execution_slot_service.py` | connection, capabilities, project, slot; three projections | heartbeat, report, validate, enable, disable, archive, update | the projections equal what the rows imply |
| **Idempotency** `api/idempotency.py`, `auth_hmac.py` | IdempotencyRecord, stored under a digest by a key ring that rotates | claim, complete, replay | a key has one effect, whatever repeats, races or expires |
| **Authentication** `api/auth_service.py`, `session_service.py` | credentials, refresh sessions and families | login, refresh, logout, change and reset of the password | what opens the API descends from a login that is still good |
| **Users, roles, data scopes** `api/user_admin_service.py`, `auth_service.py`, `bootstrap.py`, `project_service.py` | users, role bindings with grants, project members, the seeded matrix | create, enable, disable; bind, revoke; create and change projects | three evaluations of one matrix agree; nobody acts without the authority |
| **Master data** projects, environments, terminals, assets, test accounts | one aggregate each, revisions, mappings | life cycles, drafts, publication, rotation, activation | what a binding froze stands; one revision is published |
| **Model configuration** `api/model_configuration_service.py`, `model_gateway.py` | configurations, their reviews, the default of a capability, the test's record | review and life cycle, set and clear the default, test the connection | four eyes on every edition in use; verdicts are of what was tested |

### The Runner Agent (Python, asyncio, Playwright)

| Component | State | Operations | Correct when |
|---|---|---|---|
| **Command loops** `agent/application.py` | the command each of two loops is busy with, one thread that runs browser work | claim, run, complete; cancel beside it; close a rejected start | every claimed command is answered or given up; nobody's browser is forgotten |
| **Browser runtime** `agent/browser_runtime.py`, `playwright_adapter.py` | sessions, set of cancelled identities | start, observe, execute, owns, close, cancel, shutdown | flags do not outlive their cancellation; closed stays closed |
| **Registration** `agent/application.py`, `credentials.py`, `transport.py` | credential file | register with retry, heartbeat, --install-token | the host that registered ends up with the token |

### Beside them

| Component | State | Operations | Correct when |
|---|---|---|---|
| **Web console** `web/stores/*.ts`, `web/api/client.ts`, `web/router` (Vue, Pinia) | session, current user, what each store shows, one refresh in progress | calls of the API and their answers, login, logout, navigation | a tab shows the data of the person signed in, newest read last; nothing waits for ever |
| **Task governance** `governance/*.py` | files: writer lock, task contexts, gate reports, workspace | start, reconcile, run_gates, resolve, finish | one writer at a time; SUCCESS only on content whose gates passed |

The two workers (`workers/scheduler`, `workers/background`) start, log and stop;
`packages/` are value types; the gates and validators under `tools/` read the repository
and report.

### How they interact

A request is a transaction in MySQL. Its first statement - usually the authentication -
opens a snapshot (REPEATABLE READ: `database.py` sets no isolation level, and the server's
default is this) from which every plain SELECT is served; `SELECT ... FOR UPDATE` reads the
newest row and waits for it, but an object the session has loaded before keeps its old
attributes (only one query of the code asks for `populate_existing`). Much of what is hard
in the API comes from these three sentences.

`start` commits and leaves `run()` as a FastAPI background task. `run()` alternates
transactions with calls that hold no lock: to the model and, through the broker, to the
Agent. The Agent polls the broker in two loops, one for work and one for cancellations,
whose work queues for one browser thread. `cancel` is one HTTP request of three stages: a
transaction that fences the session, a cancellation sent to the Runner, and a transaction
that ends the execution. People issue the four binding commands at any time, on what they
last read. The web console is one more client, and keeps what it was told.

Task governance shares nothing with the platform. Its processes meet in files.

### What is hard

* Any two transactions of `run()` have calls between them that take seconds. In
  between the session may be cancelled, the binding released, recovered or expired,
  the deadline may pass, the worker may die.
* Lease availability, the RunTask, a capability, a terminal, the default model, the
  caller's own authority are read without a lock and acted on.
* Versions, observation ids and fencing generations are carried across calls.
* Deadlines of the broker race answers of the Agent; both claims and answers get lost.
* A cancellation overtakes the command it cancels; one browser thread serves both.
* Planning and the connection test call a model between two transactions; a repetition of
  the request may take over meanwhile, the record may expire, its key may rotate.
* Some paths of `run()` return instead of raising. Whether they can strand a session
  depends on an invariant no line of the code states (`LoopOwnsVersion`).
* In the tab, answers come in any order, to a person who may have left.
* The writer lock is created, then written, then unlinked by name, by processes that die.

`PROJECT.json` lists these under `hazards`, each at its line, with the properties that
watch it or the reason why none does.

## 2. Modules

```
ResourceReservation        what bindings promise about resources
        ^ implements
ExecutionBinding           owners, bindings, leases       <- ExecutionBindingProofs
        ^ EXTENDS, implements             ^ EXTENDS, two-phase transactions
AIExploration              sessions, run()    ExecutionTransactions   snapshots, outbox
        :                  <- AIExplorationProofs             <- ExecutionBindingProofs
        : each takes of the other what is said below
BrowserChannel             broker, Agent, browser thread  <- BrowserChannelProofs

Planning                   create, its record, the ring   <- PlanningProofs
        : what it leaves READY is where AIExploration's sessions begin
RunnerRegistration         enrollment to token, Agent and API   <- RunnerProofs
        : the Runner it leaves registered is the one of
RunnerReadiness            projections and slot           <- RunnerProofs
        : its outcome is ExecutionBinding's runner status
MasterData                 what a binding freezes         <- ConfigurationProofs
ModelConfiguration         review, default, test          <- ConfigurationProofs
RefreshSessions            login, refresh, logout         <- IdentityProofs
AccessControl              users, roles, projects: who may <- IdentityProofs
WebConsole                 one browser tab                <- IdentityProofs
TaskGovernance             the repository's own tasks     <- TaskGovernanceProofs
```

`MC...` modules give the constants values; `.cfg` files choose instances and properties.
Proof modules take several components together, which is why the components' definitions
carry prefixes (`AccountSpec`, `RegistrationSpec`, `ModelSpec`, `ConsoleSpec`).

### `ExecutionBinding`

State: `task`, `attempt`, `binding`, `lease`, `generation` are the rows of the same
name; `runner` is what the readiness checks say of a Runner (`READY`, `BLOCKED`,
`OFFLINE`); `view` is the version and status an operator last read, from which
`expected_version` of a command comes. A lease's `ttl` is `expires_at` minus the
database clock.

Actions: `CreateRunTask`, `CreateAttempt`, `CreateBinding` (`create` with its
preflight, both leases and the LC-035/LC-036 preparation of both owners), `Read`,
`Consume`, `Renew`, `Release`, `Recover` (the branches of `command`), `StartExecution`
and `Finish` (the part of `start` and of `_release_execution` that belongs to these
rows), `Tick`, `RunnerChanges`. A transaction is one step here; a rejected request rolls
back, so it is a step that is not taken. Lifecycle stages that are entered and left in one
transaction (`SNAPSHOTTED`, `VALIDATING`, `WAITING_RESOURCE`, `DISPATCHING`, `CANCELING`) are
no states of a row; the events show them.

Abstracted: which master-data check fails, digests, permission checks, audit rows.

### `ExecutionTransactions`

The same transactions taken apart, so that the atomicity of `ExecutionBinding` is checked
and not assumed. `seen[c]` is the snapshot of request `c`; `outbox` the events of each
owner. `Begin` takes the snapshot of a `create_execution_attempt`, a `create` or a `start`;
`CommitAttempt`, `CommitBinding`, `CommitStart` lock, decide on what is partly old - the
Runner, the RunTask, in `start` also the attempt, loaded as a hint - and write; `RollBack`
is any refusal. What protects the old readings are two unique keys.
`uq_atp_resource_lease_active` stops a lease given away meanwhile.
`uq_outbox_aggregate_sequence` stops the rest: every edge appends an event numbered one
more than the last one *of the snapshot*, so of two transactions that moved one owner from
the same snapshot only one can insert. That this key carries the consistency of the owners is stated
nowhere in the code; without it (`InsertUnkeyed`) two sibling attempts start together.

`StepsAreAtomic` says that owners change only as one atomic step of `ExecutionBinding`
changes them, for some reading of the Runners; `ImplementsReservation` is checked again over
these transactions. The snapshot keeps no leases: a creation that the code refuses because
its old snapshot shows a lease is accepted here, which only adds behaviours.

### `ResourceReservation`

The contract: a holder takes an identity and a slot together or not at all and only
free ones, each grant carries a new token, both are given back together, and nobody
is served twice. `ExecutionBinding!ImplementsReservation` is the refinement, with
`held` computed from the ACTIVE lease rows: four commands, start, completion and the
clock are no more than `Reserve`, `Vacate` and stuttering.

### `AIExploration`

EXTENDS the core and drives it through the core's own actions, which `CoreSpec`
checks and `ExplorationsDriveCore` proves. State: `session` and `step` are the rows;
`loop` is the thread of `run()` - its `pc` names the call or transaction it is about
to make, and `version`, `goal`, `blame` and `browser` are its local variables
(`browser` is what the `finally` block tests); `request` is where each HTTP request is
in its three stages; `browser` is the browser on the Runner; `published` and
`cleanup` are the terminal outbox event and the cleanup audit.

| Code | Action |
|---|---|
| `start` | `Start` (one step; that it reads the attempt before it locks it is `ExecutionTransactions`' `Begin` and `CommitStart`) |
| `_load_runtime_snapshot` | `LoadRuntimeSnapshot` |
| `_browser_runtime.start`, `_safe_observation` | `StartBrowser` |
| `_accept_initial_observation`, `_prepare_step` | `AcceptInitialObservation`, `PrepareStep` |
| `_decide_with_retry` and validation | `Decide` |
| `_accept_action` | `AcceptAction` |
| `_browser_runtime.execute`, `owns`, `observe` | `Execute`, `CheckOwns`, `Observe` |
| `_finish_step`, `_finish_failed_action` | `FinishStep`, `FinishFailedAction` |
| `_complete_running`, `_accept_reobservation` | `CompleteRunning`, `AcceptReobservation` |
| the `except` clauses, `_fail_running`, `_fail_before_runtime` | `TransactionRaises`, `FailRunning`, `FailBeforeRuntime` |
| the `finally` block, `_record_browser_cleanup` | `CloseBrowser`, `RecordCleanup` |
| `cancel`, `close_cancelled_runtime`, `finalize_cancel` | `Cancel`, `ReplayCancel`, `CloseCancelledRuntime`, `FinalizeCancel` |
| death of the worker, the total deadline | `LoopDies`, `RequestDies`, `DeadlinePasses` |

Abstracted: the content of plans, decisions, observations and evidence (a decision is
"act" or "goal completed"; evidence grounds it or not), retries inside one model call,
and everything else a transaction may raise for (`TransactionRaises`). A session's
`current_observation_id` is written only with a new `row_version`, so the comparison
of both is one. A replayed `cancel` answers from its idempotency record and repeats
the last two stages: `ReplayCancel`.

### `BrowserChannel`

One Runner, because the broker and the Agent keep everything per Runner. State:
`channel` is the exchange of each lane; `agent` the command each loop is busy with and
how far; `executor` the queue of the single browser thread; `browser` and `flagged`
the runtime's sessions and `_cancelled_identities`; `caller` and `canceller` are the
threads in the API that dispatch, `persisted` whether the row has a
`browser_session_id`. `lost` is a history variable: browsers whose only word got lost.

Actions: `Start`, `Persist`, `Act`, `Close`, `Fence`, `Cancel` (callers), `Return`,
`TimeOut` (the two ends of `dispatch`), `Claim`, `LoseClaim`, `Submit`, `Complete`,
`LoseComplete` (the loops), `BeginStart`, `EndStart`, `RunAct`, `RunClose`, `RunCancel`,
`CloseRejectedStart` (the browser thread), `AgentRestarts`.

The condition lock of the broker and the Agent's event loop make their critical
sections atomic. Time is not counted: an exchange without an answer may time out at
any moment. `start` is two steps because it waits for pages and looks for its flag
both before and after; the other operations on the thread are one.

How the two halves fit: `AIExploration` treats a browser call as one step that works
or fails and changes the browser accordingly; `BrowserChannel` treats `run()` as a
caller that starts once, acts while its row has a browser id and closes at most once,
which is the order `AIExploration` gives. A timeout of the caller with a browser that
opens all the same is an outcome of `BrowserChannel` only; it is why `StartBrowser`
allows an OPEN browser on failure.

### `Planning`

One `Idempotency-Key` of one principal. A record is stored under a digest that the
active key of the ring computes, so each ring key gives it another row: `record` and
`session` are indexed by ring key, since a record has at most one session
(`uq_atp_ai_exploration_session_idempotency`). `record` has the fingerprint and whether a
response is there (`OPEN`: not yet), with `ttl` for `expires_at`; `session` the status and
whether `planning_deadline_at` has passed; `request` the requests that wait for the
model; `key` the ring. `calls` and `told` are history: calls of the model, and what
clients were answered.

| Code | Action |
|---|---|
| `_create_planning_session`, first claim | `Create` |
| `_claim` of a completed record | `Replay` |
| `_claim` with `_recover_interrupted` | `Recover` |
| `_ready`, `_fail`, `_terminal_replay` | `Conclude` |
| death of a worker; `planning_deadline_at`; the clock; a new ring and a restart | `RequestDies`, `DeadlinePasses`, `Tick`, `Rotate` |

A claim and what follows in its transaction is one step: rows that exist are locked
first, in one order, and two claims that find none meet at the primary key. Where
`_claim` gets further than that - it saw only an expired row of an older ring key while
another request inserted under the active one - it hands out the OPEN record a second
time, and the insert of a second session with its key fails: a step that is not taken.
Requests that are refused (409) are not steps either.

Abstracted: the plan, the failure codes, the task and the call, which take the session's
outcome in the same transactions (`PlanningOutcome` is what the gateway may answer); records
of contract version 1, which `_validate` refuses. Deadline and retention are not tied to
each other, so a record may expire before the deadline passes: more than the code's
minutes against a day allow. A rolling restart, with two active keys at a time, is not
modelled, nor is a ring that makes a retired key active again.

### `RefreshSessions`

One user: `user` (ACTIVE or DISABLED), `credential` (version, forced change, failure window
and lock), `session` (the rows in the order of their making, with their family), `refresh`
(what each refresh under way has read before it waited: `BeginRefresh`). Login with the
limit of live sessions, failed logins and the lock, refresh in two phases with its five
outcomes, replay and `compromise_family`, logout, expiry on access, change and reset of the
password, disable and enable. `raced` is history: a refresh rotated a session that was not
ACTIVE any more - the object it had loaded as a hint is not reloaded under the lock.

### `RunnerRegistration`

Two sides and the network between them: `enrollment`, `runner`, `token`, `record` in the
API; `agent` and `file` on each host; `call` the registration requests under way. Clerks
create enrollments of one code from snapshots that show none (`BeginEnrollment`,
`CreateEnrollment`); an Agent sends, times out, sends again, may die and start as another
process; the API registers, replays the first delivery's token or refuses; people rotate,
revoke and install tokens.

### `RunnerReadiness`

One Runner. `Heartbeat` and `ReportCapabilities` lock the Runner first and read what is
there; the commands of people (`UpdateRunner`, `Enable`, `Disable`, `Archive`, `RevokeToken`,
`RotateToken`, `ValidateCapability`) are two steps, `Begin` and the action named for the
command, and compute from capabilities and a project that may have changed. `Recompute` is
`_recompute_runner_runtime_state`: compatibility, scheduling and slot. Every decision of
people appends an event numbered from its snapshot, so one that commits breaks all others
under way (`PublishEvent`). `outdated` marks projections computed from old rows.

### `MasterData`

The rows `create` of a binding asks for, and every command that changes their status:
`TransitionProject`, `CreateRuntimePolicy`, the environment, the automation asset and its
login strategy, the terminal and its access revisions (draft, review, publish, abandon),
the account with its credentials (rotate, expire, archive) and mapping, `CreateBinding` and
`EndBinding`. `binding` is what one binding in force has frozen. Activation of an account is
two steps (`BeginActivation`, `ActivateAccount`), because it reads environment and terminal
without a lock; every command that would make a repetition of these reads fail at the
account's row withdraws `cleared` (`OutdateActivation`).

### `ModelConfiguration`

`model` is each configuration with its *edition* - provider, model name, timeout and secret
change only together with it - and its last review; `default` the binding of AI_EXPLORATION;
`frozen` what sessions have frozen; `attempt` and `record` the connection test, whose call
runs between two transactions under a record that lives as long as the call. Disable and the
beginning of a test are two steps each, for what they read in their snapshot.

### `AccessControl`

`user`, `binding`, `member`, `project` are the rows; `tx[c]` the command of request `c`. The
three evaluations of the role/permission matrix are written out as the code has them:
`PlatformAllowed`, `ProjectAllowed`, `VisibleProjects`, and `AccessAllowed`, which no route
reaches. A command begins on what its snapshot authorises (`Begin...`), and commits
(`CreateUser`, `SetUserState`, `CreateRoleBinding`, `RevokeRoleBinding`, `CreateProject`,
`ChangeProject`) on the rows it locks then - except its own user row and the binding it was
pointed at, which stay as first read (`SeenVersion`). `overwritten` is history: the users
whose own command wrote their row back from a version that was no longer the newest
(`Overwrites`). `TEST_LEAD` stands for the business roles.

### `WebConsole`

One tab: `token`, `me`, `view`, `refreshing`, `restoring` of the session; `calls` in the order
they were made; `cache` of the stores in use. A step is one event of the browser - a click, an
answer, the end of the refresh with everything that waited for it. A token is represented by
its user, what a store shows by the users whose calls brought it. Several logins may be under
way, for different users too: `submit` looks for none before it sends one. Three kinds of store
differ in what they check: projects and models compare a generation and a request id,
explorations is emptied on a change of identity, the pages' stores do neither.

### `TaskGovernance`

Commands are processes that meet in files: `lock` (its creator, and whether the payload is
written), `mutex` (the recovery mutex), `cmd` (how far each task's command is and what it has
read), `ctx`, `report`, `content`, `touched`. `start` is seven steps with a crash possible
between any two (`StartAsked`, `RecoveryLooks`, `RecoveryUnlinks`, `LockCreated`,
`PayloadWritten`, `SnapshotTaken`, `Scanned`), then `ReconcileRound`, `GatesBegin`, `GateRuns`,
`GatesEnd`, `FinishAsked`, `ChecksReconciled`, `ChecksReport`, `ReleaseLooks`,
`ReleaseUnlinks`, `DirectoryRemoved`; `Edit` is anyone changing a file, at any time. `touched`
is the change set as `workspace_changes_since_start` finds it, by size and time: it shrinks when
a file is again what the snapshot has, or looks so. `Digest` reads the files at one moment, the code one
after the other; with the one file of the run the two are the same.

## 3. Runs

All runs use the modules' own definitions; bounds are constants.

| Run | Shows | Instance | Distinct states |
|---|---|---|---|
| `execution_binding` | leases, owners, fencing and events under overlapping transactions; refinement of `ResourceReservation` | `ExecutionTransactions`: 1 task, 2 attempts, 1 Runner, 2 identities, 2 slots, 1 operator, 2 calls, TTLs 1, `MaxVersion` 2 | 275,424 |
| `ai_exploration` | sessions, steps, events; refinement of `ExecutionBinding`; every run ends, cleanup is recorded | 2 sessions for 1 attempt, 1 cancel request, 1 step, crashes, TTLs 1, `MaxVersion` 3 | 199,203 |
| `browser_channel` | the broker, the Agent and cancellation; every browser closes | 2 sessions, `MaxCommands` 2 | 357,438 |
| `planning` | one key under repetition, recovery, expiry and rotation | 2 requests, 2 bodies, 3 ring keys, retention 2, overlap 2 | 61,572 |
| `refresh_sessions` | what opens the API descends from a login | 2 refreshes, 3 sessions, 2 versions, limit 2, TTL 2 | 462,990 |
| `runner_registration` | one host, its token | 2 hosts, 2 processes, 2 calls, 2 clerks, 3 versions | 368,987 |
| `runner_readiness` | projections follow rows | 2 commands of people, 1 version capability, 2 versions | 345,270 |
| `master_data` | what a binding froze stands | 3 revisions, 3 credentials, 2 policies | 942,831 |
| `model_configuration` | four eyes, snapshots, verdicts | 2 configurations, 2 people, 2 deliveries, 2 editions | 1,900,540 |
| `web_console` | whose data a tab shows | 2 users, 3 calls, each of the stores | 1,068,587 |
| `access_control` | the evaluations agree; no authority invented | 2 users, 1 project, 3 assignments, 2 requests, 3 bindings | 796,865 |
| `task_governance` | one writer; SUCCESS is gated | 2 tasks, 1 file, 2 gates with one command, 1 round | 2,154,708 |

*Why the bounds are enough.* Two attempts, two identities and two slots are what
competition needs: the same pair, one resource in common, disjoint pairs, and one
resource leased again after its first holder let it go (FencingSound needs that). TTL 1
has the states "live" and "expired", and a command may come on either side of a tick.
`MaxVersion` bounds only renewals, which is the only cycle. Two calls are two transactions
that overlap in any way, a third comes after one of them. A second attempt of the same
session is impossible, and two sessions for one attempt is the contention `ExecutionOwned`
is about; contention of attempts is the first run's. One step is one that concludes, fails,
or meets the limit. `MaxCommands` bounds acts and cancellations only - starts and closes are
bounded by the callers - and at 2 leaves room for a command after a timed-out predecessor,
and both lanes busy; two sessions bring stale answers of one before the other. In `planning`
three ring keys give two rotations, so a claim can have two previous candidates; the overlap
is as long as the retention, the least the ring may have, and 2 ticks let a rotation fall
between a claim and its expiry. Three sessions are a login, its rotation and a second login
or rotation, with a limit of two to exceed. Three revisions are two that compete for the
place of a third. Two editions are the reviewed one and another. Three calls of a tab are a
read, a newer read and whatever changes the identity between them; the stores meet only in
the session, so one at a time is enough. Three role bindings are the administrator's own and
two that meet. Two gates with one command are the least that shares an execution; the second
task only takes and gives the lock (`Gating`), which is all the two have in common.

*Symmetry.* Attempts, identities, slots, requests, hosts, revisions and the like are told
apart by nothing but quantifiers; most runs use that. `ai_exploration` and `browser_channel`
do not, for they check liveness; nor do `web_console` and `task_governance`, whose small
instances need none.

*Deadlock* is checked except where the system really may stop: `browser_channel` when its
sessions are over, `planning` when the key's records have expired and the ring has no further
key, `master_data` when the project is archived before it has anything, `web_console` when
the tab has made its last call, `task_governance` when every agent is dead and nothing is
left to edit.

*Fairness.* `FairXSpec` assumes weak fairness of begun work: of the thread of `run()`
and of the stages of an HTTP request. Each call they make has a timeout (model
gateway, broker deadline) and each lock is released by the end of its transaction.
`FairSpec` assumes that `dispatch` returns at its deadline, that a loop goes on with
what it claimed (Playwright's operations have timeouts, the HTTP client too) and that
`run()` comes to its `finally` block and closes. Nothing is assumed of people, of the
clock, of the start of anything, of crashes, nor that an Agent claims.

*Exceptions in the liveness properties* are the code's: a worker that dies leaves its
session RUNNING (`RunEnds`); a close that failed is reported and not repeated, and a
browser of whose start the API never heard is closed only by the next restart
(`BrowserCloses`). *Exceptions in the safety properties* are named by history variables:
`outdated` in `ProjectionsFollowRows` (a stale snapshot or a project that changed),
`raced` in `SerialRotation` (two refreshes of one token together), `strayed` in
`CachesOfSession` (a late `/me`), `raced` in `WriterHoldsLock` (a release for a dead agent),
`overwritten` in `OneEffectiveBinding` (a person's command on their own, stale row).
Each is a deviation of section 5, and the property bounds it: nothing else breaks.

*Mutants.* Definitions named "Mutated ..." precede the operator they mutate. Each is a
bug one could write in that line - a lost guard, a return taken for a raise, a key without
its sequence - and each property has one that breaks it.

## 4. Proofs

Every safety invariant and every action property that a run checks is also a theorem, for
every number of tasks, attempts, Runners, sessions, users, revisions, calls and so on; so
are the two refinements. `PROJECT.json` lists the theorems a reader should know.

*Assumptions.* Only those the modules name: `OwnersAssumption`, `ResourcesAssumption`,
`BoundsAssumption`, `AggregatesAssumption`, `ExplorationAssumption`, `ChannelAssumption`,
`PlanningAssumption`, `SessionsAssumption`, `RegistrationAssumption`, `ReadinessAssumption`,
`MasterDataAssumption`, `ModelConfigurationAssumption`, `AccessAssumption`,
`ConsoleAssumption`, `GovernanceAssumption`. They say that nulls are no elements, that
bounds are positive and constants have their types; two say a little more: RunTasks and
attempts are different aggregates, and the administrator is a user. TLC evaluates each.

*Method.* Each theorem rests on an inductive invariant, mostly larger than the property;
what it adds is said below. Invariants were put into the runs' configurations and checked by
TLC before they were proved.

**`ExecutionBindingProofs`.** The theorems hold of `Spec`, where a transaction is one step,
and of `TxSpec`, where it is taken apart. Both are instances of `LooseSpec`, in which an
attempt may be made and started without the checks that a snapshot can outlive: the
invariants of leases and owners do not depend on those checks. The lease theorems rest on
`LeaseInv`: type, placement (which kind of resource each row of an existing binding
holds), `BindingLeaseCoherent` and `FencingSound` together. None is inductive alone:
that a binding which renews or closes still has both leases needs coherence, that a
new generation is fresh needs the bound on all old ones, and that an ACTIVE lease carries
the newest generation survives a grant only because the grant went to a free resource.
`LeaseExclusive` then follows without an induction of its own: two ACTIVE leases of one
resource carry the same, newest generation, and no two rows share one. `OwnersStayTogether`
and `VerdictsAreFinal` need only the owners; `VersionsIdentify` needs that a view is
never ahead of its row. `BindingsReserve` shows each step is `Reserve`, `Vacate` or a
stutter; it needs `LeaseInv`, since a `Vacate` must give back *both* resources.

What the checks on a snapshot are worth is the argument of `EvidenceIsComplete` and
`StepsStayAtomic`. `EvidenceTold` says that an owner's events are numbered from 1 without
a gap, that each begins where the last one ended, and that the last ends where the owner is.
`SnapshotsShowPast` says that the snapshot of a transaction in progress counts fewer events
of an owner than there are, or shows the owner as it is. A transaction that commits appends
the number after the one it saw, so if the snapshot were old, the number would be taken
(`KeyShowsStale`); hence what it saw is true, and the step is one of `ExecutionBinding`. Paths
of several edges in one transaction are `PathLives`.

**`AIExplorationProofs`.** `ExplorationsDriveCore` shows every step of the composition
is a step of the core, which carries all core theorems over
(`ExplorationLeasesExclude` is stated as the example). `ExecutionsAreOwned` rests on
`OwnedInv`, which adds that a started session's attempt has left PREPARING and that no
other session has it. `EventsTellTheTruth` adds that what a COMPLETED execution left
behind stays (`Over`). `LoopsOwnTheirVersion` and `NoRunIsAbandoned` share `LoopInv`:
a session that runs has a thread (or a dead one) at a place where it has work to do,
and that thread has the row's version. `TerminalSessionsAreFinal` is an action
property, by cases on what each step writes.

**`BrowserChannelProofs`.** `Identities` says command ids are never issued twice and
that a job and an exchange with the same id are the same command; from it
`AnswersMeetTheirCommands`. `StartedOnce` and `Owned` say where the one start of a
session is (not asked, waiting, claimed, queued, running, answered) and who will close
its browser; `Known` says the same of a cancellation that could name its browser and of
the acts and the start it may meet.

**`PlanningProofs`.** One invariant, `Inv`, for all six theorems. `RecordsTellTheOutcome`
needs that a request waits for a session that exists (`Waiting`), `AnswersNeverDiffer` that
nobody is told of a session before it has its outcome (`ToldOutcome`), and
`CandidatesNeverCompete` the reason why a completion that comes after expiry, and gives its
record another day, cannot meet a second live record: requests that still run wait under
the active key, and when its session was created no other candidate was found
(`NoRival`, `Ring`). No relation of retention and overlap is used.

**`IdentityProofs`**, of three components.

*Sessions.* `AccountInv` gives the descent of sessions its reason: every row names as its
family a row that a login made, and has that row's credential version and expiry
(`Lineage`), and what a refresh under way has read is a row that was issued
(`ReadsIssued`). `DisablingEndsSessions` needs no more of the refreshes, because each of
them reads the user under its lock. As long as no refresh has `raced`, a family has
one ACTIVE row (`OneActive`), a compromised family none (`DeadFamilies`), and the live ones
keep to the limit; the count needs that a rotation replaces one row by one and that a login
ends the oldest row first (`RoomForOne`).

*Access.* That the list of projects and the single read agree (`ListsAgree`) is a fact of
the matrix, not of the history: `ViewsAgree` proves it of any rows. It does depend on the
matrix - every role has PROJECT_VIEW (`EveryRoleViews`). `BindingsAreUnique` is about
history: a command compares the version of the user it read, and every command on a user
raises it, so as long as that row has the version read, nobody has bound the role
(`PendingBindings`). The exception is exactly the command that writes its author's own row
from an old version and so repeats a number. `ChangesNeedDuty` needs that owners, members
and super administrators on whom an entry relied stay what they are (`ChangesEntitled`).

*Console.* `ConsoleInv` speaks of calls and stores together. Until a late `/me` strays, the
person shown is the token's, every call of which a guarded store may still take the answer
carries this token, and so what is shown is that person's (`FreshCallsOf`, `DataOf`); an
event that changes the token empties the stores and makes the calls under way stale in the
same step (`ClearingKeeps`), all others leave the identity (`StayingKeeps`,
`AnsweredKeeps`). So logins that overlap need nothing of their own: each answer for another
user clears. `NewerReadsStay` needs that no store shows a read it did not begin
(`ReadsBegun`), `WaitsAreAnswered` that a busy store has a call under way whose answer will
make it idle (`BusyEnds`), and that a refresh runs exactly when somebody waits for it
(`RefreshEnds`).

**`RunnerProofs`**, of two. *Registration:* `TokensOfTheRunner` is inductive with
`SnapshotsOfTheOwner` (a request whose snapshot shows a token comes from the host that owns
the Runner) and `OwnerHasToken`; so the token that a repetition answers with reaches no
other host. *Readiness:* `StepOfProjections` divides every step into three: it recomputes
the projections - from the rows, or from old ones and marks them - or touches nothing they
depend on, or marks them; with `RecomputeFollows`, `ProjectionsFollow` is inductive beside
the types. `ValidatedStands` needs that a command which waits for a capability row holds
it as it is - reports that change the row close the command's chance (`row_version`).

**`ConfigurationProofs`**, of two. *Master data:* `Publication` says what a step can do to
the revisions, and `OnePublished` follows from it alone. `FactsStand` needs beside itself
only that what is frozen exists (`FrozenExist`): a binding starts from a PUBLISHED revision
and credential and an ACTIVE strategy, and every command either leaves the frozen rows alone
or moves them to SUPERSEDED or ARCHIVED, never back to a draft. `EntryOfActivated` is
inductive with `ClearedHasEntry`: what an unlocked look at the terminal found cannot be
undone, because a published revision is only ever replaced. *Models:* `Reviewing` carries
three things through each other: editions change only while CONFIGURING, from which the only
way to ACTIVE is a review of this very edition; what sessions froze was ACTIVE then
(`FrozenWasActive`); so neither is edited again. `HolderAwaited` is inductive by itself;
`VerdictsAreCurrent` follows from a delivery's `changed` mark and the version comparison of
`Verdict`.

**`TaskGovernanceProofs`.** `Inv` says where the one lock can be: a command that writes the
payload or starts has it whole (`PayloadIsOwn`, `StarterHoldsLock`), and one that a recovery
is about to unlink is a dead agent's and stays it, because the mutex lets no second recovery
look and nobody creates over an existing file (`UnlinkedIsStale`). Fifteen steps touch
nothing of this (`HarmlessSteps`); each of the others has its lemma. `WritersExclude` follows.
`SuccessesAreGated` adds the evidence: a report that passes was made by configured gates on
one content (`ReportsAreWhole`), and the changes a finish has found are among the files the
context covers (`ChangesAreCovered`); a context that somebody removed meanwhile took its report
along, so that finish is refused.

**Only model-checked.** Liveness (`RunEnds`, `CleanupRecorded`, `BrowserCloses`): fairness and
ENABLED are beyond the prover. Neither are the formulas marked "refuted" (section 5) proved,
of course. Definitions that are proved and in no run (`VerdictFinal`, `TerminalSessionFinal`,
`OutcomeFinal`, `FlagsAreLowered`, `BrowserStartsOnce`, `WithdrawnAdmitsNothing`,
`ExpiredIsOutOfUse`, `HolderStillAwaited`, `ArchivedIsFinal`, ...) were checked on the
instances above before they were proved.

## 5. Known deviations

What the models show the code to do, against its documentation, tests or evident intent.
Formulas for most of them are in the modules, marked "refuted": adding one to the run's
`.cfg` gives the counterexample.

*Executions and browsers*

* `CreatedBrowserAccounted` (`ai_exploration_service.py:491`): a browser whose first
  observation is refused is neither closed nor recorded; `run()` learns its id only
  afterwards. The runtime contract wants a close and its audit for every browser created.
* `TerminalStepsConcluded` (`:608`): an exception from a transaction of the loop fails the
  session and leaves its current step DECIDING or EXECUTING.
* `CancellationEvidenced` (`:780`): when somebody ends the binding between two stages of a
  cancellation, `finalize_cancel` returns silently: no event, owners RUNNING for good.
* `CancelTerminates` (`browser_runtime.py:309`): a cancellation that reaches the browser
  thread before the start answers OK and lowers its flag, and the browser opens afterwards.
  `run()` then usually closes it on its way out; the leases are given back before that.
* `CancelFindsBrowser` (`application.py:289`): the Agent turns a null `browser_session_id`
  into the string `None`, so the runtime's search for the session's browser is never
  reached, which `test_runner.py:518` tests directly on the runtime.
* `InterruptedIsRecoverable` (`idempotency.py:151`): a planning that was interrupted can be
  ended only by the same request within a day. Later the expired record is taken again, the
  insert of a second session fails, and the session stays PLANNING; after a rotation a new
  session is made and the old one stays.
* `update_run_task` raises the `row_version` of a RunTask and appends no event, so a stale
  RunTask object may use the same version again. A binding can be created READY for a RunTask
  that is RUNNING already: it holds identity and slot and can never be started. The binding
  of a sibling attempt stays READY when the task completes (`ai_exploration_service.py:858`).
* Nothing turns a Runner OFFLINE when its heartbeats stop (`runner_service.py:674`); only a
  revoked token does, so recovery may wait for the leases to expire.

*Identity and access*

* `FamilyHasOneActive` (`auth_service.py:855-862`): two refreshes that read one token together
  rotate it twice, and a refresh may work on a session ended meanwhile;
  `authentication-contract.yaml:95` wants a rotated token to be good for nothing.
* `RetryReproducesToken` (`runner_service.py:1344`): the repetition of a registration is
  refused once the token was rotated, though the Agent never had the first one.
* A user who binds a role to themself works on the user row loaded at authentication, so two
  such commands both pass and leave two effective bindings
  (`user_admin_service.py:472-491`; `overwritten`, the exception in `OneEffectiveBinding`). Likewise the
  creator of a project who names themself its owner is checked with a stale status. Two
  revocations of one binding both succeed. Authority revoked after a command's first read is
  still used by it. A business role with a platform-wide grant bound to the administrator
  denies them all platform commands. The union of permissions that `/me` shows is none of the
  decisions.

*Configuration*

* `DefaultIsActive` (`model_configuration_service.py:529`): a disable that looked for the
  default before another person set it leaves a DISABLED default, which ADR-021 excludes;
  `set_capability_default` appends no event under the configuration, so no key stops it.
* The connection test may read an old secret under the new version (`:612`; `oldSecret`).

*Web console*

* A late `/me` of an old session overwrites the current user (`web/stores/session.ts:105`;
  `strayed`). A call of the former user that expired is sent again with the new user's token
  (`web/api/client.ts:98`), a late 401 of an old token signs the new user out, and a refresh
  that ends after a logout signs in again. `aiExplorations` takes answers that left before a
  change of identity; the stores without request ids show older or other people's data, and
  connection results outlive the version they were made of. The button of the login page is off
  during a login, but Enter in the password field is not (`web/views/LoginView.vue:122`): two
  logins overlap, and the person of the later answer is signed in, not of the later request.

*Task governance*

* A kill between the creation of the lock file and its payload leaves an empty file that
  names no process: it counts as held, and every later `start` is refused until somebody
  removes it by hand (`workspace_writer_lock.py:103`).
* `finish` of a dead agent's task looks and then unlinks without the recovery mutex: a
  recovery and a new start in between lose the new lock (`:162-167`; `raced`). Where the
  identity of a process cannot be told, the lock stays.
* An edit that is undone before the gates end is not seen, nor is one that keeps a file's size
  and time (`task_context.py:91`). `run_required` does not look at
  the lock at all, and the lock of the authority files records the pid of the command that
  took it, which is gone at once (`authority_lock.py:119`).

## 6. Not modelled

`PROJECT.json` lists every component with its status. Left out for good: hashing,
encryption and token formats, HTTP and wire formats, the inside of a page, the model
provider's protocol, rate limits, health endpoints, the worker shells (they start, log and
stop), shared value types, the tables' columns that no decision reads, commands that only
rename, the views of the console, the gates and validators under `tools/` that read the
repository and report (they keep no state another step relies on), and
`agent-governance-lite/runtime`, a second copy of the governance files. Of the console:
the forced change of a password as a page of its own and the two workflows of several calls.
Of governance: read-only tasks, several commands of one task at a time, which gates a path
needs. Of access: bindings whose period lies in the future.

## 7. Plan

Done, in this order: `ExecutionBinding` with `ResourceReservation`, because everything else
stands on leases; `AIExploration`, the most intricate concurrency; `BrowserChannel`, where
messages get lost; `Planning`, where a request is repeated; `RefreshSessions`,
`RunnerRegistration`, `RunnerReadiness`, `MasterData` and `ModelConfiguration`, where commands
decide on snapshots; `ExecutionTransactions`, which takes the core's own transactions apart;
`AccessControl`, `WebConsole` and `TaskGovernance`; then a proof of every safety invariant
and action property that a run checks, and of both refinements.

What would come next: a refinement of the browser calls `AIExploration` assumes by
`BrowserChannel`, an abstract specification of one idempotent request that `Planning`, the
connection test and `RunnerRegistration` implement, and rolling restarts of the key ring in
`Planning`.
