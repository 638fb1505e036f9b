--------------------------- MODULE RunnerReadiness ---------------------------
(***************************************************************************)
(* One registered Runner: what its Agent reports, what people decide about *)
(* it, and the three projections an execution is admitted by - version     *)
(* compatibility, scheduling status and the formal execution slot          *)
(* (runner_service.py, runner_readiness.py, runner_resource_reconciler.py).*)
(*                                                                         *)
(* Nobody recomputes the projections but the transactions that call        *)
(* _recompute_runner_runtime_state.  The Agent's lock the Runner with      *)
(* their first statement and read what is there.  A person's command       *)
(* authenticates first, which opens the transaction's snapshot             *)
(* (REPEATABLE READ), then waits for the lock of the Runner, and computes  *)
(* from the capabilities and the project of that snapshot: Begin and the   *)
(* action named for the command.  row_version tells it whether the Runner  *)
(* row was changed meanwhile, but a heartbeat does not count there; and of *)
(* two that overlap only one can number its event, whatever it is about.   *)
(***************************************************************************)
EXTENDS Naturals

CONSTANTS
  Command,            \* commands of people that may be under way together
  VersionCapability,  \* AGENT_VERSION and PLAYWRIGHT_VERSION in the code
  Observed            \* versions reported, compared with the supported one

ASSUME ReadinessAssumption ==
  /\ Observed \subseteq {"OLDER", "SUPPORTED", "NEWER"}
  /\ "SUPPORTED" \in Observed
  /\ VersionCapability # {}
  /\ VersionCapability \cap {"FORMAL_EXECUTION", "RUNNER", "NONE"} = {}

Capability == VersionCapability \cup {"FORMAL_EXECUTION"}

\* A capability that is not reported is as one reported NOT_CONFIGURED.
Report == Observed \cup {"NOT_CONFIGURED"}

VARIABLES
  project,     \* the project's lifecycle_status, as far as the Runner asks
  runner,      \* Runner row
  capability,  \* RunnerCapability rows
  slot,        \* lifecycle_status of the ExecutionSlot, NONE before there is one
  token,       \* RunnerAgent.token_status; HELD while an Agent runs that has the ACTIVE token
  command,     \* what each command of a person read before it waited for the lock
  outdated     \* history: the projections come from rows that have changed since

vars == <<project, runner, capability, slot, token, command, outdated>>

RunnerRow ==
  [lifecycle : {"REGISTERED", "ACTIVE", "DISABLED", "ARCHIVED"},
   connection : {"OFFLINE", "ONLINE"},
   health : {"UNKNOWN", "HEALTHY"},
   compatibility : {"UNKNOWN", "COMPATIBLE", "INCOMPATIBLE", "UPGRADE_REQUIRED"},
   scheduling : {"UNSCHEDULABLE", "IDLE"}]

\* What an Agent may report; of FORMAL_EXECUTION only whether it is configured matters.
Reports ==
  {reports \in [Capability -> Report] :
     reports["FORMAL_EXECUTION"] \in {"NOT_CONFIGURED", "SUPPORTED"}}

CapabilityRows == [Capability -> [report : Report, valid : BOOLEAN]]

Project == {"ACTIVE", "DISABLED"}

\* row: the one whose row_version the command expects to be what the page showed; NONE when
\* there is no command.
Reading == [row : Capability \cup {"RUNNER", "NONE"}, capability : CapabilityRows, project : Project]

TypeOK ==
  /\ project \in Project
  /\ runner \in RunnerRow
  /\ capability \in CapabilityRows
  /\ slot \in {"NONE", "ACTIVE", "DISABLED", "ARCHIVED"}
  /\ token \in {"ACTIVE", "HELD", "REVOKED"}
  /\ command \in [Command -> Reading]
  /\ outdated \in BOOLEAN

-----------------------------------------------------------------------------
(* The projections *)

\* resolve_version_compatibility
Compatibility(rows) ==
  CASE \E k \in VersionCapability : rows[k].report = "NOT_CONFIGURED" \/ ~rows[k].valid -> "UNKNOWN"
    [] \A k \in VersionCapability : rows[k].report = "SUPPORTED" /\ rows[k].valid -> "COMPATIBLE"
    [] \E k \in VersionCapability : rows[k].report = "NEWER" /\ rows[k].valid -> "INCOMPATIBLE"
    [] OTHER -> "UPGRADE_REQUIRED"

\* runner_base_execution_blockers, none of them.  enable_status is ENABLED exactly while the
\* lifecycle is ACTIVE, a heartbeat was received exactly when health is not UNKNOWN.
Ready(r, compatibility, status) ==
  /\ status = "ACTIVE"
  /\ r.lifecycle = "ACTIVE"
  /\ r.connection = "ONLINE"
  /\ r.health = "HEALTHY"
  /\ compatibility = "COMPATIBLE"

\* resolve_scheduling_status; the resource status is AVAILABLE, for nothing changes it.
Scheduling(r, compatibility, status) ==
  IF Ready(r, compatibility, status) THEN "IDLE" ELSE "UNSCHEDULABLE"

StaticallyEligible(r, rows, status) ==
  /\ status = "ACTIVE"
  /\ r.lifecycle = "ACTIVE"
  /\ Compatibility(rows) = "COMPATIBLE"
  /\ rows["FORMAL_EXECUTION"].report # "NOT_CONFIGURED"
  /\ rows["FORMAL_EXECUTION"].valid

\* reconcile_formal_execution_slot
Reconciled(r, rows, status) ==
  CASE slot = "NONE" -> IF StaticallyEligible(r, rows, status) THEN "ACTIVE" ELSE "NONE"
    [] slot # "NONE" /\ r.lifecycle = "ARCHIVED" -> "ARCHIVED"
    [] OTHER -> IF StaticallyEligible(r, rows, status) THEN "ACTIVE" ELSE "DISABLED"

\* Mutated Recompute: the slot is left to the next heartbeat.
RecomputeWithoutSlot(r, rows, status) ==
  /\ runner' = [r EXCEPT !.compatibility = Compatibility(rows),
                         !.scheduling = Scheduling(r, Compatibility(rows), status)]
  /\ slot' = slot
  /\ outdated' = (rows # capability' \/ status # project)

\* _recompute_runner_runtime_state of the Runner row r, from these capabilities and this
\* status of the project.
Recompute(r, rows, status) ==
  /\ runner' = [r EXCEPT !.compatibility = Compatibility(rows),
                         !.scheduling = Scheduling(r, Compatibility(rows), status)]
  /\ slot' = Reconciled(r, rows, status)
  /\ outdated' = (rows # capability' \/ status # project)

-----------------------------------------------------------------------------
(* The Agent *)

\* _apply_capability_snapshot
Snapshot(reports) ==
  [k \in Capability |-> IF reports[k] = capability[k].report THEN capability[k]
                        ELSE [report |-> reports[k], valid |-> FALSE]]

Closed == [row |-> "NONE", project |-> "ACTIVE",
           capability |-> [k \in Capability |-> [report |-> "NOT_CONFIGURED", valid |-> FALSE]]]

\* Mutated Bump: reports do not count.
BumpNothing(rows) == UNCHANGED command

\* A report counts up the row_versions of these: nothing but a refusal is left for the commands
\* that expect them, and it is taken here.
Bump(rows) ==
  command' = [c \in Command |-> IF command[c].row \in rows THEN Closed ELSE command[c]]

Changed(reports) == {k \in Capability : reports[k] # capability[k].report}

\* A heartbeat says that the Runner is HEALTHY - the Agent says nothing else - and repeats
\* what it can do.
Heartbeat(reports) ==
  /\ token = "HELD"
  /\ runner.lifecycle # "ARCHIVED"
  /\ capability' = Snapshot(reports)
  /\ Recompute([runner EXCEPT !.connection = "ONLINE", !.health = "HEALTHY"], capability', project)
  /\ Bump(Changed(reports))
  /\ UNCHANGED <<project, token>>

ReportCapabilities(reports) ==
  /\ token = "HELD"
  /\ runner.lifecycle # "ARCHIVED"
  /\ capability' = Snapshot(reports)
  /\ Recompute(runner, capability', project)
  /\ Bump(IF Changed(reports) = {} THEN {} ELSE Changed(reports) \cup {"RUNNER"})
  /\ UNCHANGED <<project, token>>

\* The Agent's process ends; nothing tells the API.
AgentStops ==
  /\ token = "HELD"
  /\ token' = "ACTIVE"
  /\ UNCHANGED <<project, runner, capability, slot, command, outdated>>

\* It starts again, with the current token in its credential file.
AgentStarts ==
  /\ token = "ACTIVE"
  /\ token' = "HELD"
  /\ UNCHANGED <<project, runner, capability, slot, command, outdated>>

-----------------------------------------------------------------------------
(* What people do *)

\* The page has been loaded and the command sent: its transaction authenticates.
Begin(c, row) ==
  /\ command[c] = Closed
  /\ command' = [command EXCEPT ![c] =
        [row |-> row, capability |-> capability, project |-> project]]
  /\ UNCHANGED <<project, runner, capability, slot, token, outdated>>

\* It is refused, for any other reason.
Refused(c) ==
  /\ command[c] # Closed
  /\ command' = [command EXCEPT ![c] = Closed]
  /\ UNCHANGED <<project, runner, capability, slot, token, outdated>>

\* Every command of a person ends with an event of the Runner, numbered one above the last that
\* its snapshot shows.  The first of those under way to commit leaves nothing but a broken
\* uq_outbox_aggregate_sequence for the others.
PublishEvent == command' = [c \in Command |-> Closed]

\* Under the lock of the Runner, c leaves it as r.
Decides(c, r) ==
  /\ command[c].row = "RUNNER"
  /\ capability' = capability
  /\ Recompute(r, command[c].capability, command[c].project)
  /\ PublishEvent
  /\ UNCHANGED project

\* update
UpdateRunner(c) ==
  /\ runner.lifecycle # "ARCHIVED"
  /\ Decides(c, runner)
  /\ token' = token

\* enable; also the project's status comes from the snapshot.
Enable(c) ==
  /\ runner.lifecycle \in {"REGISTERED", "DISABLED"}
  /\ command[c].project = "ACTIVE"
  /\ Decides(c, [runner EXCEPT !.lifecycle = "ACTIVE"])
  /\ token' = token

Disable(c) ==
  /\ runner.lifecycle \in {"REGISTERED", "ACTIVE"}
  /\ Decides(c, [runner EXCEPT !.lifecycle = "DISABLED"])
  /\ token' = token

Archive(c) ==
  /\ runner.lifecycle = "DISABLED"
  /\ Decides(c, [runner EXCEPT !.lifecycle = "ARCHIVED"])
  /\ token' = token

\* revoke_token
RevokeToken(c) ==
  /\ token # "REVOKED"
  /\ token' = "REVOKED"
  /\ Decides(c, [runner EXCEPT !.connection = "OFFLINE"])

\* rotate_token: the new token is shown to the person, the Agent has the old one.
RotateToken(c) ==
  /\ command[c].row = "RUNNER"
  /\ runner.lifecycle # "ARCHIVED"
  /\ token' = "ACTIVE"
  /\ PublishEvent
  /\ UNCHANGED <<project, runner, capability, slot, outdated>>

\* validate_capability: the row is locked and read again, the others are not.
ValidateCapability(c, k) ==
  /\ command[c].row = k
  /\ runner.lifecycle = "ACTIVE"
  /\ runner.connection = "ONLINE"
  /\ runner.health = "HEALTHY"
  /\ capability[k].report # "NOT_CONFIGURED"
  /\ ~capability[k].valid
  /\ capability' = [capability EXCEPT ![k].valid = TRUE]
  /\ Recompute(runner, [command[c].capability EXCEPT ![k] = capability'[k]], command[c].project)
  /\ PublishEvent
  /\ UNCHANGED <<project, token>>

\* The project is disabled, archived or recovered: no Runner is touched.
ProjectChanges ==
  /\ \E status \in Project \ {project} : project' = status
  /\ outdated' = TRUE
  /\ UNCHANGED <<runner, capability, slot, token, command>>

-----------------------------------------------------------------------------

\* As register leaves it, with whatever the Agent reported.
Init ==
  /\ project = "ACTIVE"
  /\ runner = [lifecycle |-> "REGISTERED", connection |-> "OFFLINE", health |-> "UNKNOWN",
               compatibility |-> "UNKNOWN", scheduling |-> "UNSCHEDULABLE"]
  /\ \E reports \in Reports :
       capability = [k \in Capability |-> [report |-> reports[k], valid |-> FALSE]]
  /\ slot = "NONE"
  /\ token = "HELD"
  /\ command = [c \in Command |-> Closed]
  /\ outdated = FALSE

Next ==
  \/ \E reports \in Reports : Heartbeat(reports)
  \/ \E reports \in Reports : ReportCapabilities(reports)
  \/ AgentStops
  \/ AgentStarts
  \/ \E c \in Command, row \in Capability \cup {"RUNNER"} : Begin(c, row)
  \/ \E c \in Command : Refused(c)
  \/ \E c \in Command : UpdateRunner(c)
  \/ \E c \in Command : Enable(c)
  \/ \E c \in Command : Disable(c)
  \/ \E c \in Command : Archive(c)
  \/ \E c \in Command : RevokeToken(c)
  \/ \E c \in Command : RotateToken(c)
  \/ \E c \in Command, k \in Capability : ValidateCapability(c, k)
  \/ ProjectChanges

Spec == Init /\ [][Next]_vars

-----------------------------------------------------------------------------
(* Properties *)

\* The projections are what the rows imply, unless they come from rows that have changed
\* since: whoever changes a row they depend on recomputes them in the same transaction.
ProjectionsFollowRows ==
  ~outdated =>
    /\ runner.compatibility = Compatibility(capability)
    /\ runner.scheduling = Scheduling(runner, runner.compatibility, project)
    /\ slot = "ACTIVE" <=> StaticallyEligible(runner, capability, project)

\* A Runner that was withdrawn - disabled, archived, its token revoked - admits nothing and
\* has no slot to offer, also when the command that withdrew it computed from old rows.
WithdrawnAdmitsNothing ==
  /\ token = "REVOKED" => runner.connection = "OFFLINE" /\ runner.scheduling = "UNSCHEDULABLE"
  /\ runner.lifecycle # "ACTIVE" => runner.scheduling = "UNSCHEDULABLE" /\ slot # "ACTIVE"
  /\ runner.lifecycle = "ARCHIVED" => slot \in {"NONE", "ARCHIVED"}

\* A capability becomes VALID only as the person who validated it saw it reported, and what
\* is reported otherwise is not VALID any more.
ValidatedAsSeen ==
  [][\A k \in Capability :
       /\ capability'[k].valid /\ ~capability[k].valid =>
            /\ capability'[k].report = capability[k].report
            /\ \E c \in Command : command[c].row = k /\ command[c].capability[k] = capability[k]
       /\ capability'[k].report # capability[k].report => ~capability'[k].valid]_vars

\* An archived Runner stays archived, out of the schedule and without a slot, whatever its
\* Agent and the people who loaded it before still send.
ArchivedIsFinal ==
  [][runner.lifecycle = "ARCHIVED" =>
       runner'.lifecycle = "ARCHIVED" /\ runner'.scheduling = "UNSCHEDULABLE" /\ slot' = slot]_vars
=============================================================================
