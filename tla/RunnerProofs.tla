-------------------------------- MODULE RunnerProofs ---------------------------------
(* What RunnerReadiness promises, proved for any commands under way together, any           *)
(* version capabilities and any versions; and what RunnerRegistration promises.            *)
EXTENDS RunnerReadiness, RunnerRegistration, TLAPS

-----------------------------------------------------------------------------
(* Types *)

\* What a capability row, the Runner row and the command rows are after the helpers.
LEMMA HelpersTyped ==
  ASSUME TypeOK
  PROVE /\ Closed \in Reading
        /\ \A reports \in Reports : Snapshot(reports) \in CapabilityRows
        /\ \A rows : Bump(rows) => command' \in [Command -> Reading]
        /\ PublishEvent => command' \in [Command -> Reading]
<1>1. Closed \in Reading
  BY DEF Closed, Reading, CapabilityRows, Report, Project
<1>2. ASSUME NEW reports \in Reports
      PROVE Snapshot(reports) \in CapabilityRows
  BY DEF TypeOK, Snapshot, Reports, CapabilityRows
<1>3. ASSUME NEW rows, Bump(rows)
      PROVE command' \in [Command -> Reading]
  BY <1>1, <1>3 DEF TypeOK, Bump
<1>4. ASSUME PublishEvent
      PROVE command' \in [Command -> Reading]
  BY <1>1, <1>4 DEF PublishEvent
<1>5. QED
  BY <1>1, <1>2, <1>3, <1>4

\* A recomputation leaves a Runner row, a slot and a mark of their types, and of the row it
\* changes nothing but the projections.
LEMMA RecomputeTyped ==
  ASSUME TypeOK, NEW r \in RunnerRow, NEW rows, NEW status, Recompute(r, rows, status)
  PROVE /\ runner' \in RunnerRow
        /\ slot' \in {"NONE", "ACTIVE", "DISABLED", "ARCHIVED"}
        /\ outdated' \in BOOLEAN
        /\ runner'.lifecycle = r.lifecycle /\ runner'.connection = r.connection
        /\ runner'.health = r.health
        /\ runner'.compatibility = Compatibility(rows)
        /\ runner'.scheduling = Scheduling(r, Compatibility(rows), status)
<1>1. Compatibility(rows) \in {"UNKNOWN", "COMPATIBLE", "INCOMPATIBLE", "UPGRADE_REQUIRED"}
  BY DEF Compatibility
<1>2. Scheduling(r, Compatibility(rows), status) \in {"UNSCHEDULABLE", "IDLE"}
  BY DEF Scheduling
<1>3. Reconciled(r, rows, status) \in {"NONE", "ACTIVE", "DISABLED", "ARCHIVED"}
  BY DEF TypeOK, Reconciled
<1>4. runner' = [r EXCEPT !.compatibility = Compatibility(rows),
                          !.scheduling = Scheduling(r, Compatibility(rows), status)]
  BY DEF Recompute
<1>5. outdated' \in BOOLEAN
  BY DEF Recompute
<1>6. slot' = Reconciled(r, rows, status)
  BY DEF Recompute
<1>7. QED
  BY <1>1, <1>2, <1>3, <1>4, <1>5, <1>6 DEF RunnerRow

\* The decisions of people leave the Runner as some row r and recompute from what they read.
LEMMA DecisionsRecompute ==
  ASSUME TypeOK, NEW c \in Command,
         UpdateRunner(c) \/ Enable(c) \/ Disable(c) \/ Archive(c) \/ RevokeToken(c)
  PROVE \E r \in RunnerRow :
          /\ Decides(c, r)
          /\ r.health = runner.health
          /\ r.lifecycle = "ACTIVE" /\ r.connection = "ONLINE" => token' = token
          /\ r.connection \in {runner.connection, "OFFLINE"}
          /\ token' # token => token' = "REVOKED" /\ r.connection = "OFFLINE"
          /\ runner.lifecycle = "ARCHIVED" => r.lifecycle = "ARCHIVED"
          /\ token' \in {token, "REVOKED"}
<1>1. runner \in RunnerRow
  BY DEF TypeOK
<1>2. CASE UpdateRunner(c)
  BY <1>1, <1>2 DEF UpdateRunner
<1>3. CASE Enable(c)
  <2>1. [runner EXCEPT !.lifecycle = "ACTIVE"] \in RunnerRow
    BY <1>1 DEF RunnerRow
  <2>2. QED
    BY <1>1, <1>3, <2>1 DEF Enable, RunnerRow
<1>4. CASE Disable(c)
  <2>1. [runner EXCEPT !.lifecycle = "DISABLED"] \in RunnerRow
    BY <1>1 DEF RunnerRow
  <2>2. QED
    BY <1>1, <1>4, <2>1 DEF Disable, RunnerRow
<1>5. CASE Archive(c)
  <2>1. [runner EXCEPT !.lifecycle = "ARCHIVED"] \in RunnerRow
    BY <1>1 DEF RunnerRow
  <2>2. QED
    BY <1>1, <1>5, <2>1 DEF Archive, RunnerRow
<1>6. CASE RevokeToken(c)
  <2>1. [runner EXCEPT !.connection = "OFFLINE"] \in RunnerRow
    BY <1>1 DEF RunnerRow
  <2>2. QED
    BY <1>1, <1>6, <2>1 DEF RevokeToken, RunnerRow
<1>7. QED
  BY <1>2, <1>3, <1>4, <1>5, <1>6

\* Every step keeps the types.
LEMMA TypePreserved ==
  ASSUME TypeOK, [Next]_vars
  PROVE TypeOK'
<1>1. ASSUME NEW reports \in Reports, Heartbeat(reports)
      PROVE TypeOK'
  <2>1. [runner EXCEPT !.connection = "ONLINE", !.health = "HEALTHY"] \in RunnerRow
    BY DEF TypeOK, RunnerRow
  <2>2. QED
    BY <1>1, <2>1, HelpersTyped, RecomputeTyped DEF TypeOK, Heartbeat
<1>2. ASSUME NEW reports \in Reports, ReportCapabilities(reports)
      PROVE TypeOK'
  BY <1>2, HelpersTyped, RecomputeTyped DEF TypeOK, ReportCapabilities
<1>3. CASE AgentStops \/ AgentStarts
  BY <1>3 DEF TypeOK, AgentStops, AgentStarts
<1>4. ASSUME NEW c \in Command, NEW row \in Capability \cup {"RUNNER"}, Begin(c, row)
      PROVE TypeOK'
  <2>1. [row |-> row, capability |-> capability, project |-> project] \in Reading
    BY DEF TypeOK, Reading
  <2>2. QED
    BY <1>4, <2>1 DEF TypeOK, Begin
<1>5. ASSUME NEW c \in Command, Refused(c)
      PROVE TypeOK'
  BY <1>5, HelpersTyped DEF TypeOK, Refused
<1>6. ASSUME NEW c \in Command,
             UpdateRunner(c) \/ Enable(c) \/ Disable(c) \/ Archive(c) \/ RevokeToken(c)
      PROVE TypeOK'
  <2>1. PICK r \in RunnerRow : Decides(c, r) /\ token' \in {token, "REVOKED"}
    BY <1>6, DecisionsRecompute
  <2>2. QED
    BY <2>1, HelpersTyped, RecomputeTyped DEF TypeOK, Decides
<1>7. ASSUME NEW c \in Command, RotateToken(c)
      PROVE TypeOK'
  BY <1>7, HelpersTyped DEF TypeOK, RotateToken
<1>8. ASSUME NEW c \in Command, NEW k \in Capability, ValidateCapability(c, k)
      PROVE TypeOK'
  <2>1. capability' \in CapabilityRows
    BY <1>8 DEF TypeOK, ValidateCapability, CapabilityRows
  <2>2. QED
    BY <1>8, <2>1, HelpersTyped, RecomputeTyped DEF TypeOK, ValidateCapability
<1>9. CASE ProjectChanges
  BY <1>9 DEF TypeOK, ProjectChanges
<1>10. CASE UNCHANGED vars
  BY <1>10 DEF TypeOK, vars
<1>11. QED
  BY <1>1, <1>2, <1>3, <1>4, <1>5, <1>6, <1>7, <1>8, <1>9, <1>10 DEF Next

\* TypeOK: the projections have only the values their columns allow.
THEOREM TypeCorrect == Spec => []TypeOK
<1>1. Init => TypeOK
  <2>1. Closed \in Reading
    BY DEF Closed, Reading, CapabilityRows, Report, Project
  <2>2. \A reports \in Reports :
          [k \in Capability |-> [report |-> reports[k], valid |-> FALSE]] \in CapabilityRows
    BY DEF Reports, CapabilityRows
  <2>3. Init => runner \in RunnerRow
    BY DEF Init, RunnerRow
  <2>4. QED
    BY <2>1, <2>2, <2>3 DEF Init, TypeOK, Project
<1>2. TypeOK /\ [Next]_vars => TypeOK'
  BY TypePreserved
<1>3. QED
  BY <1>1, <1>2, PTL DEF Spec

-----------------------------------------------------------------------------
(* Projections *)

\* A recomputation brings slot and scheduling in line with the rows it is made from.
LEMMA RecomputeFollows ==
  ASSUME TypeOK, NEW r \in RunnerRow, NEW rows, NEW status, Recompute(r, rows, status)
  PROVE /\ runner'.compatibility = Compatibility(rows)
        /\ runner'.scheduling = Scheduling(runner', runner'.compatibility, status)
        /\ slot' = "ACTIVE" <=> StaticallyEligible(runner', rows, status)
        /\ runner'.lifecycle # "ACTIVE" => runner'.scheduling = "UNSCHEDULABLE" /\ slot' # "ACTIVE"
        /\ runner'.connection # "ONLINE" => runner'.scheduling = "UNSCHEDULABLE"
        /\ runner'.lifecycle = "ARCHIVED" => slot' = IF slot = "NONE" THEN "NONE" ELSE "ARCHIVED"
<1>1. /\ runner'.lifecycle = r.lifecycle /\ runner'.connection = r.connection
      /\ runner'.health = r.health
      /\ runner'.compatibility = Compatibility(rows)
      /\ runner'.scheduling = Scheduling(r, Compatibility(rows), status)
  BY RecomputeTyped
<1>2. slot' = Reconciled(r, rows, status)
  BY DEF Recompute
<1>3. StaticallyEligible(runner', rows, status) <=> StaticallyEligible(r, rows, status)
  BY <1>1 DEF StaticallyEligible
<1>4. slot' = "ACTIVE" <=> StaticallyEligible(r, rows, status)
  BY <1>2 DEF Reconciled, StaticallyEligible
<1>5. runner'.scheduling = Scheduling(runner', runner'.compatibility, status)
  BY <1>1 DEF Scheduling, Ready
<1>6. /\ r.lifecycle # "ACTIVE" => runner'.scheduling = "UNSCHEDULABLE" /\ slot' # "ACTIVE"
      /\ r.connection # "ONLINE" => runner'.scheduling = "UNSCHEDULABLE"
  BY <1>1, <1>4 DEF Scheduling, Ready, StaticallyEligible
<1>7. r.lifecycle = "ARCHIVED" => slot' = IF slot = "NONE" THEN "NONE" ELSE "ARCHIVED"
  BY <1>2 DEF Reconciled, StaticallyEligible
<1>8. QED
  BY <1>1, <1>3, <1>4, <1>5, <1>6, <1>7

\* What a step is to the projections: it recomputes them, from rows that are marked when they
\* are not the newest, or leaves them alone with everything they depend on, or marks them.
LEMMA StepOfProjections ==
  ASSUME TypeOK, [Next]_vars
  PROVE \/ \E r \in RunnerRow, rows \in CapabilityRows, status \in Project :
             Recompute(r, rows, status) /\ project' = project
        \/ UNCHANGED <<runner, slot, capability, project, outdated>>
        \/ outdated' /\ UNCHANGED <<runner, slot>>
<1>1. runner \in RunnerRow /\ project \in Project
  BY DEF TypeOK
<1>2. ASSUME NEW reports \in Reports, Heartbeat(reports)
      PROVE \E r \in RunnerRow, rows \in CapabilityRows, status \in Project :
              Recompute(r, rows, status) /\ project' = project
  <2>1. [runner EXCEPT !.connection = "ONLINE", !.health = "HEALTHY"] \in RunnerRow
    BY <1>1 DEF RunnerRow
  <2>2. capability' \in CapabilityRows
    BY <1>2, HelpersTyped DEF Heartbeat
  <2>3. QED
    BY <1>1, <1>2, <2>1, <2>2 DEF Heartbeat
<1>3. ASSUME NEW reports \in Reports, ReportCapabilities(reports)
      PROVE \E r \in RunnerRow, rows \in CapabilityRows, status \in Project :
              Recompute(r, rows, status) /\ project' = project
  <2>1. capability' \in CapabilityRows
    BY <1>3, HelpersTyped DEF ReportCapabilities
  <2>2. QED
    BY <1>1, <1>3, <2>1 DEF ReportCapabilities
<1>4. ASSUME NEW c \in Command,
             UpdateRunner(c) \/ Enable(c) \/ Disable(c) \/ Archive(c) \/ RevokeToken(c)
      PROVE \E r \in RunnerRow, rows \in CapabilityRows, status \in Project :
              Recompute(r, rows, status) /\ project' = project
  <2>1. PICK r \in RunnerRow : Decides(c, r)
    BY <1>4, DecisionsRecompute
  <2>2. command[c].capability \in CapabilityRows /\ command[c].project \in Project
    BY DEF TypeOK, Reading
  <2>3. QED
    BY <2>1, <2>2 DEF Decides
<1>5. ASSUME NEW c \in Command, NEW k \in Capability, ValidateCapability(c, k)
      PROVE \E r \in RunnerRow, rows \in CapabilityRows, status \in Project :
              Recompute(r, rows, status) /\ project' = project
  <2>1. command[c].capability \in CapabilityRows /\ command[c].project \in Project
    BY DEF TypeOK, Reading
  <2>2. capability' \in CapabilityRows
    BY <1>5, TypePreserved DEF TypeOK
  <2>3. [command[c].capability EXCEPT ![k] = capability'[k]] \in CapabilityRows
    BY <2>1, <2>2 DEF CapabilityRows
  <2>4. QED
    BY <1>1, <1>5, <2>1, <2>3 DEF ValidateCapability
<1>6. QED
  BY <1>2, <1>3, <1>4, <1>5
     DEF Next, vars, AgentStops, AgentStarts, Begin, Refused, RotateToken, ProjectChanges

\* ProjectionsFollowRows: whoever changes a row recomputes what depends on it, except that a
\* status of the project and a command's snapshot leave their mark.
THEOREM ProjectionsFollow == Spec => []ProjectionsFollowRows
<1>1. Init => ProjectionsFollowRows
  <2> SUFFICES ASSUME Init PROVE ProjectionsFollowRows
    OBVIOUS
  <2>1. PICK reports \in Reports :
          capability = [k \in Capability |-> [report |-> reports[k], valid |-> FALSE]]
    BY DEF Init
  <2>2. \A k \in Capability : ~capability[k].valid
    BY <2>1
  <2>3. ~StaticallyEligible(runner, capability, project)
    BY DEF Init, StaticallyEligible
  <2>4. Compatibility(capability) = "UNKNOWN"
    BY <2>2, ReadinessAssumption DEF Compatibility, Capability
  <2>5. QED
    BY <2>3, <2>4 DEF Init, ProjectionsFollowRows, Scheduling, Ready
<1>2. TypeOK /\ ProjectionsFollowRows /\ [Next]_vars => ProjectionsFollowRows'
  <2> SUFFICES ASSUME TypeOK, ProjectionsFollowRows, [Next]_vars PROVE ProjectionsFollowRows'
    OBVIOUS
  <2>1. ASSUME NEW r \in RunnerRow, NEW rows \in CapabilityRows, NEW status \in Project,
               Recompute(r, rows, status), project' = project
        PROVE ProjectionsFollowRows'
    <3>1. ~outdated' => rows = capability' /\ status = project'
      BY <2>1 DEF Recompute
    <3>2. QED
      BY <2>1, <3>1, RecomputeFollows DEF ProjectionsFollowRows
  <2>2. CASE UNCHANGED <<runner, slot, capability, project, outdated>>
    BY <2>2 DEF ProjectionsFollowRows, StaticallyEligible, Scheduling, Ready
  <2>3. CASE outdated'
    BY <2>3 DEF ProjectionsFollowRows
  <2>4. QED
    BY <2>1, <2>2, <2>3, StepOfProjections
<1>3. QED
  BY <1>1, <1>2, TypeCorrect, PTL DEF Spec

-----------------------------------------------------------------------------
(* Withdrawal *)

\* WithdrawnAdmitsNothing: a Runner that was disabled or archived, or whose token was revoked,
\* is out of the schedule and offers no slot, also when the command that withdrew it computed
\* from old capabilities, and whatever is decided or reported after it.
THEOREM WithdrawnIsOut == Spec => []WithdrawnAdmitsNothing
<1>1. Init => WithdrawnAdmitsNothing
  BY DEF Init, WithdrawnAdmitsNothing
<1>2. TypeOK /\ WithdrawnAdmitsNothing /\ [Next]_vars => WithdrawnAdmitsNothing'
  <2> SUFFICES ASSUME TypeOK, WithdrawnAdmitsNothing, [Next]_vars PROVE WithdrawnAdmitsNothing'
    OBVIOUS
  <2>1. runner \in RunnerRow
    BY DEF TypeOK
  <2>2. ASSUME NEW r \in RunnerRow, NEW rows, NEW status, Recompute(r, rows, status),
               runner.lifecycle = "ARCHIVED" => r.lifecycle = "ARCHIVED",
               token' = "REVOKED" => r.connection = "OFFLINE"
        PROVE WithdrawnAdmitsNothing'
    BY <2>2, RecomputeTyped, RecomputeFollows DEF WithdrawnAdmitsNothing
  <2>3. ASSUME NEW reports \in Reports, Heartbeat(reports)
        PROVE WithdrawnAdmitsNothing'
    <3>1. [runner EXCEPT !.connection = "ONLINE", !.health = "HEALTHY"] \in RunnerRow
      BY <2>1 DEF RunnerRow
    <3>2. QED
      BY <2>2, <2>3, <3>1 DEF Heartbeat
  <2>4. ASSUME NEW reports \in Reports, ReportCapabilities(reports)
        PROVE WithdrawnAdmitsNothing'
    BY <2>1, <2>2, <2>4 DEF ReportCapabilities
  <2>5. ASSUME NEW c \in Command,
               UpdateRunner(c) \/ Enable(c) \/ Disable(c) \/ Archive(c) \/ RevokeToken(c)
        PROVE WithdrawnAdmitsNothing'
    <3>1. PICK r \in RunnerRow :
            /\ Decides(c, r)
            /\ r.connection \in {runner.connection, "OFFLINE"}
            /\ token' # token => token' = "REVOKED" /\ r.connection = "OFFLINE"
            /\ runner.lifecycle = "ARCHIVED" => r.lifecycle = "ARCHIVED"
      BY <2>5, DecisionsRecompute
    <3>2. token' = "REVOKED" => r.connection = "OFFLINE"
      BY <3>1 DEF WithdrawnAdmitsNothing
    <3>3. QED
      BY <2>2, <3>1, <3>2 DEF Decides
  <2>6. ASSUME NEW c \in Command, NEW k \in Capability, ValidateCapability(c, k)
        PROVE WithdrawnAdmitsNothing'
    <3>1. token' = "REVOKED" => runner.connection = "OFFLINE"
      BY <2>6 DEF ValidateCapability, WithdrawnAdmitsNothing
    <3>2. QED
      BY <2>1, <2>2, <2>6, <3>1 DEF ValidateCapability
  <2>7. CASE UNCHANGED <<runner, slot>> /\ token' \in {token, "ACTIVE", "HELD"}
    BY <2>7 DEF WithdrawnAdmitsNothing
  <2>8. QED
    BY <2>3, <2>4, <2>5, <2>6, <2>7
       DEF Next, vars, AgentStops, AgentStarts, Begin, Refused, RotateToken, ProjectChanges
<1>3. QED
  BY <1>1, <1>2, TypeCorrect, PTL DEF Spec

\* ArchivedIsFinal: an archived Runner stays archived, and its slot as it is.
THEOREM ArchivedStays == Spec => ArchivedIsFinal
<1> DEFINE Final == runner.lifecycle = "ARCHIVED" =>
                      /\ runner'.lifecycle = "ARCHIVED"
                      /\ runner'.scheduling = "UNSCHEDULABLE" /\ slot' = slot
<1>1. TypeOK /\ WithdrawnAdmitsNothing /\ [Next]_vars => [Final]_vars
  <2> SUFFICES ASSUME TypeOK, WithdrawnAdmitsNothing, Next, runner.lifecycle = "ARCHIVED"
               PROVE Final
    BY DEF vars
  <2>1. runner.scheduling = "UNSCHEDULABLE" /\ slot \in {"NONE", "ARCHIVED"}
    BY DEF WithdrawnAdmitsNothing
  <2>2. ASSUME NEW c \in Command,
               UpdateRunner(c) \/ Enable(c) \/ Disable(c) \/ Archive(c) \/ RevokeToken(c)
        PROVE Final
    <3>1. PICK r \in RunnerRow : Decides(c, r) /\ r.lifecycle = "ARCHIVED"
      BY <2>2, DecisionsRecompute
    <3>2. Recompute(r, command[c].capability, command[c].project)
      BY <3>1 DEF Decides
    <3>3. QED
      BY <2>1, <3>1, <3>2, RecomputeTyped, RecomputeFollows
  <2>3. CASE UNCHANGED <<runner, slot>>
    BY <2>1, <2>3
  <2>4. QED
    BY <2>2, <2>3
       DEF Next, Heartbeat, ReportCapabilities, AgentStops, AgentStarts, Begin, Refused,
           RotateToken, ValidateCapability, ProjectChanges
<1>2. QED
  BY <1>1, TypeCorrect, WithdrawnIsOut, PTL DEF Spec, ArchivedIsFinal

-----------------------------------------------------------------------------
(* Validation *)

\* While a validation of a capability is under way, the capability is as the person saw it: a
\* report of another version, and the event of any other command, end it.
SeenStands ==
  \A c \in Command, k \in Capability :
    command[c].row = k => command[c].capability[k] = capability[k]

\* ValidatedAsSeen: what becomes VALID is what the person saw, and what is reported otherwise
\* stops being VALID.
THEOREM ValidatedStands == Spec => ValidatedAsSeen
<1> DEFINE AsSeen ==
      \A k \in Capability :
        /\ capability'[k].valid /\ ~capability[k].valid =>
             /\ capability'[k].report = capability[k].report
             /\ \E c \in Command : command[c].row = k /\ command[c].capability[k] = capability[k]
        /\ capability'[k].report # capability[k].report => ~capability'[k].valid
<1>1. \A k \in Capability : k # "NONE" /\ k # "RUNNER"
  BY ReadinessAssumption DEF Capability
<1>2. Init => SeenStands
  BY <1>1 DEF Init, SeenStands, Closed
<1>3. TypeOK /\ SeenStands /\ [Next]_vars => SeenStands'
  <2> SUFFICES ASSUME TypeOK, SeenStands, [Next]_vars,
                      NEW c \in Command, NEW k \in Capability, command'[c].row = k
               PROVE command'[c].capability[k] = capability'[k]
    BY DEF SeenStands
  <2>1. ASSUME PublishEvent
        PROVE FALSE
    BY <1>1, <2>1 DEF PublishEvent, Closed
  <2>2. ASSUME NEW reports \in Reports, NEW rows, Changed(reports) \subseteq rows,
               capability' = Snapshot(reports), Bump(rows)
        PROVE command'[c].capability[k] = capability'[k]
    <3>1. command[c].row \notin rows /\ command'[c] = command[c]
      BY <1>1, <2>2 DEF Bump, Closed
    <3>2. reports[k] = capability[k].report
      BY <2>2, <3>1 DEF Changed
    <3>3. capability'[k] = capability[k]
      BY <2>2, <3>2 DEF Snapshot
    <3>4. QED
      BY <3>1, <3>3 DEF SeenStands
  <2>3. ASSUME NEW reports \in Reports, Heartbeat(reports) \/ ReportCapabilities(reports)
        PROVE command'[c].capability[k] = capability'[k]
    BY <2>2, <2>3 DEF Heartbeat, ReportCapabilities
  <2>4. ASSUME NEW d \in Command, NEW row \in Capability \cup {"RUNNER"}, Begin(d, row)
        PROVE command'[c].capability[k] = capability'[k]
    BY <2>4 DEF Begin, SeenStands, TypeOK
  <2>5. ASSUME NEW d \in Command, Refused(d)
        PROVE command'[c].capability[k] = capability'[k]
    BY <1>1, <2>5 DEF Refused, SeenStands, Closed, TypeOK
  <2>6. CASE UNCHANGED <<command, capability>>
    BY <2>6 DEF SeenStands
  <2>7. QED
    BY <2>1, <2>3, <2>4, <2>5, <2>6
       DEF Next, vars, AgentStops, AgentStarts, UpdateRunner, Enable, Disable, Archive,
           RevokeToken, Decides, RotateToken, ValidateCapability, ProjectChanges
<1>4. TypeOK /\ SeenStands /\ [Next]_vars => [AsSeen]_vars
  <2> SUFFICES ASSUME TypeOK, SeenStands, Next, NEW k \in Capability
               PROVE /\ capability'[k].valid /\ ~capability[k].valid =>
                          /\ capability'[k].report = capability[k].report
                          /\ \E c \in Command : /\ command[c].row = k
                                                /\ command[c].capability[k] = capability[k]
                     /\ capability'[k].report # capability[k].report => ~capability'[k].valid
    BY DEF vars
  <2>1. ASSUME NEW reports \in Reports, capability' = Snapshot(reports)
        PROVE capability'[k] = capability[k] \/ ~capability'[k].valid
    BY <2>1 DEF Snapshot
  <2>2. ASSUME NEW c \in Command, NEW j \in Capability, ValidateCapability(c, j)
        PROVE /\ capability'[k].report = capability[k].report
              /\ capability'[k] # capability[k] =>
                   command[c].row = k /\ command[c].capability[k] = capability[k]
    BY <2>2 DEF ValidateCapability, SeenStands, TypeOK, CapabilityRows
  <2>3. CASE UNCHANGED capability
    BY <2>3
  <2>4. QED
    BY <2>1, <2>2, <2>3
       DEF Next, Heartbeat, ReportCapabilities, AgentStops, AgentStarts, Begin, Refused,
           UpdateRunner, Enable, Disable, Archive, RevokeToken, Decides, RotateToken,
           ProjectChanges
<1>5. QED
  BY <1>2, <1>3, <1>4, TypeCorrect, PTL DEF Spec, ValidatedAsSeen

-----------------------------------------------------------------------------
(* Registration *)

\* A request that is under way is one of a host.
CallsOfHosts ==
  \A c \in Call : call[c].state # "IDLE" \/ call[c].awaited => call[c].host \in Host

\* A snapshot shows a token of the host's Runner only when the Runner was that host's.
SnapshotsOfTheOwner ==
  \A c \in Call : call[c].seen # 0 => owner = call[c].host /\ owner \in Host

\* A Runner has a token from the moment it exists.
OwnerHasToken == owner = "nobody" <=> issued.version = 0

\* What every step keeps.
RegistrationInv ==
  /\ RegistrationTypeOK
  /\ CallsOfHosts
  /\ SnapshotsOfTheOwner
  /\ OwnerHasToken
  /\ TokensOfTheRunner

\* A row nobody waits for any longer is a row, the rest as it was.
LEMMA EndedRow ==
  ASSUME NEW r \in CallRow
  PROVE LET ended == [r EXCEPT !.awaited = FALSE]
        IN /\ ended \in CallRow
           /\ ended.host = r.host /\ ended.state = r.state /\ ended.seen = r.seen
           /\ ended.process = r.process /\ ended.awaited = FALSE
  BY Zenon DEF CallRow

\* Before anything happens.
LEMMA RegistrationStarts == RegistrationInit => RegistrationInv
  BY RegistrationAssumption
     DEF RegistrationInit, RegistrationInv, RegistrationTypeOK, CallsOfHosts,
         SnapshotsOfTheOwner, OwnerHasToken, TokensOfTheRunner, Stopped, Idle, CallRow, Version

\* People who look at the code before they create an enrollment, and those who rotate or
\* revoke the token.
LEMMA PeopleKeep ==
  ASSUME RegistrationInv,
         BeginEnrollment \/ EnrollmentRefused \/ RotateAgentToken \/ RevokeAgentToken
  PROVE RegistrationInv'
<1> USE RegistrationAssumption
        DEF RegistrationInv, RegistrationTypeOK, CallsOfHosts, SnapshotsOfTheOwner,
            OwnerHasToken, TokensOfTheRunner, Version
<1>1. CASE BeginEnrollment \/ EnrollmentRefused
  BY <1>1 DEF BeginEnrollment, EnrollmentRefused
<1>2. CASE RotateAgentToken
  BY <1>2 DEF RotateAgentToken
<1>3. CASE RevokeAgentToken
  BY <1>3 DEF RevokeAgentToken
<1>4. QED
  BY <1>1, <1>2, <1>3

\* A host that is given a credential, starts its Agent, gets another token, or whose record
\* expires.
LEMMA HostsKeep ==
  ASSUME RegistrationInv, NEW h \in Host,
         \/ CreateEnrollment(h) \/ (\E p \in Process : StartAgent(h, p))
         \/ RecordExpires(h) \/ (\E v \in Version : InstallToken(h, v))
  PROVE RegistrationInv'
<1> USE RegistrationAssumption
        DEF RegistrationInv, RegistrationTypeOK, CallsOfHosts, SnapshotsOfTheOwner,
            OwnerHasToken, TokensOfTheRunner, Version
<1>1. CASE CreateEnrollment(h)
  BY <1>1 DEF CreateEnrollment
<1>2. ASSUME NEW p \in Process, StartAgent(h, p)
      PROVE RegistrationInv'
  BY <1>2 DEF StartAgent
<1>3. CASE RecordExpires(h)
  BY <1>3 DEF RecordExpires
<1>4. ASSUME NEW v \in Version, InstallToken(h, v)
      PROVE RegistrationInv'
  BY <1>4 DEF InstallToken
<1>5. QED
  BY <1>1, <1>2, <1>3, <1>4

\* The requests on their way, and what the Agent does with an answer.
LEMMA RequestsKeep ==
  ASSUME RegistrationInv, NEW c \in Call,
         \/ \E h \in Host : SendRegistration(h, c)
         \/ TimeOut(c) \/ Vanish(c) \/ Registered(c) \/ RegistrationFails(c)
  PROVE RegistrationInv'
<1> USE RegistrationAssumption
        DEF RegistrationInv, RegistrationTypeOK, CallsOfHosts, SnapshotsOfTheOwner,
            OwnerHasToken, TokensOfTheRunner, Version, Idle, Stopped
<1>0. Idle \in CallRow
  BY DEF CallRow
<1>1. ASSUME NEW h \in Host, SendRegistration(h, c)
      PROVE RegistrationInv'
  <2>1. call'[c] \in CallRow
    BY <1>1 DEF SendRegistration, CallRow
  <2>2. QED
    BY <1>1, <2>1 DEF SendRegistration
<1>2. CASE TimeOut(c)
  <2> DEFINE ended == [call[c] EXCEPT !.awaited = FALSE]
  <2>1. call[c] \in CallRow /\ 0 \in Version
    OBVIOUS
  <2>2. /\ ended \in CallRow /\ ended.host = call[c].host /\ ended.state = call[c].state
        /\ ended.seen = call[c].seen
    BY <2>1, EndedRow, Zenon
  <2>3. call' = [call EXCEPT ![c] = ended]
    BY <1>2 DEF TimeOut
  <2> HIDE DEF ended
  <2>4. call[c].host \in Host
    BY <1>2 DEF TimeOut
  <2>5. RegistrationTypeOK'
    <3>1. call' \in [Call -> CallRow]
      BY <2>2, <2>3
    <3>2. QED
      BY <1>2, <3>1 DEF TimeOut
  <2>6. QED
    BY <1>2, <2>2, <2>3, <2>4, <2>5 DEF TimeOut
<1>3. CASE Vanish(c)
  BY <1>0, <1>3 DEF Vanish
<1>4. CASE Registered(c)
  BY <1>0, <1>4 DEF Registered, CallRow
<1>5. CASE RegistrationFails(c)
  BY <1>0, <1>5 DEF RegistrationFails
<1>6. QED
  BY <1>1, <1>2, <1>3, <1>4, <1>5

\* A process that ends waits for no answer.
LEMMA ProcessEndsKeeps ==
  ASSUME RegistrationInv, NEW h \in Host, ProcessEnds(h)
  PROVE RegistrationInv'
<1> USE RegistrationAssumption
        DEF RegistrationInv, RegistrationTypeOK, CallsOfHosts, SnapshotsOfTheOwner,
            OwnerHasToken, TokensOfTheRunner, Version, Stopped
<1>1. \A c2 \in Call : [call[c2] EXCEPT !.awaited = FALSE] \in CallRow
  <2>1. 0 \in Version /\ \A c2 \in Call : call[c2] \in CallRow
    OBVIOUS
  <2>2. QED
    BY <2>1, EndedRow, Zenon
<1>2. call' \in [Call -> CallRow]
  BY <1>1 DEF ProcessEnds
<1>3. \A c2 \in Call : /\ call'[c2].host = call[c2].host /\ call'[c2].state = call[c2].state
                       /\ call'[c2].seen = call[c2].seen
                       /\ call'[c2].awaited => call[c2].awaited
  BY DEF ProcessEnds, CallRow
<1>4. RegistrationTypeOK'
  BY <1>2 DEF ProcessEnds
<1>5. QED
  BY <1>3, <1>4 DEF ProcessEnds

\* The two transactions of a registration.  Only a Runner of nobody can be registered, so no
\* host has a token yet; and a replay is only of the host whose Runner the snapshot shows.
LEMMA RegistrationsKeep ==
  ASSUME RegistrationInv, NEW c \in Call,
         \/ BeginRegistration(c) \/ RegisterRunner(c) \/ ReplayRegistration(c)
         \/ RefuseRegistration(c)
  PROVE RegistrationInv'
<1> USE RegistrationAssumption
        DEF RegistrationInv, RegistrationTypeOK, CallsOfHosts, SnapshotsOfTheOwner,
            OwnerHasToken, TokensOfTheRunner, Version, Answer
<1> DEFINE moved(state, seen) == [call[c] EXCEPT !.state = state, !.seen = seen]
<1>1. 0 \in Version /\ call[c] \in CallRow /\ issued.version \in Version
  OBVIOUS
<1>2. \A state \in {"READING", "TOKEN", "REFUSED"}, seen \in Version :
        /\ moved(state, seen) \in CallRow
        /\ moved(state, seen).host = call[c].host
        /\ moved(state, seen).state = state /\ moved(state, seen).seen = seen
  <2> SUFFICES ASSUME NEW state \in {"READING", "TOKEN", "REFUSED"}, NEW seen \in Version
               PROVE /\ moved(state, seen) \in CallRow
                     /\ moved(state, seen).host = call[c].host
                     /\ moved(state, seen).state = state /\ moved(state, seen).seen = seen
    OBVIOUS
  <2>1. QED
    BY <1>1, Zenon DEF CallRow
<1>3. \A state : Answer(c, state) => call' = [call EXCEPT ![c] = moved(state, 0)]
  BY DEF Answer
<1>4. CASE BeginRegistration(c)
  <2>1. PICK seen \in Version : /\ seen # 0 => owner = call[c].host /\ owner \in Host
                               /\ call' = [call EXCEPT ![c] = moved("READING", seen)]
    BY <1>1, <1>4 DEF BeginRegistration
  <2> HIDE DEF moved
  <2>2. call[c].host \in Host
    BY <1>4 DEF BeginRegistration
  <2>3. RegistrationTypeOK'
    <3>1. call' \in [Call -> CallRow]
      BY <1>2, <2>1
    <3>2. QED
      BY <1>4, <3>1 DEF BeginRegistration
  <2>4. QED
    BY <1>2, <1>4, <2>1, <2>2, <2>3 DEF BeginRegistration
<1> HIDE DEF moved, Answer
<1>5. CASE RegisterRunner(c)
  <2>1. call[c].host \in Host /\ call[c].process \in Process \cup {"none"}
    BY <1>5 DEF RegisterRunner, CallRow
  <2>2. call' = [call EXCEPT ![c] = moved("TOKEN", 0)]
    BY <1>3, <1>5 DEF RegisterRunner
  <2>3. RegistrationTypeOK'
    BY <1>1, <1>2, <1>5, <2>1, <2>2 DEF RegisterRunner
  <2>4. \A d \in Call : /\ call'[d].host = call[d].host
                        /\ call'[d].seen = 0
                        /\ d # c => call'[d] = call[d]
    BY <1>1, <1>2, <1>5, <2>2 DEF RegisterRunner
  <2>5. QED
    BY <1>1, <1>2, <1>5, <2>1, <2>2, <2>3, <2>4 DEF RegisterRunner
<1>6. CASE ReplayRegistration(c)
  <2>1. call' = [call EXCEPT ![c] = moved("TOKEN", 0)] /\ owner = call[c].host
    BY <1>3, <1>6 DEF ReplayRegistration, Replayable
  <2>2. QED
    BY <1>1, <1>2, <1>6, <2>1 DEF ReplayRegistration
<1>7. CASE RefuseRegistration(c)
  <2>1. call' = [call EXCEPT ![c] = moved("REFUSED", 0)]
    BY <1>3, <1>7 DEF RefuseRegistration
  <2>2. QED
    BY <1>1, <1>2, <1>7, <2>1 DEF RefuseRegistration
<1>8. QED
  BY <1>4, <1>5, <1>6, <1>7

\* Every step of enrollment, registration and tokens keeps the invariant.
LEMMA RegistrationInvariant == RegistrationSpec => []RegistrationInv
<1>1. RegistrationInv /\ [RegistrationNext]_registrationVars => RegistrationInv'
  <2> SUFFICES ASSUME RegistrationInv, [RegistrationNext]_registrationVars
               PROVE RegistrationInv'
    OBVIOUS
  <2>1. CASE UNCHANGED registrationVars
    BY <2>1 DEF registrationVars, RegistrationInv, RegistrationTypeOK, CallsOfHosts,
                SnapshotsOfTheOwner, OwnerHasToken, TokensOfTheRunner
  <2>2. CASE RegistrationNext
    <3>1. CASE BeginEnrollment \/ EnrollmentRefused \/ RotateAgentToken \/ RevokeAgentToken
      BY <2>2, <3>1, PeopleKeep
    <3>2. ASSUME NEW h \in Host,
                 \/ CreateEnrollment(h) \/ (\E p \in Process : StartAgent(h, p))
                 \/ RecordExpires(h) \/ (\E v \in Version : InstallToken(h, v))
          PROVE RegistrationInv'
      BY <3>2, HostsKeep
    <3>3. ASSUME NEW h \in Host, ProcessEnds(h)
          PROVE RegistrationInv'
      BY <3>3, ProcessEndsKeeps
    <3>4. ASSUME NEW c \in Call,
                 \/ \E h \in Host : SendRegistration(h, c)
                 \/ TimeOut(c) \/ Vanish(c) \/ Registered(c) \/ RegistrationFails(c)
          PROVE RegistrationInv'
      BY <3>4, RequestsKeep
    <3>5. ASSUME NEW c \in Call,
                 \/ BeginRegistration(c) \/ RegisterRunner(c) \/ ReplayRegistration(c)
                 \/ RefuseRegistration(c)
          PROVE RegistrationInv'
      BY <3>5, RegistrationsKeep
    <3>6. QED
      BY <2>2, <3>1, <3>2, <3>3, <3>4, <3>5 DEF RegistrationNext
  <2>3. QED
    BY <2>1, <2>2
<1>2. QED
  BY <1>1, RegistrationStarts, PTL DEF RegistrationSpec

\* Enrollments, Runner, token, records, Agents and requests keep their types.
THEOREM RegistrationTypes == RegistrationSpec => []RegistrationTypeOK
  BY RegistrationInvariant, PTL DEF RegistrationInv

\* For any hosts, processes, requests under way and people who create enrollments, and any
\* number of rotations: one host becomes the Runner of the code, no Agent has a token that was
\* not issued, and only the host that registered is told the first one (register,
\* _replayed_registration).
THEOREM TokensOfOneHost == RegistrationSpec => []TokensOfTheRunner
  BY RegistrationInvariant, PTL DEF RegistrationInv
=============================================================================
