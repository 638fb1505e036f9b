-------------------------- MODULE ModelConfiguration --------------------------
(***************************************************************************)
(* Model configurations of the platform (model_configuration_service.py):  *)
(* their review and life cycle, the default of the AI_EXPLORATION          *)
(* capability, what an exploration session freezes of it, and the          *)
(* connection test, whose provider call runs between two transactions      *)
(* under one idempotency record.                                           *)
(*                                                                         *)
(* A command locks the row it changes and refuses a row_version other than *)
(* the one the person had read, so it is one step.  Two reads are not      *)
(* under a lock: disable looks up the default, and the connection test the *)
(* secret, in the snapshot the transaction took when it authenticated the  *)
(* person.  Each of the two is modelled as two steps.                      *)
(*                                                                         *)
(* Provider, model name, timeout and secret are one "edition" of a         *)
(* configuration, as they change only together with it; rights other than  *)
(* the four-eyes rule, audits, events and the idempotency of the other     *)
(* commands are left out.                                                  *)
(***************************************************************************)
EXTENDS Naturals, FiniteSets

CONSTANTS
  Model,        \* model configurations
  Person,       \* the people with the permissions to manage and to review them
  SuperAdmin,   \* those of them with the role ROLE-SUPER-ADMIN
  Attempt,      \* deliveries of connection tests with one idempotency key
  MaxEdition    \* bound: editions of a configuration

ASSUME ModelConfigurationAssumption ==
  /\ "none" \notin Model \cup Person \cup Attempt
  /\ SuperAdmin \subseteq Person
  /\ MaxEdition \in Nat \ {0}

VARIABLES
  model,      \* each configuration: its status, its edition, and the last review of it as its
              \* audits record it (who submitted which edition, and who activated it)
  default,    \* the configuration bound to AI_EXPLORATION
  disabling,  \* configurations that a disable under way has found not to be the default
  frozen,     \* edition of each configuration that sessions have frozen, 0 when none has
  attempt,    \* what each delivery of the connection test does, to which configuration
  record      \* the idempotency record of the connection test

modelVars == <<model, default, disabling, frozen, attempt, record>>

Edition == 1..MaxEdition

\* What the gateway's test_connection answers.  "ERROR" stands for everything the proxy, the
\* provider or the network may do wrong: AUTHENTICATION_FAILED, MODEL_NOT_FOUND, TIMEOUT,
\* RATE_LIMITED, PROVIDER_ERROR.  Without a proxy, a provider prefix or a key there is no call.
GatewayResult == {"SUCCESS", "ERROR", "INVALID_CONFIGURATION"}

Idle == [doing |-> "IDLE", model |-> "none", changed |-> FALSE, oldSecret |-> FALSE]

\* A configuration: which edition of it was submitted last, by whom, and who activated it.
ModelRow ==
  [status : {"CREATED", "CONFIGURING", "VALIDATING", "ACTIVE", "DISABLED", "RECOVERING", "ARCHIVED"},
   edition : Edition, submitted : 0..MaxEdition,
   submitter : Person \cup {"none"}, reviewer : Person \cup {"none"}]

\* A delivery of the connection test, and what it has missed since it began.
AttemptRow ==
  [doing : {"IDLE", "READING", "CALLING"}, model : Model \cup {"none"},
   changed : BOOLEAN, oldSecret : BOOLEAN]

RecordRow ==
  [status : {"NONE", "PROCESSING"} \cup GatewayResult,
   holder : Attempt \cup {"none"}, expired : BOOLEAN]

ModelTypeOK ==
  /\ model \in [Model -> ModelRow]
  /\ default \in Model \cup {"none"}
  /\ disabling \in SUBSET Model
  /\ frozen \in [Model -> 0..MaxEdition]
  /\ attempt \in [Attempt -> AttemptRow]
  /\ record \in RecordRow

NoModel ==
  [status |-> "CREATED", edition |-> 1, submitted |-> 0, submitter |-> "none", reviewer |-> "none"]

ModelInit ==
  /\ model = [m \in Model |-> NoModel]
  /\ default = "none"
  /\ disabling = {}
  /\ frozen = [m \in Model |-> 0]
  /\ attempt = [x \in Attempt |-> Idle]
  /\ record = [status |-> "NONE", holder |-> "none", expired |-> TRUE]

-----------------------------------------------------------------------------
(* Commands on a configuration.  Each raises its row_version: a disable     *)
(* that has read the version before will be refused, and a connection test *)
(* under way will find that the configuration changed.                     *)

Raised(m) ==
  /\ disabling' = disabling \ {m}
  /\ attempt' = [x \in Attempt |->
                   IF attempt[x].doing = "CALLING" /\ attempt[x].model = m
                   THEN [attempt[x] EXCEPT !.changed = TRUE]
                   ELSE attempt[x]]

ModelTransition(m, from, to) ==
  /\ model[m].status \in from
  /\ model' = [model EXCEPT ![m].status = to]

CreateModelConfig(m) ==
  /\ ModelTransition(m, {"CREATED"}, "CONFIGURING")
  /\ UNCHANGED <<default, disabling, frozen, attempt, record>>

\* A test that still waits for the row has its snapshot from before, and reads the old secret there.
Edited(m) ==
  /\ model[m].edition < MaxEdition
  /\ model' = [model EXCEPT ![m].edition = @ + 1]
  /\ disabling' = disabling \ {m}
  /\ attempt' = [x \in Attempt |->
                   CASE attempt[x].model # m -> attempt[x]
                     [] attempt[x].doing = "CALLING" -> [attempt[x] EXCEPT !.changed = TRUE]
                     [] OTHER -> [attempt[x] EXCEPT !.oldSecret = TRUE]]
  /\ UNCHANGED <<default, frozen, record>>

\* Mutated UpdateModelConfig: also while it is being reviewed.
UpdateInReview(m) == model[m].status \in {"CONFIGURING", "VALIDATING"} /\ Edited(m)

\* Mutated UpdateModelConfig: also on the way back from DISABLED.
UpdateRecovering(m) == model[m].status \in {"CONFIGURING", "RECOVERING"} /\ Edited(m)

\* The fields of an edition are edited while CONFIGURING only.
UpdateModelConfig(m) == model[m].status = "CONFIGURING" /\ Edited(m)

\* display_name may be edited in any state but ARCHIVED.
RenameModelConfig(m) ==
  /\ model[m].status \notin {"CREATED", "ARCHIVED"}
  /\ Raised(m)
  /\ UNCHANGED <<model, default, frozen, record>>

SubmitReview(m, u) ==
  /\ model[m].status = "CONFIGURING"
  /\ model' = [model EXCEPT ![m].status = "VALIDATING",
                             ![m].submitted = model[m].edition,
                             ![m].submitter = u]
  /\ Raised(m)
  /\ UNCHANGED <<default, frozen, record>>

ReturnToConfiguring(m) ==
  /\ ModelTransition(m, {"VALIDATING"}, "CONFIGURING")
  /\ Raised(m)
  /\ UNCHANGED <<default, frozen, record>>

\* The submitter is the actor of the last audit MODEL_CONFIG_REVIEW_SUBMITTED.
MayActivate(m, u) == model[m].submitter # u \/ u \in SuperAdmin

ActivateReviewed(m, u) ==
  /\ model[m].status = "VALIDATING"
  /\ MayActivate(m, u)
  /\ model' = [model EXCEPT ![m].status = "ACTIVE", ![m].reviewer = u]
  /\ Raised(m)
  /\ UNCHANGED <<default, frozen, record>>

\* From RECOVERING nobody is asked who had submitted what.
ActivateRecovered(m) ==
  /\ ModelTransition(m, {"RECOVERING"}, "ACTIVE")
  /\ Raised(m)
  /\ UNCHANGED <<default, frozen, record>>

\* The transaction of a disable has its snapshot, in which the default is another or none.
BeginDisable(m) ==
  /\ model[m].status = "ACTIVE"
  /\ default # m
  /\ disabling' = disabling \cup {m}
  /\ UNCHANGED <<model, default, frozen, attempt, record>>

\* It locks the row, at the version the person had read, and asks its snapshot for the default.
DisableModelConfig(m) ==
  /\ m \in disabling
  /\ ModelTransition(m, {"ACTIVE"}, "DISABLED")
  /\ Raised(m)
  /\ UNCHANGED <<default, frozen, record>>

RecoverModelConfig(m) ==
  /\ ModelTransition(m, {"DISABLED", "UNAVAILABLE"}, "RECOVERING")
  /\ Raised(m)
  /\ UNCHANGED <<default, frozen, record>>

ArchiveModelConfig(m) ==
  /\ ModelTransition(m, {"DISABLED"}, "ARCHIVED")
  /\ Raised(m)
  /\ UNCHANGED <<default, frozen, record>>

-----------------------------------------------------------------------------
(* The default of AI_EXPLORATION, and the sessions that freeze it.          *)

SetCapabilityDefault(m) ==
  /\ model[m].status = "ACTIVE"
  /\ default' = m
  /\ UNCHANGED <<model, disabling, frozen, attempt, record>>

ClearCapabilityDefault ==
  /\ default # "none"
  /\ default' = "none"
  /\ UNCHANGED <<model, disabling, frozen, attempt, record>>

Resolvable(m) == default = m /\ model[m].status = "ACTIVE"

\* A session starts: it keeps the identity of the default, and invokes it from then on whatever
\* becomes of the default or of the status of the configuration.
FreezeDefault(m) ==
  /\ Resolvable(m)
  /\ frozen' = [frozen EXCEPT ![m] = model[m].edition]
  /\ UNCHANGED <<model, default, disabling, attempt, record>>

-----------------------------------------------------------------------------
(* The connection test.                                                    *)

\* Deliveries that overlap are of one request, and name one configuration.
BeginTest(x, m) ==
  /\ attempt[x].doing = "IDLE"
  /\ \A y \in Attempt : attempt[y].model \in {m, "none"}
  /\ model[m].status # "CREATED"
  /\ attempt' = [attempt EXCEPT ![x] = [Idle EXCEPT !.doing = "READING", !.model = m]]
  /\ UNCHANGED <<model, default, disabling, frozen, record>>

\* It claims the record, new or expired, locks the row, reads the secret, and commits with the
\* record due soon after the timeout of the call.
StartTest(x) ==
  /\ attempt[x].doing = "READING"
  /\ record.expired
  /\ record' = [status |-> "PROCESSING", holder |-> x, expired |-> FALSE]
  /\ attempt' = [attempt EXCEPT ![x].doing = "CALLING"]
  /\ UNCHANGED <<model, default, disabling, frozen>>

\* A record in force is answered from it, or refused while it is being processed.
RefuseTest(x) ==
  /\ attempt[x].doing = "READING"
  /\ ~ record.expired
  /\ attempt' = [attempt EXCEPT ![x] = Idle]
  /\ UNCHANGED <<model, default, disabling, frozen, record>>

ExpireRecord ==
  /\ record.status # "NONE"
  /\ ~ record.expired
  /\ record' = [record EXCEPT !.expired = TRUE]
  /\ UNCHANGED <<model, default, disabling, frozen, attempt>>

\* The expiry time tells the claim of this attempt from a later one, and completion is final.
\* That the record is due is no obstacle while nobody has claimed it again.
Holds(x) == record.holder = x /\ record.status = "PROCESSING"

\* Mutated Verdict: the version is not compared after the call.
VerdictOfTheCall(x, result) == result

\* What the gateway found is reported of the configuration as it was tested, or not at all.
Verdict(x, result) == IF attempt[x].changed THEN "INVALID_CONFIGURATION" ELSE result

\* Without a secret the gateway is not called, and the result is INVALID_CONFIGURATION as well.
FinishTest(x) ==
  /\ attempt[x].doing = "CALLING"
  /\ Holds(x)
  /\ \E result \in GatewayResult :
       record' = [record EXCEPT !.status = Verdict(x, result), !.expired = FALSE]
  /\ attempt' = [attempt EXCEPT ![x] = Idle]
  /\ UNCHANGED <<model, default, disabling, frozen>>

\* The process of an attempt ends, or it comes back to a record that is no longer its own.
LoseTest(x) ==
  /\ attempt[x].doing = "CALLING"
  /\ attempt' = [attempt EXCEPT ![x] = Idle]
  /\ UNCHANGED <<model, default, disabling, frozen, record>>

-----------------------------------------------------------------------------

ModelNext ==
  \/ \E m \in Model :
       \/ CreateModelConfig(m) \/ UpdateModelConfig(m) \/ RenameModelConfig(m)
       \/ ReturnToConfiguring(m) \/ ActivateRecovered(m)
       \/ BeginDisable(m) \/ DisableModelConfig(m)
       \/ RecoverModelConfig(m) \/ ArchiveModelConfig(m)
       \/ SetCapabilityDefault(m) \/ FreezeDefault(m)
       \/ \E u \in Person : SubmitReview(m, u) \/ ActivateReviewed(m, u)
       \/ \E x \in Attempt : BeginTest(x, m)
  \/ ClearCapabilityDefault
  \/ \E x \in Attempt : StartTest(x) \/ RefuseTest(x) \/ FinishTest(x) \/ LoseTest(x)
  \/ ExpireRecord

ModelSpec == ModelInit /\ [][ModelNext]_modelVars

-----------------------------------------------------------------------------

\* What is in use has been reviewed by two: a configuration that is or was ACTIVE holds the very
\* edition that was submitted, and another person than its submitter activated it, or a super
\* administrator (transition_model_config, update_model_config).
FourEyes ==
  \A m \in Model :
    model[m].status \in {"ACTIVE", "DISABLED", "RECOVERING", "ARCHIVED"} =>
      /\ model[m].submitted = model[m].edition
      /\ model[m].reviewer # "none"
      /\ model[m].reviewer # model[m].submitter \/ model[m].reviewer \in SuperAdmin

\* What a session froze stays as it was, through disable, recovery and archive, so that resolving
\* the snapshot and invoking it never find provider or model changed (resolve_snapshot, invoke).
SnapshotStillMatches == \A m \in Model : frozen[m] # 0 => frozen[m] = model[m].edition

\* The attempt that claimed the record last, while its call is under way, finds it unanswered:
\* no overtaken attempt answers in its place (test_connection).
HolderStillAwaited ==
  \A x \in Attempt :
    record.holder = x /\ attempt[x].doing = "CALLING" => record.status = "PROCESSING"

\* The provider's verdict is recorded only by an attempt since whose start no command changed the
\* configuration it tested (test_connection).
VerdictOfUnchanged ==
  [][\A x \in Attempt :
       /\ attempt[x].doing = "CALLING"
       /\ record.status = "PROCESSING"
       /\ record'.status \in {"SUCCESS", "ERROR"}
       /\ attempt'[x].doing = "IDLE"
       => ~ attempt[x].changed]_modelVars

\* Refuted, see the README: the default of the capability is an ACTIVE configuration, as the ADR
\* and the contract promise (set_capability_default, disable).
DefaultIsActive == \A m \in Model : default = m => model[m].status = "ACTIVE"
===============================================================================
