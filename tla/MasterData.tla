------------------------------ MODULE MasterData ------------------------------
(***************************************************************************)
(* What a binding freezes, and how people keep it up: one Project, its     *)
(* Environment, a Business Terminal with its access revisions, the Login   *)
(* Strategy they may name, and a Test Account with its credential          *)
(* revisions and its mapping to the terminal (project_service.py,          *)
(* environment_service.py, business_terminal_service.py,                   *)
(* automation_asset_service.py, test_account_service.py of the API).       *)
(*                                                                         *)
(* Every command locks the row it changes, and refuses when its            *)
(* row_version is not the one the person had read.  A refusal changes      *)
(* nothing, so a command is one step here.  The activation of an account   *)
(* alone is two: what it asks of the environment and of the terminal it    *)
(* reads without a lock, from the snapshot its transaction took when the   *)
(* person was authenticated.                                               *)
(*                                                                         *)
(* Names, addresses, audits, events and idempotency records are left out,  *)
(* and with them the commands that only rename.  Of a revision's content   *)
(* the model keeps whether it names the Login Strategy.                    *)
(***************************************************************************)
EXTENDS Naturals, FiniteSets

CONSTANTS
  Revision,       \* access revisions the terminal may get
  MaxCredential,  \* bound: credential revisions of the account
  MaxPolicy       \* bound: runtime policy revisions of the Project

ASSUME MasterDataAssumption ==
  /\ "none" \notin Revision
  /\ MaxCredential \in Nat \ {0}
  /\ MaxPolicy \in Nat \ {0}

VARIABLES
  project,      \* lifecycle_status of the Project
  environment,  \* lifecycle_status of its Environment
  strategy,     \* lifecycle_status of the Login Strategy of the Project's Automation Asset
  terminal,     \* status and current_published_revision_id of the Business Terminal
  revision,     \* status of each access revision, and whether it names the Login Strategy
  account,      \* status of the Test Account, and whether its credential_state is VALID
  credential,   \* status of each credential revision of the account, by revision_no
  mapping,      \* status of the account's mapping to the terminal
  cleared,      \* an activation of the account under way has found its Environment and terminal ACTIVE
  policies,     \* number of runtime policy revisions: each is PUBLISHED for good when it is made
  binding       \* revision, credential and policy that an execution binding in force has frozen

vars == <<project, environment, strategy, terminal, revision, account, credential, mapping,
          cleared, policies, binding>>

Credential == 1..MaxCredential

NoBinding == [revision |-> "none", login |-> FALSE, credential |-> 0, policy |-> 0]

TerminalRow ==
  [status : {"NONE", "CONFIGURING", "VALIDATING", "ACTIVE", "UNREACHABLE", "DISABLED",
             "RECOVERING", "ARCHIVED"},
   current : Revision \cup {"none"}]

RevisionRow ==
  [status : {"NONE", "DRAFT", "VALIDATING", "PUBLISHED", "SUPERSEDED"}, login : BOOLEAN]

AccountRow ==
  [status : {"NONE", "CONFIGURING", "VALIDATING", "ACTIVE", "CREDENTIAL_EXPIRED", "DISABLED",
             "RECOVERING", "ARCHIVED"},
   valid : BOOLEAN]

BindingRow ==
  [revision : Revision \cup {"none"}, login : BOOLEAN,
   credential : 0..MaxCredential, policy : 0..MaxPolicy]

TypeOK ==
  /\ project \in {"ACTIVE", "DISABLED", "ARCHIVED"}
  /\ environment \in {"NONE", "CONFIGURING", "VALIDATING", "ACTIVE", "UNREACHABLE", "DISABLED",
                      "RECOVERING"}
  /\ strategy \in {"NO_ASSET", "NONE", "CREATED", "DRAFT", "ACTIVE"}
  /\ terminal \in TerminalRow
  /\ revision \in [Revision -> RevisionRow]
  /\ account \in AccountRow
  /\ credential \in [Credential -> {"NONE", "PUBLISHED", "SUPERSEDED", "ARCHIVED"}]
  /\ mapping \in {"NONE", "PUBLISHED", "ARCHIVED"}
  /\ cleared \in BOOLEAN
  /\ policies \in 0..MaxPolicy
  /\ binding \in BindingRow

NoRevision == [status |-> "NONE", login |-> FALSE]

\* create_project takes a Project from CREATED to ACTIVE in one transaction.
Init ==
  /\ project = "ACTIVE"
  /\ environment = "NONE"
  /\ strategy = "NO_ASSET"
  /\ terminal = [status |-> "NONE", current |-> "none"]
  /\ revision = [r \in Revision |-> NoRevision]
  /\ account = [status |-> "NONE", valid |-> FALSE]
  /\ credential = [k \in Credential |-> "NONE"]
  /\ mapping = "NONE"
  /\ cleared = FALSE
  /\ policies = 0
  /\ binding = NoBinding

-----------------------------------------------------------------------------
(* Project and Environment *)

ProjectTransition ==
  {<<"ACTIVE", "DISABLED">>,     \* disable
   <<"DISABLED", "ACTIVE">>,     \* recover, through RECOVERING in the same transaction
   <<"DISABLED", "ARCHIVED">>}   \* archive

TransitionProject ==
  /\ \E to \in {"ACTIVE", "DISABLED", "ARCHIVED"} :
       /\ <<project, to>> \in ProjectTransition
       /\ project' = to
  /\ UNCHANGED <<environment, strategy, terminal, revision, account, credential, mapping,
                 cleared, policies, binding>>

CreateEnvironment ==
  /\ project = "ACTIVE"
  /\ environment = "NONE"
  /\ environment' = "CONFIGURING"
  /\ UNCHANGED <<project, strategy, terminal, revision, account, credential, mapping, cleared,
                 policies, binding>>

\* create_runtime_policy.  The revision_no comes from the snapshot: of two that overlap, the
\* later breaks uq_atp_runtime_policy_revision_business.
CreateRuntimePolicy ==
  /\ project = "ACTIVE"
  /\ policies < MaxPolicy
  /\ policies' = policies + 1
  /\ UNCHANGED <<project, environment, strategy, terminal, revision, account, credential,
                 mapping, cleared, binding>>

EnvironmentTransition ==
  {<<"CONFIGURING", "VALIDATING">>,   \* validate
   <<"VALIDATING", "CONFIGURING">>,   \* reconfigure
   <<"VALIDATING", "ACTIVE">>,        \* activate
   <<"RECOVERING", "ACTIVE">>}        \* activate

\* What update_environment makes of a reported accessibility or enablement.
StateChange ==
  {<<"ACTIVE", "UNREACHABLE">>,
   <<"UNREACHABLE", "RECOVERING">>,
   <<"ACTIVE", "DISABLED">>,
   <<"DISABLED", "RECOVERING">>}

MoveEnvironment(moves) ==
  /\ \E move \in moves :
       /\ environment = move[1]
       /\ environment' = move[2]
  /\ UNCHANGED <<project, strategy, terminal, revision, account, credential, mapping, cleared,
                 policies, binding>>

TransitionEnvironment == MoveEnvironment(EnvironmentTransition)

UpdateEnvironment == MoveEnvironment(StateChange)

\* Where terminals and accounts may be created.
EnvironmentOpen == environment \in {"CONFIGURING", "VALIDATING", "ACTIVE", "RECOVERING"}

-----------------------------------------------------------------------------
(* Automation Asset and Login Strategy *)

MoveStrategy(from, to) ==
  /\ strategy = from
  /\ strategy' = to
  /\ UNCHANGED <<project, environment, terminal, revision, account, credential, mapping, cleared,
                 policies, binding>>

CreateAsset == project = "ACTIVE" /\ MoveStrategy("NO_ASSET", "NONE")

CreateStrategy == MoveStrategy("NONE", "CREATED")

\* Only the first edit changes the status; an ACTIVE strategy is edited no more.
UpdateStrategy == MoveStrategy("CREATED", "DRAFT")

ActivateStrategy == MoveStrategy("DRAFT", "ACTIVE")

StrategyUsable(login) == login => strategy = "ACTIVE"

-----------------------------------------------------------------------------
(* Business Terminal and its access revisions *)

CreateTerminal ==
  /\ EnvironmentOpen
  /\ terminal.status = "NONE"
  /\ terminal' = [terminal EXCEPT !.status = "CONFIGURING"]
  /\ UNCHANGED <<project, environment, strategy, revision, account, credential, mapping, cleared,
                 policies, binding>>

TerminalTransition ==
  {<<"CONFIGURING", "VALIDATING">>,
   <<"VALIDATING", "CONFIGURING">>,
   <<"VALIDATING", "ACTIVE">>,
   <<"RECOVERING", "ACTIVE">>,
   <<"ACTIVE", "UNREACHABLE">>,
   <<"UNREACHABLE", "RECOVERING">>,
   <<"DISABLED", "RECOVERING">>,
   <<"ACTIVE", "DISABLED">>,
   <<"DISABLED", "ARCHIVED">>}

\* To be activated, a terminal needs an ACTIVE Environment and a published revision.
TransitionTerminal ==
  /\ \E move \in TerminalTransition :
       /\ terminal.status = move[1]
       /\ move[2] = "ACTIVE" => environment = "ACTIVE" /\ terminal.current # "none"
       /\ terminal' = [terminal EXCEPT !.status = move[2]]
  /\ UNCHANGED <<project, environment, strategy, revision, account, credential, mapping, cleared,
                 policies, binding>>

CreateRevision(r) ==
  /\ terminal.status \notin {"NONE", "ARCHIVED"}
  /\ revision[r].status = "NONE"
  /\ \E login \in BOOLEAN :
       /\ StrategyUsable(login)
       /\ revision' = [revision EXCEPT ![r] = [status |-> "DRAFT", login |-> login]]
  /\ UNCHANGED <<project, environment, strategy, terminal, account, credential, mapping, cleared,
                 policies, binding>>

\* Mutated UpdateRevision: the status is not asked for.
UpdateAnyRevision(r) ==
  /\ revision[r].status # "NONE"
  /\ \E login \in BOOLEAN :
       /\ StrategyUsable(login)
       /\ revision' = [revision EXCEPT ![r].login = login]
  /\ UNCHANGED <<project, environment, strategy, terminal, account, credential, mapping, cleared,
                 policies, binding>>

UpdateRevision(r) ==
  /\ revision[r].status = "DRAFT"
  /\ \E login \in BOOLEAN :
       /\ StrategyUsable(login)
       /\ revision' = [revision EXCEPT ![r].login = login]
  /\ UNCHANGED <<project, environment, strategy, terminal, account, credential, mapping, cleared,
                 policies, binding>>

\* The row is deleted, unless the terminal or a binding refers to it.
AbandonRevision(r) ==
  /\ revision[r].status = "DRAFT"
  /\ terminal.current # r
  /\ binding.revision # r
  /\ revision' = [revision EXCEPT ![r] = NoRevision]
  /\ UNCHANGED <<project, environment, strategy, terminal, account, credential, mapping, cleared,
                 policies, binding>>

\* validate_revision and return_revision_to_draft
TransitionRevision(r) ==
  /\ \/ /\ revision[r].status = "DRAFT"
        /\ StrategyUsable(revision[r].login)
        /\ revision' = [revision EXCEPT ![r].status = "VALIDATING"]
     \/ /\ revision[r].status = "VALIDATING"
        /\ revision' = [revision EXCEPT ![r].status = "DRAFT"]
  /\ UNCHANGED <<project, environment, strategy, terminal, account, credential, mapping, cleared,
                 policies, binding>>

\* Mutated PublishRevision: the predecessor stays published.
PublishBeside(r) ==
  /\ revision[r].status = "VALIDATING"
  /\ StrategyUsable(revision[r].login)
  /\ revision' = [revision EXCEPT ![r].status = "PUBLISHED"]
  /\ terminal' = [terminal EXCEPT !.current = r]
  /\ UNCHANGED <<project, environment, strategy, account, credential, mapping, cleared, policies, binding>>

\* The status of the terminal is not looked at.
PublishRevision(r) ==
  /\ revision[r].status = "VALIDATING"
  /\ StrategyUsable(revision[r].login)
  /\ revision' = [q \in Revision |->
        CASE q = r -> [revision[q] EXCEPT !.status = "PUBLISHED"]
          [] q # r /\ q = terminal.current /\ revision[q].status = "PUBLISHED" ->
               [revision[q] EXCEPT !.status = "SUPERSEDED"]
          [] OTHER -> revision[q]]
  /\ terminal' = [terminal EXCEPT !.current = r]
  /\ UNCHANGED <<project, environment, strategy, account, credential, mapping, cleared, policies, binding>>

-----------------------------------------------------------------------------
(* Test Account, its credential revisions and its mapping *)

CreateAccount ==
  /\ EnvironmentOpen
  /\ terminal.status \notin {"NONE", "ARCHIVED"}
  /\ account.status = "NONE"
  /\ account' = [status |-> "CONFIGURING", valid |-> TRUE]
  /\ credential' = [credential EXCEPT ![1] = "PUBLISHED"]
  /\ mapping' = "PUBLISHED"
  /\ UNCHANGED <<project, environment, strategy, terminal, revision, cleared, policies, binding>>

\* A command that has changed the account leaves an activation under way with an old version.
OutdateActivation == cleared' = FALSE

RenameAccount ==
  /\ account.status \notin {"NONE", "ARCHIVED"}
  /\ OutdateActivation
  /\ UNCHANGED <<project, environment, strategy, terminal, revision, account, credential,
                 mapping, policies, binding>>

RotateSecret ==
  /\ account.status \notin {"NONE", "ARCHIVED"}
  /\ \E k \in Credential :
       /\ credential[k] = "PUBLISHED"
       /\ k + 1 \in Credential
       /\ credential' = [credential EXCEPT ![k] = "SUPERSEDED", ![k + 1] = "PUBLISHED"]
  /\ account' = [account EXCEPT !.valid = TRUE]
  /\ OutdateActivation
  /\ UNCHANGED <<project, environment, strategy, terminal, revision, mapping, policies, binding>>

\* All of _TRANSITIONS but activate, mark-credential-expired and archive.
AccountTransition ==
  {<<"CONFIGURING", "VALIDATING">>,
   <<"VALIDATING", "CONFIGURING">>,
   <<"CREDENTIAL_EXPIRED", "RECOVERING">>,
   <<"DISABLED", "RECOVERING">>,
   <<"ACTIVE", "DISABLED">>}

TransitionAccount ==
  /\ \E move \in AccountTransition :
       /\ account.status = move[1]
       /\ move[2] = "RECOVERING" => account.valid
       /\ account' = [account EXCEPT !.status = move[2]]
  /\ OutdateActivation
  /\ UNCHANGED <<project, environment, strategy, terminal, revision, credential, mapping, policies, binding>>

MarkCredentialExpired ==
  /\ account.status = "ACTIVE"
  /\ account' = [status |-> "CREDENTIAL_EXPIRED", valid |-> FALSE]
  /\ OutdateActivation
  /\ UNCHANGED <<project, environment, strategy, terminal, revision, credential, mapping, policies, binding>>

\* The members are retired and archived with the account.
ArchiveAccount ==
  /\ account.status = "DISABLED"
  /\ account' = [account EXCEPT !.status = "ARCHIVED"]
  /\ credential' = [k \in Credential |-> IF credential[k] = "NONE" THEN "NONE" ELSE "ARCHIVED"]
  /\ mapping' = "ARCHIVED"
  /\ OutdateActivation
  /\ UNCHANGED <<project, environment, strategy, terminal, revision, policies, binding>>

\* Mutated ActivationReady: an account may be activated ahead of its terminal.
ActivationReadyAhead ==
  /\ environment = "ACTIVE"
  /\ mapping = "PUBLISHED"
  /\ \E k \in Credential : credential[k] = "PUBLISHED"

\* What _assert_activation_ready reads.
ActivationReady ==
  /\ environment = "ACTIVE"
  /\ terminal.status = "ACTIVE"
  /\ mapping = "PUBLISHED"
  /\ \E k \in Credential : credential[k] = "PUBLISHED"

\* The snapshot of an activation; without ActivationReady in it the command is refused.
BeginActivation ==
  /\ ~cleared
  /\ account.status \in {"VALIDATING", "RECOVERING"}
  /\ ActivationReady
  /\ cleared' = TRUE
  /\ UNCHANGED <<project, environment, strategy, terminal, revision, account, credential,
                 mapping, policies, binding>>

ActivateAccount ==
  /\ cleared
  /\ account.status \in {"VALIDATING", "RECOVERING"}
  /\ account' = [account EXCEPT !.status = "ACTIVE"]
  /\ OutdateActivation
  /\ UNCHANGED <<project, environment, strategy, terminal, revision, credential, mapping, policies, binding>>

-----------------------------------------------------------------------------
(* The binding, of which ExecutionBinding has the leases and the status *)

\* The master data that create_binding asks for, with every row of it locked.
PreflightPasses ==
  /\ project = "ACTIVE"
  /\ environment = "ACTIVE"
  /\ terminal.status = "ACTIVE"
  /\ terminal.current # "none"
  /\ revision[terminal.current] = [status |-> "PUBLISHED", login |-> TRUE]
  /\ strategy = "ACTIVE"
  /\ account = [status |-> "ACTIVE", valid |-> TRUE]
  /\ mapping = "PUBLISHED"

CreateBinding ==
  /\ binding = NoBinding
  /\ PreflightPasses
  /\ \E k \in Credential :
       /\ credential[k] = "PUBLISHED"
       /\ \A j \in Credential : credential[j] = "PUBLISHED" => j <= k
       /\ \E n \in 1..policies :    \* any of them, as the request names it
            binding' = [revision |-> terminal.current, login |-> revision[terminal.current].login,
                        credential |-> k, policy |-> n]
  /\ UNCHANGED <<project, environment, strategy, terminal, revision, account, credential,
                 mapping, cleared, policies>>

\* The binding is released, recovered or completed.
EndBinding ==
  /\ binding # NoBinding
  /\ binding' = NoBinding
  /\ UNCHANGED <<project, environment, strategy, terminal, revision, account, credential,
                 mapping, cleared, policies>>

-----------------------------------------------------------------------------
Next ==
  \/ TransitionProject \/ CreateRuntimePolicy
  \/ CreateEnvironment \/ TransitionEnvironment \/ UpdateEnvironment
  \/ CreateAsset \/ CreateStrategy \/ UpdateStrategy \/ ActivateStrategy
  \/ CreateTerminal \/ TransitionTerminal
  \/ \E r \in Revision :
       \/ CreateRevision(r) \/ UpdateRevision(r) \/ AbandonRevision(r)
       \/ TransitionRevision(r) \/ PublishRevision(r)
  \/ CreateAccount \/ RenameAccount \/ RotateSecret
  \/ TransitionAccount \/ MarkCredentialExpired \/ ArchiveAccount
  \/ BeginActivation \/ ActivateAccount
  \/ CreateBinding \/ EndBinding

Spec == Init /\ [][Next]_vars

-----------------------------------------------------------------------------
(* Properties *)

\* The revision the terminal points at is published, and no other is: publications by several
\* people, each having drafted a revision of their own, leave one (publish_revision).
PublishedIsCurrent ==
  {r \in Revision : revision[r].status = "PUBLISHED"} = {terminal.current} \ {"none"}

\* What a binding froze is still there and reads as it did, however the terminal, the strategy
\* and the account went on: neither edited, nor abandoned, nor back in draft.
FrozenFactsStand ==
  binding # NoBinding =>
    /\ revision[binding.revision].status \in {"PUBLISHED", "SUPERSEDED"}
    /\ revision[binding.revision].login = binding.login
    /\ strategy = "ACTIVE"
    /\ credential[binding.credential] \in {"PUBLISHED", "SUPERSEDED", "ARCHIVED"}

\* A credential known to have expired keeps the account out of every status from which it could
\* be activated or bound, until it has been rotated.
ExpiredIsOutOfUse == account.status \notin {"NONE", "CREDENTIAL_EXPIRED"} => account.valid

\* A terminal that has been activated has somewhere to go, and so has an account that has been,
\* although the activation of the account looked at the terminal without locking it.
ActivatedHasEntry ==
  \/ terminal.status \in {"ACTIVE", "UNREACHABLE", "DISABLED", "RECOVERING", "ARCHIVED"}
  \/ account.status \in {"ACTIVE", "CREDENTIAL_EXPIRED", "DISABLED", "RECOVERING", "ARCHIVED"}
  => terminal.current # "none"
===============================================================================
