----------------------------- MODULE ConfigurationProofs -----------------------------
(***************************************************************************)
(* Proofs about what an execution is configured from: the master data a    *)
(* binding freezes (MasterData), for any number of access revisions,       *)
(* credential revisions and policies, and the model configurations an      *)
(* exploration uses (ModelConfiguration), for any configurations, people,  *)
(* deliveries and number of editions.  Two specifications with variables   *)
(* of their own: each theorem is about one of them.                        *)
(***************************************************************************)
EXTENDS MasterData, ModelConfiguration, TLAPS

-----------------------------------------------------------------------------
(* MasterData: types *)

\* The initial rows are of their types.
LEMMA InitTypes == Init => TypeOK
<1>1. NoRevision \in RevisionRow
  BY DEF NoRevision, RevisionRow
<1>2. NoBinding \in BindingRow
  BY MasterDataAssumption DEF NoBinding, BindingRow
<1>3. Init => terminal \in TerminalRow /\ account \in AccountRow
  BY DEF Init, TerminalRow, AccountRow
<1>4. 0 \in 0..MaxPolicy
  BY MasterDataAssumption
<1>5. Init => revision \in [Revision -> RevisionRow]
  BY <1>1 DEF Init
<1>6. QED
  BY <1>2, <1>3, <1>4, <1>5 DEF Init, TypeOK

\* Every step keeps the types.
LEMMA TypePreserved ==
  ASSUME TypeOK, [Next]_vars
  PROVE TypeOK'
<1> USE MasterDataAssumption
<1>1. CASE TransitionProject \/ CreateRuntimePolicy
  BY <1>1 DEF TypeOK, TransitionProject, CreateRuntimePolicy
<1>2. CASE CreateEnvironment \/ TransitionEnvironment \/ UpdateEnvironment
  BY <1>2 DEF TypeOK, CreateEnvironment, TransitionEnvironment, UpdateEnvironment,
              MoveEnvironment, EnvironmentTransition, StateChange
<1>3. CASE CreateAsset \/ CreateStrategy \/ UpdateStrategy \/ ActivateStrategy
  BY <1>3 DEF TypeOK, CreateAsset, CreateStrategy, UpdateStrategy, ActivateStrategy, MoveStrategy
<1>4. CASE CreateTerminal
  BY <1>4 DEF TypeOK, CreateTerminal, TerminalRow
<1>5. CASE TransitionTerminal
  BY <1>5 DEF TypeOK, TransitionTerminal, TerminalTransition, TerminalRow
<1>6. ASSUME NEW r \in Revision, CreateRevision(r)
      PROVE TypeOK'
  <2>1. \A login \in BOOLEAN : [status |-> "DRAFT", login |-> login] \in RevisionRow
    BY DEF RevisionRow
  <2>2. QED
    BY <1>6, <2>1 DEF TypeOK, CreateRevision
<1>7. ASSUME NEW r \in Revision, UpdateRevision(r) \/ TransitionRevision(r)
      PROVE TypeOK'
  BY <1>7 DEF TypeOK, UpdateRevision, TransitionRevision, RevisionRow
<1>8. ASSUME NEW r \in Revision, AbandonRevision(r)
      PROVE TypeOK'
  <2>1. NoRevision \in RevisionRow
    BY DEF NoRevision, RevisionRow
  <2>2. QED
    BY <1>8, <2>1 DEF TypeOK, AbandonRevision
<1>9. ASSUME NEW r \in Revision, PublishRevision(r)
      PROVE TypeOK'
  <2>1. \A q \in Revision : /\ revision[q] \in RevisionRow
                            /\ [revision[q] EXCEPT !.status = "PUBLISHED"] \in RevisionRow
                            /\ [revision[q] EXCEPT !.status = "SUPERSEDED"] \in RevisionRow
    BY DEF TypeOK, RevisionRow
  <2>2. revision' \in [Revision -> RevisionRow]
    BY <1>9, <2>1 DEF PublishRevision
  <2>3. terminal' \in TerminalRow
    BY <1>9 DEF TypeOK, PublishRevision, TerminalRow
  <2>4. QED
    BY <1>9, <2>2, <2>3 DEF TypeOK, PublishRevision
<1>10. CASE CreateAccount
  BY <1>10 DEF TypeOK, CreateAccount, AccountRow, Credential
<1>11. CASE RenameAccount
  BY <1>11 DEF TypeOK, RenameAccount, OutdateActivation
<1>12. CASE RotateSecret
  BY <1>12 DEF TypeOK, RotateSecret, OutdateActivation, AccountRow
<1>13. CASE TransitionAccount
  <2>1. PICK move \in AccountTransition : account' = [account EXCEPT !.status = move[2]]
    BY <1>13 DEF TransitionAccount
  <2>2. account' \in AccountRow
    BY <2>1 DEF TypeOK, AccountRow, AccountTransition
  <2>3. QED
    BY <1>13, <2>2 DEF TypeOK, TransitionAccount, OutdateActivation
<1>14. CASE MarkCredentialExpired
  BY <1>14 DEF TypeOK, MarkCredentialExpired, OutdateActivation, AccountRow
<1>15. CASE ArchiveAccount
  BY <1>15 DEF TypeOK, ArchiveAccount, OutdateActivation, AccountRow
<1>16. CASE BeginActivation \/ ActivateAccount
  BY <1>16 DEF TypeOK, BeginActivation, ActivateAccount, OutdateActivation, AccountRow
<1>17. CASE CreateBinding
  <2>1. PICK k \in Credential, n \in 1..policies :
          binding' = [revision |-> terminal.current, login |-> revision[terminal.current].login,
                      credential |-> k, policy |-> n]
    BY <1>17 DEF CreateBinding
  <2>2. terminal.current \in Revision
    BY <1>17 DEF CreateBinding, PreflightPasses, TypeOK, TerminalRow
  <2>3. revision[terminal.current].login \in BOOLEAN
    BY <2>2 DEF TypeOK, RevisionRow
  <2>4. k \in 0..MaxCredential /\ n \in 0..MaxPolicy
    BY DEF TypeOK, Credential
  <2>5. binding' \in BindingRow
    BY <2>1, <2>2, <2>3, <2>4 DEF BindingRow
  <2>6. QED
    BY <1>17, <2>5 DEF TypeOK, CreateBinding
<1>18. CASE EndBinding
  BY <1>18 DEF TypeOK, EndBinding, NoBinding, BindingRow
<1>19. CASE UNCHANGED vars
  BY <1>19 DEF TypeOK, vars
<1>20. QED
  BY <1>1, <1>2, <1>3, <1>4, <1>5, <1>6, <1>7, <1>8, <1>9, <1>10, <1>11, <1>12, <1>13, <1>14,
     <1>15, <1>16, <1>17, <1>18, <1>19 DEF Next

\* TypeOK: every row has a status its tables know.
THEOREM TypeCorrect == Spec => []TypeOK
<1>1. TypeOK /\ [Next]_vars => TypeOK'
  BY TypePreserved
<1>2. QED
  BY <1>1, InitTypes, PTL DEF Spec

-----------------------------------------------------------------------------
(* Publication *)

\* What a step does to the revisions: one that is not published moves between draft, review and
\* absence, or r is published and takes the place of the one the terminal pointed at.
LEMMA Publication ==
  ASSUME TypeOK, [Next]_vars
  PROVE \/ /\ terminal'.current = terminal.current
           /\ \A r \in Revision :
                \/ revision'[r] = revision[r]
                \/ /\ revision[r].status \in {"NONE", "DRAFT", "VALIDATING"}
                   /\ revision'[r].status \in {"NONE", "DRAFT", "VALIDATING"}
        \/ \E r \in Revision :
             /\ revision[r].status = "VALIDATING" /\ revision'[r].status = "PUBLISHED"
             /\ terminal'.current = r
             /\ \A q \in Revision \ {r} :
                  IF q = terminal.current /\ revision[q].status = "PUBLISHED"
                  THEN revision'[q] = [revision[q] EXCEPT !.status = "SUPERSEDED"]
                  ELSE revision'[q] = revision[q]
<1> DEFINE Kept == terminal'.current = terminal.current
           Drafted == \A r \in Revision :
                \/ revision'[r] = revision[r]
                \/ /\ revision[r].status \in {"NONE", "DRAFT", "VALIDATING"}
                   /\ revision'[r].status \in {"NONE", "DRAFT", "VALIDATING"}
           Published(r) ==
             /\ revision[r].status = "VALIDATING" /\ revision'[r].status = "PUBLISHED"
             /\ terminal'.current = r
             /\ \A q \in Revision \ {r} :
                  IF q = terminal.current /\ revision[q].status = "PUBLISHED"
                  THEN revision'[q] = [revision[q] EXCEPT !.status = "SUPERSEDED"]
                  ELSE revision'[q] = revision[q]
<1>1. ASSUME NEW r \in Revision, CreateRevision(r)
      PROVE Kept /\ Drafted
  BY <1>1 DEF TypeOK, CreateRevision
<1>2. ASSUME NEW r \in Revision, UpdateRevision(r) \/ TransitionRevision(r)
      PROVE Kept /\ Drafted
  BY <1>2 DEF TypeOK, UpdateRevision, TransitionRevision, RevisionRow
<1>3. ASSUME NEW r \in Revision, AbandonRevision(r)
      PROVE Kept /\ Drafted
  BY <1>3 DEF TypeOK, AbandonRevision, NoRevision
<1>4. ASSUME NEW r \in Revision, PublishRevision(r)
      PROVE Published(r)
  BY <1>4 DEF TypeOK, PublishRevision, RevisionRow, TerminalRow
<1>5. CASE CreateTerminal \/ TransitionTerminal
  BY <1>5 DEF TypeOK, CreateTerminal, TransitionTerminal, TerminalRow
<1>6. CASE UNCHANGED <<terminal, revision>>
  BY <1>6
<1>7. QED
  BY <1>1, <1>2, <1>3, <1>4, <1>5, <1>6
     DEF Next, vars, TransitionProject, CreateRuntimePolicy, CreateEnvironment,
         TransitionEnvironment, UpdateEnvironment, MoveEnvironment, CreateAsset, CreateStrategy,
         UpdateStrategy, ActivateStrategy, MoveStrategy, CreateAccount, RenameAccount,
         RotateSecret, TransitionAccount, MarkCredentialExpired, ArchiveAccount,
         BeginActivation, ActivateAccount, CreateBinding, EndBinding

\* PublishedIsCurrent: however many people publish, and in whatever order, one revision of the
\* terminal is published, the one it points at.
THEOREM OnePublished == Spec => []PublishedIsCurrent
<1>1. Init => PublishedIsCurrent
  BY DEF Init, PublishedIsCurrent, NoRevision
<1>2. TypeOK /\ PublishedIsCurrent /\ [Next]_vars => PublishedIsCurrent'
  <2> SUFFICES ASSUME TypeOK, PublishedIsCurrent, [Next]_vars PROVE PublishedIsCurrent'
    OBVIOUS
  <2>1. ASSUME NEW q \in Revision
        PROVE revision'[q].status = "PUBLISHED" <=> q = terminal'.current
    <3>1. revision[q].status = "PUBLISHED" <=> q = terminal.current
      BY MasterDataAssumption DEF PublishedIsCurrent
    <3>2. revision[q] \in RevisionRow
      BY DEF TypeOK
    <3>3. CASE /\ terminal'.current = terminal.current
               /\ \/ revision'[q] = revision[q]
                  \/ /\ revision[q].status \in {"NONE", "DRAFT", "VALIDATING"}
                     /\ revision'[q].status \in {"NONE", "DRAFT", "VALIDATING"}
      BY <3>1, <3>3
    <3>4. ASSUME NEW r \in Revision,
                 revision'[r].status = "PUBLISHED", terminal'.current = r,
                 q # r => IF q = terminal.current /\ revision[q].status = "PUBLISHED"
                          THEN revision'[q] = [revision[q] EXCEPT !.status = "SUPERSEDED"]
                          ELSE revision'[q] = revision[q]
          PROVE revision'[q].status = "PUBLISHED" <=> q = terminal'.current
      BY <3>1, <3>2, <3>4 DEF RevisionRow
    <3>5. QED
      BY <3>3, <3>4, Publication
  <2>2. TypeOK'
    BY TypePreserved
  <2>3. terminal'.current \in Revision \cup {"none"}
    BY <2>2 DEF TypeOK, TerminalRow
  <2>4. QED
    BY <2>1, <2>3, MasterDataAssumption DEF PublishedIsCurrent
<1>3. QED
  BY <1>1, <1>2, TypeCorrect, PTL DEF Spec

-----------------------------------------------------------------------------
(* What a binding has frozen *)

\* The frozen revision and credential exist.
FrozenExist ==
  binding # NoBinding => binding.revision \in Revision /\ binding.credential \in Credential

\* FrozenFactsStand: nothing that people do to the revisions, the strategy or the account while
\* a binding lives takes from it what it has frozen.
THEOREM FactsStand == Spec => []FrozenFactsStand
<1>1. Init => FrozenExist /\ FrozenFactsStand
  BY DEF Init, FrozenExist, FrozenFactsStand
<1>2. TypeOK /\ FrozenExist /\ FrozenFactsStand /\ [Next]_vars => (FrozenExist /\ FrozenFactsStand)'
  <2> SUFFICES ASSUME TypeOK, FrozenExist, FrozenFactsStand, [Next]_vars
               PROVE FrozenExist' /\ FrozenFactsStand'
    OBVIOUS
  <2>1. CASE EndBinding
    BY <2>1 DEF EndBinding, FrozenExist, FrozenFactsStand
  <2>2. CASE CreateBinding
    <3>1. PICK k \in Credential, n \in 1..policies :
            /\ credential[k] = "PUBLISHED"
            /\ binding' = [revision |-> terminal.current,
                           login |-> revision[terminal.current].login,
                           credential |-> k, policy |-> n]
      BY <2>2 DEF CreateBinding
    <3>2. terminal.current \in Revision
      BY <2>2 DEF CreateBinding, PreflightPasses, TypeOK, TerminalRow
    <3>3. /\ revision[terminal.current].status = "PUBLISHED" /\ strategy = "ACTIVE"
          /\ UNCHANGED <<revision, strategy, credential>>
      BY <2>2 DEF CreateBinding, PreflightPasses
    <3>4. FrozenExist'
      BY <3>1, <3>2 DEF FrozenExist
    <3>5. FrozenFactsStand'
      BY <3>1, <3>3 DEF FrozenFactsStand
    <3>6. QED
      BY <3>4, <3>5
  <2>3. CASE binding' = binding
    <3> SUFFICES ASSUME binding # NoBinding,
                        NEW r \in Revision, r = binding.revision,
                        NEW k \in Credential, k = binding.credential
                 PROVE /\ revision'[r].status \in {"PUBLISHED", "SUPERSEDED"}
                       /\ revision'[r].login = revision[r].login
                       /\ strategy' = "ACTIVE"
                       /\ credential'[k] \in {"PUBLISHED", "SUPERSEDED", "ARCHIVED"}
      BY <2>3 DEF FrozenExist, FrozenFactsStand
    <3>1. /\ revision[r] \in RevisionRow /\ revision[r].status \in {"PUBLISHED", "SUPERSEDED"}
          /\ strategy = "ACTIVE"
          /\ credential[k] \in {"PUBLISHED", "SUPERSEDED", "ARCHIVED"}
      BY DEF FrozenFactsStand, TypeOK
    <3>2. /\ revision'[r].status \in {"PUBLISHED", "SUPERSEDED"}
          /\ revision'[r].login = revision[r].login
      <4>1. CASE revision'[r] = revision[r]
        BY <3>1, <4>1
      <4>2. CASE revision'[r] = [revision[r] EXCEPT !.status = "SUPERSEDED"]
        BY <3>1, <4>2 DEF RevisionRow
      <4>3. QED
        BY <3>1, <4>1, <4>2, Publication
    <3>3. strategy' = strategy
      BY <3>1 DEF Next, vars, TransitionProject, CreateRuntimePolicy, CreateEnvironment,
             TransitionEnvironment, UpdateEnvironment, MoveEnvironment, CreateAsset,
             CreateStrategy, UpdateStrategy, ActivateStrategy, MoveStrategy, CreateTerminal,
             TransitionTerminal, CreateRevision, UpdateRevision, AbandonRevision,
             TransitionRevision, PublishRevision, CreateAccount, RenameAccount, RotateSecret,
             TransitionAccount, MarkCredentialExpired, ArchiveAccount, BeginActivation,
             ActivateAccount, CreateBinding, EndBinding
    <3>4. credential'[k] \in {"PUBLISHED", "SUPERSEDED", "ARCHIVED"}
      <4>1. CASE CreateAccount
        BY <3>1, <4>1 DEF CreateAccount, TypeOK
      <4>2. CASE RotateSecret
        BY <3>1, <4>2 DEF RotateSecret, TypeOK
      <4>3. CASE ArchiveAccount
        BY <3>1, <4>3 DEF ArchiveAccount
      <4>4. CASE UNCHANGED credential
        BY <3>1, <4>4
      <4>5. QED
        BY <4>1, <4>2, <4>3, <4>4
           DEF Next, vars, TransitionProject, CreateRuntimePolicy, CreateEnvironment,
               TransitionEnvironment, UpdateEnvironment, MoveEnvironment, CreateAsset,
               CreateStrategy, UpdateStrategy, ActivateStrategy, MoveStrategy, CreateTerminal,
               TransitionTerminal, CreateRevision, UpdateRevision, AbandonRevision,
               TransitionRevision, PublishRevision, RenameAccount, TransitionAccount,
               MarkCredentialExpired, BeginActivation, ActivateAccount, CreateBinding, EndBinding
    <3>5. QED
      BY <3>1, <3>2, <3>3, <3>4
  <2>4. QED
    BY <2>1, <2>2, <2>3
       DEF Next, vars, TransitionProject, CreateRuntimePolicy, CreateEnvironment,
           TransitionEnvironment, UpdateEnvironment, MoveEnvironment, CreateAsset,
           CreateStrategy, UpdateStrategy, ActivateStrategy, MoveStrategy, CreateTerminal,
           TransitionTerminal, CreateRevision, UpdateRevision, AbandonRevision,
           TransitionRevision, PublishRevision, CreateAccount, RenameAccount, RotateSecret,
           TransitionAccount, MarkCredentialExpired, ArchiveAccount, BeginActivation,
           ActivateAccount
<1>3. QED
  BY <1>1, <1>2, TypeCorrect, PTL DEF Spec

-----------------------------------------------------------------------------
(* The account *)

\* ExpiredIsOutOfUse: recovery never brings an account back with the credential that expired.
THEOREM ExpiredStaysOut == Spec => []ExpiredIsOutOfUse
<1>1. Init => ExpiredIsOutOfUse
  BY DEF Init, ExpiredIsOutOfUse
<1>2. TypeOK /\ ExpiredIsOutOfUse /\ [Next]_vars => ExpiredIsOutOfUse'
  <2> SUFFICES ASSUME TypeOK, ExpiredIsOutOfUse, [Next]_vars PROVE ExpiredIsOutOfUse'
    OBVIOUS
  <2>1. account \in AccountRow
    BY DEF TypeOK
  <2>2. CASE CreateAccount \/ MarkCredentialExpired
    BY <2>2 DEF CreateAccount, MarkCredentialExpired, ExpiredIsOutOfUse
  <2>3. CASE RotateSecret
    BY <2>1, <2>3 DEF RotateSecret, ExpiredIsOutOfUse, AccountRow
  <2>4. CASE TransitionAccount
    <3>1. PICK move \in AccountTransition :
            /\ account.status = move[1]
            /\ move[2] = "RECOVERING" => account.valid
            /\ account' = [account EXCEPT !.status = move[2]]
      BY <2>4 DEF TransitionAccount
    <3>2. account'.valid = account.valid
      BY <2>1, <3>1 DEF AccountRow
    <3>3. QED
      BY <3>1, <3>2 DEF AccountTransition, ExpiredIsOutOfUse
  <2>5. CASE ArchiveAccount \/ ActivateAccount
    BY <2>1, <2>5 DEF ArchiveAccount, ActivateAccount, ExpiredIsOutOfUse, AccountRow
  <2>6. CASE UNCHANGED account
    BY <2>6 DEF ExpiredIsOutOfUse
  <2>7. QED
    BY <2>2, <2>3, <2>4, <2>5, <2>6
       DEF Next, vars, TransitionProject, CreateRuntimePolicy, CreateEnvironment,
           TransitionEnvironment, UpdateEnvironment, MoveEnvironment, CreateAsset,
           CreateStrategy, UpdateStrategy, ActivateStrategy, MoveStrategy, CreateTerminal,
           TransitionTerminal, CreateRevision, UpdateRevision, AbandonRevision,
           TransitionRevision, PublishRevision, RenameAccount, BeginActivation, CreateBinding,
           EndBinding
<1>3. QED
  BY <1>1, <1>2, TypeCorrect, PTL DEF Spec

\* An activation that has looked has seen a terminal with an entry, which no command takes back.
ClearedHasEntry == cleared => terminal.current # "none"

\* ActivatedHasEntry: an account is never activated for a terminal without a published revision,
\* although nothing keeps the terminal as the activation saw it.
THEOREM EntryOfActivated == Spec => []ActivatedHasEntry
<1> DEFINE Inv == ClearedHasEntry /\ ActivatedHasEntry
<1>1. Init => Inv
  BY DEF Init, ClearedHasEntry, ActivatedHasEntry
<1>2. TypeOK /\ Inv /\ [Next]_vars => Inv'
  <2> SUFFICES ASSUME TypeOK, ClearedHasEntry, ActivatedHasEntry, [Next]_vars PROVE Inv'
    OBVIOUS
  <2>1. terminal \in TerminalRow /\ account \in AccountRow
    BY DEF TypeOK
  <2>2. terminal.current # "none" => terminal'.current # "none"
    BY Publication, MasterDataAssumption
  <2>3. CASE CreateTerminal
    BY <2>1, <2>3 DEF CreateTerminal, ClearedHasEntry, ActivatedHasEntry, TerminalRow
  <2>4. CASE TransitionTerminal
    BY <2>1, <2>4 DEF TransitionTerminal, TerminalTransition, ClearedHasEntry, ActivatedHasEntry,
                      TerminalRow
  <2>5. CASE CreateAccount
    BY <2>5 DEF CreateAccount, ClearedHasEntry, ActivatedHasEntry
  <2>6. CASE TransitionAccount
    BY <2>1, <2>6 DEF TransitionAccount, AccountTransition, OutdateActivation, ClearedHasEntry,
                      ActivatedHasEntry, AccountRow
  <2>7. CASE MarkCredentialExpired \/ ArchiveAccount \/ RotateSecret \/ RenameAccount
    BY <2>1, <2>7 DEF MarkCredentialExpired, ArchiveAccount, RotateSecret, RenameAccount,
                      OutdateActivation, ClearedHasEntry, ActivatedHasEntry, AccountRow
  <2>8. CASE BeginActivation
    BY <2>8 DEF BeginActivation, ActivationReady, ClearedHasEntry, ActivatedHasEntry
  <2>9. CASE ActivateAccount
    BY <2>9 DEF ActivateAccount, OutdateActivation, ClearedHasEntry, ActivatedHasEntry
  <2>10. ASSUME NEW r \in Revision, PublishRevision(r)
         PROVE Inv'
    BY <2>1, <2>2, <2>10 DEF PublishRevision, ClearedHasEntry, ActivatedHasEntry, TerminalRow
  <2>11. CASE UNCHANGED <<terminal, account, cleared>>
    BY <2>11 DEF ClearedHasEntry, ActivatedHasEntry
  <2>12. QED
    BY <2>3, <2>4, <2>5, <2>6, <2>7, <2>8, <2>9, <2>10, <2>11
       DEF Next, vars, TransitionProject, CreateRuntimePolicy, CreateEnvironment,
           TransitionEnvironment, UpdateEnvironment, MoveEnvironment, CreateAsset,
           CreateStrategy, UpdateStrategy, ActivateStrategy, MoveStrategy, CreateRevision,
           UpdateRevision, AbandonRevision, TransitionRevision, CreateBinding, EndBinding
<1>3. QED
  BY <1>1, <1>2, TypeCorrect, PTL DEF Spec

-----------------------------------------------------------------------------
(* ModelConfiguration *)

\* A configuration that waits for its reviewer holds the edition that was submitted.
SubmittedIsReviewed ==
  \A m \in Model : model[m].status = "VALIDATING" => model[m].submitted = model[m].edition

\* Only a configuration that has been ACTIVE is frozen, and none of these states is edited.
FrozenWasActive ==
  \A m \in Model :
    frozen[m] # 0 => model[m].status \in {"ACTIVE", "DISABLED", "RECOVERING", "ARCHIVED"}

-----------------------------------------------------------------------------
(* The variables are of their types. *)

\* A command that raises the row_version leaves every attempt doing what it did, and so does
\* one that edits the configuration.
LEMMA AttemptsKept ==
  ASSUME ModelTypeOK, NEW m \in Model, Raised(m) \/ Edited(m)
  PROVE /\ disabling' \in SUBSET Model
        /\ attempt' \in [Attempt -> AttemptRow]
        /\ \A x \in Attempt : attempt'[x].doing = attempt[x].doing
<1>1. disabling' \in SUBSET Model
  BY DEF ModelTypeOK, Raised, Edited
<1>2. ASSUME NEW x \in Attempt
      PROVE /\ attempt[x] \in AttemptRow
            /\ [attempt[x] EXCEPT !.changed = TRUE] \in AttemptRow
            /\ [attempt[x] EXCEPT !.changed = TRUE].doing = attempt[x].doing
            /\ [attempt[x] EXCEPT !.oldSecret = TRUE] \in AttemptRow
            /\ [attempt[x] EXCEPT !.oldSecret = TRUE].doing = attempt[x].doing
  BY DEF ModelTypeOK, AttemptRow
<1>3. CASE Raised(m)
  BY <1>1, <1>2, <1>3 DEF Raised
<1>4. CASE Edited(m)
  BY <1>1, <1>2, <1>4 DEF Edited
<1>5. QED
  BY <1>3, <1>4

\* A row of a configuration stays one under every change that the commands make to it.
LEMMA RowsKept ==
  ASSUME ModelTypeOK, NEW m \in Model, NEW u \in Person
  PROVE /\ \A s \in {"CONFIGURING", "VALIDATING", "ACTIVE", "DISABLED", "RECOVERING", "ARCHIVED"} :
             [model EXCEPT ![m].status = s] \in [Model -> ModelRow]
        /\ [model EXCEPT ![m].status = "VALIDATING", ![m].submitted = model[m].edition,
                         ![m].submitter = u] \in [Model -> ModelRow]
        /\ [model EXCEPT ![m].status = "ACTIVE", ![m].reviewer = u] \in [Model -> ModelRow]
        /\ model[m].edition < MaxEdition =>
             [model EXCEPT ![m].edition = @ + 1] \in [Model -> ModelRow]
<1>1. model \in [Model -> ModelRow] /\ model[m] \in ModelRow
  BY DEF ModelTypeOK
<1>2. \A s \in {"CONFIGURING", "VALIDATING", "ACTIVE", "DISABLED", "RECOVERING", "ARCHIVED"} :
        [model[m] EXCEPT !.status = s] \in ModelRow
  BY <1>1 DEF ModelRow
<1>3. [model[m] EXCEPT !.status = "VALIDATING", !.submitted = model[m].edition,
                       !.submitter = u] \in ModelRow
  <2>1. model[m].edition \in 0..MaxEdition
    BY <1>1, ModelConfigurationAssumption DEF ModelRow, Edition
  <2>2. QED
    BY <1>1, <2>1 DEF ModelRow
<1>4. [model[m] EXCEPT !.status = "ACTIVE", !.reviewer = u] \in ModelRow
  BY <1>1 DEF ModelRow
<1>5. ASSUME model[m].edition < MaxEdition
      PROVE [model[m] EXCEPT !.edition = @ + 1] \in ModelRow
  BY <1>1, <1>5, ModelConfigurationAssumption DEF ModelRow, Edition
<1>6. QED
  BY <1>1, <1>2, <1>3, <1>4, <1>5

\* Every step keeps the types.
LEMMA ModelTypePreserved ==
  ASSUME ModelTypeOK, [ModelNext]_modelVars
  PROVE ModelTypeOK'
<1> USE ModelConfigurationAssumption
<1>1. ASSUME NEW m \in Model, CreateModelConfig(m)
      PROVE ModelTypeOK'
  BY <1>1 DEF ModelTypeOK, CreateModelConfig, ModelTransition, ModelRow
<1>2. ASSUME NEW m \in Model, UpdateModelConfig(m)
      PROVE ModelTypeOK'
  <2>1. Edited(m)
    BY <1>2 DEF UpdateModelConfig
  <2>2. model' \in [Model -> ModelRow]
    <3>1. model[m] \in ModelRow /\ model[m].edition < MaxEdition
      BY <2>1 DEF ModelTypeOK, Edited
    <3>2. [model[m] EXCEPT !.edition = @ + 1] \in ModelRow
      BY <3>1 DEF ModelRow, Edition
    <3>3. QED
      BY <2>1, <3>2 DEF ModelTypeOK, Edited
  <2>3. UNCHANGED <<default, frozen, record>>
    BY <2>1 DEF Edited
  <2>4. QED
    BY <2>1, <2>2, <2>3, AttemptsKept DEF ModelTypeOK
<1>3. ASSUME NEW m \in Model, RenameModelConfig(m)
      PROVE ModelTypeOK'
  BY <1>3, AttemptsKept DEF ModelTypeOK, RenameModelConfig
<1>4. ASSUME NEW m \in Model, NEW u \in Person, SubmitReview(m, u)
      PROVE ModelTypeOK'
  BY <1>4, AttemptsKept, RowsKept DEF ModelTypeOK, SubmitReview
<1>5. ASSUME NEW m \in Model,
             ReturnToConfiguring(m) \/ ActivateRecovered(m) \/ DisableModelConfig(m)
               \/ RecoverModelConfig(m) \/ ArchiveModelConfig(m)
      PROVE ModelTypeOK'
  <2>1. Raised(m) /\ UNCHANGED <<default, frozen, record>>
    BY <1>5 DEF ReturnToConfiguring, ActivateRecovered, DisableModelConfig, RecoverModelConfig,
                ArchiveModelConfig
  <2>2. PICK s \in {"CONFIGURING", "ACTIVE", "DISABLED", "RECOVERING", "ARCHIVED"} :
          model' = [model EXCEPT ![m].status = s]
    BY <1>5 DEF ReturnToConfiguring, ActivateRecovered, DisableModelConfig, RecoverModelConfig,
                ArchiveModelConfig, ModelTransition
  <2>3. model' \in [Model -> ModelRow]
    BY <2>2 DEF ModelTypeOK, ModelRow
  <2>4. QED
    BY <2>1, <2>3, AttemptsKept DEF ModelTypeOK
<1>6. ASSUME NEW m \in Model, NEW u \in Person, ActivateReviewed(m, u)
      PROVE ModelTypeOK'
  BY <1>6, AttemptsKept, RowsKept DEF ModelTypeOK, ActivateReviewed
<1>7. ASSUME NEW m \in Model, BeginDisable(m) \/ SetCapabilityDefault(m) \/ FreezeDefault(m)
      PROVE ModelTypeOK'
  BY <1>7 DEF ModelTypeOK, BeginDisable, SetCapabilityDefault, FreezeDefault, ModelRow, Edition
<1>8. CASE ClearCapabilityDefault
  BY <1>8 DEF ModelTypeOK, ClearCapabilityDefault
<1>9. ASSUME NEW x \in Attempt, NEW m \in Model, BeginTest(x, m)
      PROVE ModelTypeOK'
  BY <1>9 DEF ModelTypeOK, BeginTest, Idle, AttemptRow
<1>10. ASSUME NEW x \in Attempt, StartTest(x)
       PROVE ModelTypeOK'
  BY <1>10 DEF ModelTypeOK, StartTest, AttemptRow, RecordRow
<1>11. ASSUME NEW x \in Attempt, RefuseTest(x) \/ LoseTest(x)
       PROVE ModelTypeOK'
  <2>1. Idle \in AttemptRow
    BY DEF Idle, AttemptRow
  <2>2. QED
    BY <1>11, <2>1 DEF ModelTypeOK, RefuseTest, LoseTest
<1>12. ASSUME NEW x \in Attempt, FinishTest(x)
       PROVE ModelTypeOK'
  <2>1. Idle \in AttemptRow
    BY DEF Idle, AttemptRow
  <2>2. PICK result \in GatewayResult :
          record' = [record EXCEPT !.status = Verdict(x, result), !.expired = FALSE]
    BY <1>12 DEF FinishTest
  <2>3. Verdict(x, result) \in GatewayResult
    BY DEF Verdict, GatewayResult
  <2>4. record' \in RecordRow
    BY <2>2, <2>3 DEF ModelTypeOK, RecordRow
  <2>5. QED
    BY <1>12, <2>1, <2>4 DEF ModelTypeOK, FinishTest
<1>13. CASE ExpireRecord
  BY <1>13 DEF ModelTypeOK, ExpireRecord, RecordRow
<1>14. CASE UNCHANGED modelVars
  BY <1>14 DEF ModelTypeOK, modelVars
<1>15. QED
  BY <1>1, <1>2, <1>3, <1>4, <1>5, <1>6, <1>7, <1>8, <1>9, <1>10, <1>11, <1>12, <1>13, <1>14
     DEF ModelNext

\* The initial state is of these types.
LEMMA ModelInitTypes == ModelInit => ModelTypeOK
<1>1. NoModel \in ModelRow
  BY ModelConfigurationAssumption DEF NoModel, ModelRow, Edition
<1>2. Idle \in AttemptRow
  BY DEF Idle, AttemptRow
<1>3. QED
  BY <1>1, <1>2, ModelConfigurationAssumption DEF ModelInit, ModelTypeOK, RecordRow

\* ModelTypeOK: nothing any command, session or test writes leaves its type.
THEOREM ModelTypes == ModelSpec => []ModelTypeOK
<1>1. ModelInit => ModelTypeOK
  BY ModelInitTypes
<1>2. ModelTypeOK /\ [ModelNext]_modelVars => ModelTypeOK'
  BY ModelTypePreserved
<1>3. QED
  BY <1>1, <1>2, PTL DEF ModelSpec

-----------------------------------------------------------------------------
(* Review *)

\* FourEyes and SnapshotStillMatches with the two facts that make them inductive.
Reviewing ==
  /\ ModelTypeOK
  /\ SubmittedIsReviewed
  /\ FourEyes
  /\ FrozenWasActive
  /\ SnapshotStillMatches

\* What a step makes of one configuration: it is left as it is, edited while CONFIGURING,
\* submitted, activated by a reviewer who may, or moved between states that ask for no review.
LEMMA OneConfiguration ==
  ASSUME ModelTypeOK, [ModelNext]_modelVars, NEW m \in Model
  PROVE \/ model'[m] = model[m]
        \/ /\ model[m].status \in {"CREATED", "CONFIGURING", "VALIDATING"}
           /\ model'[m].status = "CONFIGURING"
        \/ /\ model'[m].status = "VALIDATING"
           /\ model[m].status = "CONFIGURING"
           /\ model'[m].submitted = model'[m].edition
        \/ /\ model[m].status = "VALIDATING" /\ model'[m].status = "ACTIVE"
           /\ model'[m].edition = model[m].edition /\ model'[m].submitted = model[m].submitted
           /\ model'[m].submitter = model[m].submitter
           /\ \E u \in Person : model'[m].reviewer = u /\ MayActivate(m, u)
        \/ /\ model[m].status \in {"ACTIVE", "DISABLED", "RECOVERING"}
           /\ \E s \in {"ACTIVE", "DISABLED", "RECOVERING", "ARCHIVED"} :
                model'[m] = [model[m] EXCEPT !.status = s]
<1> DEFINE Goal ==
      \/ model'[m] = model[m]
      \/ /\ model[m].status \in {"CREATED", "CONFIGURING", "VALIDATING"}
         /\ model'[m].status = "CONFIGURING"
      \/ /\ model'[m].status = "VALIDATING"
         /\ model[m].status = "CONFIGURING"
         /\ model'[m].submitted = model'[m].edition
      \/ /\ model[m].status = "VALIDATING" /\ model'[m].status = "ACTIVE"
         /\ model'[m].edition = model[m].edition /\ model'[m].submitted = model[m].submitted
         /\ model'[m].submitter = model[m].submitter
         /\ \E u \in Person : model'[m].reviewer = u /\ MayActivate(m, u)
      \/ /\ model[m].status \in {"ACTIVE", "DISABLED", "RECOVERING"}
         /\ \E s \in {"ACTIVE", "DISABLED", "RECOVERING", "ARCHIVED"} :
              model'[m] = [model[m] EXCEPT !.status = s]
<1>1. model \in [Model -> ModelRow] /\ model[m] \in ModelRow
  BY DEF ModelTypeOK
<1>2. ASSUME NEW n \in Model, CreateModelConfig(n) \/ ReturnToConfiguring(n)
      PROVE Goal
  BY <1>1, <1>2 DEF CreateModelConfig, ReturnToConfiguring, ModelTransition, ModelRow
<1>3. ASSUME NEW n \in Model, UpdateModelConfig(n)
      PROVE Goal
  BY <1>1, <1>3 DEF UpdateModelConfig, Edited, ModelRow
<1>4. ASSUME NEW n \in Model, NEW u \in Person, SubmitReview(n, u)
      PROVE Goal
  BY <1>1, <1>4 DEF SubmitReview, ModelRow
<1>5. ASSUME NEW n \in Model, NEW u \in Person, ActivateReviewed(n, u)
      PROVE Goal
  BY <1>1, <1>5 DEF ActivateReviewed, ModelRow
<1>6. ASSUME NEW n \in Model,
             ActivateRecovered(n) \/ DisableModelConfig(n) \/ RecoverModelConfig(n)
               \/ ArchiveModelConfig(n)
      PROVE Goal
  BY <1>1, <1>6 DEF ActivateRecovered, DisableModelConfig, RecoverModelConfig,
                    ArchiveModelConfig, ModelTransition, ModelRow
<1>7. ASSUME UNCHANGED model
      PROVE Goal
  BY <1>7
<1>8. QED
  BY <1>2, <1>3, <1>4, <1>5, <1>6, <1>7
     DEF ModelNext, modelVars, RenameModelConfig, BeginDisable, SetCapabilityDefault, FreezeDefault,
         ClearCapabilityDefault, BeginTest, StartTest, RefuseTest, FinishTest, LoseTest,
         ExpireRecord

\* A configuration is frozen by a session that resolves it, and by nobody else.
LEMMA OnlyActiveIsFrozen ==
  ASSUME ModelTypeOK, [ModelNext]_modelVars, NEW m \in Model
  PROVE \/ frozen'[m] = frozen[m]
        \/ /\ model[m].status = "ACTIVE" /\ model' = model
           /\ frozen'[m] = model[m].edition
<1>1. ASSUME NEW n \in Model, FreezeDefault(n)
      PROVE \/ frozen'[m] = frozen[m]
            \/ /\ model[m].status = "ACTIVE" /\ model' = model
               /\ frozen'[m] = model[m].edition
  BY <1>1 DEF FreezeDefault, Resolvable, ModelTypeOK
<1>2. (UNCHANGED frozen) \/ \E n \in Model : FreezeDefault(n)
  BY DEF ModelNext, modelVars, CreateModelConfig, UpdateModelConfig, Edited, RenameModelConfig, SubmitReview,
         ReturnToConfiguring, ActivateReviewed, ActivateRecovered, BeginDisable,
         DisableModelConfig, RecoverModelConfig, ArchiveModelConfig, SetCapabilityDefault,
         ClearCapabilityDefault, BeginTest, StartTest, RefuseTest, FinishTest, LoseTest,
         ExpireRecord
<1>3. QED
  BY <1>1, <1>2

\* FourEyes and SnapshotStillMatches, with what makes them inductive.
LEMMA ReviewingInvariant == ModelSpec => []Reviewing
<1>1. ModelInit => Reviewing
  <2>1. ModelInit => ModelTypeOK
    BY ModelInitTypes
  <2>2. QED
    BY <2>1 DEF ModelInit, Reviewing, SubmittedIsReviewed, FourEyes, FrozenWasActive,
                SnapshotStillMatches, NoModel
<1>2. Reviewing /\ [ModelNext]_modelVars => Reviewing'
  <2> SUFFICES ASSUME Reviewing, [ModelNext]_modelVars PROVE Reviewing'
    OBVIOUS
  <2>1. ModelTypeOK /\ ModelTypeOK'
    BY ModelTypePreserved DEF Reviewing
  <2>2. ASSUME NEW m \in Model
        PROVE /\ model'[m].status = "VALIDATING" => model'[m].submitted = model'[m].edition
              /\ model'[m].status \in {"ACTIVE", "DISABLED", "RECOVERING", "ARCHIVED"} =>
                   /\ model'[m].submitted = model'[m].edition
                   /\ model'[m].reviewer # "none"
                   /\ \/ model'[m].reviewer # model'[m].submitter
                      \/ model'[m].reviewer \in SuperAdmin
    <3>1. model[m] \in ModelRow /\ model'[m] \in ModelRow
      BY <2>1 DEF ModelTypeOK
    <3>2. /\ model[m].status = "VALIDATING" => model[m].submitted = model[m].edition
          /\ model[m].status \in {"ACTIVE", "DISABLED", "RECOVERING", "ARCHIVED"} =>
               /\ model[m].submitted = model[m].edition
               /\ model[m].reviewer # "none"
               /\ model[m].reviewer # model[m].submitter \/ model[m].reviewer \in SuperAdmin
      BY DEF Reviewing, SubmittedIsReviewed, FourEyes
    <3>3. CASE model'[m] = model[m]
      BY <3>2, <3>3
    <3>4. CASE model'[m].status \in {"CONFIGURING"}
      BY <3>4
    <3>5. CASE /\ model'[m].status = "VALIDATING"
               /\ model'[m].submitted = model'[m].edition
      BY <3>5
    <3>6. CASE /\ model[m].status = "VALIDATING" /\ model'[m].status = "ACTIVE"
               /\ model'[m].edition = model[m].edition
               /\ model'[m].submitted = model[m].submitted
               /\ model'[m].submitter = model[m].submitter
               /\ \E u \in Person : model'[m].reviewer = u /\ MayActivate(m, u)
      BY <3>2, <3>6, ModelConfigurationAssumption DEF MayActivate
    <3>7. CASE /\ model[m].status \in {"ACTIVE", "DISABLED", "RECOVERING"}
               /\ \E s \in {"ACTIVE", "DISABLED", "RECOVERING", "ARCHIVED"} :
                    model'[m] = [model[m] EXCEPT !.status = s]
      BY <3>1, <3>2, <3>7 DEF ModelRow
    <3>8. QED
      BY <2>1, <3>3, <3>4, <3>5, <3>6, <3>7, OneConfiguration
  <2>3. ASSUME NEW m \in Model, frozen'[m] # 0
        PROVE /\ model'[m].status \in {"ACTIVE", "DISABLED", "RECOVERING", "ARCHIVED"}
              /\ frozen'[m] = model'[m].edition
    <3>1. model[m] \in ModelRow /\ model'[m] \in ModelRow
      BY <2>1 DEF ModelTypeOK
    <3>2. CASE frozen'[m] = frozen[m]
      BY <2>1, <2>3, <3>1, <3>2, OneConfiguration
         DEF Reviewing, FrozenWasActive, SnapshotStillMatches, ModelRow
    <3>3. QED
      BY <2>1, <3>2, OnlyActiveIsFrozen
  <2>4. QED
    BY <2>1, <2>2, <2>3
       DEF Reviewing, SubmittedIsReviewed, FourEyes, FrozenWasActive, SnapshotStillMatches
<1>3. QED
  BY <1>1, <1>2, PTL DEF ModelSpec

\* FourEyes: whatever two people, recoveries and edits do, no configuration is or was ACTIVE
\* with an edition that its submitter alone has seen, a super administrator aside.
THEOREM ReviewedByTwo == ModelSpec => []FourEyes
<1>1. Reviewing => FourEyes
  BY DEF Reviewing
<1>2. QED
  BY <1>1, ReviewingInvariant, PTL

\* SnapshotStillMatches: what a session has frozen stays as it was.
THEOREM FrozenStands == ModelSpec => []SnapshotStillMatches
<1>1. Reviewing => SnapshotStillMatches
  BY DEF Reviewing
<1>2. QED
  BY <1>1, ReviewingInvariant, PTL

-----------------------------------------------------------------------------
(* The connection test *)

\* HolderStillAwaited: the attempt that claimed the record last finds it unanswered when its
\* call comes back.
THEOREM HolderAwaited == ModelSpec => []HolderStillAwaited
<1>1. ModelInit => HolderStillAwaited
  BY DEF ModelInit, HolderStillAwaited, Idle
<1>2. ModelTypeOK /\ HolderStillAwaited /\ [ModelNext]_modelVars => HolderStillAwaited'
  <2> SUFFICES ASSUME ModelTypeOK, HolderStillAwaited, [ModelNext]_modelVars PROVE HolderStillAwaited'
    OBVIOUS
  <2>1. ASSUME record' = record,
               \A x \in Attempt : attempt'[x].doing = "CALLING" => attempt[x].doing = "CALLING"
        PROVE HolderStillAwaited'
    BY <2>1 DEF HolderStillAwaited
  <2>2. ASSUME NEW m \in Model, Raised(m) \/ Edited(m), UNCHANGED record
        PROVE HolderStillAwaited'
    BY <2>1, <2>2, AttemptsKept
  <2>3. ASSUME NEW x \in Attempt, NEW m \in Model, BeginTest(x, m)
        PROVE HolderStillAwaited'
    BY <2>1, <2>3 DEF BeginTest, Idle, ModelTypeOK
  <2>4. ASSUME NEW x \in Attempt, StartTest(x)
        PROVE HolderStillAwaited'
    BY <2>4 DEF StartTest, HolderStillAwaited
  <2>5. ASSUME NEW x \in Attempt, RefuseTest(x) \/ LoseTest(x)
        PROVE HolderStillAwaited'
    BY <2>1, <2>5 DEF RefuseTest, LoseTest, Idle, ModelTypeOK
  <2>6. ASSUME NEW x \in Attempt, FinishTest(x)
        PROVE HolderStillAwaited'
    BY <2>6 DEF FinishTest, Holds, HolderStillAwaited, Idle, ModelTypeOK, AttemptRow, RecordRow
  <2>7. CASE ExpireRecord
    BY <2>7 DEF ExpireRecord, HolderStillAwaited, ModelTypeOK, RecordRow
  <2>8. CASE UNCHANGED <<attempt, record>>
    BY <2>1, <2>8
  <2>9. QED
    BY <2>2, <2>3, <2>4, <2>5, <2>6, <2>7, <2>8
       DEF ModelNext, modelVars, CreateModelConfig, UpdateModelConfig, Edited, RenameModelConfig,
           SubmitReview, ReturnToConfiguring, ActivateReviewed, ActivateRecovered, BeginDisable,
           DisableModelConfig, RecoverModelConfig, ArchiveModelConfig, SetCapabilityDefault,
           FreezeDefault, ClearCapabilityDefault
<1>3. QED
  BY <1>1, <1>2, ModelTypes, PTL DEF ModelSpec

\* VerdictOfUnchanged: the provider's verdict is recorded only by the attempt that got it, of a
\* configuration that no command changed since it began.
THEOREM VerdictsAreCurrent == ModelSpec => VerdictOfUnchanged
<1> DEFINE Current ==
      \A x \in Attempt :
        /\ attempt[x].doing = "CALLING"
        /\ record.status = "PROCESSING"
        /\ record'.status \in {"SUCCESS", "ERROR"}
        /\ attempt'[x].doing = "IDLE"
        => ~ attempt[x].changed
<1>1. ModelTypeOK /\ [ModelNext]_modelVars => [Current]_modelVars
  <2> SUFFICES ASSUME ModelTypeOK, ModelNext PROVE Current
    BY DEF modelVars
  <2>1. ASSUME NEW x \in Attempt, FinishTest(x)
        PROVE Current
    BY <2>1 DEF FinishTest, Verdict, ModelTypeOK, RecordRow, AttemptRow
  <2>2. ASSUME record'.status = record.status \/ record'.status = "PROCESSING"
        PROVE Current
    BY <2>2
  <2>3. QED
    BY <2>1, <2>2
       DEF ModelNext, ModelTypeOK, RecordRow, CreateModelConfig, UpdateModelConfig, Edited,
           RenameModelConfig, SubmitReview, ReturnToConfiguring, ActivateReviewed,
           ActivateRecovered, BeginDisable, DisableModelConfig, RecoverModelConfig,
           ArchiveModelConfig, SetCapabilityDefault, FreezeDefault, ClearCapabilityDefault,
           BeginTest, StartTest, RefuseTest, LoseTest, ExpireRecord
<1>2. QED
  BY <1>1, ModelTypes, PTL DEF ModelSpec, VerdictOfUnchanged
======================================================================================
