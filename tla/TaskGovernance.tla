---------------------------- MODULE TaskGovernance ----------------------------
(***************************************************************************)
(* The governance commands that coding agents run on one workspace: a task *)
(* is started under the workspace writer lock, reconciles the files it     *)
(* touched with its context, runs the gates they require, and is finished. *)
(*                                                                         *)
(* Every command is a process of its own that works on files: the lock,    *)
(* the context and the report of the task, and the workspace, which anyone *)
(* may edit at any time.  A step is what a command does between two looks  *)
(* at a file that somebody else may change.  A command may be killed       *)
(* anywhere, and an agent may die while a command of its runs on.          *)
(*                                                                         *)
(* A task has one command at a time.  Read-only tasks take no lock and are *)
(* left out, and so is the lock of the authority files.                    *)
(***************************************************************************)
EXTENDS Naturals, FiniteSets

CONSTANTS
  Task,       \* task ids; the agent of a task is the owner process of its lock
  File,       \* the governed files of the workspace
  Routable,   \* those of them the impact scan may take into a context
  Gate,       \* the configured gates
  GatesOf,    \* GatesOf[f]: the gates that an affected file f requires
  CommandOf,  \* CommandOf[g]: the identity of what gate g executes
  MaxRounds,  \* rounds of one reconciliation
  Gating      \* bound: the tasks whose requests affect files and that ask for
              \* gates and for success; the others only take and give the lock

ASSUME GovernanceAssumption ==
  /\ "nobody" \notin Task
  /\ Routable \subseteq File
  /\ GatesOf \in [File -> SUBSET Gate]
  /\ DOMAIN CommandOf = Gate
  /\ MaxRounds \in Nat \ {0}
  /\ Gating \subseteq Task

VARIABLES
  lock,     \* the writer lock file: who created it, and is its payload written
  mutex,    \* the tasks whose command holds the recovery mutex: none or one
  cmd,      \* cmd[t]: the command of task t and what it has read
  alive,    \* alive[t]: the agent of t lives
  ctx,      \* ctx[t]: the task context
  report,   \* report[t]: the gate results
  content,  \* content[f]: what is in file f; two contents, so that an edit can
            \* restore the former one
  touched,  \* touched[t]: the files that differ from the snapshot of t
  writing,  \* history: the tasks started and not yet being released
  raced     \* history: a lock was released for a dead agent

vars == <<lock, mutex, cmd, alive, ctx, report, content, touched, writing, raced>>

NoLock    == [by |-> "nobody", written |-> FALSE]
NoContext == [affected |-> {}, undecided |-> FALSE, reconciled |-> "none",
              recorded |-> {}]
NoReport  == [pass |-> FALSE, gates |-> {}, digest |-> <<>>, ended |-> <<>>]
AtRest    == [op |-> "rest"]

Contents == [File -> {0, 1}]

ContextRow == [affected : SUBSET File, undecided : BOOLEAN,
               reconciled : {"none", "NOT_RUN", "PASS", "FAIL"},
               recorded : SUBSET File]

\* The tasks whose directory holds the snapshot of their start.
Snapshots == {t \in Task : ctx[t] # NoContext \/ cmd[t].op = "scanned"}

\* workspace_state_digest: the content of these files and of no others, at one moment (the
\* code reads one file after the other).
Digest(files) == [f \in files |-> content[f]]

Required(files) == UNION {GatesOf[f] : f \in files}

\* The last PASS still covers what has changed since the start.
Current(t) ==
  /\ ctx[t].reconciled = "PASS"
  /\ touched[t] = ctx[t].recorded
  /\ touched[t] \subseteq ctx[t].affected

Do(t, command) == cmd' = [cmd EXCEPT ![t] = command]

Ends(t) == Do(t, AtRest)
----------------------------------------------------------------------------
(* start: stale directories, the lock, the snapshot, the impact scan.      *)

\* cleanup_other_tasks removes what dead agents left, if it can prove them dead.
StartAsked(t) ==
  /\ cmd[t] = AtRest /\ alive[t]
  /\ \E gone \in SUBSET {u \in Task \ {t} : ~alive[u] /\ ctx[u] # NoContext} :
       /\ ctx' = [u \in Task |-> IF u \in gone THEN NoContext ELSE ctx[u]]
       /\ report' = [u \in Task |-> IF u \in gone THEN NoReport ELSE report[u]]
  /\ Do(t, [op |-> "recovering"])
  /\ UNCHANGED <<lock, mutex, alive, content, touched, writing, raced>>

\* Stale: a whole payload that names a dead process.  An empty lock names
\* none and counts as held.
LockIsStale == lock.written /\ ~alive[lock.by]

\* Mutated RecoveryLooks: recoveries do not exclude each other.
LooksUnguarded(t) ==
  /\ cmd[t].op = "recovering"
  /\ \/ LockIsStale /\ mutex' = mutex \cup {t} /\ Do(t, [op |-> "unlinking"])
     \/ UNCHANGED mutex /\ Do(t, [op |-> "creating"])
  /\ UNCHANGED <<lock, alive, ctx, report, content, touched, writing, raced>>

\* cleanup_stale up to its second look at the lock, which confirms the first.
\* It may fail to prove the owner dead.
RecoveryLooks(t) ==
  /\ cmd[t].op = "recovering" /\ mutex = {}
  /\ \/ LockIsStale /\ mutex' = {t} /\ Do(t, [op |-> "unlinking"])
     \/ UNCHANGED mutex /\ Do(t, [op |-> "creating"])
  /\ UNCHANGED <<lock, alive, ctx, report, content, touched, writing, raced>>

\* The unlink removes whatever is there by now.
RecoveryUnlinks(t) ==
  /\ cmd[t].op = "unlinking"
  /\ lock' = NoLock /\ mutex' = {}
  /\ Do(t, [op |-> "creating"])
  /\ UNCHANGED <<alive, ctx, report, content, touched, writing, raced>>

\* O_CREAT | O_EXCL; otherwise WORKSPACE_WRITER_BUSY or _ALREADY_HELD.
LockCreated(t) ==
  /\ cmd[t].op = "creating"
  /\ IF lock = NoLock
     THEN lock' = [by |-> t, written |-> FALSE] /\ Do(t, [op |-> "writing"])
     ELSE UNCHANGED lock /\ Ends(t)
  /\ UNCHANGED <<mutex, alive, ctx, report, content, touched, writing, raced>>

\* Into the file this command created, which may be unlinked by now.
PayloadWritten(t) ==
  /\ cmd[t].op = "writing"
  /\ lock' = IF lock.by = t THEN [by |-> t, written |-> TRUE] ELSE lock
  /\ Do(t, [op |-> "scanning"])
  /\ UNCHANGED <<mutex, alive, ctx, report, content, touched, writing, raced>>

PayloadFails(t) ==
  /\ cmd[t].op = "writing"
  /\ lock' = NoLock
  /\ Ends(t)
  /\ UNCHANGED <<mutex, alive, ctx, report, content, touched, writing, raced>>

\* save_workspace_snapshot: from here on an edit is a change of this task.
SnapshotTaken(t) ==
  /\ cmd[t].op = "scanning"
  /\ touched' = [touched EXCEPT ![t] = {}]
  /\ Do(t, [op |-> "scanned"])
  /\ UNCHANGED <<lock, mutex, alive, ctx, report, content, writing, raced>>

\* What a request may affect, and whether it needs a product decision.
Requests(t) ==
  IF t \in Gating THEN [affected : SUBSET Routable, undecided : BOOLEAN]
                  ELSE [affected : {{}}, undecided : {FALSE}]

\* scan: the one full impact scan of the request.
Scanned(t) ==
  /\ cmd[t].op = "scanned" /\ ctx[t] = NoContext
  /\ \E request \in Requests(t) :
       ctx' = [ctx EXCEPT ![t] =
         [affected |-> request.affected, undecided |-> request.undecided,
          reconciled |-> "NOT_RUN", recorded |-> {}]]
  /\ writing' = writing \cup {t}
  /\ Ends(t)
  /\ UNCHANGED <<lock, mutex, alive, report, content, touched, raced>>

\* Anything that fails after the lock was taken gives it back.  A context that
\* is already there is a failure too.
StartFails(t) ==
  /\ cmd[t].op \in {"scanning", "scanned"}
  /\ Do(t, [op |-> "releasing"])
  /\ UNCHANGED <<lock, mutex, alive, ctx, report, content, touched, writing, raced>>
----------------------------------------------------------------------------
(* The task at work.                                                       *)

\* The agent, another agent or a person changes a file.  What counts as a change since the
\* start is its size and time: in the snapshots of `same` the file has those of now - there is
\* none again, it was moved away and back, or written over with both kept.  Without a
\* snapshot nothing of it is noticed.
Edit(f) ==
  /\ content' = [content EXCEPT ![f] = 1 - @]
  /\ Snapshots # {}
  /\ \E same \in SUBSET Snapshots :
       touched' = [t \in Task |-> CASE t \in same -> touched[t] \ {f}
                                    [] t \in Snapshots \ same -> touched[t] \cup {f}
                                    [] OTHER -> {}]
  /\ UNCHANGED <<lock, mutex, cmd, alive, ctx, report, writing, raced>>

Resolve(t) ==
  /\ cmd[t] = AtRest /\ ctx[t].undecided
  /\ ctx' = [ctx EXCEPT ![t].undecided = FALSE]
  /\ UNCHANGED <<lock, mutex, cmd, alive, report, content, touched, writing, raced>>

\* reconcile alone, or run_gates, which reconciles first.
ReconcileAsked(t, gates) ==
  /\ t \in Gating /\ cmd[t] = AtRest /\ alive[t] /\ ctx[t] # NoContext
  /\ Do(t, [op |-> "reconciling", round |-> 1, gates |-> gates])
  /\ UNCHANGED <<lock, mutex, alive, ctx, report, content, touched, writing, raced>>

\* expand takes the missing files in and forgets the former reconciliation.
\* What the impact scan may not see stays missing.
Expand(t, missing) ==
  ctx' = [ctx EXCEPT ![t].affected = @ \cup (missing \cap Routable),
                     ![t].reconciled = "NOT_RUN", ![t].recorded = {}]

ReconcileRound(t) ==
  LET missing == touched[t] \ ctx[t].affected IN
  /\ cmd[t].op = "reconciling" /\ ctx[t] # NoContext
  /\ \/ /\ cmd[t].round <= MaxRounds /\ missing = {}
        /\ ctx' = [ctx EXCEPT ![t].reconciled = "PASS", ![t].recorded = touched[t]]
        /\ IF cmd[t].gates THEN Do(t, [op |-> "gates"]) ELSE Ends(t)
     \/ /\ cmd[t].round <= MaxRounds /\ missing # {}
        /\ Expand(t, missing)
        /\ Do(t, [op |-> "reconciling", round |-> cmd[t].round + 1, gates |-> cmd[t].gates])
     \/ /\ cmd[t].round > MaxRounds
        /\ ctx' = [ctx EXCEPT ![t].reconciled = "FAIL", ![t].recorded = touched[t]]
        /\ Ends(t)
  /\ UNCHANGED <<lock, mutex, alive, report, content, touched, writing, raced>>

\* Somebody removed the directory of the task: TASK_CONTEXT_NOT_FOUND.
ContextIsGone(t) ==
  /\ cmd[t].op \in {"reconciling", "gates", "closing"} /\ ctx[t] = NoContext
  /\ Ends(t)
  /\ UNCHANGED <<lock, mutex, alive, ctx, report, content, touched, writing, raced>>
----------------------------------------------------------------------------
(* The gates.                                                              *)

\* run_required by itself.
GatesAsked(t) ==
  /\ t \in Gating /\ cmd[t] = AtRest /\ alive[t] /\ ctx[t] # NoContext
  /\ Do(t, [op |-> "gates"])
  /\ UNCHANGED <<lock, mutex, alive, ctx, report, content, touched, writing, raced>>

\* A report that passes nothing, whatever its reason.
Refused(t) == report' = [report EXCEPT ![t] = NoReport]

GatesBegin(t) ==
  LET files == ctx[t].affected IN
  /\ cmd[t].op = "gates" /\ ctx[t] # NoContext
  /\ IF ctx[t].undecided \/ ~Current(t)
     THEN Refused(t) /\ Ends(t)
     ELSE /\ Do(t, [op |-> "gating", digest |-> Digest(files),
                    results |-> [g \in {} |-> FALSE], left |-> Required(files)])
          /\ UNCHANGED report
  /\ UNCHANGED <<lock, mutex, alive, ctx, content, touched, writing, raced>>

\* What this run has executed already that is the same execution as gate g.
Twins(run, g) == {h \in DOMAIN run.results : CommandOf[h] = CommandOf[g]}

\* A gate passes, or does not: it fails, is blocked or runs into its timeout.
\* A command that this run has executed is not executed again.
GateRuns(t, g) ==
  LET run == cmd[t] IN
  /\ run.op = "gating" /\ g \in run.left
  /\ \E passed \in BOOLEAN :
       /\ \A h \in Twins(run, g) : run.results[h] = passed
       /\ Do(t, [op |-> "gating", digest |-> run.digest, left |-> run.left \ {g},
                 results |-> [h \in DOMAIN run.results \cup {g} |->
                                IF h = g THEN passed ELSE run.results[h]]])
  /\ UNCHANGED <<lock, mutex, alive, ctx, report, content, touched, writing, raced>>

\* Mutated RunIsStale: the content is not looked at again.
NeverStale(run) == FALSE

\* An edit since the beginning makes the whole run stale.
RunIsStale(run) == Digest(DOMAIN run.digest) # run.digest

GatesEnd(t) ==
  LET run == cmd[t] IN
  /\ run.op = "gating" /\ run.left = {}
  /\ IF RunIsStale(run) \/ \E g \in DOMAIN run.results : ~run.results[g]
     THEN Refused(t)
     ELSE report' = [report EXCEPT ![t] =
            [pass |-> TRUE, gates |-> DOMAIN run.results, digest |-> run.digest,
             ended |-> Digest(DOMAIN run.digest)]]
  /\ Ends(t)
  /\ UNCHANGED <<lock, mutex, alive, ctx, content, touched, writing, raced>>
----------------------------------------------------------------------------
(* finish, by the agent or by whoever ends the task of a dead one.         *)

\* CANCELLED, ABORTED and FAILED ask for nothing.
FinishAsked(t, success) ==
  /\ cmd[t] = AtRest
  /\ ctx[t] # NoContext \/ lock.by = t
  /\ success => t \in Gating
  /\ IF success THEN Do(t, [op |-> "closing"])
                ELSE Do(t, [op |-> "releasing"])
  /\ UNCHANGED <<lock, mutex, alive, ctx, report, content, touched, writing, raced>>

\* _assert_success_closure first compares the names of the touched files ...
ChecksReconciled(t) ==
  /\ cmd[t].op = "closing" /\ ctx[t] # NoContext
  /\ IF ctx[t].undecided \/ ~Current(t)
     THEN Ends(t)
     ELSE Do(t, [op |-> "confirming", changed |-> touched[t]])
  /\ UNCHANGED <<lock, mutex, alive, ctx, report, content, touched, writing, raced>>

\* ... and then the report, and the content it was made on.
Confirmed(t) ==
  /\ report[t].pass
  /\ Required(ctx[t].affected) \subseteq report[t].gates
  /\ Digest(ctx[t].affected) = report[t].digest

ChecksReport(t) ==
  /\ cmd[t].op = "confirming"
  /\ IF Confirmed(t) THEN Do(t, [op |-> "releasing"]) ELSE Ends(t)
  /\ UNCHANGED <<lock, mutex, alive, ctx, report, content, touched, writing, raced>>

\* release looks whose lock it is, and unlinks what is there by then.
ReleaseLooks(t) ==
  /\ cmd[t].op = "releasing"
  /\ writing' = writing \ {t}
  /\ Do(t, [op |-> IF lock = [by |-> t, written |-> TRUE] THEN "freeing" ELSE "removing"])
  /\ UNCHANGED <<lock, mutex, alive, ctx, report, content, touched, raced>>

ReleaseUnlinks(t) ==
  /\ cmd[t].op = "freeing"
  /\ lock' = NoLock
  /\ raced' = (raced \/ ~alive[t])
  /\ Do(t, [op |-> "removing"])
  /\ UNCHANGED <<mutex, alive, ctx, report, content, touched, writing>>

\* cleanup_task.
DirectoryRemoved(t) ==
  /\ cmd[t].op = "removing"
  /\ ctx' = [ctx EXCEPT ![t] = NoContext]
  /\ report' = [report EXCEPT ![t] = NoReport]
  /\ Ends(t)
  /\ UNCHANGED <<lock, mutex, alive, content, touched, writing, raced>>
----------------------------------------------------------------------------
(* Processes die.  The operating system gives the mutex of a dead one back. *)

CommandDies(t) ==
  /\ cmd[t] # AtRest
  /\ mutex' = mutex \ {t}
  /\ Ends(t)
  /\ UNCHANGED <<lock, alive, ctx, report, content, touched, writing, raced>>

AgentDies(t) ==
  /\ alive[t]
  /\ alive' = [alive EXCEPT ![t] = FALSE]
  /\ UNCHANGED <<lock, mutex, cmd, ctx, report, content, touched, writing, raced>>

Init ==
  /\ lock = NoLock /\ mutex = {}
  /\ cmd = [t \in Task |-> AtRest]
  /\ alive = [t \in Task |-> TRUE]
  /\ ctx = [t \in Task |-> NoContext]
  /\ report = [t \in Task |-> NoReport]
  /\ content = [f \in File |-> 0]
  /\ touched = [t \in Task |-> {}]
  /\ writing = {} /\ raced = FALSE

Next ==
  \/ \E f \in File : Edit(f)
  \/ \E t \in Task :
       \/ StartAsked(t) \/ RecoveryLooks(t) \/ RecoveryUnlinks(t) \/ LockCreated(t)
       \/ PayloadWritten(t) \/ PayloadFails(t) \/ SnapshotTaken(t) \/ Scanned(t)
       \/ StartFails(t) \/ Resolve(t) \/ ReconcileRound(t) \/ ContextIsGone(t)
       \/ GatesAsked(t) \/ GatesBegin(t) \/ GatesEnd(t)
       \/ ChecksReconciled(t) \/ ChecksReport(t)
       \/ ReleaseLooks(t) \/ ReleaseUnlinks(t) \/ DirectoryRemoved(t)
       \/ CommandDies(t) \/ AgentDies(t)
       \/ \E yes \in BOOLEAN : ReconcileAsked(t, yes) \/ FinishAsked(t, yes)
       \/ \E g \in Gate : GateRuns(t, g)

Spec == Init /\ [][Next]_vars
----------------------------------------------------------------------------
\* Every variable has its type, and a command that holds the mutex is about to
\* unlink the lock.
TypeOK ==
  /\ lock = NoLock \/ (lock.by \in Task /\ lock.written \in BOOLEAN)
  /\ mutex = {t \in Task : cmd[t].op = "unlinking"}
  /\ alive \in [Task -> BOOLEAN]
  /\ ctx \in [Task -> ContextRow]
  /\ \A t \in Task : report[t].pass => report[t].gates \subseteq Gate
  /\ content \in Contents
  /\ touched \in [Task -> SUBSET File]
  /\ writing \subseteq Task /\ raced \in BOOLEAN

\* "A physical workspace permits one coding writer at a time": while its agent
\* lives, the lock file of a started task is there, is its own and is whole, so
\* that nobody else writes - until a lock was released on behalf of a dead
\* agent, a release that does not look again before it unlinks.
WriterHoldsLock ==
  ~raced => \A t \in writing : alive[t] => lock = [by |-> t, written |-> TRUE]

\* A task that is let go as a SUCCESS had every gate that its affected files
\* require pass in one run, which began and ended on the content these files
\* have now, and no file that finish found changed is outside them.
SuccessIsGated ==
  [][\A t \in Task :
       (cmd[t].op = "confirming" /\ cmd'[t].op = "releasing") =>
         LET files == ctx[t].affected IN
         /\ cmd[t].changed \subseteq files
         /\ Required(files) \subseteq report[t].gates
         /\ \A f \in files : /\ f \in DOMAIN report[t].ended
                             /\ report[t].digest[f] = content[f]
                             /\ report[t].ended[f] = content[f]]_vars
==============================================================================
