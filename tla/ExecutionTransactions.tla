------------------------- MODULE ExecutionTransactions -------------------------
(***************************************************************************)
(* The transactions of ExecutionBinding, taken apart.  MySQL serves a      *)
(* transaction's plain SELECTs from the snapshot its first one takes       *)
(* (REPEATABLE READ, the server's default: database.py sets no other);     *)
(* SELECT ... FOR UPDATE reads, and keeps, the newest row.  What           *)
(* create_execution_attempt, create and start decide on is partly read     *)
(* the first way: the Runner, the lease rows that are ACTIVE, the RunTask  *)
(* (db.get), and in start the ExecutionAttempt, loaded as a hint and not   *)
(* reloaded when it is locked.  By the time they write, others may have    *)
(* committed.  What stops a write on such ground is a unique key:          *)
(* uq_atp_resource_lease_active for the leases, and for the owners         *)
(* uq_outbox_aggregate_sequence, because every lifecycle edge appends an   *)
(* OutboxEvent numbered MAX(sequence) + 1 as the snapshot shows it.        *)
(*                                                                         *)
(* The other transactions lock all they decide on before their first       *)
(* plain SELECT, and are the atomic steps of ExecutionBinding.             *)
(***************************************************************************)
EXTENDS ExecutionBinding, Sequences, FiniteSetsExt

CONSTANTS
  Call,      \* requests in progress at one time (a bound)
  NoCall     \* a call slot that is free

ASSUME AggregatesAssumption == RunTask \cap Attempt = {}

VARIABLES
  outbox,    \* rows of atp_outbox_event, by aggregate
  seen       \* what the snapshot of each call in progress shows

txVars == <<vars, outbox, seen>>

Aggregate == RunTask \cup Attempt

TxInit ==
  /\ Init
  /\ outbox = [g \in Aggregate |-> {}]
  /\ seen = [c \in Call |-> NoCall]

-----------------------------------------------------------------------------
(* Evidence of lifecycle edges *)

\* select(func.max(OutboxEvent.sequence)) ... or 0
LastSequence(g) == Max({0} \cup {e.sequence : e \in outbox[g]})

\* append_transition_evidence for each edge of a path.  It flushes before it counts, so the
\* edges of one transaction are numbered on from the last sequence its snapshot shows.
Events(stage, last, path) ==
  {[sequence |-> last + n, from |-> IF n = 1 THEN stage ELSE path[n - 1], to |-> path[n]] :
     n \in DOMAIN path}

\* ExecutionOwnerService._event: a new owner has no events yet, whatever the snapshot shows.
Creation == Events("NONE", 0, <<"CREATED">>)

\* Mutated Insert: the key has no sequence in it.
InsertUnkeyed(g, events, h, others) ==
  outbox' = [outbox EXCEPT ![g] = @ \cup events, ![h] = @ \cup others]

\* Rows for two aggregates.  One whose sequence is taken fails the whole transaction.
Insert(g, events, h, others) ==
  /\ \A e \in events, f \in outbox[g] : e.sequence # f.sequence
  /\ \A e \in others, f \in outbox[h] : e.sequence # f.sequence
  /\ outbox' = [outbox EXCEPT ![g] = @ \cup events, ![h] = @ \cup others]

\* _RUN_TASK_PREPARATION_PATH, for a RunTask found in the given stage.
TaskPreparation(stage) ==
  IF stage = "CREATED"
  THEN <<"SNAPSHOTTED", "VALIDATING", "WAITING_RESOURCE", "DISPATCHING", "PREPARING">>
  ELSE << >>

\* prepare_execution_attempt
AttemptPreparation(stage) == IF stage = "CREATED" THEN <<"PREPARING">> ELSE << >>

\* run_run_task and run_execution_attempt, with the preparation start leads them through.
TaskStart(stage) == TaskPreparation(stage) \o <<"RUNNING">>
AttemptStart(stage) == AttemptPreparation(stage) \o <<"RUNNING">>

\* complete_run_task
TaskCompletion(outcome) ==
  IF outcome = "CANCELLED" THEN <<"CANCELING", "COMPLETED">> ELSE <<"COMPLETED">>

\* complete_execution_attempt: the result stage has the name of the RunTask's result.
AttemptCompletion(outcome) == <<ResultOf(outcome), "COMPLETED">>

-----------------------------------------------------------------------------
(* Transactions that read before they lock *)

\* What the snapshot of a transaction about attempt a shows.
Snapshot(op, a) ==
  [op |-> op, attempt |-> a,
   task |-> task[TaskOf[a]].lifecycle,
   row |-> attempt[a].lifecycle,
   taskLast |-> LastSequence(TaskOf[a]),
   attemptLast |-> LastSequence(a)]

\* What each transaction requires of the rows it reads in its snapshot.
Acceptable(op, a) ==
  \/ /\ op = "CREATE_ATTEMPT"
     /\ attempt[a].lifecycle = "NONE"
     /\ runner[RunnerOf[a]] = "READY"
  \/ /\ op = "CREATE_BINDING"
     /\ attempt[a].lifecycle # "NONE"
     /\ Preparable(TaskOf[a])
  \/ /\ op = "START"
     /\ binding[a].status # "NONE"
     /\ attempt[a].lifecycle \in {"CREATED", "PREPARING"}
     /\ attempt[a].status = "READY"
     /\ runner[RunnerOf[a]] = "READY"
     /\ Preparable(TaskOf[a])

Begin(c, op, a) ==
  /\ seen[c] = NoCall
  /\ Acceptable(op, a)
  /\ seen' = [seen EXCEPT ![c] = Snapshot(op, a)]
  /\ UNCHANGED <<vars, outbox>>

\* The call in c is op on attempt a; its transaction ends with the step.
Committing(c, op, a) ==
  /\ seen[c] # NoCall
  /\ seen[c].op = op /\ seen[c].attempt = a
  /\ seen' = [seen EXCEPT ![c] = NoCall]

\* create_execution_attempt locks the RunTask.
CommitAttempt(c, a) ==
  /\ Committing(c, "CREATE_ATTEMPT", a)
  /\ attempt[a].lifecycle = "NONE"
  /\ Preparable(TaskOf[a])
  /\ attempt' = [attempt EXCEPT ![a].lifecycle = "CREATED"]
  /\ Insert(TaskOf[a], {}, a, Creation)
  /\ UNCHANGED <<task, binding, lease, generation, runner, view>>

\* create locks the attempt, the Runner and the generations.  A lease that is free in the
\* snapshot may be taken: uq_atp_resource_lease_active.  (One that is taken there and free by
\* now is refused by the code and accepted here: the snapshot keeps no leases.)
CommitBinding(c, a, i, s) ==
  /\ Committing(c, "CREATE_BINDING", a)
  /\ Admissible(a, i, s)
  /\ BindResources(a, i, s, seen[c].task)
  /\ Insert(TaskOf[a], Events(seen[c].task, seen[c].taskLast, TaskPreparation(seen[c].task)),
            a, Events(attempt[a].lifecycle, seen[c].attemptLast,
                      AttemptPreparation(attempt[a].lifecycle)))

\* start locks the binding, its leases and the attempt, whose hint keeps what it read before.
CommitStart(c, a) ==
  /\ Committing(c, "START", a)
  /\ binding[a].status = "READY"
  /\ LeasesHeld(a) /\ GenerationsMatch(a)
  /\ RunOwners(a)
  /\ Insert(TaskOf[a], Events(seen[c].task, seen[c].taskLast, TaskStart(seen[c].task)),
            a, Events(seen[c].row, seen[c].attemptLast, AttemptStart(seen[c].row)))

\* A refusal, a broken key or a lost connection rolls back.
RollBack(c) ==
  /\ seen[c] # NoCall
  /\ seen' = [seen EXCEPT ![c] = NoCall]
  /\ UNCHANGED <<vars, outbox>>

-----------------------------------------------------------------------------
(* Transactions that are one step *)

RecordedCreateRunTask(t) ==
  /\ CreateRunTask(t)
  /\ outbox' = [outbox EXCEPT ![t] = Creation]
  /\ UNCHANGED seen

\* Whoever ends an execution holds the session row, and with it both owners, RUNNING.
RecordedFinish(a, outcome) ==
  /\ Finish(a, outcome)
  /\ Insert(TaskOf[a], Events("RUNNING", LastSequence(TaskOf[a]), TaskCompletion(outcome)),
            a, Events("RUNNING", LastSequence(a), AttemptCompletion(outcome)))
  /\ UNCHANGED seen

\* The commands change a binding, not its owners.
Command(o, a) == Read(o, a) \/ Consume(o, a) \/ Renew(o, a) \/ Release(o, a) \/ Recover(o, a)

TxNext ==
  \/ \E c \in Call, a \in Attempt : Begin(c, "CREATE_ATTEMPT", a)
  \/ \E c \in Call, a \in Attempt : Begin(c, "CREATE_BINDING", a)
  \/ \E c \in Call, a \in Attempt : Begin(c, "START", a)
  \/ \E c \in Call, a \in Attempt : CommitAttempt(c, a)
  \/ \E c \in Call, a \in Attempt, i \in Identity, s \in Slot : CommitBinding(c, a, i, s)
  \/ \E c \in Call, a \in Attempt : CommitStart(c, a)
  \/ \E c \in Call : RollBack(c)
  \/ \E t \in RunTask : RecordedCreateRunTask(t)
  \/ \E a \in Attempt, outcome \in Outcome : RecordedFinish(a, outcome)
  \/ \E o \in Operator, a \in Attempt : Command(o, a) /\ UNCHANGED <<outbox, seen>>
  \/ Tick /\ UNCHANGED <<outbox, seen>>
  \/ \E r \in Runner, s \in RunnerStatus : RunnerChanges(r, s) /\ UNCHANGED <<outbox, seen>>

TxSpec == TxInit /\ [][TxNext]_txVars

-----------------------------------------------------------------------------
(* Properties *)

\* The outbox tells the life of every owner: the events of an aggregate are numbered from 1
\* without a gap or a double, each leaves the stage the one before it entered, and the last
\* enters the stage the row is in, however the transactions that wrote them overlapped.
EvidenceReplays ==
  \A g \in Aggregate :
    LET rows == outbox[g]
        stage == IF g \in RunTask THEN task[g].lifecycle ELSE attempt[g].lifecycle
        last == Cardinality(rows)
    IN /\ {e.sequence : e \in rows} = 1..last
       /\ \A e, f \in rows : f.sequence = e.sequence + 1 => f.from = e.to
       /\ \A e \in rows : e.sequence = last => e.to = stage

\* Seen through another reading of the Runners, which is all a stale snapshot gets away with.
At(reading) == INSTANCE ExecutionBinding WITH runner <- reading

\* Overlapping transactions that read before they lock change the owners only as the atomic
\* transactions of ExecutionBinding would: two starts of sibling attempts, two bindings of one
\* attempt or of one resource, a start against a completion.
StepsAreAtomic ==
  [][<<task, attempt>>' # <<task, attempt>> =>
       \E reading \in [Runner -> RunnerStatus] : At(reading)!Next]_<<task, attempt>>
===============================================================================
