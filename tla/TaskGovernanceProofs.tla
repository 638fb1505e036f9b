------------------------- MODULE TaskGovernanceProofs -------------------------
(* That one task at a time writes, and that a task let go as a success was gated, proved  *)
(* for any number of tasks, files and gates.                                              *)
EXTENDS TaskGovernance, TLAPS

\* The shape of what the proof looks at, and the mutex of the recoveries.
Shape ==
  /\ DOMAIN cmd = Task
  /\ alive \in [Task -> BOOLEAN]
  /\ \A t, u \in Task : cmd[t].op = "unlinking" /\ cmd[u].op = "unlinking" => t = u
  /\ \A t \in Task : cmd[t].op = "unlinking" <=> t \in mutex
  /\ mutex \subseteq Task

\* A lock whose payload is being written is the writer's own.
PayloadIsOwn ==
  \A t \in Task : cmd[t].op = "writing" => lock = [by |-> t, written |-> FALSE]

\* A task that starts or is released by its living agent has the whole lock.
StarterHoldsLock ==
  \A t \in Task :
    cmd[t].op \in {"scanning", "scanned", "freeing"} /\ alive[t]
      => lock = [by |-> t, written |-> TRUE]

\* A lock about to be unlinked by a recovery is a dead agent's, and stays it: nobody creates a
\* lock over it, nobody finds it stale a second time, and its owner has no more to write.
UnlinkedIsStale ==
  \A t \in Task :
    cmd[t].op = "unlinking" => lock.written = TRUE /\ lock.by \in Task /\ ~alive[lock.by]

\* A task that is being released does not write any more.
ReleasedIsNoWriter == \A t \in Task : cmd[t].op = "freeing" => t \notin writing

\* What keeps the lock with its writer, as long as no lock is released for a dead agent.
Held ==
  ~raced =>
    /\ PayloadIsOwn
    /\ StarterHoldsLock
    /\ UnlinkedIsStale
    /\ \A t \in writing : alive[t] => lock = [by |-> t, written |-> TRUE]

Inv ==
  /\ Shape
  /\ writing \subseteq Task /\ raced \in BOOLEAN
  /\ lock = NoLock \/ (lock.by \in Task /\ lock.written \in BOOLEAN)
  /\ ReleasedIsNoWriter
  /\ Held

-----------------------------------------------------------------------------

\* What a command does after a step of it, and that the others go on as they were.
LEMMA DoEffect ==
  ASSUME Shape, NEW t \in Task, NEW command, Do(t, command)
  PROVE /\ DOMAIN cmd' = Task
        /\ cmd'[t] = command
        /\ \A u \in Task \ {t} : cmd'[u] = cmd[u]
  BY DEF Shape, Do

\* Most steps touch neither the lock nor the mutex, and lead from no command that holds
\* something to none that does.
Harmless(t) ==
  /\ UNCHANGED <<lock, mutex, alive, writing, raced>>
  /\ \/ UNCHANGED cmd
     \/ \E command :
          /\ Do(t, command)
          /\ cmd[t].op # "unlinking"
          /\ \/ command.op \notin {"unlinking", "writing", "scanning", "scanned", "freeing"}
             \/ cmd[t].op = "scanning" /\ command.op = "scanned"

\* They keep the invariant.
LEMMA HarmlessKeeps ==
  ASSUME Inv, NEW t \in Task, Harmless(t)
  PROVE Inv'
<1>1. CASE UNCHANGED cmd
  BY <1>1 DEF Harmless, Inv, Shape, ReleasedIsNoWriter, Held, PayloadIsOwn, StarterHoldsLock,
              UnlinkedIsStale
<1>2. ASSUME NEW command, Do(t, command), cmd[t].op # "unlinking",
             \/ command.op \notin {"unlinking", "writing", "scanning", "scanned", "freeing"}
             \/ cmd[t].op = "scanning" /\ command.op = "scanned"
      PROVE Inv'
  <2>1. /\ DOMAIN cmd' = Task /\ cmd'[t] = command
        /\ \A u \in Task \ {t} : cmd'[u] = cmd[u]
    BY <1>2, DoEffect DEF Inv
  <2>2. Shape'
    BY <1>2, <2>1 DEF Harmless, Inv, Shape
  <2>3. ReleasedIsNoWriter'
    BY <1>2, <2>1 DEF Harmless, Inv, ReleasedIsNoWriter
  <2>4. Held'
    BY <1>2, <2>1 DEF Harmless, Inv, Held, PayloadIsOwn, StarterHoldsLock, UnlinkedIsStale
  <2>5. QED
    BY <2>2, <2>3, <2>4 DEF Harmless, Inv
<1>3. QED
  BY <1>1, <1>2 DEF Harmless

\* The initial state has nothing held.
LEMMA InitInv == Init => Inv
<1> SUFFICES ASSUME Init PROVE Inv
  OBVIOUS
<1>1. DOMAIN cmd = Task /\ \A t \in Task : cmd[t].op = "rest"
  BY DEF Init, AtRest
<1>2. Shape
  BY <1>1 DEF Init, Shape
<1>3. ReleasedIsNoWriter /\ Held
  BY <1>1 DEF Init, ReleasedIsNoWriter, Held, PayloadIsOwn, StarterHoldsLock, UnlinkedIsStale
<1>4. QED
  BY <1>2, <1>3 DEF Init, Inv

\* Which steps are harmless.
LEMMA HarmlessSteps ==
  ASSUME Inv, NEW t \in Task,
         \/ StartAsked(t) \/ SnapshotTaken(t) \/ StartFails(t) \/ Resolve(t)
         \/ ReconcileRound(t) \/ ContextIsGone(t) \/ GatesAsked(t) \/ GatesBegin(t)
         \/ GatesEnd(t) \/ ChecksReconciled(t) \/ ChecksReport(t) \/ DirectoryRemoved(t)
         \/ (\E yes \in BOOLEAN : ReconcileAsked(t, yes) \/ FinishAsked(t, yes))
         \/ (\E g \in Gate : GateRuns(t, g))
  PROVE Harmless(t)
<1>1. ASSUME NEW command, Do(t, command), cmd[t].op # "unlinking",
             \/ command.op \notin {"unlinking", "writing", "scanning", "scanned", "freeing"}
             \/ cmd[t].op = "scanning" /\ command.op = "scanned",
             UNCHANGED <<lock, mutex, alive, writing, raced>>
      PROVE Harmless(t)
  BY <1>1 DEF Harmless
<1>2. CASE StartAsked(t)
  BY <1>1, <1>2 DEF StartAsked, AtRest
<1>3. CASE SnapshotTaken(t)
  BY <1>1, <1>3 DEF SnapshotTaken
<1>4. CASE StartFails(t)
  BY <1>1, <1>4 DEF StartFails
<1>5. CASE Resolve(t)
  BY <1>5 DEF Resolve, Harmless
<1>6. CASE ReconcileRound(t)
  BY <1>1, <1>6 DEF ReconcileRound, Ends, AtRest
<1>7. CASE ContextIsGone(t)
  BY <1>1, <1>7 DEF ContextIsGone, Ends, AtRest
<1>8. CASE GatesAsked(t) \/ GatesBegin(t)
  BY <1>1, <1>8 DEF GatesAsked, GatesBegin, Ends, AtRest
<1>9. CASE GatesEnd(t)
  BY <1>1, <1>9 DEF GatesEnd, Ends, AtRest
<1>10. CASE ChecksReconciled(t) \/ ChecksReport(t)
  BY <1>1, <1>10 DEF ChecksReconciled, ChecksReport, Ends, AtRest
<1>11. CASE DirectoryRemoved(t)
  BY <1>1, <1>11 DEF DirectoryRemoved, Ends, AtRest
<1>12. ASSUME NEW yes \in BOOLEAN, ReconcileAsked(t, yes) \/ FinishAsked(t, yes)
       PROVE Harmless(t)
  BY <1>1, <1>12 DEF ReconcileAsked, FinishAsked, AtRest
<1>13. ASSUME NEW g \in Gate, GateRuns(t, g)
       PROVE Harmless(t)
  BY <1>1, <1>13 DEF GateRuns
<1>14. QED
  BY <1>2, <1>3, <1>4, <1>5, <1>6, <1>7, <1>8, <1>9, <1>10, <1>11, <1>12, <1>13

-----------------------------------------------------------------------------
(* The steps that touch the lock *)

\* A step of one task to another command, seen from Shape alone.
LEMMA ShapeKept ==
  ASSUME Shape, NEW t \in Task, NEW command, Do(t, command), UNCHANGED alive,
         \/ command.op # "unlinking" /\ mutex' = mutex \ {t}
         \/ command.op # "unlinking" /\ cmd[t].op # "unlinking" /\ mutex' = mutex
         \/ command.op = "unlinking" /\ mutex = {} /\ mutex' = {t}
  PROVE Shape'
<1>1. /\ DOMAIN cmd' = Task /\ cmd'[t] = command
      /\ \A u \in Task \ {t} : cmd'[u] = cmd[u]
  BY DoEffect
<1>2. QED
  BY <1>1 DEF Shape

\* A recovery finds the lock of a dead agent, alone, or goes on to create one.
LEMMA RecoveryLooksKeeps ==
  ASSUME Inv, NEW t \in Task, RecoveryLooks(t)
  PROVE Inv'
<1>1. CASE LockIsStale /\ mutex' = {t} /\ Do(t, [op |-> "unlinking"])
  <2>1. /\ cmd'[t] = [op |-> "unlinking"]
        /\ \A u \in Task \ {t} : cmd'[u] = cmd[u]
    BY <1>1, DoEffect DEF Inv
  <2>2. Shape'
    BY <1>1, ShapeKept DEF RecoveryLooks, Inv
  <2>3. lock.written = TRUE /\ lock.by \in Task /\ ~alive[lock.by]
    BY <1>1 DEF LockIsStale, Inv, NoLock
  <2>4. ReleasedIsNoWriter'
    BY <2>1 DEF RecoveryLooks, Inv, ReleasedIsNoWriter
  <2>5. Held'
    BY <2>1, <2>3 DEF RecoveryLooks, Inv, Held, PayloadIsOwn, StarterHoldsLock, UnlinkedIsStale
  <2>6. QED
    BY <2>2, <2>4, <2>5 DEF RecoveryLooks, Inv
<1>2. CASE UNCHANGED mutex /\ Do(t, [op |-> "creating"])
  <2>1. Harmless(t)
    BY <1>2 DEF RecoveryLooks, Harmless
  <2>2. QED
    BY <2>1, HarmlessKeeps
<1>3. QED
  BY <1>1, <1>2 DEF RecoveryLooks

\* What it unlinks is still that lock: nobody alive holds it.
LEMMA RecoveryUnlinksKeeps ==
  ASSUME Inv, NEW t \in Task, RecoveryUnlinks(t)
  PROVE Inv'
<1>1. /\ DOMAIN cmd' = Task /\ cmd'[t] = [op |-> "creating"]
      /\ \A u \in Task \ {t} : cmd'[u] = cmd[u]
  BY DoEffect DEF RecoveryUnlinks, Inv
<1>2. mutex = {t}
  BY DEF RecoveryUnlinks, Inv, Shape
<1>3. Shape'
  BY <1>2, ShapeKept DEF RecoveryUnlinks, Inv
<1>4. ReleasedIsNoWriter'
  BY <1>1 DEF RecoveryUnlinks, Inv, ReleasedIsNoWriter
<1>5. ASSUME ~raced
      PROVE /\ \A u \in Task : cmd'[u].op # "writing" /\ cmd'[u].op # "unlinking"
            /\ \A u \in Task : cmd'[u].op \in {"scanning", "scanned", "freeing"} => ~alive[u]
            /\ \A u \in writing : ~alive[u]
  <2>1. lock.written = TRUE /\ lock.by \in Task /\ ~alive[lock.by]
    BY <1>5 DEF RecoveryUnlinks, Inv, Held, UnlinkedIsStale
  <2>2. \A u \in Task : cmd[u].op # "writing"
    BY <1>5, <2>1 DEF Inv, Held, PayloadIsOwn
  <2>3. \A u \in Task \ {t} : cmd[u].op # "unlinking"
    BY DEF RecoveryUnlinks, Inv, Shape
  <2>4. \A u \in Task : alive[u] => lock # [by |-> u, written |-> TRUE]
    BY <2>1
  <2>5. QED
    BY <1>1, <1>5, <2>2, <2>3, <2>4 DEF Inv, Held, StarterHoldsLock
<1>6. Held'
  BY <1>5 DEF RecoveryUnlinks, Held, PayloadIsOwn, StarterHoldsLock, UnlinkedIsStale, Inv
<1>7. QED
  BY <1>3, <1>4, <1>6 DEF RecoveryUnlinks, Inv

\* A lock is created where there is none, so nobody alive has one.
LEMMA LockCreatedKeeps ==
  ASSUME Inv, NEW t \in Task, LockCreated(t)
  PROVE Inv'
<1>1. CASE lock = NoLock
  <2>1. lock' = [by |-> t, written |-> FALSE] /\ Do(t, [op |-> "writing"])
    BY <1>1 DEF LockCreated
  <2>2. /\ DOMAIN cmd' = Task /\ cmd'[t] = [op |-> "writing"]
        /\ \A u \in Task \ {t} : cmd'[u] = cmd[u]
    BY <2>1, DoEffect DEF Inv
  <2>3. Shape'
    BY <2>1, ShapeKept DEF LockCreated, Inv
  <2>4. ReleasedIsNoWriter'
    BY <2>2 DEF LockCreated, Inv, ReleasedIsNoWriter
  <2>5. ASSUME ~raced
        PROVE /\ \A u \in Task \ {t} : cmd[u].op # "writing"
              /\ \A u \in Task : cmd[u].op # "unlinking"
              /\ \A u \in Task : cmd[u].op \in {"scanning", "scanned", "freeing"} => ~alive[u]
              /\ \A u \in writing : ~alive[u]
    <3>1. lock.written = FALSE
      BY <1>1 DEF NoLock
    <3>2. \A u \in Task : cmd[u].op = "writing" => u = "nobody"
      BY <1>1, <2>5 DEF Inv, Held, PayloadIsOwn, NoLock
    <3>3. \A u \in Task : cmd[u].op # "writing"
      BY <3>2, GovernanceAssumption
    <3>4. \A u \in Task : lock # [by |-> u, written |-> TRUE]
      BY <3>1
    <3>5. \A u \in Task : cmd[u].op # "unlinking"
      BY <2>5, <3>1 DEF Inv, Held, UnlinkedIsStale
    <3>6. \A u \in Task : cmd[u].op \in {"scanning", "scanned", "freeing"} => ~alive[u]
      BY <2>5, <3>4 DEF Inv, Held, StarterHoldsLock
    <3>7. \A u \in writing : ~alive[u]
      BY <2>5, <3>4 DEF Inv, Held
    <3>8. QED
      BY <3>3, <3>5, <3>6, <3>7
  <2>6. Held'
    <3> SUFFICES ASSUME ~raced
                 PROVE /\ PayloadIsOwn'
                       /\ StarterHoldsLock'
                       /\ UnlinkedIsStale'
                       /\ \A u \in writing' : alive'[u] => lock' = [by |-> u, written |-> TRUE]
      BY DEF LockCreated, Held
    <3>1. PayloadIsOwn'
      BY <2>1, <2>2, <2>5 DEF PayloadIsOwn
    <3>2. StarterHoldsLock'
      BY <2>2, <2>5 DEF LockCreated, StarterHoldsLock
    <3>3. UnlinkedIsStale'
      BY <2>2, <2>5 DEF UnlinkedIsStale
    <3>4. \A u \in writing' : alive'[u] => lock' = [by |-> u, written |-> TRUE]
      BY <2>5 DEF LockCreated
    <3>5. QED
      BY <3>1, <3>2, <3>3, <3>4
  <2>7. QED
    BY <2>1, <2>3, <2>4, <2>6 DEF LockCreated, Inv
<1>2. CASE lock # NoLock
  <2>1. Harmless(t)
    BY <1>2 DEF LockCreated, Harmless, Ends, AtRest
  <2>2. QED
    BY <2>1, HarmlessKeeps
<1>3. QED
  BY <1>1, <1>2

\* The payload goes into the lock of the task, or into a file that is gone.
LEMMA PayloadWrittenKeeps ==
  ASSUME Inv, NEW t \in Task, PayloadWritten(t)
  PROVE Inv'
<1>1. /\ DOMAIN cmd' = Task /\ cmd'[t] = [op |-> "scanning"]
      /\ \A u \in Task \ {t} : cmd'[u] = cmd[u]
  BY DoEffect DEF PayloadWritten, Inv
<1>2. Shape'
  BY ShapeKept DEF PayloadWritten, Inv
<1>3. ReleasedIsNoWriter'
  BY <1>1 DEF PayloadWritten, Inv, ReleasedIsNoWriter
<1>4. ASSUME ~raced
      PROVE /\ lock = [by |-> t, written |-> FALSE] /\ lock' = [by |-> t, written |-> TRUE]
            /\ \A u \in Task \ {t} : cmd[u].op # "writing"
            /\ \A u \in Task : cmd[u].op # "unlinking"
            /\ \A u \in Task : cmd[u].op \in {"scanning", "scanned", "freeing"} => ~alive[u]
            /\ \A u \in writing : ~alive[u]
  <2>1. lock = [by |-> t, written |-> FALSE]
    BY <1>4 DEF PayloadWritten, Inv, Held, PayloadIsOwn
  <2>2. lock' = [by |-> t, written |-> TRUE]
    BY <2>1 DEF PayloadWritten
  <2>3. QED
    BY <1>4, <2>1, <2>2 DEF Inv, Held, PayloadIsOwn, StarterHoldsLock, UnlinkedIsStale
<1>5. Held'
  <2> SUFFICES ASSUME ~raced
               PROVE /\ PayloadIsOwn'
                     /\ StarterHoldsLock'
                     /\ UnlinkedIsStale'
                     /\ \A u \in writing' : alive'[u] => lock' = [by |-> u, written |-> TRUE]
    BY DEF PayloadWritten, Held
  <2>1. PayloadIsOwn'
    BY <1>1, <1>4 DEF PayloadIsOwn
  <2>2. StarterHoldsLock'
    BY <1>1, <1>4 DEF PayloadWritten, StarterHoldsLock
  <2>3. UnlinkedIsStale'
    BY <1>1, <1>4 DEF UnlinkedIsStale
  <2>4. \A u \in writing' : alive'[u] => lock' = [by |-> u, written |-> TRUE]
    BY <1>4 DEF PayloadWritten
  <2>5. QED
    BY <2>1, <2>2, <2>3, <2>4
<1>6. lock' = NoLock \/ (lock'.by \in Task /\ lock'.written \in BOOLEAN)
  BY DEF PayloadWritten, Inv
<1>7. QED
  BY <1>2, <1>3, <1>5, <1>6 DEF PayloadWritten, Inv

\* A start that cannot write its payload takes away its own lock.
LEMMA PayloadFailsKeeps ==
  ASSUME Inv, NEW t \in Task, PayloadFails(t)
  PROVE Inv'
<1>1. /\ DOMAIN cmd' = Task /\ cmd'[t] = AtRest
      /\ \A u \in Task \ {t} : cmd'[u] = cmd[u]
  BY DoEffect DEF PayloadFails, Ends, Inv
<1>2. Shape'
  BY ShapeKept DEF PayloadFails, Ends, AtRest, Inv
<1>3. ReleasedIsNoWriter'
  BY <1>1 DEF PayloadFails, Inv, ReleasedIsNoWriter, AtRest
<1>4. ASSUME ~raced
      PROVE /\ \A u \in Task \ {t} : cmd[u].op # "writing"
            /\ \A u \in Task : cmd[u].op # "unlinking"
            /\ \A u \in Task : cmd[u].op \in {"scanning", "scanned", "freeing"} => ~alive[u]
            /\ \A u \in writing : ~alive[u]
  <2>1. lock = [by |-> t, written |-> FALSE]
    BY <1>4 DEF PayloadFails, Inv, Held, PayloadIsOwn
  <2>2. QED
    BY <1>4, <2>1 DEF Inv, Held, PayloadIsOwn, StarterHoldsLock, UnlinkedIsStale
<1>5. Held'
  BY <1>1, <1>4 DEF PayloadFails, Held, PayloadIsOwn, StarterHoldsLock, UnlinkedIsStale, Inv,
                    AtRest
<1>6. QED
  BY <1>2, <1>3, <1>5 DEF PayloadFails, Inv

\* The task that has scanned writes from now on: its living agent has the lock.
LEMMA ScannedKeeps ==
  ASSUME Inv, NEW t \in Task, Scanned(t)
  PROVE Inv'
<1>1. /\ DOMAIN cmd' = Task /\ cmd'[t] = AtRest
      /\ \A u \in Task \ {t} : cmd'[u] = cmd[u]
  BY DoEffect DEF Scanned, Ends, Inv
<1>2. Shape'
  BY ShapeKept DEF Scanned, Ends, AtRest, Inv
<1>3. ReleasedIsNoWriter'
  BY <1>1 DEF Scanned, Inv, ReleasedIsNoWriter, AtRest
<1>4. Held'
  BY <1>1 DEF Scanned, Inv, Held, PayloadIsOwn, StarterHoldsLock, UnlinkedIsStale, AtRest
<1>5. QED
  BY <1>2, <1>3, <1>4 DEF Scanned, Inv

\* A task that is let go is no writer any more, before its lock is unlinked.
LEMMA ReleaseLooksKeeps ==
  ASSUME Inv, NEW t \in Task, ReleaseLooks(t)
  PROVE Inv'
<1> DEFINE next == IF lock = [by |-> t, written |-> TRUE] THEN "freeing" ELSE "removing"
<1>1. /\ DOMAIN cmd' = Task /\ cmd'[t] = [op |-> next]
      /\ \A u \in Task \ {t} : cmd'[u] = cmd[u]
  BY DoEffect DEF ReleaseLooks, Inv
<1>2. Shape'
  BY ShapeKept DEF ReleaseLooks, Inv
<1>3. ReleasedIsNoWriter'
  BY <1>1 DEF ReleaseLooks, Inv, ReleasedIsNoWriter
<1>4. Held'
  BY <1>1 DEF ReleaseLooks, Inv, Held, PayloadIsOwn, StarterHoldsLock, UnlinkedIsStale
<1>5. QED
  BY <1>2, <1>3, <1>4 DEF ReleaseLooks, Inv

\* The lock that a living agent's release unlinks is its own, and holds nobody else's work.
LEMMA ReleaseUnlinksKeeps ==
  ASSUME Inv, NEW t \in Task, ReleaseUnlinks(t)
  PROVE Inv'
<1>1. /\ DOMAIN cmd' = Task /\ cmd'[t] = [op |-> "removing"]
      /\ \A u \in Task \ {t} : cmd'[u] = cmd[u]
  BY DoEffect DEF ReleaseUnlinks, Inv
<1>2. Shape'
  BY ShapeKept DEF ReleaseUnlinks, Inv
<1>3. ReleasedIsNoWriter'
  BY <1>1 DEF ReleaseUnlinks, Inv, ReleasedIsNoWriter
<1>4. ASSUME ~raced'
      PROVE /\ \A u \in Task : cmd[u].op # "writing" /\ cmd[u].op # "unlinking"
            /\ \A u \in Task \ {t} :
                 cmd[u].op \in {"scanning", "scanned", "freeing"} => ~alive[u]
            /\ \A u \in writing : ~alive[u]
  <2>1. ~raced /\ alive[t]
    BY <1>4 DEF ReleaseUnlinks
  <2>2. lock = [by |-> t, written |-> TRUE] /\ t \notin writing
    BY <2>1 DEF ReleaseUnlinks, Inv, Held, StarterHoldsLock, ReleasedIsNoWriter
  <2>3. QED
    BY <2>1, <2>2 DEF Inv, Held, PayloadIsOwn, StarterHoldsLock, UnlinkedIsStale
<1>5. Held'
  BY <1>1, <1>4 DEF ReleaseUnlinks, Held, PayloadIsOwn, StarterHoldsLock, UnlinkedIsStale, Inv
<1>6. raced' \in BOOLEAN
  BY DEF ReleaseUnlinks, Inv, Shape
<1>7. QED
  BY <1>2, <1>3, <1>5, <1>6 DEF ReleaseUnlinks, Inv

\* A command that is killed leaves the lock as it is and the mutex to the others.
LEMMA CommandDiesKeeps ==
  ASSUME Inv, NEW t \in Task, CommandDies(t)
  PROVE Inv'
<1>1. /\ DOMAIN cmd' = Task /\ cmd'[t] = AtRest
      /\ \A u \in Task \ {t} : cmd'[u] = cmd[u]
  BY DoEffect DEF CommandDies, Ends, Inv
<1>2. Shape'
  BY ShapeKept DEF CommandDies, Ends, AtRest, Inv
<1>3. ReleasedIsNoWriter'
  BY <1>1 DEF CommandDies, Inv, ReleasedIsNoWriter, AtRest
<1>4. Held'
  BY <1>1 DEF CommandDies, Inv, Held, PayloadIsOwn, StarterHoldsLock, UnlinkedIsStale, AtRest
<1>5. QED
  BY <1>2, <1>3, <1>4 DEF CommandDies, Inv

\* An agent that dies takes nothing with it.
LEMMA AgentDiesKeeps ==
  ASSUME Inv, NEW t \in Task, AgentDies(t)
  PROVE Inv'
<1>1. alive' \in [Task -> BOOLEAN] /\ \A u \in Task : alive'[u] => alive[u]
  BY DEF AgentDies, Inv, Shape
<1>2. Shape' /\ ReleasedIsNoWriter'
  BY <1>1 DEF AgentDies, Inv, Shape, ReleasedIsNoWriter
<1>3. Held'
  BY <1>1 DEF AgentDies, Inv, Held, PayloadIsOwn, StarterHoldsLock, UnlinkedIsStale
<1>4. QED
  BY <1>2, <1>3 DEF AgentDies, Inv

\* The invariant holds, whatever dies and wherever.
LEMMA Invariant == Spec => []Inv
<1>1. Inv /\ [Next]_vars => Inv'
  <2> SUFFICES ASSUME Inv, [Next]_vars PROVE Inv'
    OBVIOUS
  <2>1. CASE UNCHANGED vars
    BY <2>1 DEF vars, Inv, Shape, ReleasedIsNoWriter, Held, PayloadIsOwn, StarterHoldsLock,
                UnlinkedIsStale
  <2>2. ASSUME NEW f \in File, Edit(f)
        PROVE Inv'
    BY <2>2 DEF Edit, Inv, Shape, ReleasedIsNoWriter, Held, PayloadIsOwn, StarterHoldsLock,
                UnlinkedIsStale
  <2>3. QED
    BY <2>1, <2>2, HarmlessSteps, HarmlessKeeps, RecoveryLooksKeeps, RecoveryUnlinksKeeps,
       LockCreatedKeeps, PayloadWrittenKeeps, PayloadFailsKeeps, ScannedKeeps,
       ReleaseLooksKeeps, ReleaseUnlinksKeeps, CommandDiesKeeps, AgentDiesKeeps DEF Next
<1>2. QED
  BY <1>1, InitInv, PTL DEF Spec

-----------------------------------------------------------------------------
(* The evidence of a success *)

\* A run has results of configured gates, and a report that passes was made on one content.
ReportsAreWhole ==
  \A t \in Task :
    /\ cmd[t].op = "gating" => cmd[t].left \subseteq Gate /\ DOMAIN cmd[t].results \subseteq Gate
    /\ report[t].pass => report[t].gates \subseteq Gate /\ report[t].ended = report[t].digest

\* The changes a finish has found are within the context.  A context that somebody removed
\* meanwhile took the report with it.
ChangesAreCovered ==
  \A t \in Task : cmd[t].op = "confirming" =>
    \/ ctx[t] = NoContext /\ ~report[t].pass
    \/ cmd[t].changed \subseteq ctx[t].affected

Evidence ==
  /\ ctx \in [Task -> ContextRow]
  /\ content \in Contents
  /\ touched \in [Task -> SUBSET File]
  /\ DOMAIN report = Task
  /\ ReportsAreWhole
  /\ ChangesAreCovered

GateInv == Inv /\ Evidence

\* No task is let go as a success.
NoneLetGo == \A t \in Task : ~(cmd[t].op = "confirming" /\ cmd'[t].op = "releasing")

\* Most steps change no evidence, and begin no run and no finish.
Quiet(t) ==
  /\ UNCHANGED <<ctx, report, content, touched>>
  /\ \/ UNCHANGED cmd
     \/ \E command :
          /\ Do(t, command)
          /\ command.op \notin {"gating", "closing", "confirming"}
          /\ cmd[t].op = "confirming" => command.op # "releasing"

\* They leave the evidence as it is.
LEMMA QuietKeeps ==
  ASSUME GateInv, NEW t \in Task, Quiet(t)
  PROVE Evidence' /\ NoneLetGo
<1>1. CASE UNCHANGED cmd
  BY <1>1 DEF Quiet, GateInv, Evidence, ReportsAreWhole, ChangesAreCovered, NoneLetGo
<1>2. ASSUME NEW command, Do(t, command),
             command.op \notin {"gating", "closing", "confirming"},
             cmd[t].op = "confirming" => command.op # "releasing"
      PROVE Evidence' /\ NoneLetGo
  <2>1. /\ cmd'[t] = command
        /\ \A u \in Task \ {t} : cmd'[u] = cmd[u]
    BY <1>2, DoEffect DEF GateInv, Inv
  <2>2. ReportsAreWhole'
    BY <1>2, <2>1 DEF Quiet, GateInv, Evidence, ReportsAreWhole
  <2>3. ChangesAreCovered'
    BY <1>2, <2>1 DEF Quiet, GateInv, Evidence, ChangesAreCovered
  <2>4. NoneLetGo
    BY <1>2, <2>1 DEF NoneLetGo
  <2>5. QED
    BY <2>2, <2>3, <2>4 DEF Quiet, GateInv, Evidence
<1>3. QED
  BY <1>1, <1>2 DEF Quiet

\* Which steps are quiet.
LEMMA QuietSteps ==
  ASSUME GateInv, NEW t \in Task,
         \/ RecoveryLooks(t) \/ RecoveryUnlinks(t) \/ LockCreated(t) \/ PayloadWritten(t)
         \/ PayloadFails(t) \/ StartFails(t) \/ ContextIsGone(t) \/ GatesAsked(t)
         \/ ReleaseLooks(t) \/ ReleaseUnlinks(t) \/ CommandDies(t) \/ AgentDies(t)
         \/ FinishAsked(t, FALSE) \/ (\E yes \in BOOLEAN : ReconcileAsked(t, yes))
  PROVE Quiet(t)
<1>1. ASSUME NEW command, Do(t, command), UNCHANGED <<ctx, report, content, touched>>,
             command.op \notin {"gating", "closing", "confirming"},
             cmd[t].op = "confirming" => command.op # "releasing"
      PROVE Quiet(t)
  BY <1>1 DEF Quiet
<1>2. CASE RecoveryLooks(t) \/ RecoveryUnlinks(t)
  BY <1>1, <1>2 DEF RecoveryLooks, RecoveryUnlinks
<1>3. CASE LockCreated(t)
  BY <1>1, <1>3 DEF LockCreated, Ends, AtRest
<1>4. CASE PayloadWritten(t) \/ PayloadFails(t)
  BY <1>1, <1>4 DEF PayloadWritten, PayloadFails, Ends, AtRest
<1>5. CASE StartFails(t) \/ ContextIsGone(t)
  BY <1>1, <1>5 DEF StartFails, ContextIsGone, Ends, AtRest
<1>6. CASE GatesAsked(t) \/ \E yes \in BOOLEAN : ReconcileAsked(t, yes)
  BY <1>1, <1>6 DEF GatesAsked, ReconcileAsked
<1>7. CASE ReleaseLooks(t) \/ ReleaseUnlinks(t)
  BY <1>1, <1>7 DEF ReleaseLooks, ReleaseUnlinks
<1>8. CASE CommandDies(t)
  BY <1>1, <1>8 DEF CommandDies, Ends, AtRest
<1>9. CASE AgentDies(t)
  BY <1>9 DEF AgentDies, Quiet
<1>10. CASE FinishAsked(t, FALSE)
  BY <1>1, <1>10 DEF FinishAsked, AtRest
<1>11. QED
  BY <1>2, <1>3, <1>4, <1>5, <1>6, <1>7, <1>8, <1>9, <1>10

\* No context, no edit: the rows of evidence that steps write are rows.
LEMMA ContextRows ==
  /\ NoContext \in ContextRow
  /\ \A row \in ContextRow :
       /\ row.affected \subseteq File
       /\ [row EXCEPT !.undecided = FALSE] \in ContextRow
       /\ \A files \in SUBSET File, r \in {"NOT_RUN", "PASS", "FAIL"}, recorded \in SUBSET File :
            /\ [row EXCEPT !.reconciled = r, !.recorded = recorded] \in ContextRow
            /\ [row EXCEPT !.affected = @ \cup (files \cap Routable), !.reconciled = r,
                           !.recorded = recorded] \in ContextRow
<1>1. NoContext \in ContextRow
  BY DEF NoContext, ContextRow
<1>2. ASSUME NEW row \in ContextRow
      PROVE /\ row.affected \subseteq File
            /\ [row EXCEPT !.undecided = FALSE] \in ContextRow
            /\ \A files \in SUBSET File, r \in {"NOT_RUN", "PASS", "FAIL"}, recorded \in SUBSET File :
                 /\ [row EXCEPT !.reconciled = r, !.recorded = recorded] \in ContextRow
                 /\ [row EXCEPT !.affected = @ \cup (files \cap Routable), !.reconciled = r,
                                !.recorded = recorded] \in ContextRow
  BY DEF ContextRow
<1>3. QED
  BY <1>1, <1>2

\* Someone edits a file.
LEMMA EditKeeps ==
  ASSUME GateInv, NEW f \in File, Edit(f)
  PROVE Evidence' /\ NoneLetGo
<1>1. touched' \in [Task -> SUBSET File] /\ content' \in Contents
  BY DEF Edit, GateInv, Evidence, Contents
<1>2. ChangesAreCovered'
  BY DEF Edit, GateInv, Evidence, ChangesAreCovered
<1>3. ReportsAreWhole' /\ NoneLetGo
  BY DEF Edit, GateInv, Evidence, ReportsAreWhole, NoneLetGo
<1>4. QED
  BY <1>1, <1>2, <1>3 DEF Edit, GateInv, Evidence

\* A start takes away what dead agents have left, commands of theirs at work or not.
LEMMA StartAskedKeeps ==
  ASSUME GateInv, NEW t \in Task, StartAsked(t)
  PROVE Evidence' /\ NoneLetGo
<1>1. /\ cmd[t].op = "rest" /\ cmd'[t].op = "recovering"
      /\ \A u \in Task \ {t} : cmd'[u] = cmd[u]
  BY DoEffect DEF StartAsked, AtRest, GateInv, Inv
<1>2. PICK gone \in SUBSET Task :
        /\ ctx' = [u \in Task |-> IF u \in gone THEN NoContext ELSE ctx[u]]
        /\ report' = [u \in Task |-> IF u \in gone THEN NoReport ELSE report[u]]
  BY DEF StartAsked
<1>3. ctx' \in [Task -> ContextRow] /\ DOMAIN report' = Task
  BY <1>2, ContextRows DEF GateInv, Evidence
<1>4. \A u \in Task : \/ ctx'[u] = ctx[u] /\ report'[u] = report[u]
                      \/ ctx'[u] = NoContext /\ report'[u] = NoReport
  BY <1>2
<1>5. ReportsAreWhole'
  BY <1>1, <1>4 DEF GateInv, Evidence, ReportsAreWhole, NoReport
<1>6. ChangesAreCovered'
  <2>1. ~NoReport.pass
    BY DEF NoReport
  <2>2. QED
    BY <1>1, <1>4, <2>1 DEF StartAsked, GateInv, Evidence, ChangesAreCovered
<1>7. QED
  BY <1>1, <1>3, <1>5, <1>6 DEF StartAsked, GateInv, Evidence, NoneLetGo

\* The snapshot and the scan of a start, a decision, a reconciliation, the end of a task: the
\* evidence of t changes while t has no run and no success under way.
LEMMA OwnEvidenceKeeps ==
  ASSUME GateInv, NEW t \in Task,
         ctx' \in [Task -> ContextRow], touched' \in [Task -> SUBSET File], UNCHANGED content,
         DOMAIN report' = Task, ~report'[t].pass \/ UNCHANGED report,
         \A u \in Task \ {t} : /\ ctx'[u] = ctx[u] /\ report'[u] = report[u]
                               /\ touched'[u] = touched[u] /\ cmd'[u] = cmd[u],
         cmd'[t].op \notin {"gating", "closing", "confirming"},
         cmd[t].op # "confirming"
  PROVE Evidence' /\ NoneLetGo
<1>1. ReportsAreWhole'
  BY DEF GateInv, Evidence, ReportsAreWhole
<1>2. ChangesAreCovered'
  BY DEF GateInv, Evidence, ChangesAreCovered
<1>3. QED
  BY <1>1, <1>2 DEF GateInv, Evidence, NoneLetGo

\* The steps of that kind.
LEMMA OwnEvidenceSteps ==
  ASSUME GateInv, NEW t \in Task,
         SnapshotTaken(t) \/ Scanned(t) \/ Resolve(t) \/ ReconcileRound(t) \/ DirectoryRemoved(t)
  PROVE Evidence' /\ NoneLetGo
<1>0. /\ ctx \in [Task -> ContextRow] /\ touched \in [Task -> SUBSET File] /\ DOMAIN report = Task
      /\ DOMAIN cmd = Task
  BY DEF GateInv, Evidence, Inv, Shape
<1>1. ASSUME NEW command, Do(t, command)
      PROVE cmd'[t] = command /\ \A u \in Task \ {t} : cmd'[u] = cmd[u]
  BY <1>1, DoEffect DEF GateInv, Inv
<1>2. CASE SnapshotTaken(t)
  BY <1>0, <1>1, <1>2, OwnEvidenceKeeps DEF SnapshotTaken
<1>3. CASE Scanned(t)
  <2>1. PICK request \in Requests(t) :
          ctx' = [ctx EXCEPT ![t] =
                    [affected |-> request.affected, undecided |-> request.undecided,
                     reconciled |-> "NOT_RUN", recorded |-> {}]]
    BY <1>3 DEF Scanned
  <2>2. request.affected \subseteq File /\ request.undecided \in BOOLEAN
    BY GovernanceAssumption DEF Requests
  <2>3. ctx' \in [Task -> ContextRow] /\ \A u \in Task \ {t} : ctx'[u] = ctx[u]
    BY <1>0, <2>1, <2>2 DEF ContextRow
  <2>4. /\ cmd[t].op = "scanned" /\ cmd'[t].op = "rest"
        /\ \A u \in Task \ {t} : cmd'[u] = cmd[u]
        /\ UNCHANGED <<touched, content, report>>
    BY <1>1, <1>3 DEF Scanned, Ends, AtRest
  <2>5. QED
    BY <1>0, <2>3, <2>4, OwnEvidenceKeeps
<1>4. CASE Resolve(t)
  <2>1. ctx' = [ctx EXCEPT ![t] = [ctx[t] EXCEPT !.undecided = FALSE]]
    BY <1>4 DEF Resolve
  <2>2. ctx' \in [Task -> ContextRow] /\ \A u \in Task \ {t} : ctx'[u] = ctx[u]
    BY <1>0, <2>1, ContextRows
  <2>3. /\ UNCHANGED <<cmd, touched, content, report>>
        /\ cmd[t].op = "rest"
    BY <1>4 DEF Resolve, AtRest
  <2>4. QED
    BY <1>0, <2>2, <2>3, OwnEvidenceKeeps
<1>5. CASE ReconcileRound(t)
  <2>1. PICK row \in ContextRow : ctx' = [ctx EXCEPT ![t] = row]
    <3>1. CASE ctx' = [ctx EXCEPT ![t].reconciled = "PASS", ![t].recorded = touched[t]]
      BY <1>0, <3>1, ContextRows
    <3>2. CASE ctx' = [ctx EXCEPT ![t].reconciled = "FAIL", ![t].recorded = touched[t]]
      BY <1>0, <3>2, ContextRows
    <3>3. CASE Expand(t, touched[t] \ ctx[t].affected)
      BY <1>0, <3>3, ContextRows DEF Expand
    <3>4. QED
      BY <1>5, <3>1, <3>2, <3>3 DEF ReconcileRound
  <2>2. ctx' \in [Task -> ContextRow] /\ \A u \in Task \ {t} : ctx'[u] = ctx[u]
    BY <1>0, <2>1
  <2>3. PICK command : Do(t, command) /\ command.op \in {"gates", "reconciling", "rest"}
    BY <1>5 DEF ReconcileRound, Ends, AtRest
  <2>4. QED
    BY <1>0, <1>1, <1>5, <2>2, <2>3, OwnEvidenceKeeps DEF ReconcileRound
<1>6. CASE DirectoryRemoved(t)
  <2>1. ctx' \in [Task -> ContextRow] /\ \A u \in Task \ {t} : ctx'[u] = ctx[u]
    BY <1>0, <1>6, ContextRows DEF DirectoryRemoved
  <2>2. /\ DOMAIN report' = Task /\ ~report'[t].pass
        /\ \A u \in Task \ {t} : report'[u] = report[u]
    BY <1>0, <1>6 DEF DirectoryRemoved, NoReport
  <2>3. QED
    BY <1>0, <1>1, <1>6, <2>1, <2>2, OwnEvidenceKeeps DEF DirectoryRemoved, Ends, AtRest
<1>7. QED
  BY <1>2, <1>3, <1>4, <1>5, <1>6

\* The run of the gates: it begins and goes on with configured gates, and what it reports as
\* passed it has found at its end as at its beginning.
LEMMA GatesKeep ==
  ASSUME GateInv, NEW t \in Task,
         GatesBegin(t) \/ GatesEnd(t) \/ \E g \in Gate : GateRuns(t, g)
  PROVE Evidence' /\ NoneLetGo
<1>0. /\ ctx \in [Task -> ContextRow] /\ DOMAIN report = Task /\ ReportsAreWhole /\ ChangesAreCovered
  BY DEF GateInv, Evidence
<1>1. ASSUME NEW command, Do(t, command)
      PROVE cmd'[t] = command /\ \A u \in Task \ {t} : cmd'[u] = cmd[u]
  BY <1>1, DoEffect DEF GateInv, Inv
<1>2. ASSUME NEW command, Do(t, command), cmd[t].op \in {"gates", "gating"},
             \/ command.op = "rest"
             \/ /\ command.op = "gating" /\ command.left \subseteq Gate
                /\ DOMAIN command.results \subseteq Gate,
             NEW row,
             \/ report' = [report EXCEPT ![t] = row]
             \/ UNCHANGED report /\ row = report[t],
             row.pass => row.gates \subseteq Gate /\ row.ended = row.digest,
             UNCHANGED <<ctx, content, touched>>
      PROVE Evidence' /\ NoneLetGo
  <2>1. /\ DOMAIN report' = Task /\ report'[t] = row
        /\ \A u \in Task \ {t} : report'[u] = report[u]
    BY <1>0, <1>2
  <2>2. /\ cmd'[t] = command
        /\ \A u \in Task \ {t} : cmd'[u] = cmd[u]
    BY <1>1, <1>2
  <2>3. ReportsAreWhole'
    BY <1>0, <1>2, <2>1, <2>2 DEF ReportsAreWhole
  <2>4. ChangesAreCovered'
    BY <1>0, <1>2, <2>1, <2>2 DEF ChangesAreCovered
  <2>5. NoneLetGo
    BY <1>2, <2>2 DEF NoneLetGo
  <2>6. QED
    BY <1>0, <1>2, <2>1, <2>3, <2>4, <2>5 DEF GateInv, Evidence
<1>3. report[t].pass => report[t].gates \subseteq Gate /\ report[t].ended = report[t].digest
  BY <1>0 DEF ReportsAreWhole
<1>4. ASSUME Refused(t), Ends(t), cmd[t].op \in {"gates", "gating"},
             UNCHANGED <<ctx, content, touched>>
      PROVE Evidence' /\ NoneLetGo
  <2>1. PICK row : row = NoReport
    OBVIOUS
  <2>2. ~row.pass /\ report' = [report EXCEPT ![t] = row]
    BY <1>4, <2>1 DEF Refused, NoReport
  <2>3. PICK command : command = AtRest
    OBVIOUS
  <2>4. command.op = "rest" /\ Do(t, command)
    BY <1>4, <2>3 DEF Ends, AtRest
  <2>5. QED
    BY <1>2, <1>4, <2>2, <2>4
<1>5. CASE GatesBegin(t)
  <2>1. CASE Refused(t) /\ Ends(t)
    BY <1>5, <1>4, <2>1 DEF GatesBegin
  <2>2. CASE ~(Refused(t) /\ Ends(t))
    <3>1. PICK command : command = [op |-> "gating", digest |-> Digest(ctx[t].affected),
                          results |-> [g \in {} |-> FALSE], left |-> Required(ctx[t].affected)]
      OBVIOUS
    <3>2. Do(t, command) /\ UNCHANGED report
      BY <1>5, <2>2, <3>1 DEF GatesBegin
    <3>3. command.left \subseteq Gate
      <4>1. ctx[t].affected \subseteq File
        BY <1>0 DEF ContextRow
      <4>2. QED
        BY <3>1, <4>1, GovernanceAssumption DEF Required
    <3>4. command.op = "gating" /\ DOMAIN command.results \subseteq Gate
      BY <3>1
    <3>5. QED
      BY <1>2, <1>3, <1>5, <3>2, <3>3, <3>4 DEF GatesBegin
  <2>3. QED
    BY <2>1, <2>2
<1>6. CASE GatesEnd(t)
  <2>1. DOMAIN cmd[t].results \subseteq Gate
    BY <1>0, <1>6 DEF GatesEnd, ReportsAreWhole
  <2>2. CASE Refused(t)
    BY <1>6, <1>4, <2>2 DEF GatesEnd
  <2>3. CASE ~Refused(t)
    <3>1. PICK row : row = [pass |-> TRUE, gates |-> DOMAIN cmd[t].results,
                            digest |-> cmd[t].digest, ended |-> Digest(DOMAIN cmd[t].digest)]
      OBVIOUS
    <3>2. report' = [report EXCEPT ![t] = row] /\ ~RunIsStale(cmd[t])
      BY <1>6, <2>3, <3>1 DEF GatesEnd
    <3>3. row.gates \subseteq Gate /\ row.ended = row.digest
      BY <2>1, <3>1, <3>2 DEF RunIsStale
    <3>4. PICK command : command.op = "rest" /\ Do(t, command)
      BY <1>6 DEF GatesEnd, Ends, AtRest
    <3>5. QED
      BY <1>2, <1>6, <3>2, <3>3, <3>4 DEF GatesEnd
  <2>4. QED
    BY <2>2, <2>3
<1>7. ASSUME NEW g \in Gate, GateRuns(t, g)
      PROVE Evidence' /\ NoneLetGo
  <2>1. PICK passed \in BOOLEAN :
          Do(t, [op |-> "gating", digest |-> cmd[t].digest, left |-> cmd[t].left \ {g},
                 results |-> [h \in DOMAIN cmd[t].results \cup {g} |->
                                IF h = g THEN passed ELSE cmd[t].results[h]]])
    BY <1>7 DEF GateRuns
  <2>2. PICK command :
          command = [op |-> "gating", digest |-> cmd[t].digest, left |-> cmd[t].left \ {g},
                     results |-> [h \in DOMAIN cmd[t].results \cup {g} |->
                                    IF h = g THEN passed ELSE cmd[t].results[h]]]
    OBVIOUS
  <2>3. cmd[t].left \subseteq Gate /\ DOMAIN cmd[t].results \subseteq Gate
    BY <1>0, <1>7 DEF GateRuns, ReportsAreWhole
  <2>4. /\ command.op = "gating" /\ command.left \subseteq Gate
        /\ DOMAIN command.results \subseteq Gate
    BY <2>2, <2>3
  <2>5. QED
    BY <1>2, <1>3, <1>7, <2>1, <2>2, <2>4 DEF GateRuns
<1>8. QED
  BY <1>5, <1>6, <1>7

\* The finish of a success: what has changed against the context, then the report.
LEMMA FinishKeeps ==
  ASSUME GateInv, NEW t \in Task, FinishAsked(t, TRUE) \/ ChecksReconciled(t) \/ ChecksReport(t)
  PROVE /\ Evidence'
        /\ \A u \in Task \ {t} : cmd'[u] = cmd[u]
        /\ ChecksReport(t) \/ NoneLetGo
<1>0. ReportsAreWhole /\ ChangesAreCovered
  BY DEF GateInv, Evidence
<1>1. ASSUME NEW command, Do(t, command)
      PROVE cmd'[t] = command /\ \A u \in Task \ {t} : cmd'[u] = cmd[u]
  BY <1>1, DoEffect DEF GateInv, Inv
<1>2. ASSUME NEW command, Do(t, command), UNCHANGED <<ctx, report, content, touched>>,
             command.op # "gating",
             command.op = "confirming" => command.changed \subseteq ctx[t].affected
      PROVE Evidence' /\ \A u \in Task \ {t} : cmd'[u] = cmd[u]
  <2>1. ReportsAreWhole'
    BY <1>0, <1>1, <1>2 DEF ReportsAreWhole
  <2>2. ChangesAreCovered'
    BY <1>0, <1>1, <1>2 DEF ChangesAreCovered
  <2>3. QED
    BY <1>1, <1>2, <2>1, <2>2 DEF GateInv, Evidence
<1>3. CASE FinishAsked(t, TRUE)
  BY <1>1, <1>2, <1>3 DEF FinishAsked, NoneLetGo
<1>4. CASE ChecksReconciled(t)
  <2>1. CASE Ends(t)
    BY <1>1, <1>2, <1>4, <2>1 DEF ChecksReconciled, Ends, AtRest, NoneLetGo
  <2>2. CASE ~Ends(t)
    <3>1. touched[t] \subseteq ctx[t].affected
      BY <1>4, <2>2 DEF ChecksReconciled, Current
    <3>2. Do(t, [op |-> "confirming", changed |-> touched[t]])
      BY <1>4, <2>2 DEF ChecksReconciled
    <3>3. QED
      BY <1>1, <1>2, <1>4, <3>1, <3>2 DEF ChecksReconciled, NoneLetGo
  <2>3. QED
    BY <2>1, <2>2
<1>5. CASE ChecksReport(t)
  <2>1. PICK command : Do(t, command) /\ command.op \in {"releasing", "rest"}
    BY <1>5 DEF ChecksReport, Ends, AtRest
  <2>2. QED
    BY <1>2, <1>5, <2>1 DEF ChecksReport
<1>6. QED
  BY <1>3, <1>4, <1>5

\* What a success was checked against.
Gated(t) ==
  LET files == ctx[t].affected IN
  /\ cmd[t].changed \subseteq files
  /\ Required(files) \subseteq report[t].gates
  /\ \A f \in files : /\ f \in DOMAIN report[t].ended
                      /\ report[t].digest[f] = content[f]
                      /\ report[t].ended[f] = content[f]

\* What ChecksReport confirms is gated.
LEMMA ReleasedIsGated ==
  ASSUME GateInv, NEW t \in Task, ChecksReport(t), cmd'[t].op = "releasing"
  PROVE Gated(t)
<1>1. /\ cmd[t].op = "confirming"
      /\ Confirmed(t)
  <2>1. ASSUME Ends(t) PROVE FALSE
    BY <2>1, DoEffect DEF Ends, AtRest, GateInv, Inv
  <2>2. QED
    BY <2>1 DEF ChecksReport
<1>2. report[t].pass /\ report[t].ended = report[t].digest
  BY <1>1 DEF Confirmed, GateInv, Evidence, ReportsAreWhole
<1>3. cmd[t].changed \subseteq ctx[t].affected
  BY <1>1, <1>2 DEF GateInv, Evidence, ChangesAreCovered
<1>4. \A f \in ctx[t].affected : f \in DOMAIN report[t].digest /\ report[t].digest[f] = content[f]
  BY <1>1 DEF Confirmed, Digest
<1>5. QED
  BY <1>1, <1>2, <1>3, <1>4 DEF Confirmed, Gated

\* A step keeps the evidence whole, and lets no success go that is not gated.
LEMMA GateStep ==
  ASSUME GateInv, [Next]_vars
  PROVE /\ Evidence'
        /\ \A t \in Task : cmd[t].op = "confirming" /\ cmd'[t].op = "releasing" => Gated(t)
<1> DEFINE Goal ==
      /\ Evidence'
      /\ \A t \in Task : cmd[t].op = "confirming" /\ cmd'[t].op = "releasing" => Gated(t)
<1>1. ASSUME Evidence' /\ NoneLetGo PROVE Goal
  BY <1>1 DEF NoneLetGo
<1>2. ASSUME NEW t \in Task, FinishAsked(t, TRUE) \/ ChecksReconciled(t) \/ ChecksReport(t)
      PROVE Goal
  <2>1. ASSUME NEW u \in Task, cmd[u].op = "confirming", cmd'[u].op = "releasing", ChecksReport(t)
        PROVE Gated(u)
    <3>1. u = t
      BY <1>2, <2>1, FinishKeeps
    <3>2. QED
      BY <2>1, <3>1, ReleasedIsGated
  <2>2. QED
    BY <1>1, <1>2, <2>1, FinishKeeps
<1>3. ASSUME UNCHANGED vars PROVE Goal
  BY <1>3 DEF vars, GateInv, Evidence, ReportsAreWhole, ChangesAreCovered
<1> HIDE DEF Goal
<1>4. ASSUME NEW t \in Task, Quiet(t) PROVE Goal
  BY <1>1, <1>4, QuietKeeps
<1>5. ASSUME NEW t \in Task,
             \/ StartAsked(t) \/ RecoveryLooks(t) \/ RecoveryUnlinks(t) \/ LockCreated(t)
             \/ PayloadWritten(t) \/ PayloadFails(t) \/ SnapshotTaken(t) \/ Scanned(t)
             \/ StartFails(t) \/ Resolve(t) \/ ReconcileRound(t) \/ ContextIsGone(t)
             \/ GatesAsked(t) \/ GatesBegin(t) \/ GatesEnd(t)
             \/ ChecksReconciled(t) \/ ChecksReport(t)
             \/ ReleaseLooks(t) \/ ReleaseUnlinks(t) \/ DirectoryRemoved(t)
             \/ CommandDies(t) \/ AgentDies(t)
             \/ (\E yes \in BOOLEAN : ReconcileAsked(t, yes) \/ FinishAsked(t, yes))
             \/ (\E g \in Gate : GateRuns(t, g))
      PROVE Goal
  BY <1>1, <1>2, <1>4, <1>5, QuietSteps, StartAskedKeeps, OwnEvidenceSteps, GatesKeep
<1>6. ASSUME NEW f \in File, Edit(f) PROVE Goal
  BY <1>1, <1>6, EditKeeps
<1>7. Goal
  <2>1. Next \/ UNCHANGED vars
    OBVIOUS
  <2>2. ASSUME Next PROVE Goal
    BY <1>5, <1>6, <2>2 DEF Next
  <2>3. QED
    BY <1>3, <2>1, <2>2
<1>8. QED
  BY <1>7 DEF Goal

\* The evidence is whole, whoever edits and whatever dies.
LEMMA GateInvariant == Spec => []GateInv
<1>1. Init => Evidence
  <2> SUFFICES ASSUME Init PROVE Evidence
    OBVIOUS
  <2>1. /\ \A t \in Task : cmd[t].op = "rest" /\ ~report[t].pass
        /\ ctx \in [Task -> ContextRow]
    BY ContextRows DEF Init, AtRest, NoReport
  <2>2. QED
    BY <2>1 DEF Init, Evidence, ReportsAreWhole, ChangesAreCovered, Contents
<1>2. GateInv /\ Inv' /\ [Next]_vars => GateInv'
  BY GateStep DEF GateInv
<1>3. QED
  BY <1>1, <1>2, Invariant, PTL DEF Spec, GateInv

-----------------------------------------------------------------------------
(* Theorems *)

\* WriterHoldsLock: a started task whose agent lives has the lock to itself, however starts,
\* recoveries, failures and deaths interleave - until somebody releases a lock for a dead agent.
THEOREM OneWriter == Spec => []WriterHoldsLock
<1>1. Inv => WriterHoldsLock
  BY DEF Inv, Held, WriterHoldsLock
<1>2. QED
  BY <1>1, Invariant, PTL

\* While no such release has happened, two living agents are never both at work on the
\* workspace.
THEOREM WritersExclude ==
  Spec => [](~raced => \A t, u \in writing : alive[t] /\ alive[u] => t = u)
<1>1. Inv => (~raced => \A t, u \in writing : alive[t] /\ alive[u] => t = u)
  <2> SUFFICES ASSUME Inv, ~raced, NEW t \in writing, NEW u \in writing, alive[t], alive[u]
               PROVE t = u
    OBVIOUS
  <2>1. [by |-> t, written |-> TRUE] = [by |-> u, written |-> TRUE]
    BY DEF Inv, Held
  <2>2. [by |-> t, written |-> TRUE].by = t /\ [by |-> u, written |-> TRUE].by = u
    OBVIOUS
  <2>3. QED
    BY <2>1, <2>2
<1>2. QED
  BY <1>1, Invariant, PTL

\* SuccessIsGated: a task let go as a success had its gates pass in one run, on the content its
\* files have now, and no file that finish found changed is outside them - whoever edits, dies or
\* cleans up in between.
THEOREM SuccessesAreGated == Spec => SuccessIsGated
<1>1. GateInv /\ [Next]_vars =>
        [\A t \in Task :
           (cmd[t].op = "confirming" /\ cmd'[t].op = "releasing") =>
             LET files == ctx[t].affected IN
             /\ cmd[t].changed \subseteq files
             /\ Required(files) \subseteq report[t].gates
             /\ \A f \in files : /\ f \in DOMAIN report[t].ended
                                 /\ report[t].digest[f] = content[f]
                                 /\ report[t].ended[f] = content[f]]_vars
  BY GateStep DEF Gated
<1>2. QED
  BY <1>1, GateInvariant, PTL DEF Spec, SuccessIsGated

\* Every variable keeps its type, and the mutex is its holder's.
THEOREM GovernanceTypes == Spec => []TypeOK
<1>1. GateInv => TypeOK
  BY DEF GateInv, Evidence, ReportsAreWhole, Inv, Shape, TypeOK
<1>2. QED
  BY <1>1, GateInvariant, PTL
===============================================================================
