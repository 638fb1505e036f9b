---------------------------- MODULE AIExploration ----------------------------
(***************************************************************************)
(* The Browser Loop of an AI exploration session, on top of the execution  *)
(* it holds: start, the run() thread that the API schedules after start    *)
(* commits, cancellation with its three stages, and their failures         *)
(* (ai_exploration_service.py, ai_exploration_router.py).                  *)
(*                                                                         *)
(* run() alternates database transactions with calls that hold no lock: to *)
(* the bound Runner's browser and to the model.  Every transaction and     *)
(* every call is a step of its own, so cancellation, the commands of       *)
(* ExecutionBinding, expiry and crashes come between any two of them.      *)
(*                                                                         *)
(* A session's current_observation_id is written only together with a new  *)
(* row_version, so the comparisons of both are one comparison here.  The   *)
(* expected_row_version of start and cancel is left out: a client may have *)
(* read the row just before, and a request that has not changes nothing.   *)
(***************************************************************************)
EXTENDS ExecutionBinding

CONSTANTS
  Session,      \* sessions with an accepted plan, READY to start
  Request,      \* cancel requests the API can be serving at a time
  MaxSteps,     \* the frozen step limit of the runtime policy
  NoAttempt,    \* execution_attempt_id of a session that has not started
  Crashes       \* whether an API worker may die in the middle of its work

ASSUME ExplorationAssumption ==
  /\ MaxSteps \in Nat \ {0}
  /\ NoAttempt \notin Attempt
  /\ Crashes \in BOOLEAN

VARIABLES
  session,      \* AIExplorationSession
  step,         \* AIExplorationStep.status, by session and sequence
  loop,         \* the thread of run()
  request,      \* cancel requests: where each is with each session
  browser,      \* the browser of a session on its Runner
  published,    \* the terminal outbox event of a session
  cleanup       \* the browser cleanup audit of a session

exploration == <<session, step, loop, request, browser, published, cleanup>>
allVars == <<vars, exploration>>

Terminal == {"SUCCEEDED", "FAILED", "CANCELLED"}

\* late: total_deadline_at has passed.  hasBrowser: browser_session_id is set.
SessionRow == [status : {"READY", "RUNNING"} \cup Terminal,
               attempt : Attempt \cup {NoAttempt},
               version : Nat,
               hasBrowser : BOOLEAN,
               sequence : 0 .. MaxSteps,
               late : BOOLEAN]

StepStatus ==
  {"NONE", "DECIDING", "EXECUTING", "COMPLETION_PROPOSED", "SUCCEEDED", "FAILED", "DISCARDED"}

Unfinished == {"DECIDING", "EXECUTING"}

\* What run() does next: a transaction, a call, or how it ends.
CallAt == {"STARTING", "DECIDING", "EXECUTING", "OWNING", "OBSERVING"}
TransactionAt == {"SCHEDULED", "ACCEPTING", "PREPARING", "RESPONDING", "FINISHING",
                  "FINISHING_FAILED", "COMPLETING", "REOBSERVING"}
EndingAt == {"FAILING", "FAILING_EARLY", "CLOSING", "CLOSED", "CLOSE_FAILED"}

\* goal: the decision taken is goal_completed.  blame: _fail_running is given the step_id.
\* browser: the local browser_session_id, which the finally block tests.
Loop == [pc : {"NONE", "DONE", "DEAD"} \cup CallAt \cup TransactionAt \cup EndingAt,
         version : Nat, goal : BOOLEAN, blame : BOOLEAN, browser : BOOLEAN]

XTypeOK ==
  /\ TypeOK
  /\ session \in [Session -> SessionRow]
  /\ step \in [Session -> [1 .. MaxSteps -> StepStatus]]
  /\ loop \in [Session -> Loop]
  /\ request \in [Request -> [Session -> {"IDLE", "CLOSING", "FINALIZING"}]]
  /\ browser \in [Session -> {"ABSENT", "OPEN", "CLOSED"}]
  /\ published \in [Session -> {"NONE"} \cup Terminal]
  /\ cleanup \in [Session -> {"NONE", "SUCCEEDED", "FAILED"}]

XInit ==
  /\ Init
  /\ session = [x \in Session |-> [status |-> "READY", attempt |-> NoAttempt, version |-> 0,
                                   hasBrowser |-> FALSE, sequence |-> 0, late |-> FALSE]]
  /\ step = [x \in Session |-> [n \in 1 .. MaxSteps |-> "NONE"]]
  /\ loop = [x \in Session |-> [pc |-> "NONE", version |-> 0, goal |-> FALSE,
                                blame |-> FALSE, browser |-> FALSE]]
  /\ request = [q \in Request |-> [x \in Session |-> "IDLE"]]
  /\ browser = [x \in Session |-> "ABSENT"]
  /\ published = [x \in Session |-> "NONE"]
  /\ cleanup = [x \in Session |-> "NONE"]

-----------------------------------------------------------------------------
(* Shared by the transactions of the loop *)

Running(x) == session[x].status = "RUNNING"

\* _locked_running: the session runs, and the command rebuilt from the locked binding, leases
\* and attempt is the one the loop was given.
Locked(x) == Running(x) /\ CommandHolds(session[x].attempt)

\* The row is as the loop last wrote it.
Fresh(x) == session[x].version = loop[x].version

Goto(x, pc) == loop' = [loop EXCEPT ![x].pc = pc]

\* Mutated Raise: the exception is swallowed on the way to the finally block.
RaiseSwallowed(x) == Goto(x, "CLOSING") /\ UNCHANGED <<session, step>>

\* The exception leaves run()'s loop for its except clause, without a step_id.
Raise(x) == Goto(x, "FAILING") /\ UNCHANGED <<session, step>>

\* A transaction writes the row with its next version, which it returns to the loop.
Advance(x, row, pc) ==
  /\ session' = [session EXCEPT ![x] = [row EXCEPT !.version = session[x].version + 1]]
  /\ loop' = [loop EXCEPT ![x].pc = pc, ![x].version = session[x].version + 1]

SetStep(x, s) == step' = [step EXCEPT ![x][session[x].sequence] = s]

CurrentStep(x) == step[x][session[x].sequence]

\* _append_event.  Only the events that tell of an end are kept; the numbers are left out, for
\* whoever ends a session holds its row.
Publish(x, outcome) == published' = [published EXCEPT ![x] = outcome]

Open == Unfinished \cup {"COMPLETION_PROPOSED"}

\* _discard_step
Discard(x) == IF CurrentStep(x) \in Open THEN SetStep(x, "DISCARDED") ELSE UNCHANGED step

-----------------------------------------------------------------------------
(* Start *)

\* start: one attempt, bound and READY, goes into execution with the session; run() is
\* scheduled once this has committed.
Start(x, a) ==
  /\ session[x].status = "READY"
  /\ StartExecution(a)
  /\ session' = [session EXCEPT ![x].status = "RUNNING", ![x].attempt = a,
                                ![x].version = session[x].version + 1]
  /\ Goto(x, "SCHEDULED")
  /\ UNCHANGED <<step, request, browser, published, cleanup>>

-----------------------------------------------------------------------------
(* run() *)

\* _load_runtime_snapshot; the frozen model may also no longer resolve.
LoadRuntimeSnapshot(x) ==
  /\ loop[x].pc = "SCHEDULED"
  /\ \/ Locked(x) /\ Goto(x, "STARTING")
     \/ Goto(x, "FAILING_EARLY")
  /\ UNCHANGED <<vars, session, step, request, browser, published, cleanup>>

\* _browser_runtime.start, and _safe_observation of what it answers.  When the observation is
\* refused the browser is open and browser_session_id still None.
StartBrowser(x) ==
  /\ loop[x].pc = "STARTING"
  /\ \/ /\ browser' = [browser EXCEPT ![x] = "OPEN"]
        /\ loop' = [loop EXCEPT ![x].pc = "ACCEPTING", ![x].browser = TRUE]
     \/ /\ browser' = [browser EXCEPT ![x] = "OPEN"]
        /\ Goto(x, "FAILING")
     \/ /\ Goto(x, "FAILING")
        /\ UNCHANGED browser
  /\ UNCHANGED <<vars, session, step, request, published, cleanup>>

\* _accept_initial_observation
AcceptInitialObservation(x) ==
  /\ loop[x].pc = "ACCEPTING"
  /\ IF Locked(x) /\ ~session[x].late /\ ~session[x].hasBrowser
     THEN /\ Advance(x, [session[x] EXCEPT !.hasBrowser = TRUE], "PREPARING")
          /\ UNCHANGED step
     ELSE Raise(x)
  /\ UNCHANGED <<vars, request, browser, published, cleanup>>

StepsLeft(x) == session[x].sequence < MaxSteps

\* _prepare_step; on a stale version run() just returns.
PrepareStep(x) ==
  /\ loop[x].pc = "PREPARING"
  /\ \/ /\ Locked(x) /\ Fresh(x) /\ ~session[x].late /\ StepsLeft(x)
        /\ Advance(x, [session[x] EXCEPT !.sequence = session[x].sequence + 1], "DECIDING")
        /\ step' = [step EXCEPT ![x][session[x].sequence + 1] = "DECIDING"]
     \/ /\ Locked(x) /\ ~Fresh(x)
        /\ Goto(x, "CLOSING")
        /\ UNCHANGED <<session, step>>
     \/ /\ Locked(x) => Fresh(x) /\ (session[x].late \/ ~StepsLeft(x))
        /\ Raise(x)
  /\ UNCHANGED <<vars, request, browser, published, cleanup>>

\* _decide_with_retry and the validation of the answer.
Decide(x) ==
  /\ loop[x].pc = "DECIDING"
  /\ \/ \E goal \in BOOLEAN : loop' = [loop EXCEPT ![x].pc = "RESPONDING", ![x].goal = goal]
     \/ loop' = [loop EXCEPT ![x].pc = "FAILING", ![x].blame = TRUE]
  /\ UNCHANGED <<vars, session, step, request, browser, published, cleanup>>

\* _accept_action; it raises, or discards a stale answer and run() returns.
AcceptAction(x) ==
  /\ loop[x].pc = "RESPONDING"
  /\ \/ /\ Locked(x) /\ ~session[x].late /\ Fresh(x) /\ CurrentStep(x) = "DECIDING"
        /\ SetStep(x, IF loop[x].goal THEN "COMPLETION_PROPOSED" ELSE "EXECUTING")
        /\ Advance(x, session[x], IF loop[x].goal THEN "OWNING" ELSE "EXECUTING")
     \/ /\ Locked(x) /\ ~session[x].late /\ ~(Fresh(x) /\ CurrentStep(x) = "DECIDING")
        /\ IF Fresh(x) THEN UNCHANGED step ELSE Discard(x)
        /\ Goto(x, "CLOSING")
        /\ UNCHANGED session
     \/ ~(Locked(x) /\ ~session[x].late) /\ Raise(x)
  /\ UNCHANGED <<vars, request, browser, published, cleanup>>

\* _browser_runtime.execute; after an exception, _browser_runtime.observe.
Execute(x) ==
  /\ loop[x].pc = "EXECUTING"
  /\ \/ browser[x] = "OPEN" /\ Goto(x, "FINISHING")
     \/ browser[x] = "OPEN" /\ Goto(x, "FINISHING_FAILED")
     \/ Goto(x, "FAILING")
  /\ UNCHANGED <<vars, session, step, request, browser, published, cleanup>>

\* The transaction of _finish_step and of _finish_failed_action.  A step discarded before it
\* raises is rolled back.
Conclude(x, s) ==
  /\ IF Locked(x) /\ ~session[x].late /\ Fresh(x) /\ CurrentStep(x) = "EXECUTING"
     THEN SetStep(x, s) /\ Advance(x, session[x], "PREPARING")
     ELSE Raise(x)
  /\ UNCHANGED <<vars, request, browser, published, cleanup>>

FinishStep(x) == loop[x].pc = "FINISHING" /\ Conclude(x, "SUCCEEDED")

FinishFailedAction(x) == loop[x].pc = "FINISHING_FAILED" /\ Conclude(x, "FAILED")

\* _browser_runtime.owns, before a completion is tried.
CheckOwns(x) ==
  /\ loop[x].pc = "OWNING"
  /\ \/ browser[x] = "OPEN" /\ Goto(x, "COMPLETING")
     \/ Goto(x, "FAILING")
  /\ UNCHANGED <<vars, session, step, request, browser, published, cleanup>>

\* Another step of the session is still open.
Pending(x) ==
  \E n \in 1 .. MaxSteps : /\ n # session[x].sequence
                           /\ step[x][n] \in Open

\* What _complete_running asks of the proposal before it looks at its evidence.
Completable(x) == Fresh(x) /\ CurrentStep(x) = "COMPLETION_PROPOSED" /\ ~Pending(x)

\* _complete_running.  grounded is what _completion_grounded finds of the proposal.
CompleteRunning(x, grounded) ==
  /\ loop[x].pc = "COMPLETING"
  /\ \/ /\ Locked(x) /\ ~session[x].late /\ Completable(x) /\ grounded
        /\ session' = [session EXCEPT ![x].status = "SUCCEEDED",
                                      ![x].version = session[x].version + 1]
        /\ EndExecution(session[x].attempt, "SUCCEEDED")
        /\ Publish(x, "SUCCEEDED")
        /\ Goto(x, "CLOSING")
        /\ UNCHANGED step
     \/ /\ Locked(x) /\ ~session[x].late /\ Completable(x) /\ ~grounded
        /\ SetStep(x, "FAILED")
        /\ Advance(x, session[x], "OBSERVING")
        /\ UNCHANGED <<vars, published>>
     \/ /\ Locked(x) /\ ~session[x].late /\ ~Completable(x)
        /\ IF Fresh(x) /\ CurrentStep(x) # "COMPLETION_PROPOSED" THEN UNCHANGED step ELSE Discard(x)
        /\ loop' = [loop EXCEPT ![x].pc = "OBSERVING", ![x].version = session[x].version]
        /\ UNCHANGED <<vars, session, published>>
     \/ /\ ~(Locked(x) /\ ~session[x].late)
        /\ Raise(x)
        /\ UNCHANGED <<vars, published>>
  /\ UNCHANGED <<request, browser, cleanup>>

\* _browser_runtime.observe, after a rejected completion.
Observe(x) ==
  /\ loop[x].pc = "OBSERVING"
  /\ \/ browser[x] = "OPEN" /\ Goto(x, "REOBSERVING")
     \/ Goto(x, "FAILING")
  /\ UNCHANGED <<vars, session, step, request, browser, published, cleanup>>

\* _accept_reobservation
AcceptReobservation(x) ==
  /\ loop[x].pc = "REOBSERVING"
  /\ IF Locked(x) /\ Fresh(x) /\ session[x].hasBrowser /\ ~session[x].late
     THEN Advance(x, session[x], "PREPARING") /\ UNCHANGED step
     ELSE Raise(x)
  /\ UNCHANGED <<vars, request, browser, published, cleanup>>

\* Any of these transactions may also raise for what this module leaves out: login facts
\* changed since the binding, a document the sanitizer or the URL check refuses, a secret that
\* does not decrypt.  From _finish_step most of it is taken for a failed action.
TransactionRaises(x) ==
  /\ loop[x].pc \in TransactionAt \ {"SCHEDULED"}
  /\ \/ Goto(x, "FAILING")
     \/ loop[x].pc = "FINISHING" /\ browser[x] = "OPEN" /\ Goto(x, "FINISHING_FAILED")
  /\ UNCHANGED <<vars, session, step, request, browser, published, cleanup>>

-----------------------------------------------------------------------------
(* How run() ends *)

\* Mutated FailSession: the execution is not ended with the session.
FailSessionOnly(x) ==
  IF Running(x)
  THEN /\ session' = [session EXCEPT ![x].status = "FAILED",
                                     ![x].version = session[x].version + 1]
       /\ Publish(x, "FAILED")
       /\ UNCHANGED vars
  ELSE UNCHANGED <<vars, session, published>>

\* Mutated FailSession: both owners complete, but the binding and its leases stay.
FailSessionKeepingLeases(x) ==
  IF Running(x)
  THEN /\ session' = [session EXCEPT ![x].status = "FAILED",
                                     ![x].version = session[x].version + 1]
       /\ Publish(x, "FAILED")
       /\ attempt' = [attempt EXCEPT ![session[x].attempt] =
                         [lifecycle |-> "COMPLETED", status |-> "FAILED"]]
       /\ task' = [task EXCEPT ![TaskOf[session[x].attempt]] =
                      [lifecycle |-> "COMPLETED", result |-> "FAILED"]]
       /\ UNCHANGED <<binding, lease, generation, runner, view>>
  ELSE UNCHANGED <<vars, session, published>>

\* Mutated FailSession: only a session whose command still holds may fail.
FailSessionLocked(x) ==
  IF Locked(x)
  THEN /\ session' = [session EXCEPT ![x].status = "FAILED",
                                     ![x].version = session[x].version + 1]
       /\ EndExecution(session[x].attempt, "FAILED")
       /\ Publish(x, "FAILED")
  ELSE UNCHANGED <<vars, session, published>>

\* Mutated FailSession: a cancelled session whose execution is still there fails as well.
FailSessionOwning(x) ==
  IF attempt[session[x].attempt].lifecycle = "RUNNING"
  THEN /\ EndExecution(session[x].attempt, "FAILED")
       /\ session' = [session EXCEPT ![x].version = session[x].version + 1,
                 ![x].status = IF Running(x) THEN "FAILED" ELSE session[x].status]
       /\ Publish(x, "FAILED")
  ELSE UNCHANGED <<vars, session, published>>

\* A session that is no longer RUNNING is left alone.
FailSession(x) ==
  IF Running(x)
  THEN /\ session' = [session EXCEPT ![x].status = "FAILED",
                                     ![x].version = session[x].version + 1]
       /\ EndExecution(session[x].attempt, "FAILED")
       /\ Publish(x, "FAILED")
  ELSE UNCHANGED <<vars, session, published>>

\* Mutated AfterFailing: the persisted browser_session_id decides.
AfterFailingByRow(x) == IF session[x].hasBrowser THEN "CLOSING" ELSE "DONE"

\* The finally block closes the browser run() was told of.
AfterFailing(x) == IF loop[x].browser THEN "CLOSING" ELSE "DONE"

\* _fail_running, then the finally block
FailRunning(x) ==
  /\ loop[x].pc = "FAILING"
  /\ FailSession(x)
  /\ IF Running(x) /\ loop[x].blame /\ CurrentStep(x) \in Unfinished
     THEN SetStep(x, "FAILED") ELSE UNCHANGED step
  /\ Goto(x, AfterFailing(x))
  /\ UNCHANGED <<request, browser, cleanup>>

\* _fail_before_runtime
FailBeforeRuntime(x) ==
  /\ loop[x].pc = "FAILING_EARLY"
  /\ FailSession(x)
  /\ Goto(x, "DONE")
  /\ UNCHANGED <<step, request, browser, cleanup>>

Closed(x) == IF browser[x] = "OPEN" THEN [browser EXCEPT ![x] = "CLOSED"] ELSE browser

\* _browser_runtime.close in the finally block
CloseBrowser(x) ==
  /\ loop[x].pc = "CLOSING"
  /\ \/ browser' = Closed(x) /\ Goto(x, "CLOSED")
     \/ Goto(x, "CLOSE_FAILED") /\ UNCHANGED browser
  /\ UNCHANGED <<vars, session, step, request, published, cleanup>>

\* _record_browser_cleanup
RecordCleanup(x) ==
  /\ loop[x].pc \in {"CLOSED", "CLOSE_FAILED"}
  /\ cleanup' = [cleanup EXCEPT ![x] = IF loop[x].pc = "CLOSED" THEN "SUCCEEDED" ELSE "FAILED"]
  /\ Goto(x, "DONE")
  /\ UNCHANGED <<vars, session, step, request, browser, published>>

-----------------------------------------------------------------------------
(* Cancellation: cancel, close_cancelled_runtime, finalize_cancel of one HTTP request *)

RequestGoto(q, x, pc) == request' = [request EXCEPT ![q][x] = pc]

DiscardOpen(x) ==
  step' = [step EXCEPT ![x] = [n \in 1 .. MaxSteps |->
             IF step[x][n] \in Open THEN "DISCARDED" ELSE step[x][n]]]

\* cancel: fences the session and discards its open steps; the execution stays as it is.
Cancel(q, x) ==
  /\ request[q][x] = "IDLE"
  /\ Locked(x)
  /\ session' = [session EXCEPT ![x].status = "CANCELLED",
                                ![x].version = session[x].version + 1]
  /\ DiscardOpen(x)
  /\ RequestGoto(q, x, "CLOSING")
  /\ UNCHANGED <<vars, loop, browser, published, cleanup>>

\* The same Idempotency-Key again, while the execution is still active.
ReplayCancel(q, x) ==
  /\ request[q][x] = "IDLE"
  /\ session[x].status = "CANCELLED"
  /\ CommandHolds(session[x].attempt)
  /\ RequestGoto(q, x, "CLOSING")
  /\ UNCHANGED <<vars, session, step, loop, browser, published, cleanup>>

\* close_cancelled_runtime; when the Runner does not answer the request fails here.  The Agent
\* takes a browser_session_id that is null for the name of a browser it does not have.
CloseCancelledRuntime(q, x) ==
  /\ request[q][x] = "CLOSING"
  /\ \/ /\ browser' = IF session[x].hasBrowser THEN Closed(x) ELSE browser
        /\ RequestGoto(q, x, "FINALIZING")
     \/ RequestGoto(q, x, "IDLE") /\ UNCHANGED browser
  /\ UNCHANGED <<vars, session, step, loop, published, cleanup>>

\* finalize_cancel: returns when the binding is no longer IN_USE, raises when it is and its
\* leases or generations no longer hold.
FinalizeCancel(q, x) ==
  /\ request[q][x] = "FINALIZING"
  /\ IF session[x].status = "CANCELLED" /\ CommandHolds(session[x].attempt)
     THEN /\ EndExecution(session[x].attempt, "CANCELLED")
          /\ Publish(x, "CANCELLED")
     ELSE UNCHANGED <<vars, published>>
  /\ RequestGoto(q, x, "IDLE")
  /\ UNCHANGED <<session, step, loop, browser, cleanup>>

-----------------------------------------------------------------------------
(* Environment *)

\* The worker that runs the loop, or serves the request, dies.
LoopDies(x) ==
  /\ Crashes
  /\ loop[x].pc \notin {"NONE", "DONE", "DEAD"}
  /\ Goto(x, "DEAD")
  /\ UNCHANGED <<vars, session, step, request, browser, published, cleanup>>

RequestDies(q, x) ==
  /\ Crashes
  /\ request[q][x] # "IDLE"
  /\ RequestGoto(q, x, "IDLE")
  /\ UNCHANGED <<vars, session, step, loop, browser, published, cleanup>>

DeadlinePasses(x) ==
  /\ Running(x) /\ ~session[x].late
  /\ session' = [session EXCEPT ![x].late = TRUE]
  /\ UNCHANGED <<vars, step, loop, request, browser, published, cleanup>>

\* The steps of ExecutionBinding that no exploration takes.
BindingStep ==
  /\ \/ \E t \in RunTask : CreateRunTask(t)
     \/ \E a \in Attempt : CreateAttempt(a)
     \/ \E a \in Attempt, i \in Identity, s \in Slot : CreateBinding(a, i, s)
     \/ \E o \in Operator, a \in Attempt :
          Read(o, a) \/ Consume(o, a) \/ Renew(o, a) \/ Release(o, a) \/ Recover(o, a)
     \/ Tick
     \/ \E r \in Runner, s \in RunnerStatus : RunnerChanges(r, s)
  /\ UNCHANGED exploration

LoopStep(x) ==
  \/ LoadRuntimeSnapshot(x)
  \/ StartBrowser(x)
  \/ AcceptInitialObservation(x)
  \/ PrepareStep(x)
  \/ Decide(x)
  \/ AcceptAction(x)
  \/ Execute(x)
  \/ FinishStep(x)
  \/ FinishFailedAction(x)
  \/ CheckOwns(x)
  \/ \E grounded \in BOOLEAN : CompleteRunning(x, grounded)
  \/ Observe(x)
  \/ AcceptReobservation(x)
  \/ TransactionRaises(x)
  \/ FailRunning(x)
  \/ FailBeforeRuntime(x)
  \/ CloseBrowser(x)
  \/ RecordCleanup(x)

RequestStep(q, x) == CloseCancelledRuntime(q, x) \/ FinalizeCancel(q, x)

XNext ==
  \/ BindingStep
  \/ \E x \in Session, a \in Attempt : Start(x, a)
  \/ \E x \in Session : LoopStep(x)
  \/ \E q \in Request, x \in Session : Cancel(q, x)
  \/ \E q \in Request, x \in Session : ReplayCancel(q, x)
  \/ \E q \in Request, x \in Session : RequestStep(q, x)
  \/ \E x \in Session : LoopDies(x)
  \/ \E q \in Request, x \in Session : RequestDies(q, x)
  \/ \E x \in Session : DeadlinePasses(x)

XSpec == XInit /\ [][XNext]_allVars
\* run() is a thread and a cancellation an HTTP handler: once begun they go on, for every
\* browser and model call has a timeout and every lock is released by its transaction.
FairXSpec ==
  /\ XSpec
  /\ \A x \in Session : WF_allVars(LoopStep(x))
  /\ \A q \in Request, x \in Session : WF_allVars(RequestStep(q, x))

-----------------------------------------------------------------------------
(* Properties *)

\* A RUNNING attempt belongs to exactly one session, which runs or was cancelled and is not
\* yet finalized; the attempt of a RUNNING session always runs.  So no execution is run for
\* two sessions, and ending a session finds its execution still there to be ended.
ExecutionOwned ==
  /\ \A x \in Session : Running(x) => attempt[session[x].attempt].lifecycle = "RUNNING"
  /\ \A a \in Attempt : attempt[a].lifecycle = "RUNNING" =>
       \E x \in Session : session[x].attempt = a /\ session[x].status \in {"RUNNING", "CANCELLED"}
  /\ \A x, y \in Session :
       session[x].attempt = session[y].attempt /\ session[x].attempt # NoAttempt => x = y

\* Nobody but its loop writes a RUNNING session's row.  The loop never sees a stale version
\* of a session it still runs, so the returns in _prepare_step and _accept_action that would
\* leave the session RUNNING with no thread are not taken.
LoopOwnsVersion ==
  \A x \in Session :
    Running(x) /\ loop[x].pc \in (CallAt \cup TransactionAt) \ {"SCHEDULED", "STARTING", "ACCEPTING"}
      => Fresh(x)

\* run() never comes to its finally block, or to its end, with the session still RUNNING.
NoAbandonedRun ==
  \A x \in Session :
    loop[x].pc \in {"CLOSING", "CLOSED", "CLOSE_FAILED", "DONE"} => session[x].status \in Terminal

\* The terminal event tells the truth about every row of the execution: it is published in
\* the transaction that completes attempt and RunTask with that outcome and gives back the
\* leases, and SUCCEEDED and FAILED are not reached without it.
EventTellsOutcome ==
  \A x \in Session :
    /\ session[x].status \in {"SUCCEEDED", "FAILED"} => published[x] = session[x].status
    /\ published[x] # "NONE" =>
         LET a == session[x].attempt IN
           /\ published[x] = session[x].status
           /\ attempt[a] = [lifecycle |-> "COMPLETED", status |-> published[x]]
           /\ task[TaskOf[a]] = [lifecycle |-> "COMPLETED", result |-> ResultOf(published[x])]
           /\ ~Live(a)

\* Late answers change nothing: once a session is terminal its row and its steps stay as they
\* are, whatever the loop or the Runner still deliver, and its event is published once.
TerminalSessionFinal ==
  [][\A x \in Session : session[x].status \in Terminal =>
       /\ session'[x] = session[x]
       /\ step'[x] = step[x]
       /\ published[x] # "NONE" => published'[x] = published[x]]_allVars

\* A session that runs comes to an end, unless the worker that runs it dies: losing leases,
\* the step limit, the deadline, the model and the Runner all lead out of the loop.
RunEnds ==
  \A x \in Session : Running(x) ~> (~Running(x) \/ loop[x].pc = "DEAD")

\* The browser the loop knows of is closed, or its failure to close recorded, when run() ends.
CleanupRecorded ==
  \A x \in Session : loop[x].browser ~> (cleanup[x] # "NONE" \/ loop[x].pc = "DEAD")

\* What the documentation says of the program and the code does not do: refuted, see the README.

\* runtime_cleanup_evidence: a browser that was created is closed by run() before it ends, or
\* its failure to close is in the audit.
CreatedBrowserAccounted ==
  \A x \in Session :
    loop[x].pc = "DONE" /\ browser[x] # "ABSENT" => browser[x] = "CLOSED" \/ cleanup[x] # "NONE"

\* step_evidence: every step of a session that is over has a completion and a result.
TerminalStepsConcluded ==
  \A x \in Session, n \in 1 .. MaxSteps :
    session[x].status \in Terminal => step[x][n] \notin Unfinished

\* cancel.order: when a cancellation has run through all its stages the leases are back, and
\* the audit and the outbox event written with that.
CancellationEvidenced ==
  \A x \in Session :
    session[x].status = "CANCELLED" /\ ~Live(session[x].attempt) => published[x] = "CANCELLED"

\* Explorations drive the core through its own steps: the composition never does to tasks,
\* attempts, bindings and leases what ExecutionBinding does not allow.
CoreSpec == Spec
===============================================================================
