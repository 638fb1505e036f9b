------------------------- MODULE AIExplorationProofs -------------------------
(* What AIExploration guarantees for every set of sessions, requests and attempts and       *)
(* every step limit, whether or not API workers die.                                        *)
EXTENDS AIExploration, ExecutionBindingProofs

\* A session that has left READY has its attempt.
Started == \A x \in Session : IF session[x].status = "READY" THEN session[x].attempt = NoAttempt
                                                             ELSE session[x].attempt \in Attempt

\* The types of what an exploration adds to its execution.
XTypes ==
  /\ session \in [Session -> SessionRow]
  /\ step \in [Session -> [1 .. MaxSteps -> StepStatus]]
  /\ loop \in [Session -> Loop]
  /\ request \in [Request -> [Session -> {"IDLE", "CLOSING", "FINALIZING"}]]
  /\ browser \in [Session -> {"ABSENT", "OPEN", "CLOSED"}]
  /\ published \in [Session -> {"NONE"} \cup Terminal]
  /\ cleanup \in [Session -> {"NONE", "SUCCEEDED", "FAILED"}]

-----------------------------------------------------------------------------
(* Rows *)

\* What the updates of a session row, and of a loop, leave of its type.
LEMMA RowUpdate ==
  ASSUME NEW r \in SessionRow
  PROVE /\ \A v \in Nat : [r EXCEPT !.version = v] \in SessionRow
        /\ [r EXCEPT !.hasBrowser = TRUE] \in SessionRow
        /\ [r EXCEPT !.late = TRUE] \in SessionRow
        /\ \A n \in 0 .. MaxSteps : [r EXCEPT !.sequence = n] \in SessionRow
        /\ \A s \in Terminal, v \in Nat : [r EXCEPT !.status = s, !.version = v] \in SessionRow
        /\ \A a \in Attempt, v \in Nat :
             [r EXCEPT !.status = "RUNNING", !.attempt = a, !.version = v] \in SessionRow
<1>1. \A v \in Nat : [r EXCEPT !.version = v] \in SessionRow
  BY DEF SessionRow
<1>2. [r EXCEPT !.hasBrowser = TRUE] \in SessionRow
  BY DEF SessionRow
<1>3. [r EXCEPT !.late = TRUE] \in SessionRow
  BY DEF SessionRow
<1>4. \A n \in 0 .. MaxSteps : [r EXCEPT !.sequence = n] \in SessionRow
  BY DEF SessionRow
<1>5. \A s \in Terminal, v \in Nat : [r EXCEPT !.status = s, !.version = v] \in SessionRow
  BY DEF SessionRow, Terminal
<1>6. \A a \in Attempt, v \in Nat :
             [r EXCEPT !.status = "RUNNING", !.attempt = a, !.version = v] \in SessionRow
  BY DEF SessionRow
<1>7. QED
  BY <1>1, <1>2, <1>3, <1>4, <1>5, <1>6

Pc == {"NONE", "DONE", "DEAD"} \cup CallAt \cup TransactionAt \cup EndingAt

LEMMA LoopUpdate ==
  ASSUME NEW l \in Loop
  PROVE /\ \A pc \in Pc : [l EXCEPT !.pc = pc] \in Loop
        /\ \A pc \in Pc, v \in Nat : [l EXCEPT !.pc = pc, !.version = v] \in Loop
        /\ \A pc \in Pc, g \in BOOLEAN : [l EXCEPT !.pc = pc, !.goal = g] \in Loop
        /\ \A pc \in Pc, b \in BOOLEAN : [l EXCEPT !.pc = pc, !.blame = b] \in Loop
        /\ \A pc \in Pc, b \in BOOLEAN : [l EXCEPT !.pc = pc, !.browser = b] \in Loop
BY DEF Loop, Pc

-----------------------------------------------------------------------------
(* Explorations drive the core *)

\* A step of the composition is, on the rows of the core, a step of the core or none.
LEMMA CoreStep == Started /\ [XNext]_allVars => [Next]_vars
<1> SUFFICES ASSUME Started, XNext PROVE [Next]_vars
  BY DEF allVars, vars
<1>1. CASE BindingStep
  BY <1>1 DEF BindingStep, Next
<1>2. ASSUME NEW x \in Session, NEW a \in Attempt, Start(x, a) PROVE Next
  BY <1>2 DEF Start, Next
<1>3. ASSUME NEW x \in Session, FailSession(x) PROVE [Next]_vars
  <2>1. CASE Running(x)
    <3>1. EndExecution(session[x].attempt, "FAILED") /\ session[x].attempt \in Attempt
      BY <1>3, <2>1 DEF FailSession, Publish, Started, Running
    <3>2. Finish(session[x].attempt, "FAILED")
      BY <3>1 DEF Finish
    <3>3. QED
      BY <3>1, <3>2 DEF Next, Outcome
  <2>2. QED
    BY <1>3, <2>1 DEF FailSession, Publish
<1>4. ASSUME NEW x \in Session, NEW grounded \in BOOLEAN, CompleteRunning(x, grounded)
      PROVE [Next]_vars
  <2>1. CASE EndExecution(session[x].attempt, "SUCCEEDED") /\ Locked(x)
    <3>1. CommandHolds(session[x].attempt) /\ session[x].attempt \in Attempt
      BY <2>1 DEF Locked, Started, Running
    <3>2. Finish(session[x].attempt, "SUCCEEDED")
      BY <2>1, <3>1 DEF Finish
    <3>3. QED
      BY <3>1, <3>2 DEF Next, Outcome
  <2>2. CASE UNCHANGED vars
    BY <2>2
  <2>3. QED
    BY <1>4, <2>1, <2>2 DEF CompleteRunning, Publish
<1>5. ASSUME NEW q \in Request, NEW x \in Session, FinalizeCancel(q, x) PROVE [Next]_vars
  <2>1. CASE session[x].status = "CANCELLED" /\ CommandHolds(session[x].attempt)
    <3>1. EndExecution(session[x].attempt, "CANCELLED") /\ session[x].attempt \in Attempt
      BY <1>5, <2>1 DEF FinalizeCancel, Publish, Started
    <3>2. Finish(session[x].attempt, "CANCELLED")
      BY <2>1, <3>1 DEF Finish
    <3>3. QED
      BY <3>1, <3>2 DEF Next, Outcome
  <2>2. QED
    BY <1>5, <2>1 DEF FinalizeCancel, Publish
<1>6. ASSUME NEW x \in Session, LoopStep(x) PROVE [Next]_vars
  BY <1>3, <1>4, <1>6
  DEF LoopStep, LoadRuntimeSnapshot, StartBrowser, AcceptInitialObservation, PrepareStep,
      Decide, AcceptAction, Execute, FinishStep, FinishFailedAction, Conclude, CheckOwns,
      Observe, AcceptReobservation, TransactionRaises, FailRunning, FailBeforeRuntime,
      CloseBrowser, RecordCleanup
<1>7. ASSUME NEW q \in Request, NEW x \in Session,
             Cancel(q, x) \/ ReplayCancel(q, x) \/ CloseCancelledRuntime(q, x)
               \/ RequestDies(q, x) \/ LoopDies(x) \/ DeadlinePasses(x)
      PROVE UNCHANGED vars
  BY <1>7
  DEF Cancel, ReplayCancel, CloseCancelledRuntime, RequestDies, LoopDies, DeadlinePasses
<1>8. ASSUME NEW x \in Session, LoopDies(x) \/ DeadlinePasses(x) PROVE UNCHANGED vars
  BY <1>8 DEF LoopDies, DeadlinePasses
<1>9. QED
  BY <1>1, <1>2, <1>5, <1>6, <1>7, <1>8 DEF XNext, RequestStep

-----------------------------------------------------------------------------
(* What the steps of an exploration change *)

LEMMA AdvanceEffect ==
  ASSUME XTypes, NEW x \in Session, NEW row \in SessionRow, NEW pc \in Pc, Advance(x, row, pc)
  PROVE /\ session' \in [Session -> SessionRow]
        /\ loop' \in [Session -> Loop]
        /\ \A y \in Session \ {x} : session'[y] = session[y] /\ loop'[y] = loop[y]
        /\ session'[x] = [row EXCEPT !.version = session[x].version + 1]
        /\ loop'[x].pc = pc
        /\ loop'[x].version = session[x].version + 1
<1>1. session[x].version + 1 \in Nat
  BY DEF XTypes, SessionRow
<1>2. [row EXCEPT !.version = session[x].version + 1] \in SessionRow
  BY <1>1, RowUpdate
<1>3. loop[x] \in Loop
  BY DEF XTypes
<1>4. [loop[x] EXCEPT !.pc = pc, !.version = session[x].version + 1] \in Loop
  BY <1>1, <1>3, LoopUpdate
<1>5. loop' = [loop EXCEPT ![x] = [loop[x] EXCEPT !.pc = pc, !.version = session[x].version + 1]]
  BY DEF Advance
<1>6. loop'[x].pc = pc /\ loop'[x].version = session[x].version + 1
  BY <1>3, <1>5 DEF XTypes, Loop
<1>7. QED
  BY <1>2, <1>4, <1>5, <1>6 DEF XTypes, Advance

LEMMA GotoEffect ==
  ASSUME XTypes, NEW x \in Session, NEW pc \in Pc, Goto(x, pc)
  PROVE /\ loop' \in [Session -> Loop]
        /\ \A y \in Session \ {x} : loop'[y] = loop[y]
        /\ loop'[x].pc = pc
        /\ loop'[x].version = loop[x].version
<1>1. loop[x] \in Loop
  BY DEF XTypes
<1>2. [loop[x] EXCEPT !.pc = pc] \in Loop
  BY <1>1, LoopUpdate
<1>3. loop' = [loop EXCEPT ![x] = [loop[x] EXCEPT !.pc = pc]]
  BY DEF Goto
<1>4. [loop[x] EXCEPT !.pc = pc].pc = pc /\ [loop[x] EXCEPT !.pc = pc].version = loop[x].version
  BY <1>1 DEF Loop
<1>5. QED
  BY <1>2, <1>3, <1>4 DEF XTypes

LEMMA StepEffect ==
  ASSUME XTypes, NEW x \in Session, NEW s \in StepStatus, SetStep(x, s)
  PROVE /\ step' \in [Session -> [1 .. MaxSteps -> StepStatus]]
        /\ \A y \in Session \ {x} : step'[y] = step[y]
        /\ \A n \in 1 .. MaxSteps : step'[x][n] = IF n = session[x].sequence THEN s
                                                                            ELSE step[x][n]
BY DEF XTypes, SetStep

-----------------------------------------------------------------------------
(* Types *)

LEMMA XTypesInit == XInit => XTypes
BY ExplorationAssumption DEF XInit, XTypes, SessionRow, StepStatus, Loop, Terminal

\* The failure of a session, whether it still runs or not.
LEMMA FailSessionType ==
  ASSUME XTypes, NEW x \in Session, FailSession(x)
  PROVE /\ session' \in [Session -> SessionRow]
        /\ published' \in [Session -> {"NONE"} \cup Terminal]
        /\ \A y \in Session \ {x} : session'[y] = session[y] /\ published'[y] = published[y]
<1>1. [session[x] EXCEPT !.status = "FAILED", !.version = session[x].version + 1] \in SessionRow
  <2>1. session[x] \in SessionRow /\ session[x].version + 1 \in Nat
    BY DEF XTypes, SessionRow
  <2>2. QED
    BY <2>1, RowUpdate DEF Terminal
<1>2. CASE Running(x)
  <2>1. session' = [session EXCEPT ![x] =
           [session[x] EXCEPT !.status = "FAILED", !.version = session[x].version + 1]]
    BY <1>2 DEF FailSession, Publish
  <2>2. published' = [published EXCEPT ![x] = "FAILED"]
    BY <1>2 DEF FailSession, Publish
  <2>3. QED
    BY <1>1, <2>1, <2>2 DEF XTypes, Terminal
<1>3. CASE ~Running(x)
  BY <1>3 DEF FailSession, Publish, XTypes
<1>4. QED
  BY <1>2, <1>3

LEMMA XTypesStep == XTypes /\ [XNext]_allVars => XTypes'
<1> SUFFICES ASSUME XTypes, XNext PROVE XTypes'
  BY DEF allVars, exploration, XTypes
<1>0. /\ session \in [Session -> SessionRow]
      /\ step \in [Session -> [1 .. MaxSteps -> StepStatus]]
      /\ loop \in [Session -> Loop]
      /\ request \in [Request -> [Session -> {"IDLE", "CLOSING", "FINALIZING"}]]
      /\ browser \in [Session -> {"ABSENT", "OPEN", "CLOSED"}]
      /\ published \in [Session -> {"NONE"} \cup Terminal]
      /\ cleanup \in [Session -> {"NONE", "SUCCEEDED", "FAILED"}]
      /\ \A x \in Session : session[x].version + 1 \in Nat
  BY DEF XTypes, SessionRow
<1> USE DEF Pc, CallAt, TransactionAt, EndingAt, StepStatus, Open, Unfinished
<1>1. ASSUME NEW x \in Session, NEW pc \in Pc, Goto(x, pc) PROVE loop' \in [Session -> Loop]
  BY <1>1, GotoEffect
<1>2. ASSUME NEW x \in Session, NEW s \in StepStatus, SetStep(x, s)
      PROVE step' \in [Session -> [1 .. MaxSteps -> StepStatus]]
  BY <1>2, StepEffect
<1>3. ASSUME NEW x \in Session, NEW pc \in Pc, Advance(x, session[x], pc)
      PROVE session' \in [Session -> SessionRow] /\ loop' \in [Session -> Loop]
  BY <1>0, <1>3, AdvanceEffect
<1>4. CASE BindingStep
  BY <1>4 DEF BindingStep, exploration, XTypes
<1>5. ASSUME NEW x \in Session, NEW a \in Attempt, Start(x, a) PROVE XTypes'
  <2>1. [session[x] EXCEPT !.status = "RUNNING", !.attempt = a,
                           !.version = session[x].version + 1] \in SessionRow
    BY <1>0, RowUpdate
  <2>2. session' \in [Session -> SessionRow]
    BY <1>0, <1>5, <2>1 DEF Start
  <2>3. QED
    BY <1>0, <1>1, <1>5, <2>2 DEF Start, XTypes
<1>6. ASSUME NEW x \in Session, LoadRuntimeSnapshot(x) \/ Execute(x) \/ CheckOwns(x) \/ Observe(x)
                                  \/ TransactionRaises(x) \/ LoopDies(x)
      PROVE XTypes'
  BY <1>0, <1>1, <1>6 DEF LoadRuntimeSnapshot, Execute, CheckOwns, Observe, TransactionRaises,
                          LoopDies, XTypes
<1>7. ASSUME NEW x \in Session, StartBrowser(x) PROVE XTypes'
  <2>1. loop[x] \in Loop /\ [loop[x] EXCEPT !.pc = "ACCEPTING", !.browser = TRUE] \in Loop
    BY <1>0, LoopUpdate
  <2>2. CASE loop' = [loop EXCEPT ![x].pc = "ACCEPTING", ![x].browser = TRUE]
    <3>1. loop' \in [Session -> Loop]
      BY <1>0, <2>1, <2>2
    <3>2. QED
      BY <1>0, <1>7, <3>1 DEF StartBrowser, XTypes
  <2>3. CASE Goto(x, "FAILING")
    BY <1>0, <1>1, <1>7, <2>3 DEF StartBrowser, XTypes
  <2>4. QED
    BY <1>7, <2>2, <2>3 DEF StartBrowser
<1>8. ASSUME NEW x \in Session, AcceptInitialObservation(x) PROVE XTypes'
  <2>1. [session[x] EXCEPT !.hasBrowser = TRUE] \in SessionRow
    BY <1>0, RowUpdate
  <2>2. CASE Advance(x, [session[x] EXCEPT !.hasBrowser = TRUE], "PREPARING")
    <3>1. session' \in [Session -> SessionRow] /\ loop' \in [Session -> Loop]
      BY <2>1, <2>2, AdvanceEffect
    <3>2. QED
      BY <1>0, <1>8, <3>1 DEF AcceptInitialObservation, Raise, XTypes
  <2>3. CASE Raise(x)
    BY <1>0, <1>1, <1>8, <2>3 DEF AcceptInitialObservation, Raise, XTypes
  <2>4. QED
    BY <1>8, <2>2, <2>3 DEF AcceptInitialObservation
<1>9. ASSUME NEW x \in Session, PrepareStep(x) PROVE XTypes'
  <2>1. CASE StepsLeft(x) /\ Advance(x, [session[x] EXCEPT !.sequence = session[x].sequence + 1],
                                     "DECIDING")
               /\ step' = [step EXCEPT ![x][session[x].sequence + 1] = "DECIDING"]
    <3>1. session[x].sequence + 1 \in 0 .. MaxSteps
      BY <1>0, <2>1, ExplorationAssumption DEF StepsLeft, SessionRow
    <3>2. [session[x] EXCEPT !.sequence = session[x].sequence + 1] \in SessionRow
      BY <1>0, <3>1, RowUpdate
    <3>3. session' \in [Session -> SessionRow] /\ loop' \in [Session -> Loop]
      BY <2>1, <3>2, AdvanceEffect
    <3>4. step' \in [Session -> [1 .. MaxSteps -> StepStatus]]
      BY <1>0, <2>1
    <3>5. QED
      BY <1>0, <1>9, <3>3, <3>4 DEF PrepareStep, XTypes
  <2>2. CASE (\E pc \in Pc : Goto(x, pc)) /\ UNCHANGED <<session, step>>
    BY <1>0, <1>1, <1>9, <2>2 DEF PrepareStep, XTypes
  <2>3. QED
    BY <1>9, <2>1, <2>2 DEF PrepareStep, Raise
<1>10. ASSUME NEW x \in Session, Decide(x) PROVE XTypes'
  <2>1. /\ \A goal \in BOOLEAN : [loop[x] EXCEPT !.pc = "RESPONDING", !.goal = goal] \in Loop
        /\ [loop[x] EXCEPT !.pc = "FAILING", !.blame = TRUE] \in Loop
    BY <1>0, LoopUpdate
  <2>2. loop' \in [Session -> Loop]
    <3>1. ASSUME NEW goal \in BOOLEAN, loop' = [loop EXCEPT ![x].pc = "RESPONDING", ![x].goal = goal]
          PROVE loop' \in [Session -> Loop]
      BY <1>0, <2>1, <3>1
    <3>2. CASE loop' = [loop EXCEPT ![x].pc = "FAILING", ![x].blame = TRUE]
      BY <1>0, <2>1, <3>2
    <3>3. QED
      BY <1>10, <3>1, <3>2 DEF Decide
  <2>3. QED
    BY <1>0, <1>10, <2>2 DEF Decide, XTypes
<1>11. ASSUME NEW x \in Session, AcceptAction(x) PROVE XTypes'
  BY <1>0, <1>1, <1>2, <1>3, <1>11 DEF AcceptAction, Discard, Raise, XTypes
<1>12. ASSUME NEW x \in Session, FinishStep(x) \/ FinishFailedAction(x) PROVE XTypes'
  BY <1>0, <1>1, <1>2, <1>3, <1>12 DEF FinishStep, FinishFailedAction, Conclude, Raise, XTypes
<1>13. ASSUME NEW x \in Session, NEW grounded \in BOOLEAN, CompleteRunning(x, grounded)
       PROVE XTypes'
  <2>1. CASE /\ session' = [session EXCEPT ![x].status = "SUCCEEDED",
                                           ![x].version = session[x].version + 1]
             /\ published' = [published EXCEPT ![x] = "SUCCEEDED"]
             /\ Goto(x, "CLOSING")
             /\ UNCHANGED step
    <3>1. [session[x] EXCEPT !.status = "SUCCEEDED", !.version = session[x].version + 1]
             \in SessionRow
      BY <1>0, RowUpdate DEF Terminal
    <3>2. session' \in [Session -> SessionRow]
      BY <1>0, <2>1, <3>1
    <3>3. QED
      BY <1>0, <1>1, <1>13, <2>1, <3>2 DEF CompleteRunning, Publish, XTypes, Terminal
  <2>2. CASE SetStep(x, "FAILED") /\ Advance(x, session[x], "OBSERVING") /\ UNCHANGED published
    BY <1>0, <1>2, <1>3, <1>13, <2>2 DEF CompleteRunning, Publish, XTypes
  <2>3. CASE /\ UNCHANGED step \/ Discard(x)
             /\ loop' = [loop EXCEPT ![x].pc = "OBSERVING", ![x].version = session[x].version]
             /\ UNCHANGED <<session, published>>
    <3>1. session[x].version \in Nat
      BY <1>0 DEF SessionRow
    <3>2. [loop[x] EXCEPT !.pc = "OBSERVING", !.version = session[x].version] \in Loop
      BY <1>0, <3>1, LoopUpdate
    <3>3. QED
      BY <1>0, <1>2, <1>13, <2>3, <3>2 DEF CompleteRunning, Publish, Discard, XTypes
  <2>4. CASE Raise(x) /\ UNCHANGED published
    BY <1>0, <1>1, <1>13, <2>4 DEF CompleteRunning, Publish, Raise, XTypes
  <2>5. QED
    BY <1>13, <2>1, <2>2, <2>3, <2>4 DEF CompleteRunning, Publish
<1>14. ASSUME NEW x \in Session, AcceptReobservation(x) PROVE XTypes'
  BY <1>0, <1>1, <1>3, <1>14 DEF AcceptReobservation, Raise, XTypes
<1>15. ASSUME NEW x \in Session, FailRunning(x) \/ FailBeforeRuntime(x) PROVE XTypes'
  BY <1>0, <1>1, <1>2, <1>15, FailSessionType
  DEF FailRunning, FailBeforeRuntime, AfterFailing, XTypes
<1>16. ASSUME NEW x \in Session, CloseBrowser(x) \/ RecordCleanup(x) PROVE XTypes'
  BY <1>0, <1>1, <1>16 DEF CloseBrowser, Closed, RecordCleanup, XTypes
<1>17. ASSUME NEW q \in Request, NEW x \in Session, Cancel(q, x) PROVE XTypes'
  <2>1. [session[x] EXCEPT !.status = "CANCELLED", !.version = session[x].version + 1]
           \in SessionRow
    BY <1>0, RowUpdate DEF Terminal
  <2>2. session' \in [Session -> SessionRow]
    BY <1>0, <1>17, <2>1 DEF Cancel
  <2>3. step' \in [Session -> [1 .. MaxSteps -> StepStatus]]
    BY <1>0, <1>17 DEF Cancel, DiscardOpen
  <2>4. QED
    BY <1>0, <1>17, <2>2, <2>3 DEF Cancel, RequestGoto, XTypes
<1>18. ASSUME NEW q \in Request, NEW x \in Session,
              ReplayCancel(q, x) \/ CloseCancelledRuntime(q, x) \/ FinalizeCancel(q, x)
                \/ RequestDies(q, x)
       PROVE XTypes'
  <2>1. ASSUME NEW pc \in {"IDLE", "CLOSING", "FINALIZING"}, RequestGoto(q, x, pc)
        PROVE request' \in [Request -> [Session -> {"IDLE", "CLOSING", "FINALIZING"}]]
    BY <1>0, <2>1 DEF RequestGoto
  <2>2. CASE ReplayCancel(q, x) \/ RequestDies(q, x)
    BY <1>0, <2>1, <2>2 DEF ReplayCancel, RequestDies, XTypes
  <2>3. CASE CloseCancelledRuntime(q, x)
    BY <1>0, <2>1, <2>3 DEF CloseCancelledRuntime, Closed, XTypes
  <2>4. CASE FinalizeCancel(q, x)
    BY <1>0, <2>1, <2>4 DEF FinalizeCancel, Publish, Terminal, XTypes
  <2>5. QED
    BY <1>18, <2>2, <2>3, <2>4
<1>19. ASSUME NEW x \in Session, DeadlinePasses(x) PROVE XTypes'
  <2>1. [session[x] EXCEPT !.late = TRUE] \in SessionRow
    BY <1>0, RowUpdate
  <2>2. QED
    BY <1>0, <1>19, <2>1 DEF DeadlinePasses, XTypes
<1>20. QED
  BY <1>4, <1>5, <1>6, <1>7, <1>8, <1>9, <1>10, <1>11, <1>12, <1>13, <1>14, <1>15, <1>16,
     <1>17, <1>18, <1>19
  DEF XNext, LoopStep, RequestStep

-----------------------------------------------------------------------------
(* A session, its execution and its event: every step is one of five as far as they go *)

Keeps(x) ==
  /\ session'[x].status = session[x].status
  /\ session'[x].attempt = session[x].attempt

Others(x) == \A y \in Session \ {x} : Keeps(y) /\ published'[y] = published[y]

\* Nothing happens to sessions, and to executions at most what ExecutionBinding does alone.
Quiet ==
  /\ \A x \in Session : Keeps(x)
  /\ UNCHANGED published
  /\ BindingStep \/ UNCHANGED vars

Begins(x, a) ==
  /\ session[x].status = "READY" /\ session'[x].status = "RUNNING" /\ session'[x].attempt = a
  /\ StartExecution(a)
  /\ UNCHANGED published
  /\ Others(x)

Ends(x, s) ==
  /\ Running(x) /\ session'[x].status = s /\ session'[x].attempt = session[x].attempt
  /\ EndExecution(session[x].attempt, s)
  /\ published'[x] = s
  /\ Others(x)

Fences(x) ==
  /\ Running(x) /\ session'[x].status = "CANCELLED"
  /\ session'[x].attempt = session[x].attempt
  /\ UNCHANGED <<vars, published>>
  /\ Others(x)

Finalizes(x) ==
  /\ session[x].status = "CANCELLED" /\ Keeps(x)
  /\ EndExecution(session[x].attempt, "CANCELLED")
  /\ published'[x] = "CANCELLED"
  /\ Others(x)

LEMMA AdvanceKeeps ==
  ASSUME XTypes, NEW x \in Session, NEW row \in SessionRow, NEW pc \in Pc, Advance(x, row, pc),
         row.status = session[x].status, row.attempt = session[x].attempt
  PROVE \A y \in Session : Keeps(y)
<1>1. session'[x] = [row EXCEPT !.version = session[x].version + 1]
  BY AdvanceEffect
<1>2. Keeps(x)
  BY <1>1 DEF Keeps, SessionRow
<1>3. QED
  BY <1>2, AdvanceEffect DEF Keeps

LEMMA FailSessionStep ==
  ASSUME XTypes, NEW x \in Session, FailSession(x)
  PROVE Ends(x, "FAILED") \/ Quiet
<1>1. CASE Running(x)
  <2>1. session'[x] = [session[x] EXCEPT !.status = "FAILED", !.version = session[x].version + 1]
    BY <1>1 DEF FailSession, Publish, XTypes
  <2>2. session'[x].status = "FAILED" /\ session'[x].attempt = session[x].attempt
    BY <2>1 DEF XTypes, SessionRow
  <2>3. published'[x] = "FAILED"
    BY <1>1 DEF FailSession, Publish, XTypes
  <2>4. QED
    BY <1>1, <2>2, <2>3, FailSessionType DEF FailSession, Publish, Ends, Others, Keeps
<1>2. QED
  BY <1>1 DEF FailSession, Publish, Quiet, Keeps

LEMMA StatusStep ==
  ASSUME XTypes, XNext
  PROVE \/ Quiet
        \/ \E x \in Session, a \in Attempt : Begins(x, a)
        \/ \E x \in Session, s \in {"SUCCEEDED", "FAILED"} : Ends(x, s)
        \/ \E x \in Session : Fences(x)
        \/ \E x \in Session : Finalizes(x)
<1>0. /\ session \in [Session -> SessionRow]
      /\ published \in [Session -> {"NONE"} \cup Terminal]
  BY DEF XTypes
<1> USE DEF Pc, CallAt, TransactionAt, EndingAt
<1>1. CASE UNCHANGED <<vars, session, published>>
  BY <1>1 DEF Quiet, Keeps
<1>2. CASE BindingStep
  BY <1>2 DEF BindingStep, exploration, Quiet, Keeps
<1>3. ASSUME NEW x \in Session, NEW pc \in Pc, Advance(x, session[x], pc),
             UNCHANGED <<vars, published>>
      PROVE Quiet
  BY <1>0, <1>3, AdvanceKeeps DEF Quiet
<1>4. ASSUME NEW x \in Session, NEW a \in Attempt, Start(x, a) PROVE Begins(x, a)
  <2>1. session'[x] = [session[x] EXCEPT !.status = "RUNNING", !.attempt = a,
                                         !.version = session[x].version + 1]
    BY <1>0, <1>4 DEF Start
  <2>2. session'[x].status = "RUNNING" /\ session'[x].attempt = a
    BY <1>0, <2>1 DEF SessionRow
  <2>3. QED
    BY <1>0, <1>4, <2>2 DEF Start, Begins, Others, Keeps
<1>5. ASSUME NEW x \in Session, AcceptInitialObservation(x) PROVE Quiet
  <2>1. CASE Advance(x, [session[x] EXCEPT !.hasBrowser = TRUE], "PREPARING")
    <3>1. session[x] \in SessionRow
      BY <1>0
    <3>2. [session[x] EXCEPT !.hasBrowser = TRUE] \in SessionRow
      BY <3>1, RowUpdate
    <3>3. /\ [session[x] EXCEPT !.hasBrowser = TRUE].status = session[x].status
          /\ [session[x] EXCEPT !.hasBrowser = TRUE].attempt = session[x].attempt
      BY <3>1 DEF SessionRow
    <3>4. \A y \in Session : Keeps(y)
      BY <2>1, <3>2, <3>3, AdvanceKeeps
    <3>5. QED
      BY <1>5, <3>4 DEF AcceptInitialObservation, Quiet
  <2>2. CASE Raise(x)
    BY <1>5, <2>2 DEF AcceptInitialObservation, Raise, Quiet, Keeps
  <2>3. QED
    BY <1>5, <2>1, <2>2 DEF AcceptInitialObservation
<1>6. ASSUME NEW x \in Session, PrepareStep(x) PROVE Quiet
  <2>1. CASE StepsLeft(x) /\ Advance(x, [session[x] EXCEPT !.sequence = session[x].sequence + 1],
                                     "DECIDING")
    <3>1. session[x] \in SessionRow
      BY <1>0
    <3>2. session[x].sequence + 1 \in 0 .. MaxSteps
      BY <3>1, <2>1, ExplorationAssumption DEF StepsLeft, SessionRow
    <3> DEFINE row == [session[x] EXCEPT !.sequence = session[x].sequence + 1]
    <3>3. row \in SessionRow
      BY <3>1, <3>2, RowUpdate
    <3>4. row.status = session[x].status /\ row.attempt = session[x].attempt
      BY <3>1 DEF SessionRow
    <3>5. Advance(x, row, "DECIDING")
      BY <2>1
    <3> HIDE DEF row
    <3>6. \A y \in Session : Keeps(y)
      BY <3>3, <3>4, <3>5, AdvanceKeeps
    <3>7. QED
      BY <1>6, <3>6 DEF PrepareStep, Quiet
  <2>2. CASE UNCHANGED session
    BY <1>6, <2>2 DEF PrepareStep, Quiet, Keeps
  <2>3. QED
    BY <1>6, <2>1, <2>2 DEF PrepareStep, Raise
<1>7. ASSUME NEW x \in Session, AcceptAction(x) PROVE Quiet
  BY <1>1, <1>3, <1>7 DEF AcceptAction, Raise, Quiet, Keeps
<1>8. ASSUME NEW x \in Session, FinishStep(x) \/ FinishFailedAction(x) PROVE Quiet
  BY <1>1, <1>3, <1>8 DEF FinishStep, FinishFailedAction, Conclude, Raise, Quiet, Keeps
<1>9. ASSUME NEW x \in Session, NEW grounded \in BOOLEAN, CompleteRunning(x, grounded)
      PROVE Ends(x, "SUCCEEDED") \/ Quiet
  <2>1. CASE /\ Locked(x)
             /\ session' = [session EXCEPT ![x].status = "SUCCEEDED",
                                           ![x].version = session[x].version + 1]
             /\ EndExecution(session[x].attempt, "SUCCEEDED")
             /\ published' = [published EXCEPT ![x] = "SUCCEEDED"]
    <3>1. session'[x] = [session[x] EXCEPT !.status = "SUCCEEDED",
                                           !.version = session[x].version + 1]
      BY <1>0, <2>1
    <3>2. session'[x].status = "SUCCEEDED" /\ session'[x].attempt = session[x].attempt
      BY <1>0, <3>1 DEF SessionRow
    <3>3. Others(x) /\ published'[x] = "SUCCEEDED"
      BY <1>0, <2>1 DEF Others, Keeps
    <3>4. QED
      BY <2>1, <3>2, <3>3 DEF Ends, Locked
  <2>2. CASE Advance(x, session[x], "OBSERVING") /\ UNCHANGED <<vars, published>>
    BY <1>3, <2>2
  <2>3. CASE UNCHANGED <<vars, session, published>>
    BY <2>3 DEF Quiet, Keeps
  <2>4. QED
    BY <1>9, <2>1, <2>2, <2>3 DEF CompleteRunning, Publish, Raise
<1>10. ASSUME NEW x \in Session, AcceptReobservation(x) PROVE Quiet
  BY <1>1, <1>3, <1>10 DEF AcceptReobservation, Raise, Quiet, Keeps
<1>11. ASSUME NEW x \in Session, FailRunning(x) \/ FailBeforeRuntime(x)
       PROVE Ends(x, "FAILED") \/ Quiet
  BY <1>11, FailSessionStep DEF FailRunning, FailBeforeRuntime
<1>12. ASSUME NEW q \in Request, NEW x \in Session, Cancel(q, x) PROVE Fences(x)
  <2>1. session'[x] = [session[x] EXCEPT !.status = "CANCELLED",
                                         !.version = session[x].version + 1]
    BY <1>0, <1>12 DEF Cancel
  <2>2. session'[x].status = "CANCELLED" /\ session'[x].attempt = session[x].attempt
    BY <1>0, <2>1 DEF SessionRow
  <2>3. QED
    BY <1>0, <1>12, <2>2 DEF Cancel, Locked, Fences, Others, Keeps
<1>13. ASSUME NEW q \in Request, NEW x \in Session, FinalizeCancel(q, x)
       PROVE Finalizes(x) \/ Quiet
  BY <1>0, <1>13 DEF FinalizeCancel, Publish, Finalizes, Others, Quiet, Keeps
<1>14. ASSUME NEW x \in Session, DeadlinePasses(x) PROVE Quiet
  <2>1. /\ session'[x] = [session[x] EXCEPT !.late = TRUE]
        /\ \A y \in Session \ {x} : session'[y] = session[y]
    BY <1>0, <1>14 DEF DeadlinePasses
  <2>2. \A y \in Session : Keeps(y)
    BY <1>0, <2>1 DEF Keeps, SessionRow
  <2>3. QED
    BY <1>14, <2>2 DEF DeadlinePasses, Quiet
<1>15. ASSUME NEW x \in Session,
              LoadRuntimeSnapshot(x) \/ StartBrowser(x) \/ Decide(x) \/ Execute(x) \/ CheckOwns(x)
                \/ Observe(x) \/ TransactionRaises(x) \/ CloseBrowser(x) \/ RecordCleanup(x)
                \/ LoopDies(x)
       PROVE UNCHANGED <<vars, session, published>>
  BY <1>15 DEF LoadRuntimeSnapshot, StartBrowser, Decide, Execute, CheckOwns, Observe,
               TransactionRaises, CloseBrowser, RecordCleanup, LoopDies
<1>16. ASSUME NEW q \in Request, NEW x \in Session,
              ReplayCancel(q, x) \/ CloseCancelledRuntime(q, x) \/ RequestDies(q, x)
       PROVE UNCHANGED <<vars, session, published>>
  BY <1>16 DEF ReplayCancel, CloseCancelledRuntime, RequestDies
<1>17. QED
  BY <1>1, <1>2, <1>4, <1>5, <1>6, <1>7, <1>8, <1>9, <1>10, <1>11, <1>12, <1>13, <1>14,
     <1>15, <1>16
  DEF XNext, LoopStep, RequestStep

-----------------------------------------------------------------------------
(* Refinement and types *)

\* Inductive: the types, and the attempt of every session that has started.
SessionInv == XTypes /\ TypeOK /\ Started

LEMMA SessionInit == XInit => SessionInv
BY XTypesInit, TypeInit DEF SessionInv, XInit, Started

LEMMA SessionStep == SessionInv /\ [XNext]_allVars => SessionInv'
<1> SUFFICES ASSUME SessionInv, [XNext]_allVars PROVE Started'
  BY XTypesStep, CoreStep, NextIsLoose, TypeStep DEF SessionInv
<1>1. CASE UNCHANGED allVars
  BY <1>1 DEF allVars, exploration, SessionInv, Started
<1>2. CASE XNext
  BY <1>2, StatusStep
  DEF SessionInv, Started, Quiet, Begins, Ends, Fences, Finalizes, Others, Keeps, Running
<1>3. QED
  BY <1>1, <1>2

LEMMA SessionInvariant == XSpec => []SessionInv
BY SessionInit, SessionStep, PTL DEF XSpec

\* Whatever sessions, cancellations, crashes and Runners do, tasks, attempts, bindings and
\* leases only take the steps of ExecutionBinding: every theorem about it holds here too.
THEOREM ExplorationsDriveCore == XSpec => CoreSpec
<1>1. XInit => Init
  BY DEF XInit
<1>2. SessionInv /\ [XNext]_allVars => [Next]_vars
  BY CoreStep DEF SessionInv
<1>3. QED
  BY <1>1, <1>2, SessionInvariant, PTL DEF XSpec, CoreSpec, Spec

\* Every row, and where every loop and request is, has its type; no session takes more steps
\* than its policy froze.
THEOREM XTypeCorrect == XSpec => []XTypeOK
<1>1. SessionInv => XTypeOK
  BY DEF SessionInv, XTypes, XTypeOK
<1>2. QED
  BY <1>1, SessionInvariant, PTL

\* The exclusion of leases, carried over from the core.
COROLLARY ExplorationLeasesExclude == XSpec => []LeaseExclusive
BY ExplorationsDriveCore, LeasesExclude, PTL DEF CoreSpec

-----------------------------------------------------------------------------
(* Sessions own the executions they started *)

\* The lifecycles a step of the core can give an attempt that starts or ends.
LEMMA StartedAttempt ==
  ASSUME TypeOK, NEW a \in Attempt, StartExecution(a)
  PROVE /\ attempt[a].lifecycle \in {"CREATED", "PREPARING"}
        /\ attempt'[a].lifecycle = "RUNNING"
        /\ \A b \in Attempt \ {a} : attempt'[b] = attempt[b]
BY DEF TypeOK, StartExecution, RunOwners, Startable

LEMMA EndedAttempt ==
  ASSUME TypeOK, NEW a \in Attempt, NEW s \in Outcome, EndExecution(a, s)
  PROVE /\ attempt[a].lifecycle = "RUNNING"
        /\ attempt'[a] = [lifecycle |-> "COMPLETED", status |-> s]
        /\ \A b \in Attempt \ {a} : attempt'[b] = attempt[b]
BY DEF TypeOK, EndExecution

\* No command of the core moves an attempt that runs or is over, or makes one run.
LEMMA BindingStepAttempts ==
  ASSUME TypeOK, BindingStep, NEW a \in Attempt
  PROVE /\ attempt[a].lifecycle \in {"RUNNING", "COMPLETED"} => attempt'[a] = attempt[a]
        /\ attempt'[a].lifecycle = "RUNNING" => attempt[a].lifecycle = "RUNNING"
<1>0. attempt \in [Attempt -> AttemptRow]
  BY DEF TypeOK
<1>1. ASSUME NEW b \in Attempt, CreateAttempt(b) \/ attempt' = [attempt EXCEPT ![b].lifecycle = "PREPARING"],
             attempt[b].lifecycle \in {"NONE", "CREATED", "PREPARING"}
      PROVE /\ attempt[a].lifecycle \in {"RUNNING", "COMPLETED"} => attempt'[a] = attempt[a]
            /\ attempt'[a].lifecycle = "RUNNING" => attempt[a].lifecycle = "RUNNING"
  BY <1>0, <1>1 DEF CreateAttempt, AttemptRow
<1>2. QED
  BY <1>1 DEF BindingStep, CreateRunTask, CreateAttempt, CreateBinding, BindResources, Admissible, Read, Consume, Renew,
              Release, Recover, Tick, RunnerChanges

\* Inductive: with ExecutionOwned, the attempt of a session that has ended is over or, after a
\* cancellation, still to be.
OwnedInv ==
  /\ SessionInv
  /\ ExecutionOwned
  /\ \A x \in Session : session[x].status # "READY" =>
       attempt[session[x].attempt].lifecycle \in {"RUNNING", "COMPLETED"}
  /\ \A x \in Session : session[x].status \in {"SUCCEEDED", "FAILED"} =>
       attempt[session[x].attempt].lifecycle = "COMPLETED"

LEMMA OwnedInit == XInit => OwnedInv
BY SessionInit, ExplorationAssumption DEF OwnedInv, XInit, Init, ExecutionOwned, Running

LEMMA OwnedStep == OwnedInv /\ [XNext]_allVars => OwnedInv'
<1> DEFINE Goal ==
      /\ ExecutionOwned'
      /\ \A x \in Session : session'[x].status # "READY" =>
           attempt'[session'[x].attempt].lifecycle \in {"RUNNING", "COMPLETED"}
      /\ \A x \in Session : session'[x].status \in {"SUCCEEDED", "FAILED"} =>
           attempt'[session'[x].attempt].lifecycle = "COMPLETED"
<1> SUFFICES ASSUME OwnedInv, [XNext]_allVars PROVE Goal
  BY SessionStep DEF OwnedInv
<1>0. /\ TypeOK /\ XTypes /\ Started
      /\ ExecutionOwned
      /\ \A x \in Session : session[x].status # "READY" =>
           attempt[session[x].attempt].lifecycle \in {"RUNNING", "COMPLETED"}
      /\ \A x \in Session : session[x].status \in {"SUCCEEDED", "FAILED"} =>
           attempt[session[x].attempt].lifecycle = "COMPLETED"
  BY DEF OwnedInv, SessionInv
<1>1. CASE UNCHANGED vars /\ \A x \in Session : Keeps(x)
  BY <1>0, <1>1 DEF vars, Keeps, ExecutionOwned, Running
<1>2. CASE BindingStep /\ \A x \in Session : Keeps(x)
  <2>1. \A a \in Attempt :
          /\ attempt[a].lifecycle \in {"RUNNING", "COMPLETED"} => attempt'[a] = attempt[a]
          /\ attempt'[a].lifecycle = "RUNNING" => attempt[a].lifecycle = "RUNNING"
    BY <1>0, <1>2, BindingStepAttempts
  <2>2. QED
    BY <1>0, <1>2, <2>1 DEF Keeps, Started, ExecutionOwned, Running
<1>3. ASSUME NEW x \in Session, NEW a \in Attempt, Begins(x, a) PROVE Goal
  <2>1. /\ attempt[a].lifecycle \in {"CREATED", "PREPARING"}
        /\ attempt'[a].lifecycle = "RUNNING"
        /\ \A b \in Attempt \ {a} : attempt'[b] = attempt[b]
    BY <1>0, <1>3, StartedAttempt DEF Begins
  <2>2. \A y \in Session : session[y].attempt # a
    BY <1>0, <2>1, ExplorationAssumption DEF Started
  <2>3. QED
    BY <1>0, <1>3, <2>1, <2>2, ExplorationAssumption
    DEF Begins, Others, Keeps, Started, ExecutionOwned, Running
<1>4. ASSUME NEW x \in Session, NEW s \in Outcome, session[x].status # "READY",
             EndExecution(session[x].attempt, s),
             session'[x].attempt = session[x].attempt,
             session'[x].status \in Terminal,
             Others(x)
      PROVE Goal
  <2>1. session[x].attempt \in Attempt
    BY <1>0, <1>4 DEF Started
  <2>2. /\ attempt'[session[x].attempt].lifecycle = "COMPLETED"
        /\ \A b \in Attempt \ {session[x].attempt} : attempt'[b] = attempt[b]
    <3> DEFINE a == session[x].attempt
    <3>1. a \in Attempt /\ EndExecution(a, s)
      BY <1>4, <2>1
    <3> HIDE DEF a
    <3>2. /\ attempt'[a] = [lifecycle |-> "COMPLETED", status |-> s]
          /\ \A b \in Attempt \ {a} : attempt'[b] = attempt[b]
      BY <1>0, <3>1, EndedAttempt
    <3>3. attempt'[a].lifecycle = "COMPLETED"
      BY <3>2
    <3>4. QED
      BY <3>2, <3>3 DEF a
  <2>3. \A y \in Session \ {x} : session[y].attempt # session[x].attempt
    BY <1>0, <2>1, ExplorationAssumption DEF ExecutionOwned
  <2>4. QED
    BY <1>0, <1>4, <2>1, <2>2, <2>3
    DEF Others, Keeps, Started, ExecutionOwned, Running, Terminal
<1>5. ASSUME NEW x \in Session, NEW s \in {"SUCCEEDED", "FAILED"}, Ends(x, s) PROVE Goal
  BY <1>4, <1>5 DEF Ends, Running, Outcome, Terminal
<1>6. ASSUME NEW x \in Session, Fences(x) PROVE Goal
  BY <1>0, <1>6 DEF Fences, Others, Keeps, ExecutionOwned, Running, vars
<1>7. ASSUME NEW x \in Session, Finalizes(x) PROVE Goal
  BY <1>4, <1>7 DEF Finalizes, Keeps, Outcome, Terminal
<1>8. CASE UNCHANGED allVars
  BY <1>1, <1>8 DEF allVars, exploration, Keeps
<1>9. QED
  BY <1>0, <1>1, <1>2, <1>3, <1>5, <1>6, <1>7, <1>8, StatusStep DEF Quiet

LEMMA OwnedInvariant == XSpec => []OwnedInv
BY OwnedInit, OwnedStep, PTL DEF XSpec

\* A RUNNING attempt has exactly one session, and a RUNNING session an execution to end.
THEOREM ExecutionsAreOwned == XSpec => []ExecutionOwned
BY OwnedInvariant, PTL DEF OwnedInv

-----------------------------------------------------------------------------
(* The terminal event *)

\* An execution that is over stays over: its rows keep their outcome, its leases stay free.
Over(a) ==
  /\ attempt[a].lifecycle = "COMPLETED"
  /\ task[TaskOf[a]].lifecycle = "COMPLETED"
  /\ ~Live(a)

LEMMA OverKept ==
  ASSUME TypeOK, [Next]_vars, NEW a \in Attempt, Over(a)
  PROVE attempt'[a] = attempt[a] /\ task'[TaskOf[a]] = task[TaskOf[a]] /\ ~Live(a)'
<1> DEFINE Goal == attempt'[a] = attempt[a] /\ task'[TaskOf[a]] = task[TaskOf[a]] /\ ~Live(a)'
<1>0. /\ attempt \in [Attempt -> AttemptRow]
      /\ task \in [RunTask -> Task]
      /\ binding \in [Attempt -> Binding]
      /\ \A b \in Attempt : TaskOf[b] \in RunTask
  BY Constants DEF TypeOK
<1> USE DEF Over
<1>1. CASE UNCHANGED <<task, attempt, binding>>
  BY <1>1 DEF Live
<1>2. ASSUME NEW t \in RunTask, CreateRunTask(t) PROVE Goal
  BY <1>0, <1>2 DEF CreateRunTask, Live
<1>3. ASSUME NEW b \in Attempt, CreateAttempt(b) PROVE Goal
  BY <1>0, <1>3 DEF CreateAttempt, Live
<1>4. ASSUME NEW b \in Attempt, NEW i \in Identity, NEW s \in Slot, CreateBinding(b, i, s)
      PROVE Goal
  <2>1. b # a
    BY <1>4 DEF CreateBinding, BindResources, Admissible
  <2>2. attempt'[a] = attempt[a] /\ task'[TaskOf[a]] = task[TaskOf[a]]
    BY <1>0, <1>4, <2>1, TaskOfNewBinding DEF CreateBinding, BindResources, Admissible
  <2>3. binding'[a] = binding[a]
    BY <1>0, <1>4, <2>1 DEF CreateBinding, BindResources, Admissible
  <2>4. QED
    BY <2>2, <2>3 DEF Live
<1>5. ASSUME NEW b \in Attempt, NEW s \in BindingStatus, SetBinding(b, s),
             Live(b) \/ s \notin {"READY", "IN_USE"}
      PROVE ~Live(a)'
  <2>1. CASE b = a
    BY <1>0, <1>5, <2>1, SetEffect DEF Live
  <2>2. CASE b # a
    BY <1>0, <1>5, <2>2, SetEffect DEF Live
  <2>3. QED
    BY <2>1, <2>2
<1>6. ASSUME NEW o \in Operator, NEW b \in Attempt,
             Consume(o, b) \/ Renew(o, b) \/ Release(o, b) \/ Recover(o, b)
      PROVE Goal
  <2>1. UNCHANGED <<task, attempt>> /\ Live(b)
    BY <1>6 DEF Consume, Renew, Release, Recover, Commandable
  <2>2. \E s \in BindingStatus : SetBinding(b, s)
    BY <1>0, <1>6 DEF Consume, Renew, Release, Recover, Binding, BindingStatus
  <2>3. QED
    BY <1>5, <2>1, <2>2
<1>7. ASSUME NEW b \in Attempt, StartExecution(b) PROVE Goal
  <2>1. b # a /\ TaskOf[b] # TaskOf[a] /\ Live(b) /\ SetBinding(b, "IN_USE")
    BY <1>7 DEF StartExecution, RunOwners, Startable, Preparable, Live
  <2>2. ~Live(a)'
    BY <1>5, <2>1 DEF BindingStatus
  <2>3. QED
    BY <1>0, <1>7, <2>1, <2>2 DEF StartExecution, RunOwners, Startable
<1>8. ASSUME NEW b \in Attempt, NEW outcome \in Outcome, Finish(b, outcome) PROVE Goal
  <2>1. b # a /\ TaskOf[b] # TaskOf[a]
    BY <1>8 DEF Finish, EndExecution
  <2>2. ~Live(a)'
    <3>1. SetBinding(b, "RELEASED") \/ UNCHANGED binding
      BY <1>8 DEF Finish, EndExecution
    <3>2. QED
      BY <1>5, <3>1 DEF BindingStatus, Live
  <2>3. QED
    BY <1>0, <1>8, <2>1, <2>2 DEF Finish, EndExecution
<1>9. QED
  BY <1>1, <1>2, <1>3, <1>4, <1>6, <1>7, <1>8 DEF Next, Read, Tick, RunnerChanges, vars

\* What the end of an execution leaves, in the rows of its attempt.
LEMMA EndEffect ==
  ASSUME TypeOK, NEW a \in Attempt, NEW s \in Outcome, EndExecution(a, s)
  PROVE /\ attempt'[a] = [lifecycle |-> "COMPLETED", status |-> s]
        /\ task'[TaskOf[a]] = [lifecycle |-> "COMPLETED", result |-> ResultOf(s)]
        /\ ~Live(a)'
<1>1. CASE Live(a)
  <2>1. binding'[a].status = "RELEASED"
    BY <1>1, SetEffect DEF EndExecution, TypeOK, BindingStatus
  <2>2. QED
    BY <2>1, Constants DEF EndExecution, TypeOK, Live
<1>2. CASE ~Live(a)
  BY <1>2, Constants DEF EndExecution, TypeOK, Live
<1>3. QED
  BY <1>1, <1>2

\* The session's rows say what its published event says.
Told(x) ==
  LET a == session[x].attempt IN
    /\ published[x] = session[x].status
    /\ attempt[a] = [lifecycle |-> "COMPLETED", status |-> published[x]]
    /\ task[TaskOf[a]] = [lifecycle |-> "COMPLETED", result |-> ResultOf(published[x])]
    /\ ~Live(a)

EventInv == OwnedInv /\ EventTellsOutcome

LEMMA EventInit == XInit => EventInv
BY OwnedInit DEF EventInv, XInit, EventTellsOutcome

LEMMA EventStep == EventInv /\ [XNext]_allVars => EventInv'
<1> SUFFICES ASSUME EventInv, [XNext]_allVars PROVE EventTellsOutcome'
  BY OwnedStep DEF EventInv
<1>0. /\ TypeOK /\ XTypes /\ Started
      /\ [Next]_vars
      /\ \A x \in Session : session[x].status \in {"SUCCEEDED", "FAILED"} =>
                              published[x] = session[x].status
      /\ \A x \in Session : published[x] # "NONE" => Told(x)
  BY CoreStep DEF EventInv, OwnedInv, SessionInv, EventTellsOutcome, Told
<1>1. SUFFICES ASSUME NEW x \in Session
               PROVE /\ session'[x].status \in {"SUCCEEDED", "FAILED"} =>
                          published'[x] = session'[x].status
                     /\ published'[x] # "NONE" => Told(x)'
  BY DEF EventTellsOutcome, Told
<1>2. ASSUME published[x] # "NONE" PROVE session[x].attempt \in Attempt
  BY <1>0, <1>2 DEF Told, XTypes, Terminal, Started
<1>3. CASE Keeps(x) /\ published'[x] = published[x]
  <2>1. CASE published[x] # "NONE"
    <3>1. PICK a \in Attempt : a = session[x].attempt
      BY <1>2, <2>1
    <3>2. Told(x) /\ Over(a)
      BY <1>0, <2>1, <3>1 DEF Told, Over
    <3>3. attempt'[a] = attempt[a] /\ task'[TaskOf[a]] = task[TaskOf[a]] /\ ~Live(a)'
      BY <1>0, <3>2, OverKept
    <3>4. a = session'[x].attempt
      BY <1>3, <3>1 DEF Keeps
    <3>5. QED
      BY <1>0, <1>3, <3>1, <3>2, <3>3, <3>4 DEF Told, Keeps, Live
  <2>2. CASE published[x] = "NONE"
    BY <1>0, <1>3, <2>2 DEF Keeps
  <2>3. QED
    BY <2>1, <2>2
<1>4. ASSUME NEW s \in Outcome, EndExecution(session[x].attempt, s), session[x].attempt \in Attempt,
             session'[x].attempt = session[x].attempt, session'[x].status = s, published'[x] = s
      PROVE Told(x)' /\ published'[x] = session'[x].status
  <2>1. PICK a \in Attempt : a = session[x].attempt /\ EndExecution(a, s)
    BY <1>4
  <2>2. /\ attempt'[a] = [lifecycle |-> "COMPLETED", status |-> s]
        /\ task'[TaskOf[a]] = [lifecycle |-> "COMPLETED", result |-> ResultOf(s)]
        /\ ~Live(a)'
    BY <1>0, <2>1, EndEffect
  <2>3. a = session'[x].attempt
    BY <1>4, <2>1
  <2>4. QED
    BY <1>4, <2>2, <2>3 DEF Told, Live, ResultOf
<1>5. ASSUME NEW s \in {"SUCCEEDED", "FAILED"}, Ends(x, s)
      PROVE Told(x)' /\ published'[x] = session'[x].status
  BY <1>0, <1>4, <1>5 DEF Ends, Running, Started, Outcome
<1>6. CASE Finalizes(x)
  BY <1>0, <1>4, <1>6 DEF Finalizes, Keeps, Started, Outcome
<1>7. CASE Fences(x) \/ \E b \in Attempt : Begins(x, b)
  <2>1. published[x] = "NONE" /\ published'[x] = "NONE"
    BY <1>0, <1>7 DEF Fences, Begins, Running, Told, XTypes, Terminal
  <2>2. QED
    BY <1>7, <2>1 DEF Fences, Begins
<1>8. CASE UNCHANGED allVars
  BY <1>3, <1>8 DEF allVars, exploration, Keeps
<1>9. CASE XNext
  <2>1. \/ Keeps(x) /\ published'[x] = published[x]
        \/ Fences(x) \/ (\E b \in Attempt : Begins(x, b))
        \/ (\E s \in {"SUCCEEDED", "FAILED"} : Ends(x, s))
        \/ Finalizes(x)
    BY <1>0, <1>9, StatusStep DEF Quiet, Begins, Ends, Fences, Finalizes, Others
  <2>2. QED
    BY <1>3, <1>5, <1>6, <1>7, <2>1
<1>10. QED
  BY <1>8, <1>9

LEMMA EventInvariant == XSpec => []EventInv
BY EventInit, EventStep, PTL DEF XSpec

\* The outbox event of a session is published with the rows it speaks of, and they keep
\* saying the same.
THEOREM EventsTellTheTruth == XSpec => []EventTellsOutcome
BY EventInvariant, PTL DEF EventInv

-----------------------------------------------------------------------------
(* Terminal sessions are final *)

LEMMA TerminalRowsStep ==
  ASSUME XTypes, XNext, NEW y \in Session, session[y].status \in Terminal
  PROVE session'[y] = session[y] /\ step'[y] = step[y]
<1> DEFINE Goal == session'[y] = session[y] /\ step'[y] = step[y]
<1>0. ~Running(y) /\ ~Locked(y) /\ session[y].status # "READY"
  BY DEF Terminal, Running, Locked
<1> USE DEF Pc, CallAt, TransactionAt, EndingAt
<1>1. CASE UNCHANGED <<session, step>>
  BY <1>1
<1>2. ASSUME NEW x \in Session, x # y, NEW row \in SessionRow, NEW pc \in Pc, Advance(x, row, pc)
      PROVE session'[y] = session[y]
  BY <1>2, AdvanceEffect
<1>3. ASSUME NEW x \in Session, x # y, NEW s, SetStep(x, s) PROVE step'[y] = step[y]
  BY <1>3 DEF SetStep, XTypes
<1>4. ASSUME NEW x \in Session, FailSession(x) PROVE session'[y] = session[y]
  <2>1. CASE Running(x)
    BY <1>0, <1>4, <2>1 DEF FailSession, Publish, XTypes
  <2>2. QED
    BY <1>4, <2>1 DEF FailSession, Publish
<1>5. ASSUME NEW x \in Session, NEW a \in Attempt, Start(x, a) PROVE Goal
  BY <1>0, <1>5 DEF Start, XTypes
<1>6. ASSUME NEW x \in Session, AcceptInitialObservation(x) \/ PrepareStep(x) PROVE Goal
  <2>1. CASE Running(x)
    <3>1. x # y
      BY <1>0, <2>1
    <3>2. \A z \in Session \ {x} : session'[z] = session[z] /\ step'[z] = step[z]
      BY <1>6 DEF AcceptInitialObservation, PrepareStep, Raise, Advance, XTypes
    <3>3. QED
      BY <3>1, <3>2
  <2>2. CASE ~Running(x)
    BY <1>6, <2>2 DEF AcceptInitialObservation, PrepareStep, Raise, Locked
  <2>3. QED
    BY <2>1, <2>2
<1>7. ASSUME NEW x \in Session, NEW grounded \in BOOLEAN,
             \/ AcceptAction(x) \/ FinishStep(x) \/ FinishFailedAction(x)
             \/ CompleteRunning(x, grounded) \/ AcceptReobservation(x)
      PROVE Goal
  <2>1. CASE Running(x)
    <3>1. x # y
      BY <1>0, <2>1
    <3>2. \A z \in Session \ {x} : session'[z] = session[z]
      BY <1>7 DEF AcceptAction, FinishStep, FinishFailedAction, Conclude, CompleteRunning, Publish,
                  AcceptReobservation, Raise, Advance, XTypes
    <3>3. \A z \in Session \ {x} : step'[z] = step[z]
      BY <1>7 DEF AcceptAction, FinishStep, FinishFailedAction, Conclude, CompleteRunning, Publish,
                  AcceptReobservation, Raise, Discard, SetStep, XTypes
    <3>4. QED
      BY <3>1, <3>2, <3>3
  <2>2. CASE ~Running(x)
    BY <1>7, <2>2 DEF AcceptAction, FinishStep, FinishFailedAction, Conclude, CompleteRunning, Publish,
                      AcceptReobservation, Raise, Locked
  <2>3. QED
    BY <2>1, <2>2
<1>8. ASSUME NEW x \in Session, FailRunning(x) PROVE Goal
  <2>1. session'[y] = session[y]
    BY <1>4, <1>8 DEF FailRunning
  <2>2. step'[y] = step[y]
    BY <1>0, <1>3, <1>8 DEF FailRunning
  <2>3. QED
    BY <2>1, <2>2
<1>9. ASSUME NEW x \in Session, FailBeforeRuntime(x) PROVE Goal
  BY <1>4, <1>9 DEF FailBeforeRuntime
<1>10. ASSUME NEW q \in Request, NEW x \in Session, Cancel(q, x) PROVE Goal
  <2>1. x # y
    BY <1>0, <1>10 DEF Cancel
  <2>2. QED
    BY <1>10, <2>1 DEF Cancel, DiscardOpen, XTypes
<1>11. ASSUME NEW x \in Session, DeadlinePasses(x) PROVE Goal
  <2>1. x # y
    BY <1>0, <1>11 DEF DeadlinePasses
  <2>2. QED
    BY <1>11, <2>1 DEF DeadlinePasses, XTypes
<1>12. ASSUME NEW x \in Session, NEW q \in Request,
              \/ ReplayCancel(q, x) \/ CloseCancelledRuntime(q, x) \/ FinalizeCancel(q, x)
              \/ RequestDies(q, x)
       PROVE Goal
  BY <1>1, <1>12 DEF ReplayCancel, CloseCancelledRuntime, FinalizeCancel, Publish, RequestDies
<1>13. ASSUME NEW x \in Session,
              \/ LoadRuntimeSnapshot(x) \/ StartBrowser(x) \/ Decide(x) \/ Execute(x)
              \/ CheckOwns(x) \/ Observe(x) \/ TransactionRaises(x) \/ CloseBrowser(x)
              \/ RecordCleanup(x) \/ LoopDies(x)
       PROVE Goal
  BY <1>1, <1>13
  DEF LoadRuntimeSnapshot, StartBrowser, Decide, Execute, CheckOwns, Observe,
      TransactionRaises, CloseBrowser, RecordCleanup, LoopDies
<1>14. CASE BindingStep
  BY <1>1, <1>14 DEF BindingStep, exploration
<1>15. QED
  BY <1>5, <1>6, <1>7, <1>8, <1>9, <1>10, <1>11, <1>12, <1>13, <1>14
  DEF XNext, LoopStep, RequestStep

\* What is over stays as it is, and is announced once: no late answer of the model, the
\* Runner or a second cancellation reaches a terminal session, its steps or its event.
THEOREM TerminalSessionsAreFinal == XSpec => TerminalSessionFinal
<1> DEFINE A == \A x \in Session : session[x].status \in Terminal =>
                  /\ session'[x] = session[x]
                  /\ step'[x] = step[x]
                  /\ published[x] # "NONE" => published'[x] = published[x]
<1>1. EventInv /\ [XNext]_allVars => [A]_allVars
  <2> SUFFICES ASSUME EventInv, XNext, NEW x \in Session, session[x].status \in Terminal
               PROVE /\ session'[x] = session[x]
                     /\ step'[x] = step[x]
                     /\ published[x] # "NONE" => published'[x] = published[x]
    OBVIOUS
  <2>1. XTypes
    BY DEF EventInv, OwnedInv, SessionInv
  <2>2. session'[x] = session[x] /\ step'[x] = step[x]
    BY <2>1, TerminalRowsStep
  <2>3. ASSUME published[x] # "NONE" PROVE published'[x] = published[x]
    <3>1. published[x] = session[x].status
      BY <2>3 DEF EventInv, EventTellsOutcome
    <3>2. \/ published'[x] = published[x]
          \/ session[x].status = "CANCELLED" /\ published'[x] = "CANCELLED"
          \/ session[x].status = "RUNNING"
      BY <2>1, StatusStep DEF Quiet, Begins, Ends, Fences, Finalizes, Others, Running
    <3>3. QED
      BY <3>1, <3>2 DEF Terminal
  <2>4. QED
    BY <2>2, <2>3
<1>2. QED
  BY <1>1, EventInvariant, PTL DEF XSpec, TerminalSessionFinal

-----------------------------------------------------------------------------
(* The loop and its session *)

\* Where the loop holds a version of the row, which is then the present one.
Holding == (CallAt \cup TransactionAt) \ {"SCHEDULED", "STARTING", "ACCEPTING"}

\* Inductive, for each session.
LoopGood(x) ==
  /\ session[x].status = "READY" <=> loop[x].pc = "NONE"
  /\ Running(x) /\ loop[x].pc \in Holding => Fresh(x)
  /\ loop[x].pc \in {"CLOSING", "CLOSED", "CLOSE_FAILED", "DONE"} => session[x].status \in Terminal
  /\ Running(x) /\ loop[x].pc \in {"DECIDING", "RESPONDING"} => CurrentStep(x) = "DECIDING"

LoopInv == SessionInv /\ \A x \in Session : LoopGood(x)

LEMMA LoopInit == XInit => LoopInv
BY SessionInit DEF LoopInv, LoopGood, XInit, Running, Holding

LEMMA LoopKept ==
  ASSUME NEW x \in Session, LoopGood(x),
         session'[x] = session[x], step'[x] = step[x], loop'[x] = loop[x]
  PROVE LoopGood(x)'
BY DEF LoopGood, Running, Fresh, CurrentStep

\* The loop moves on with its session as it is.
LEMMA LoopMoves ==
  ASSUME XTypes, NEW x \in Session, LoopGood(x), session'[x] = session[x], step'[x] = step[x],
         NEW pc \in Pc \ {"NONE"}, loop[x].pc # "NONE",
         loop'[x].pc = pc, loop'[x].version = loop[x].version,
         pc \in Holding => loop[x].pc \in Holding,
         pc \in {"CLOSING", "CLOSED", "CLOSE_FAILED", "DONE"} => session[x].status \in Terminal,
         pc \in {"DECIDING", "RESPONDING"} => loop[x].pc \in {"DECIDING", "RESPONDING"}
  PROVE LoopGood(x)'
BY DEF LoopGood, Running, Fresh, CurrentStep

\* The loop has written the row.
LEMMA LoopWrites ==
  ASSUME XTypes, NEW x \in Session, LoopGood(x), loop[x].pc # "NONE",
         NEW row \in SessionRow, row.status = session[x].status,
         NEW pc \in Pc \ {"NONE"}, Advance(x, row, pc),
         pc \notin {"CLOSING", "CLOSED", "CLOSE_FAILED", "DONE"},
         pc \in {"DECIDING", "RESPONDING"} => CurrentStep(x)' = "DECIDING"
  PROVE LoopGood(x)'
<1>1. /\ session'[x] = [row EXCEPT !.version = session[x].version + 1]
      /\ loop'[x].pc = pc
      /\ loop'[x].version = session[x].version + 1
  BY AdvanceEffect
<1>2. session'[x].status = session[x].status /\ session'[x].version = session[x].version + 1
  BY <1>1 DEF SessionRow
<1>3. QED
  BY <1>1, <1>2 DEF LoopGood, Running, Fresh, Pc

\* The session fails if it still ran; it is over in any case.
LEMMA LoopFails ==
  ASSUME XTypes, NEW x \in Session, LoopGood(x), loop[x].pc \in {"FAILING", "FAILING_EARLY"},
         FailSession(x), NEW pc \in {"CLOSING", "DONE"}, Goto(x, pc)
  PROVE LoopGood(x)'
<1>1. loop'[x].pc = pc
  BY GotoEffect DEF Pc, EndingAt
<1>2. session'[x].status \in Terminal
  <2>1. CASE Running(x)
    <3>1. session'[x] = [session[x] EXCEPT !.status = "FAILED",
                                           !.version = session[x].version + 1]
      BY <2>1 DEF FailSession, Publish, XTypes
    <3>2. QED
      BY <3>1 DEF XTypes, SessionRow, Terminal
  <2>2. CASE ~Running(x)
    BY <2>2 DEF FailSession, Publish, LoopGood, Running, XTypes, SessionRow, Terminal
  <2>3. QED
    BY <2>1, <2>2
<1>3. QED
  BY <1>1, <1>2 DEF LoopGood, Running, Holding, CallAt, TransactionAt, Terminal

\* Steps that do not concern the session of x.
LEMMA LoopOthers ==
  ASSUME XTypes, NEW x \in Session, NEW y \in Session \ {x}, LoopStep(x)
  PROVE session'[y] = session[y] /\ step'[y] = step[y] /\ loop'[y] = loop[y]
<1> USE DEF XTypes
<1>1. CASE LoadRuntimeSnapshot(x) \/ StartBrowser(x) \/ Decide(x) \/ Execute(x) \/ CheckOwns(x)
             \/ Observe(x) \/ TransactionRaises(x) \/ CloseBrowser(x) \/ RecordCleanup(x)
  BY <1>1 DEF LoadRuntimeSnapshot, StartBrowser, Decide, Execute, CheckOwns, Observe,
              TransactionRaises, CloseBrowser, RecordCleanup, Goto
<1>2. CASE AcceptInitialObservation(x) \/ PrepareStep(x) \/ AcceptAction(x)
             \/ FinishStep(x) \/ FinishFailedAction(x) \/ AcceptReobservation(x)
  BY <1>2 DEF AcceptInitialObservation, PrepareStep, AcceptAction, FinishStep,
              FinishFailedAction, Conclude, AcceptReobservation, Raise, Advance, Goto,
              SetStep, Discard
<1>3. CASE \E grounded \in BOOLEAN : CompleteRunning(x, grounded)
  BY <1>3 DEF CompleteRunning, Publish, Raise, Advance, Goto, SetStep, Discard
<1>4. CASE FailRunning(x) \/ FailBeforeRuntime(x)
  BY <1>4 DEF FailRunning, FailBeforeRuntime, FailSession, Publish, Goto, SetStep
<1>5. QED
  BY <1>1, <1>2, <1>3, <1>4 DEF LoopStep

LEMMA LoopStepGood ==
  ASSUME XTypes, NEW x \in Session, LoopGood(x), LoopStep(x)
  PROVE LoopGood(x)'
<1>0. /\ session[x] \in SessionRow /\ loop[x] \in Loop
      /\ step \in [Session -> [1 .. MaxSteps -> StepStatus]]
  BY DEF XTypes
<1> USE DEF Pc, CallAt, TransactionAt, EndingAt, Holding
<1>1. ASSUME NEW pc \in Pc \ {"NONE"}, Goto(x, pc), loop[x].pc # "NONE",
             UNCHANGED session, step'[x] = step[x],
             pc \in Holding => loop[x].pc \in Holding,
             pc \in {"CLOSING", "CLOSED", "CLOSE_FAILED", "DONE"} => session[x].status \in Terminal,
             pc \in {"DECIDING", "RESPONDING"} => loop[x].pc \in {"DECIDING", "RESPONDING"}
      PROVE LoopGood(x)'
  BY <1>1, GotoEffect, LoopMoves
<1>2. ASSUME Raise(x), loop[x].pc # "NONE" PROVE LoopGood(x)'
  BY <1>1, <1>2 DEF Raise
<1>3. ASSUME NEW pc \in {"PREPARING", "EXECUTING", "OWNING", "OBSERVING"},
             Advance(x, session[x], pc), loop[x].pc # "NONE"
      PROVE LoopGood(x)'
  BY <1>0, <1>3, LoopWrites
<1>4. CASE LoadRuntimeSnapshot(x)
  BY <1>1, <1>4 DEF LoadRuntimeSnapshot
<1>5. CASE StartBrowser(x)
  <2>1. CASE loop' = [loop EXCEPT ![x].pc = "ACCEPTING", ![x].browser = TRUE]
    <3>1. loop'[x].pc = "ACCEPTING" /\ loop'[x].version = loop[x].version
      BY <1>0, <2>1 DEF XTypes, Loop
    <3>2. QED
      BY <1>5, <3>1 DEF StartBrowser, LoopGood, Running, Fresh, CurrentStep
  <2>2. CASE Goto(x, "FAILING")
    BY <1>1, <1>5, <2>2 DEF StartBrowser
  <2>3. QED
    BY <1>5, <2>1, <2>2 DEF StartBrowser
<1>6. CASE AcceptInitialObservation(x)
  <2>1. CASE Advance(x, [session[x] EXCEPT !.hasBrowser = TRUE], "PREPARING")
    <3> DEFINE row == [session[x] EXCEPT !.hasBrowser = TRUE]
    <3>1. session[x] \in SessionRow
      BY <1>0
    <3>2. row \in SessionRow
      BY <3>1, RowUpdate
    <3>3. row.status = session[x].status
      BY <3>1 DEF SessionRow
    <3>4. Advance(x, row, "PREPARING")
      BY <2>1
    <3>5. loop[x].pc # "NONE"
      BY <1>6 DEF AcceptInitialObservation
    <3> HIDE DEF row
    <3>6. QED
      BY <3>2, <3>3, <3>4, <3>5, LoopWrites
  <2>2. QED
    BY <1>2, <1>6, <2>1 DEF AcceptInitialObservation
<1>7. CASE PrepareStep(x)
  <2>1. CASE /\ StepsLeft(x)
             /\ Advance(x, [session[x] EXCEPT !.sequence = session[x].sequence + 1], "DECIDING")
             /\ step' = [step EXCEPT ![x][session[x].sequence + 1] = "DECIDING"]
    <3> DEFINE row == [session[x] EXCEPT !.sequence = session[x].sequence + 1]
    <3>0. session[x] \in SessionRow
      BY <1>0
    <3>1. session[x].sequence + 1 \in 1 .. MaxSteps
      BY <3>0, <2>1, ExplorationAssumption DEF StepsLeft, SessionRow
    <3>2. row \in SessionRow
      <4>1. session[x].sequence + 1 \in 0 .. MaxSteps
        BY <3>1
      <4>2. QED
        BY <3>0, <4>1, RowUpdate
    <3>3. row.status = session[x].status /\ row.sequence = session[x].sequence + 1
      BY <1>0 DEF SessionRow
    <3>4. Advance(x, row, "DECIDING")
      BY <2>1
    <3> HIDE DEF row
    <3>5. session'[x] = [row EXCEPT !.version = session[x].version + 1]
      BY <3>2, <3>4, AdvanceEffect
    <3>6. session'[x].sequence = session[x].sequence + 1
      BY <3>2, <3>3, <3>5 DEF SessionRow
    <3>7. CurrentStep(x)' = "DECIDING"
      BY <1>0, <2>1, <3>1, <3>6 DEF CurrentStep
    <3>8. loop[x].pc # "NONE"
      BY <1>7 DEF PrepareStep
    <3>9. QED
      BY <3>2, <3>3, <3>4, <3>7, <3>8, LoopWrites
  <2>2. CASE Locked(x) /\ ~Fresh(x)
    BY <1>7, <2>2 DEF PrepareStep, LoopGood, Locked
  <2>3. QED
    BY <1>2, <1>7, <2>1, <2>2 DEF PrepareStep
<1>8. CASE Decide(x)
  <2>1. (\E pc \in {"RESPONDING", "FAILING"} : loop'[x].pc = pc) /\ loop'[x].version = loop[x].version
    BY <1>0, <1>8 DEF Decide, XTypes, Loop
  <2>2. QED
    BY <1>8, <2>1 DEF Decide, LoopGood, Running, Fresh, CurrentStep
<1>9. CASE AcceptAction(x)
  BY <1>2, <1>3, <1>9 DEF AcceptAction, LoopGood, Locked
<1>10. CASE Execute(x) \/ CheckOwns(x) \/ Observe(x) \/ TransactionRaises(x)
  BY <1>1, <1>10 DEF Execute, CheckOwns, Observe, TransactionRaises
<1>11. CASE FinishStep(x) \/ FinishFailedAction(x)
  BY <1>2, <1>3, <1>11 DEF FinishStep, FinishFailedAction, Conclude
<1>12. ASSUME NEW grounded \in BOOLEAN, CompleteRunning(x, grounded) PROVE LoopGood(x)'
  <2>0. loop[x].pc = "COMPLETING"
    BY <1>12 DEF CompleteRunning, Publish
  <2>1. CASE /\ session' = [session EXCEPT ![x].status = "SUCCEEDED",
                                           ![x].version = session[x].version + 1]
             /\ Goto(x, "CLOSING")
    <3>1. session'[x] = [session[x] EXCEPT !.status = "SUCCEEDED",
                                           !.version = session[x].version + 1]
      BY <2>1 DEF XTypes
    <3>2. session'[x].status = "SUCCEEDED"
      BY <1>0, <3>1 DEF SessionRow
    <3>3. loop'[x].pc = "CLOSING"
      BY <2>1, GotoEffect
    <3>4. QED
      BY <3>2, <3>3 DEF LoopGood, Running, Terminal
  <2>2. CASE Advance(x, session[x], "OBSERVING")
    BY <1>3, <2>0, <2>2
  <2>3. CASE /\ loop' = [loop EXCEPT ![x].pc = "OBSERVING", ![x].version = session[x].version]
             /\ UNCHANGED session
    <3>1. loop'[x].pc = "OBSERVING" /\ loop'[x].version = session[x].version
      BY <1>0, <2>3 DEF XTypes, Loop
    <3>2. QED
      BY <2>0, <2>3, <3>1 DEF LoopGood, Running, Fresh
  <2>4. QED
    BY <1>2, <1>12, <2>0, <2>1, <2>2, <2>3 DEF CompleteRunning, Publish
<1>13. CASE AcceptReobservation(x)
  BY <1>2, <1>3, <1>13 DEF AcceptReobservation
<1>14. CASE FailRunning(x) \/ FailBeforeRuntime(x)
  BY <1>14, LoopFails DEF FailRunning, FailBeforeRuntime, AfterFailing
<1>15. CASE CloseBrowser(x) \/ RecordCleanup(x)
  <2>1. session[x].status \in Terminal /\ loop[x].pc # "NONE" /\ UNCHANGED <<session, step>>
    BY <1>15 DEF CloseBrowser, RecordCleanup, LoopGood
  <2>2. QED
    BY <1>1, <1>15, <2>1 DEF CloseBrowser, RecordCleanup
<1>16. QED
  BY <1>4, <1>5, <1>6, <1>7, <1>8, <1>9, <1>10, <1>11, <1>12, <1>13, <1>14, <1>15 DEF LoopStep

LEMMA LoopInvStep == LoopInv /\ [XNext]_allVars => LoopInv'
<1> SUFFICES ASSUME LoopInv, [XNext]_allVars, NEW y \in Session PROVE LoopGood(y)'
  BY SessionStep DEF LoopInv
<1>0. XTypes /\ LoopGood(y)
  BY DEF LoopInv, SessionInv
<1> USE DEF Holding, CallAt, TransactionAt
<1>1. CASE UNCHANGED <<session, step, loop>>
  BY <1>0, <1>1, LoopKept
<1>2. ASSUME NEW x \in Session, LoopStep(x) PROVE LoopGood(y)'
  <2>1. CASE x = y
    BY <1>0, <1>2, <2>1, LoopStepGood
  <2>2. CASE x # y
    BY <1>0, <1>2, <2>2, LoopOthers, LoopKept
  <2>3. QED
    BY <2>1, <2>2
<1>3. ASSUME NEW x \in Session, NEW a \in Attempt, Start(x, a) PROVE LoopGood(y)'
  <2>1. CASE x = y
    <3>1. session'[x] = [session[x] EXCEPT !.status = "RUNNING", !.attempt = a,
                                           !.version = session[x].version + 1]
      BY <1>0, <1>3 DEF Start, XTypes
    <3>2. session'[x].status = "RUNNING" /\ loop'[x].pc = "SCHEDULED"
      BY <1>0, <1>3, <3>1, GotoEffect DEF Start, XTypes, SessionRow, Pc
    <3>3. QED
      BY <2>1, <3>2 DEF LoopGood
  <2>2. CASE x # y
    BY <1>0, <1>3, <2>2, LoopKept DEF Start, Goto, XTypes
  <2>3. QED
    BY <2>1, <2>2
<1>4. ASSUME NEW q \in Request, NEW x \in Session, Cancel(q, x) PROVE LoopGood(y)'
  <2>1. CASE x = y
    <3>1. session'[x] = [session[x] EXCEPT !.status = "CANCELLED",
                                           !.version = session[x].version + 1]
      BY <1>0, <1>4 DEF Cancel, XTypes
    <3>2. session'[x].status = "CANCELLED" /\ UNCHANGED loop
      BY <1>0, <1>4, <3>1 DEF Cancel, XTypes, SessionRow
    <3>3. session[x].status # "READY"
      BY <1>4 DEF Cancel, Locked, Running
    <3>4. QED
      BY <1>0, <2>1, <3>2, <3>3 DEF LoopGood, Running, Terminal
  <2>2. CASE x # y
    BY <1>0, <1>4, <2>2, LoopKept DEF Cancel, DiscardOpen, XTypes
  <2>3. QED
    BY <2>1, <2>2
<1>5. ASSUME NEW x \in Session, DeadlinePasses(x) PROVE LoopGood(y)'
  <2>1. CASE x = y
    <3>1. /\ session'[x] = [session[x] EXCEPT !.late = TRUE]
          /\ UNCHANGED <<step, loop>>
      BY <1>0, <1>5 DEF DeadlinePasses, XTypes
    <3>2. /\ session'[x].status = session[x].status
          /\ session'[x].version = session[x].version
          /\ session'[x].sequence = session[x].sequence
      BY <1>0, <3>1 DEF XTypes, SessionRow
    <3>3. QED
      BY <1>0, <2>1, <3>1, <3>2 DEF LoopGood, Running, Fresh, CurrentStep
  <2>2. CASE x # y
    BY <1>0, <1>5, <2>2, LoopKept DEF DeadlinePasses, XTypes
  <2>3. QED
    BY <2>1, <2>2
<1>6. ASSUME NEW x \in Session, LoopDies(x) PROVE LoopGood(y)'
  <2>1. CASE x = y
    BY <1>0, <1>6, <2>1, GotoEffect DEF LoopDies, LoopGood, Running, Pc
  <2>2. CASE x # y
    BY <1>0, <1>6, <2>2, LoopKept DEF LoopDies, Goto, XTypes
  <2>3. QED
    BY <2>1, <2>2
<1>7. CASE BindingStep
  BY <1>1, <1>7 DEF BindingStep, exploration
<1>8. ASSUME NEW q \in Request, NEW x \in Session,
             \/ ReplayCancel(q, x) \/ CloseCancelledRuntime(q, x) \/ FinalizeCancel(q, x)
             \/ RequestDies(q, x)
      PROVE LoopGood(y)'
  BY <1>1, <1>8 DEF ReplayCancel, CloseCancelledRuntime, FinalizeCancel, Publish, RequestDies
<1>9. CASE UNCHANGED allVars
  BY <1>1, <1>9 DEF allVars, exploration
<1>10. QED
  BY <1>2, <1>3, <1>4, <1>5, <1>6, <1>7, <1>8, <1>9 DEF XNext, RequestStep

LEMMA LoopInvariant == XSpec => []LoopInv
BY LoopInit, LoopInvStep, PTL DEF XSpec

\* The silent returns of run() on a stale version are never taken while the session runs, ...
THEOREM LoopsOwnTheirVersion == XSpec => []LoopOwnsVersion
<1>1. LoopInv => LoopOwnsVersion
  BY DEF LoopInv, LoopGood, LoopOwnsVersion, Holding
<1>2. QED
  BY <1>1, LoopInvariant, PTL

\* ... so no run() reaches its finally block, or its end, without having ended its session.
THEOREM NoRunIsAbandoned == XSpec => []NoAbandonedRun
<1>1. LoopInv => NoAbandonedRun
  BY DEF LoopInv, LoopGood, NoAbandonedRun
<1>2. QED
  BY <1>1, LoopInvariant, PTL
===============================================================================
