---------------------------- MODULE BrowserChannel ----------------------------
(***************************************************************************)
(* How browser commands reach the Runner an execution is bound to:         *)
(*   runner_browser_channel.py   the rendezvous in the API process         *)
(*   platform_runner/application.py   the two loops of the Agent and the   *)
(*                                    single thread that runs commands     *)
(*   platform_runner/browser_runtime.py   sessions, cancellation flags     *)
(*                                                                         *)
(* Everything is kept per Runner, so this is one Runner.  Each session has *)
(* a caller, the thread of its run(), and a canceller, the HTTP request    *)
(* that cancels it.  A session starts one browser, so browsers are named   *)
(* by their session; a bound command's identity differs between sessions.  *)
(* The condition lock of the broker and the event loop of the Agent make   *)
(* their critical sections atomic.  Time is not counted: any exchange that *)
(* has no answer yet may time out.                                         *)
(***************************************************************************)
EXTENDS Naturals, Sequences

CONSTANTS
  Session,      \* explorations bound to this Runner
  NoExchange,   \* a lane with nothing in flight
  NoJob,        \* a loop of the Agent that is polling
  MaxCommands   \* bound: acts and cancellations stop at this number of commands

VARIABLES
  issued,       \* command ids given out: new_ulid is a number never used before
  channel,      \* _by_runner and _cancel_by_runner: the exchange in flight, if any
  caller,       \* how far the run() of each session is with its browser
  canceller,    \* and the cancellation of each session
  agent,        \* the command each loop of the Agent is busy with, if any
  executor,     \* the loops whose work waits for, or is on, the browser thread, in order
  browser,      \* the browser of each session
  flagged,      \* _cancelled_identities
  lost,         \* history: sessions whose browser neither the API nor a loop still knows of
  persisted     \* sessions whose row has a browser_session_id

vars == <<issued, channel, caller, canceller, agent, executor, browser, flagged, lost, persisted>>

Lane == {"WORK", "CANCEL"}

Operation == {"start", "act", "owns", "close", "cancel"}   \* act: observe, execute

Result == {"OK", "ERROR"}

Command == [id : Nat, operation : Operation, session : Session]

\* completed and what was answered are one field.
Exchange == [command : Command, claimed : BOOLEAN, answer : {"NONE"} \cup Result]

Job == [command : Command, stage : {"CLAIMED", "QUEUED", "RUNNING", "RAN", "REJECTED"},
        result : {"NONE"} \cup Result]

ASSUME ChannelAssumption ==
  /\ NoExchange \notin Exchange
  /\ NoJob \notin Job
  /\ MaxCommands \in Nat

TypeOK ==
  /\ issued \in Nat
  /\ channel \in [Lane -> Exchange \cup {NoExchange}]
  /\ caller \in [Session -> {"NEW", "READY", "DONE", "UNCLOSED"}]
  /\ canceller \in [Session -> {"IDLE", "FENCED", "CANCELLED"}]
  /\ agent \in [Lane -> Job \cup {NoJob}]
  /\ executor \in Seq(Lane) /\ Len(executor) <= 2
  /\ browser \in [Session -> {"NONE", "OPEN", "CLOSED"}]
  /\ flagged \in SUBSET Session
  /\ lost \in SUBSET Session
  /\ persisted \in SUBSET Session

Init ==
  /\ issued = 0
  /\ channel = [l \in Lane |-> NoExchange]
  /\ caller = [x \in Session |-> "NEW"]
  /\ canceller = [x \in Session |-> "IDLE"]
  /\ agent = [l \in Lane |-> NoJob]
  /\ executor = <<>>
  /\ browser = [x \in Session |-> "NONE"]
  /\ flagged = {}
  /\ lost = {}
  /\ persisted = {}

-----------------------------------------------------------------------------
(* The broker, seen by its callers in the API process *)

LaneOf(operation) == IF operation = "cancel" THEN "CANCEL" ELSE "WORK"

Waiting(l, x) == channel[l] # NoExchange /\ channel[l].command.session = x

\* Mutated AfterDispatch: a cancellation goes on to its last stage when the Runner failed it.
AfterDispatchAnyway(operation, x, result) ==
  /\ caller' = [caller EXCEPT ![x] =
        CASE operation = "start" -> IF result = "OK" THEN "READY" ELSE "DONE"
          [] operation = "close" -> IF result = "OK" THEN "DONE" ELSE "UNCLOSED"
          [] OTHER -> caller[x]]
  /\ canceller' = [canceller EXCEPT ![x] =
        IF operation = "cancel" THEN "CANCELLED" ELSE canceller[x]]

\* What a caller does with the end of dispatch(): an answer, an error or a timeout.  A start
\* without an answer leaves run() with no browser to close; run() closes at most once.
AfterDispatch(operation, x, result) ==
  /\ caller' = [caller EXCEPT ![x] =
        CASE operation = "start" -> IF result = "OK" THEN "READY" ELSE "DONE"
          [] operation = "close" -> IF result = "OK" THEN "DONE" ELSE "UNCLOSED"
          [] OTHER -> caller[x]]
  /\ canceller' = [canceller EXCEPT ![x] =
        IF operation = "cancel" /\ result = "OK" THEN "CANCELLED" ELSE canceller[x]]

\* dispatch, up to its wait; a busy lane is refused at once.
Dispatch(operation, x) ==
  LET l == LaneOf(operation) IN
    \/ /\ channel[l] = NoExchange
       /\ issued' = issued + 1
       /\ channel' = [channel EXCEPT ![l] =
             [command |-> [id |-> issued + 1, operation |-> operation, session |-> x],
              claimed |-> FALSE, answer |-> "NONE"]]
       /\ UNCHANGED <<caller, canceller>>
    \/ /\ channel[l] # NoExchange
       /\ AfterDispatch(operation, x, "ERROR")
       /\ UNCHANGED <<issued, channel>>

\* DirectRunnerBrowserRuntime, as run() calls it: start, then acts, then close.
Start(x) ==
  /\ caller[x] = "NEW" /\ ~Waiting("WORK", x)
  /\ Dispatch("start", x)
  /\ UNCHANGED <<agent, executor, browser, flagged, lost, persisted>>

\* _accept_initial_observation, which only a session that nobody cancels gets through.
Persist(x) ==
  /\ caller[x] = "READY" /\ canceller[x] = "IDLE" /\ x \notin persisted
  /\ persisted' = persisted \cup {x}
  /\ UNCHANGED <<issued, channel, caller, canceller, agent, executor, browser, flagged, lost>>

Act(x) ==
  /\ caller[x] = "READY" /\ ~Waiting("WORK", x)
  /\ x \in persisted
  /\ issued < MaxCommands
  /\ \E operation \in {"act", "owns"} : Dispatch(operation, x)
  /\ UNCHANGED <<agent, executor, browser, flagged, lost, persisted>>

Close(x) ==
  /\ caller[x] = "READY" /\ ~Waiting("WORK", x)
  /\ Dispatch("close", x)
  /\ UNCHANGED <<agent, executor, browser, flagged, lost, persisted>>

\* The transaction of cancel, after which run() gets no further than its next own transaction.
Fence(x) ==
  /\ canceller[x] = "IDLE" /\ caller[x] \in {"NEW", "READY"}
  /\ canceller' = [canceller EXCEPT ![x] = "FENCED"]
  /\ UNCHANGED <<issued, channel, caller, agent, executor, browser, flagged, lost, persisted>>

\* close_cancelled_runtime, of the request itself or of a replay.
Cancel(x) ==
  /\ canceller[x] = "FENCED" /\ ~Waiting("CANCEL", x)
  /\ issued < MaxCommands
  /\ Dispatch("cancel", x)
  /\ UNCHANGED <<agent, executor, browser, flagged, lost, persisted>>

\* Mutated Expired: the deadline is looked at before the answer.
ExpiredAnyway(l) == channel[l] # NoExchange

\* dispatch looks at completed first, under the lock: an answer that made it is returned
\* however late the waiter wakes up.
Expired(l) == channel[l] # NoExchange /\ channel[l].answer = "NONE"

\* dispatch, after its wait; the finally block takes the exchange away.
Return(l) ==
  /\ channel[l] # NoExchange /\ channel[l].answer # "NONE"
  /\ AfterDispatch(channel[l].command.operation, channel[l].command.session, channel[l].answer)
  /\ channel' = [channel EXCEPT ![l] = NoExchange]
  /\ UNCHANGED <<issued, agent, executor, browser, flagged, lost, persisted>>

TimeOut(l) ==
  /\ Expired(l)
  /\ AfterDispatch(channel[l].command.operation, channel[l].command.session, "ERROR")
  /\ channel' = [channel EXCEPT ![l] = NoExchange]
  /\ UNCHANGED <<issued, agent, executor, browser, flagged, lost, persisted>>

-----------------------------------------------------------------------------
(* The two loops of the Agent: _browser_command_loop and _browser_cancel_loop *)

Claimable(l) == channel[l] # NoExchange /\ ~channel[l].claimed

At(l, stage) == agent[l] # NoJob /\ agent[l].stage = stage

\* A loop claims its next command when it has done with the last.
Polling(l) == agent[l] = NoJob

\* _claim, answered to the loop that asked.
Claim(l) ==
  /\ Polling(l)
  /\ Claimable(l)
  /\ channel' = [channel EXCEPT ![l].claimed = TRUE]
  /\ agent' = [agent EXCEPT ![l] =
        [command |-> channel[l].command, stage |-> "CLAIMED", result |-> "NONE"]]
  /\ UNCHANGED <<issued, caller, canceller, executor, browser, flagged, lost, persisted>>

\* The answer of the claim does not reach the Agent; the command is spent.
LoseClaim(l) ==
  /\ Polling(l)
  /\ Claimable(l)
  /\ channel' = [channel EXCEPT ![l].claimed = TRUE]
  /\ UNCHANGED <<issued, caller, canceller, agent, executor, browser, flagged, lost, persisted>>

\* _run_claimed_browser_command: a cancellation first raises its flag, then both kinds queue
\* for the browser thread.
Submit(l) ==
  /\ At(l, "CLAIMED")
  /\ agent' = [agent EXCEPT ![l].stage = "QUEUED"]
  /\ executor' = Append(executor, l)
  /\ flagged' = IF agent[l].command.operation = "cancel"
                THEN flagged \cup {agent[l].command.session} ELSE flagged
  /\ UNCHANGED <<issued, channel, caller, canceller, browser, lost, persisted>>

\* Mutated Accepted: an answer is taken for whatever waits in the lane.
AcceptedByLane(l) == channel[l] # NoExchange /\ channel[l].answer = "NONE"

\* complete() knows the command: it still waits, and has no answer.
Accepted(l) ==
  /\ channel[l] # NoExchange
  /\ channel[l].command.id = agent[l].command.id
  /\ channel[l].claimed /\ channel[l].answer = "NONE"

\* The browser that nobody in the API will hear of.
Unheard(l) == agent[l].command.operation = "start" /\ agent[l].result = "OK"

\* Mutated Refused: the Agent goes on to its next command.
RefusedQuietly(l) == agent' = [agent EXCEPT ![l] = NoJob] /\ UNCHANGED executor

\* The 409 of complete(): _close_rejected_start is queued for a browser just started.
Refused(l) ==
  IF Unheard(l)
  THEN /\ agent' = [agent EXCEPT ![l].stage = "REJECTED"]
       /\ executor' = Append(executor, l)
  ELSE /\ agent' = [agent EXCEPT ![l] = NoJob]
       /\ UNCHANGED executor

\* complete_browser_command
Complete(l) ==
  /\ At(l, "RAN")
  /\ \/ /\ Accepted(l)
        /\ channel' = [channel EXCEPT ![l].answer = agent[l].result]
        /\ agent' = [agent EXCEPT ![l] = NoJob]
        /\ UNCHANGED executor
     \/ /\ ~Accepted(l)
        /\ Refused(l)
        /\ UNCHANGED channel
  /\ UNCHANGED <<issued, caller, canceller, browser, flagged, lost, persisted>>

\* The call never arrives, or fails with anything but 409: it is not repeated, and the loop
\* goes on to its next command.
LoseComplete(l) ==
  /\ At(l, "RAN")
  /\ agent' = [agent EXCEPT ![l] = NoJob]
  /\ lost' = IF Unheard(l) THEN lost \cup {agent[l].command.session} ELSE lost
  /\ UNCHANGED <<issued, channel, caller, canceller, executor, browser, flagged, persisted>>

-----------------------------------------------------------------------------
(* The browser thread: _execute_browser_command and _close_rejected_start, one at a time *)

\* The work at the head of the executor, for operation and at stage.
Heads(l, stage, operation) ==
  /\ executor # <<>> /\ Head(executor) = l
  /\ At(l, stage)
  /\ agent[l].command.operation = operation

Closed(x) == IF browser[x] = "OPEN" THEN [browser EXCEPT ![x] = "CLOSED"] ELSE browser

Ran(l, result) ==
  /\ agent' = [agent EXCEPT ![l].stage = "RAN", ![l].result = result]
  /\ executor' = Tail(executor)

\* start, up to the first page it waits for.
BeginStart(l) ==
  /\ Heads(l, "QUEUED", "start")
  /\ LET x == agent[l].command.session IN
       \/ /\ x \in flagged
          /\ Ran(l, "ERROR")
          /\ UNCHANGED browser
       \/ /\ x \notin flagged
          /\ browser' = [browser EXCEPT ![x] = "OPEN"]
          /\ agent' = [agent EXCEPT ![l].stage = "RUNNING"]
          /\ UNCHANGED executor
  /\ UNCHANGED <<issued, channel, caller, canceller, flagged, lost, persisted>>

\* The except clause of start closes what it opened, and suppresses that it could not.
StartFails(l) ==
  LET x == agent[l].command.session IN
    /\ Ran(l, "ERROR")
    /\ \/ browser' = Closed(x) /\ UNCHANGED lost
       \/ lost' = lost \cup {x} /\ UNCHANGED browser

\* start, to its end: login or navigation fail, or the flag is found raised.
EndStart(l) ==
  /\ Heads(l, "RUNNING", "start")
  /\ \/ agent[l].command.session \notin flagged /\ Ran(l, "OK") /\ UNCHANGED <<browser, lost>>
     \/ StartFails(l)
  /\ UNCHANGED <<issued, channel, caller, canceller, flagged, persisted>>

\* observe and execute look for the flag, before or after what they do; owns does not, and
\* answers for a browser that is gone as well.
RunAct(l) ==
  /\ \/ /\ Heads(l, "QUEUED", "act")
        /\ LET x == agent[l].command.session IN
             \/ browser[x] = "OPEN" /\ x \notin flagged /\ Ran(l, "OK")
             \/ Ran(l, "ERROR")
     \/ Heads(l, "QUEUED", "owns") /\ Ran(l, "OK")
  /\ UNCHANGED <<issued, channel, caller, canceller, browser, flagged, lost, persisted>>

\* close: an unknown session is closed already; closing the context may fail.
RunClose(l) ==
  /\ Heads(l, "QUEUED", "close")
  /\ LET x == agent[l].command.session IN
       \/ Ran(l, "OK") /\ browser' = Closed(x)
       \/ browser[x] = "OPEN" /\ Ran(l, "ERROR") /\ UNCHANGED browser
  /\ UNCHANGED <<issued, channel, caller, canceller, flagged, lost, persisted>>

\* The finally block of cancel.
LowerFlag(x) == flagged' = flagged \ {x}

\* The browser_session_id of the row went along with the command.  When there is none the
\* Agent makes it the string "None", a browser it does not know and has nothing to close of:
\* the branch of cancel that looks for the session's browser is not reached.
RunCancel(l) ==
  /\ Heads(l, "QUEUED", "cancel")
  /\ LET x == agent[l].command.session IN
       /\ \/ Ran(l, "OK") /\ browser' = IF x \in persisted THEN Closed(x) ELSE browser
          \/ x \in persisted /\ browser[x] = "OPEN" /\ Ran(l, "ERROR") /\ UNCHANGED browser
       /\ LowerFlag(x)
  /\ UNCHANGED <<issued, channel, caller, canceller, lost, persisted>>

\* _close_rejected_start.  That its close fails, which ends the Agent, is AgentRestarts.
CloseRejectedStart(l) ==
  /\ Heads(l, "REJECTED", "start")
  /\ browser' = Closed(agent[l].command.session)
  /\ agent' = [agent EXCEPT ![l] = NoJob]
  /\ executor' = Tail(executor)
  /\ UNCHANGED <<issued, channel, caller, canceller, flagged, lost, persisted>>

\* The Agent stops, with shutdown() or without, and is started again.
AgentRestarts ==
  /\ (\E l \in Lane : agent[l] # NoJob) \/ (\E x \in Session : browser[x] = "OPEN")
  /\ agent' = [l \in Lane |-> NoJob]
  /\ executor' = <<>>
  /\ browser' = [x \in Session |-> IF browser[x] = "OPEN" THEN "CLOSED" ELSE browser[x]]
  /\ flagged' = {}
  /\ UNCHANGED <<issued, channel, caller, canceller, lost, persisted>>

-----------------------------------------------------------------------------

BrowserThread(l) ==
  \/ BeginStart(l) \/ EndStart(l) \/ RunAct(l) \/ RunClose(l) \/ RunCancel(l)
  \/ CloseRejectedStart(l)

Next ==
  \/ \E x \in Session : Start(x)
  \/ \E x \in Session : Persist(x)
  \/ \E x \in Session : Act(x)
  \/ \E x \in Session : Close(x)
  \/ \E x \in Session : Fence(x)
  \/ \E x \in Session : Cancel(x)
  \/ \E l \in Lane : Return(l)
  \/ \E l \in Lane : TimeOut(l)
  \/ \E l \in Lane : Claim(l)
  \/ \E l \in Lane : LoseClaim(l)
  \/ \E l \in Lane : Submit(l)
  \/ \E l \in Lane : Complete(l)
  \/ \E l \in Lane : LoseComplete(l)
  \/ \E l \in Lane : BrowserThread(l)
  \/ AgentRestarts

Spec == Init /\ [][Next]_vars

\* dispatch returns at its deadline at the latest, run() comes to its finally block and closes,
\* and the Agent goes on with what it has claimed: Playwright's calls have timeouts too.
FairSpec ==
  /\ Spec
  /\ \A l \in Lane :
       /\ WF_vars(Return(l) \/ TimeOut(l))
       /\ WF_vars(Submit(l) \/ Complete(l) \/ BrowserThread(l))
  /\ \A x \in Session : WF_vars(Close(x))

-----------------------------------------------------------------------------
(* Properties *)

\* An answer is given to the command it answers: what the Agent computed for a command whose
\* caller gave up is never taken for the answer to the next one in its lane.
AnswersOwnCommand ==
  [][\A l \in Lane :
       /\ channel[l] # NoExchange /\ channel'[l] # NoExchange
       /\ channel'[l].answer # channel[l].answer
       => /\ agent[l] # NoJob /\ agent[l].stage = "RAN"
          /\ channel[l].command = agent[l].command
          /\ channel'[l].answer = agent[l].result]_vars

\* Whoever knows of an open browser is still going to close it: the thread that is starting
\* it, the answer on its way to run(), run() itself, or the Agent to which that answer was
\* refused.  What is left is a close that failed, which run() reports, and what nobody hears
\* of: an answer lost between Agent and API, and a failed start that could not be cleaned up.
BrowserAccounted ==
  \A x \in Session : browser[x] = "OPEN" =>
    \/ \E l \in Lane : /\ agent[l] # NoJob
                       /\ agent[l].command.operation = "start"
                       /\ agent[l].command.session = x
    \/ /\ channel["WORK"] # NoExchange
       /\ channel["WORK"].command.operation = "start"
       /\ channel["WORK"].command.session = x
       /\ channel["WORK"].answer = "OK"
    \/ caller[x] \in {"READY", "UNCLOSED"}
    \/ x \in lost

\* A flag is up only while its cancellation waits for the browser thread: none stays behind to
\* abort what the session, or a replayed cancellation, does later.
FlagsAreLowered ==
  \A x \in flagged : At("CANCEL", "QUEUED") /\ agent["CANCEL"].command.session = x

\* A start is run at most once, whatever is lost, late or restarted: the browser of a session
\* that was closed is not opened again.
BrowserStartsOnce ==
  [][\A x \in Session : browser[x] # "NONE" => browser'[x] \in {browser[x], "CLOSED"}]_vars

\* A cancellation that could name the browser and succeeded has ended it, and whatever was on
\* its way when it came does not bring it back.
CancelEndsKnownBrowser ==
  \A x \in persisted : canceller[x] = "CANCELLED" => browser[x] # "OPEN"

\* Every browser is closed in the end, but for the two cases of BrowserAccounted.
BrowserCloses ==
  \A x \in Session :
    browser[x] = "OPEN" ~> (browser[x] = "CLOSED" \/ caller[x] = "UNCLOSED" \/ x \in lost)

\* What the documentation says and the code does not do: both refuted, see the README.

\* cancel.order: a cancellation whose browser stage has succeeded has terminated the browser
\* and the execution behind it; the leases are given back next.
CancelTerminates ==
  \A x \in Session : canceller[x] = "CANCELLED" => browser[x] # "OPEN"

\* test_runner.py: a cancellation that does not name a browser closes the one of its session,
\* so none is open when the Agent has carried out a cancellation without an error.
CancelFindsBrowser ==
  [][/\ At("CANCEL", "QUEUED")
     /\ agent'["CANCEL"] # NoJob
     /\ agent'["CANCEL"].stage = "RAN" /\ agent'["CANCEL"].result = "OK"
     => browser'[agent["CANCEL"].command.session] # "OPEN"]_vars
===============================================================================
