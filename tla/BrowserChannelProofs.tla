------------------------ MODULE BrowserChannelProofs ------------------------
(* What BrowserChannel guarantees for any number of sessions and commands. *)
EXTENDS BrowserChannel, TLAPS

USE DEF Lane, Operation, Result

\* TypeOK without the executor: what is queued for the browser thread matters only through
\* the stages of the two commands the loops of the Agent are busy with.
Types ==
  /\ issued \in Nat
  /\ channel \in [Lane -> Exchange \cup {NoExchange}]
  /\ caller \in [Session -> {"NEW", "READY", "DONE", "UNCLOSED"}]
  /\ canceller \in [Session -> {"IDLE", "FENCED", "CANCELLED"}]
  /\ agent \in [Lane -> Job \cup {NoJob}]
  /\ browser \in [Session -> {"NONE", "OPEN", "CLOSED"}]
  /\ flagged \in SUBSET Session
  /\ lost \in SUBSET Session
  /\ persisted \in SUBSET Session

-----------------------------------------------------------------------------
(* Exchanges and jobs *)

LEMMA ExchangeUpdate ==
  ASSUME NEW e \in Exchange
  PROVE /\ [e EXCEPT !.claimed = TRUE] \in Exchange
        /\ [e EXCEPT !.claimed = TRUE].command = e.command
        /\ [e EXCEPT !.claimed = TRUE].answer = e.answer
        /\ [e EXCEPT !.claimed = TRUE].claimed = TRUE
        /\ \A r \in Result : /\ [e EXCEPT !.answer = r] \in Exchange
                             /\ [e EXCEPT !.answer = r].command = e.command
                             /\ [e EXCEPT !.answer = r].claimed = e.claimed
                             /\ [e EXCEPT !.answer = r].answer = r
BY DEF Exchange

Stage == {"CLAIMED", "QUEUED", "RUNNING", "RAN", "REJECTED"}

LEMMA StageUpdate ==
  ASSUME NEW j \in Job, NEW s \in Stage
  PROVE /\ [j EXCEPT !.stage = s] \in Job
        /\ [j EXCEPT !.stage = s].command = j.command
        /\ [j EXCEPT !.stage = s].stage = s
        /\ [j EXCEPT !.stage = s].result = j.result
BY DEF Job, Stage

LEMMA ResultUpdate ==
  ASSUME NEW j \in Job, NEW r \in Result
  PROVE /\ [j EXCEPT !.stage = "RAN", !.result = r] \in Job
        /\ [j EXCEPT !.stage = "RAN", !.result = r].command = j.command
        /\ [j EXCEPT !.stage = "RAN", !.result = r].stage = "RAN"
        /\ [j EXCEPT !.stage = "RAN", !.result = r].result = r
BY DEF Job

LEMMA NewExchange ==
  ASSUME NEW c \in Command
  PROVE /\ [command |-> c, claimed |-> FALSE, answer |-> "NONE"] \in Exchange
        /\ [command |-> c, stage |-> "CLAIMED", result |-> "NONE"] \in Job
BY DEF Exchange, Job

-----------------------------------------------------------------------------
(* What each kind of step does to exchanges and jobs *)

\* dispatch puts a new command in its lane, or finds the lane busy.
LEMMA DispatchEffect ==
  ASSUME Types, NEW operation \in Operation, NEW x \in Session, Dispatch(operation, x)
  PROVE LET l == LaneOf(operation) IN
        \/ /\ channel[l] = NoExchange
           /\ issued' = issued + 1
           /\ channel'[l] \in Exchange
           /\ channel'[l].command = [id |-> issued + 1, operation |-> operation, session |-> x]
           /\ channel'[l].claimed = FALSE /\ channel'[l].answer = "NONE"
           /\ \A m \in Lane \ {l} : channel'[m] = channel[m]
           /\ channel' \in [Lane -> Exchange \cup {NoExchange}]
           /\ UNCHANGED <<caller, canceller>>
        \/ /\ channel[l] # NoExchange
           /\ AfterDispatch(operation, x, "ERROR")
           /\ UNCHANGED <<issued, channel>>
<1> DEFINE l == LaneOf(operation)
           c == [id |-> issued + 1, operation |-> operation, session |-> x]
<1>1. l \in Lane
  BY DEF LaneOf
<1>2. c \in Command
  BY DEF Types, Command
<1>3. [command |-> c, claimed |-> FALSE, answer |-> "NONE"] \in Exchange
  BY <1>2, NewExchange
<1> DEFINE e == [command |-> c, claimed |-> FALSE, answer |-> "NONE"]
<1>4. e \in Exchange /\ e.command = c /\ e.claimed = FALSE /\ e.answer = "NONE"
  BY <1>3
<1>5. \/ /\ channel[l] = NoExchange
         /\ issued' = issued + 1
         /\ channel' = [channel EXCEPT ![l] = e]
         /\ UNCHANGED <<caller, canceller>>
      \/ /\ channel[l] # NoExchange
         /\ AfterDispatch(operation, x, "ERROR")
         /\ UNCHANGED <<issued, channel>>
  BY DEF Dispatch
<1> HIDE DEF e, c, l
<1>6. ASSUME channel' = [channel EXCEPT ![l] = e]
      PROVE /\ channel'[l] = e
            /\ \A m \in Lane \ {l} : channel'[m] = channel[m]
            /\ channel' \in [Lane -> Exchange \cup {NoExchange}]
  BY <1>1, <1>4, <1>6 DEF Types
<1>7. QED
  BY <1>4, <1>5, <1>6 DEF c, l

LEMMA ExchangeTaken ==
  ASSUME Types, NEW l \in Lane, channel' = [channel EXCEPT ![l] = NoExchange]
  PROVE /\ channel' \in [Lane -> Exchange \cup {NoExchange}]
        /\ channel'[l] = NoExchange
        /\ \A m \in Lane \ {l} : channel'[m] = channel[m]
BY DEF Types

LEMMA ExchangeClaimed ==
  ASSUME Types, NEW l \in Lane, channel[l] # NoExchange,
         channel' = [channel EXCEPT ![l].claimed = TRUE]
  PROVE /\ channel' \in [Lane -> Exchange \cup {NoExchange}]
        /\ channel'[l] \in Exchange
        /\ channel'[l].command = channel[l].command
        /\ channel'[l].answer = channel[l].answer
        /\ channel'[l].claimed = TRUE
        /\ \A m \in Lane \ {l} : channel'[m] = channel[m]
<1>1. channel[l] \in Exchange
  BY DEF Types
<1>2. channel' = [channel EXCEPT ![l] = [channel[l] EXCEPT !.claimed = TRUE]]
  OBVIOUS
<1>3. channel'[l] = [channel[l] EXCEPT !.claimed = TRUE]
  BY <1>2 DEF Types
<1>4. [channel[l] EXCEPT !.claimed = TRUE] \in Exchange
  BY <1>1, ExchangeUpdate
<1>5. QED
  BY <1>1, <1>2, <1>3, <1>4, ExchangeUpdate DEF Types

LEMMA ExchangeAnswered ==
  ASSUME Types, NEW l \in Lane, channel[l] # NoExchange, NEW r \in Result,
         channel' = [channel EXCEPT ![l].answer = r]
  PROVE /\ channel' \in [Lane -> Exchange \cup {NoExchange}]
        /\ channel'[l] \in Exchange
        /\ channel'[l].command = channel[l].command
        /\ channel'[l].answer = r
        /\ channel'[l].claimed = channel[l].claimed
        /\ \A m \in Lane \ {l} : channel'[m] = channel[m]
<1>1. channel[l] \in Exchange
  BY DEF Types
<1>2. channel' = [channel EXCEPT ![l] = [channel[l] EXCEPT !.answer = r]]
  OBVIOUS
<1>3. channel'[l] = [channel[l] EXCEPT !.answer = r]
  BY <1>2 DEF Types
<1>4. [channel[l] EXCEPT !.answer = r] \in Exchange
  BY <1>1, ExchangeUpdate
<1>5. QED
  BY <1>1, <1>2, <1>3, <1>4, ExchangeUpdate DEF Types

\* A job moves to its next stage.
LEMMA JobMoved ==
  ASSUME Types, NEW l \in Lane, agent[l] # NoJob, NEW s \in Stage,
         agent' = [agent EXCEPT ![l].stage = s]
  PROVE /\ agent' \in [Lane -> Job \cup {NoJob}]
        /\ agent'[l] \in Job
        /\ agent'[l].command = agent[l].command
        /\ agent'[l].stage = s
        /\ agent'[l].result = agent[l].result
        /\ \A m \in Lane \ {l} : agent'[m] = agent[m]
<1>1. agent[l] \in Job
  BY DEF Types
<1>2. agent' = [agent EXCEPT ![l] = [agent[l] EXCEPT !.stage = s]]
  OBVIOUS
<1>3. agent'[l] = [agent[l] EXCEPT !.stage = s]
  BY <1>2 DEF Types
<1> DEFINE j == [agent[l] EXCEPT !.stage = s]
<1>4. j \in Job /\ j.command = agent[l].command /\ j.stage = s /\ j.result = agent[l].result
  BY <1>1, StageUpdate
<1>5. agent' = [agent EXCEPT ![l] = j] /\ agent'[l] = j
  BY <1>2, <1>3
<1> HIDE DEF j
<1>6. QED
  BY <1>4, <1>5 DEF Types

LEMMA JobRan ==
  ASSUME Types, NEW l \in Lane, agent[l] # NoJob, NEW r \in Result, Ran(l, r)
  PROVE /\ agent' \in [Lane -> Job \cup {NoJob}]
        /\ agent'[l] \in Job
        /\ agent'[l].command = agent[l].command
        /\ agent'[l].stage = "RAN"
        /\ agent'[l].result = r
        /\ \A m \in Lane \ {l} : agent'[m] = agent[m]
<1>1. agent[l] \in Job
  BY DEF Types
<1>2. agent' = [agent EXCEPT ![l] = [agent[l] EXCEPT !.stage = "RAN", !.result = r]]
  BY DEF Ran
<1>3. agent'[l] = [agent[l] EXCEPT !.stage = "RAN", !.result = r]
  BY <1>2 DEF Types
<1> DEFINE j == [agent[l] EXCEPT !.stage = "RAN", !.result = r]
<1>4. j \in Job /\ j.command = agent[l].command /\ j.stage = "RAN" /\ j.result = r
  BY <1>1, ResultUpdate
<1>5. agent' = [agent EXCEPT ![l] = j] /\ agent'[l] = j
  BY <1>2, <1>3
<1> HIDE DEF j
<1>6. QED
  BY <1>4, <1>5 DEF Types

LEMMA JobDone ==
  ASSUME Types, NEW l \in Lane, agent' = [agent EXCEPT ![l] = NoJob]
  PROVE /\ agent' \in [Lane -> Job \cup {NoJob}]
        /\ agent'[l] = NoJob
        /\ \A m \in Lane \ {l} : agent'[m] = agent[m]
BY DEF Types

LEMMA JobClaimed ==
  ASSUME Types, NEW l \in Lane, channel[l] # NoExchange,
         agent' = [agent EXCEPT ![l] = [command |-> channel[l].command, stage |-> "CLAIMED",
                                        result |-> "NONE"]]
  PROVE /\ agent' \in [Lane -> Job \cup {NoJob}]
        /\ agent'[l] \in Job
        /\ agent'[l].command = channel[l].command
        /\ agent'[l].stage = "CLAIMED"
        /\ \A m \in Lane \ {l} : agent'[m] = agent[m]
<1>1. channel[l].command \in Command
  BY DEF Types, Exchange
<1>2. [command |-> channel[l].command, stage |-> "CLAIMED", result |-> "NONE"] \in Job
  BY <1>1, NewExchange
<1>3. QED
  BY <1>2 DEF Types

-----------------------------------------------------------------------------
(* Commands keep their identity *)

\* Each lane of the broker keeps its command, lets it go, or takes the next id.
ChannelFollows(l) ==
  \/ channel'[l] = NoExchange
  \/ channel[l] # NoExchange /\ channel'[l].command = channel[l].command
  \/ /\ issued' = issued + 1
     /\ channel'[l].command.id = issued + 1
     /\ LaneOf(channel'[l].command.operation) = l
     /\ agent' = agent

\* Each loop of the Agent keeps its command, is done with it, or takes that of its lane.
AgentFollows(l) ==
  \/ agent'[l] = NoJob
  \/ agent[l] # NoJob /\ agent'[l].command = agent[l].command
  \/ /\ channel[l] # NoExchange
     /\ agent'[l].command = channel[l].command
     /\ channel'[l].command = channel[l].command

Follows == \A l \in Lane : ChannelFollows(l) /\ AgentFollows(l)

LEMMA DispatchFollows ==
  ASSUME Types, NEW operation \in Operation, NEW x \in Session, Dispatch(operation, x),
         UNCHANGED <<agent, browser, flagged, lost, persisted>>
  PROVE Types' /\ Follows
<1> DEFINE l == LaneOf(operation)
<1>1. l \in Lane
  BY DEF LaneOf
<1>2. \A m \in Lane : AgentFollows(m)
  BY DEF AgentFollows
<1>3. CASE UNCHANGED <<issued, channel>> /\ AfterDispatch(operation, x, "ERROR")
  <2>1. \A m \in Lane : ChannelFollows(m)
    BY <1>3 DEF ChannelFollows
  <2>2. Types'
    BY <1>3 DEF Types, AfterDispatch
  <2>3. QED
    BY <1>2, <2>1, <2>2 DEF Follows
<1>4. CASE /\ issued' = issued + 1
           /\ channel'[l].command = [id |-> issued + 1, operation |-> operation, session |-> x]
           /\ \A m \in Lane \ {l} : channel'[m] = channel[m]
           /\ channel' \in [Lane -> Exchange \cup {NoExchange}]
           /\ UNCHANGED <<caller, canceller>>
  <2>1. ChannelFollows(l)
    BY <1>4 DEF ChannelFollows
  <2>2. \A m \in Lane \ {l} : ChannelFollows(m)
    BY <1>4 DEF ChannelFollows, Types
  <2>3. Types'
    BY <1>4 DEF Types
  <2> HIDE DEF l
  <2>4. QED
    BY <1>2, <2>1, <2>2, <2>3 DEF Follows
<1>5. QED
  BY <1>3, <1>4, DispatchEffect

LEMMA Following == Types /\ Next => Types' /\ Follows
<1> SUFFICES ASSUME Types, Next
             PROVE Types' /\ Follows
  OBVIOUS
<1> USE DEF Follows, ChannelFollows, AgentFollows
<1>0. \A l \in Lane : /\ channel[l] # NoExchange => channel[l] \in Exchange
                      /\ agent[l] # NoJob => agent[l] \in Job
  BY DEF Types
<1>1. ASSUME NEW x \in Session, Start(x) \/ Act(x) \/ Close(x) \/ Cancel(x)
      PROVE Types' /\ Follows
  BY <1>1, DispatchFollows DEF Start, Act, Close, Cancel
<1>2. ASSUME NEW l \in Lane, Return(l) \/ TimeOut(l)
      PROVE Types' /\ Follows
  <2>1. channel' = [channel EXCEPT ![l] = NoExchange] /\ channel[l] # NoExchange
    BY <1>2 DEF Return, TimeOut, Expired
  <2>2. PICK r : AfterDispatch(channel[l].command.operation, channel[l].command.session, r)
    BY <1>2 DEF Return, TimeOut
  <2>3. caller' \in [Session -> {"NEW", "READY", "DONE", "UNCLOSED"}]
        /\ canceller' \in [Session -> {"IDLE", "FENCED", "CANCELLED"}]
    BY <2>2 DEF AfterDispatch, Types
  <2>4. UNCHANGED <<issued, agent, browser, flagged, lost, persisted>>
    BY <1>2 DEF Return, TimeOut
  <2>5. QED
    BY <2>1, <2>3, <2>4, ExchangeTaken DEF Types
<1>3. ASSUME NEW l \in Lane, Claim(l)
      PROVE Types' /\ Follows
  <2>1. UNCHANGED <<issued, caller, canceller, browser, flagged, lost, persisted>> /\ channel[l] # NoExchange
    BY <1>3 DEF Claim, Claimable
  <2>2. QED
    BY <1>3, <2>1, ExchangeClaimed, JobClaimed DEF Claim, Claimable, Types
<1>4. ASSUME NEW l \in Lane, LoseClaim(l)
      PROVE Types' /\ Follows
  BY <1>4, ExchangeClaimed DEF LoseClaim, Claimable, Types
<1>5. ASSUME NEW l \in Lane, Submit(l)
      PROVE Types' /\ Follows
  <2>1. agent[l] # NoJob /\ agent' = [agent EXCEPT ![l].stage = "QUEUED"] /\ "QUEUED" \in Stage
    BY <1>5 DEF Submit, At, Stage
  <2>2. flagged' \in SUBSET Session
    BY <1>5, <1>0, <2>1 DEF Submit, Types, Job, Command
  <2>3. UNCHANGED <<issued, channel, caller, canceller, browser, lost, persisted>>
    BY <1>5 DEF Submit
  <2>4. QED
    BY <2>1, <2>2, <2>3, JobMoved DEF Types
<1>6. ASSUME NEW l \in Lane, Complete(l)
      PROVE Types' /\ Follows
  <2>1. UNCHANGED <<issued, caller, canceller, browser, flagged, lost, persisted>> /\ agent[l] # NoJob
    BY <1>6 DEF Complete, At
  <2>2. CASE channel[l] # NoExchange /\ channel' = [channel EXCEPT ![l].answer = agent[l].result]
             /\ agent' = [agent EXCEPT ![l] = NoJob]
    <3>1. CASE agent[l].result \in Result
      BY <2>1, <2>2, <3>1, ExchangeAnswered, JobDone DEF Types
    <3>2. CASE agent[l].result = "NONE"
      <4>1. channel[l] \in Exchange
        BY <2>2, <1>0
      <4>2. [channel[l] EXCEPT !.answer = "NONE"] \in Exchange
            /\ [channel[l] EXCEPT !.answer = "NONE"].command = channel[l].command
        BY <4>1 DEF Exchange
      <4> DEFINE e == [channel[l] EXCEPT !.answer = "NONE"]
      <4>3. channel' = [channel EXCEPT ![l] = e] /\ e \in Exchange /\ e.command = channel[l].command
        BY <2>2, <3>2, <4>2
      <4> HIDE DEF e
      <4>4. QED
        BY <2>1, <2>2, <4>3, JobDone DEF Types
    <3>3. QED
      BY <2>1, <1>0, <3>1, <3>2 DEF Job
  <2>3. CASE UNCHANGED channel /\ agent' = [agent EXCEPT ![l] = NoJob]
    BY <2>1, <2>3, JobDone DEF Types
  <2>4. CASE UNCHANGED channel /\ agent' = [agent EXCEPT ![l].stage = "REJECTED"]
    BY <2>1, <2>4, JobMoved DEF Types, Stage
  <2>5. QED
    BY <1>6, <2>2, <2>3, <2>4 DEF Complete, Accepted, Refused
<1>7. ASSUME NEW l \in Lane, LoseComplete(l)
      PROVE Types' /\ Follows
  <2>1. agent[l] \in Job
    BY <1>7, <1>0 DEF LoseComplete, At
  <2>2. lost' \in SUBSET Session
    BY <1>7, <2>1 DEF LoseComplete, Types, Job, Command
  <2>3. QED
    BY <1>7, <2>2, JobDone DEF LoseComplete, Types
<1>8. ASSUME NEW l \in Lane, BrowserThread(l)
      PROVE Types' /\ Follows
  <2>1. agent[l] # NoJob /\ agent[l] \in Job
    BY <1>8, <1>0 DEF BrowserThread, BeginStart, EndStart, RunAct, RunClose, RunCancel,
      CloseRejectedStart, Heads, At
  <2>2. agent[l].command.session \in Session
    BY <2>1 DEF Job, Command
  <2>3. UNCHANGED <<issued, channel, caller, canceller, persisted>> /\ lost' \in SUBSET Session
    BY <1>8, <2>2 DEF Types, StartFails, BrowserThread, BeginStart, EndStart, RunAct, RunClose, RunCancel,
      CloseRejectedStart
  <2>4. \/ \E r \in Result : Ran(l, r)
        \/ agent' = [agent EXCEPT ![l].stage = "RUNNING"]
        \/ agent' = [agent EXCEPT ![l] = NoJob]
    BY <1>8 DEF BrowserThread, BeginStart, EndStart, RunAct, RunClose, RunCancel,
      CloseRejectedStart, StartFails
  <2>5. browser' \in [Session -> {"NONE", "OPEN", "CLOSED"}]
    BY <1>8, <2>2 DEF BrowserThread, BeginStart, EndStart, RunAct, RunClose, RunCancel,
      CloseRejectedStart, StartFails, Closed, Types
  <2>6. flagged' \in SUBSET Session
    BY <1>8 DEF BrowserThread, BeginStart, EndStart, RunAct, RunClose, RunCancel,
      CloseRejectedStart, LowerFlag, Types
  <2>7. agent' \in [Lane -> Job \cup {NoJob}] /\ \A m \in Lane : AgentFollows(m)
    BY <2>1, <2>4, JobRan, JobMoved, JobDone DEF Stage
  <2>8. QED
    BY <2>3, <2>5, <2>6, <2>7 DEF Types
<1>9. CASE AgentRestarts
  BY <1>9 DEF AgentRestarts, Types
<1>10. ASSUME NEW x \in Session, Persist(x) \/ Fence(x)
       PROVE Types' /\ Follows
  BY <1>10 DEF Persist, Fence, Types
<1>11. QED
  BY <1>1, <1>2, <1>3, <1>4, <1>5, <1>6, <1>7, <1>8, <1>9, <1>10 DEF Next

-----------------------------------------------------------------------------
(* Identities, and the answers given to them *)

\* A lane carries its own operations only, and an id stands for one command.
Identities ==
  \A l \in Lane :
    /\ channel[l] # NoExchange =>
         channel[l].command.id <= issued /\ LaneOf(channel[l].command.operation) = l
    /\ agent[l] # NoJob =>
         agent[l].command.id <= issued /\ LaneOf(agent[l].command.operation) = l
    /\ /\ channel[l] # NoExchange /\ agent[l] # NoJob
       /\ channel[l].command.id = agent[l].command.id
       => channel[l].command = agent[l].command

LEMMA IdentitiesKept == Types /\ Identities /\ Next => Identities'
<1> SUFFICES ASSUME Types, Identities, Next, NEW l \in Lane
             PROVE /\ channel'[l] # NoExchange =>
                        /\ channel'[l].command.id <= issued'
                        /\ LaneOf(channel'[l].command.operation) = l
                   /\ agent'[l] # NoJob =>
                        /\ agent'[l].command.id <= issued'
                        /\ LaneOf(agent'[l].command.operation) = l
                   /\ /\ channel'[l] # NoExchange /\ agent'[l] # NoJob
                      /\ channel'[l].command.id = agent'[l].command.id
                      => channel'[l].command = agent'[l].command
  BY DEF Identities, LaneOf
<1>1. Types' /\ ChannelFollows(l) /\ AgentFollows(l)
  BY Following DEF Follows
<1>2. issued \in Nat /\ issued' \in Nat
  BY <1>1 DEF Types
<1>3. /\ channel[l] # NoExchange => channel[l].command.id \in Nat
      /\ agent[l] # NoJob => agent[l].command.id \in Nat
  BY DEF Types, Exchange, Job, Command
<1>4. issued' = issued \/ issued' = issued + 1
  BY DEF Next, Start, Persist, Act, Close, Fence, Cancel, Dispatch, Return, TimeOut, Claim, LoseClaim, Submit,
    Complete, LoseComplete, BrowserThread, BeginStart, EndStart, RunAct, RunClose, RunCancel,
    CloseRejectedStart, AgentRestarts
<1>5. /\ channel[l] # NoExchange =>
           channel[l].command.id <= issued /\ LaneOf(channel[l].command.operation) = l
      /\ agent[l] # NoJob =>
           agent[l].command.id <= issued /\ LaneOf(agent[l].command.operation) = l
      /\ /\ channel[l] # NoExchange /\ agent[l] # NoJob
         /\ channel[l].command.id = agent[l].command.id
         => channel[l].command = agent[l].command
  BY DEF Identities
<1> HIDE DEF LaneOf
<1>6. /\ channel'[l] # NoExchange =>
           channel'[l].command.id <= issued' /\ LaneOf(channel'[l].command.operation) = l
      /\ agent'[l] # NoJob =>
           agent'[l].command.id <= issued' /\ LaneOf(agent'[l].command.operation) = l
  BY <1>1, <1>2, <1>3, <1>4, <1>5 DEF ChannelFollows, AgentFollows
<1>7. ASSUME channel'[l] # NoExchange, agent'[l] # NoJob,
             channel'[l].command.id = agent'[l].command.id
      PROVE channel'[l].command = agent'[l].command
  <2>1. CASE channel[l] # NoExchange /\ channel'[l].command = channel[l].command
    BY <1>1, <1>5, <1>7, <2>1 DEF AgentFollows
  <2>2. CASE channel'[l].command.id = issued + 1 /\ agent' = agent
    <3>1. agent[l] # NoJob /\ agent[l].command.id = issued + 1
      BY <1>7, <2>2
    <3>2. QED
      BY <1>2, <1>3, <1>5, <3>1
  <2>3. QED
    BY <1>1, <1>7, <2>1, <2>2 DEF ChannelFollows
<1>8. QED
  BY <1>6, <1>7

LEMMA Identified == Spec => [](Types /\ Identities)
<1>1. Init => Types /\ Identities
  BY DEF Init, Types, Identities
<1>2. Types /\ Identities /\ [Next]_vars => Types' /\ Identities'
  <2>1. Types /\ Identities /\ UNCHANGED vars => Types' /\ Identities'
    BY DEF vars, Types, Identities, LaneOf
  <2>2. QED
    BY <2>1, Following, IdentitiesKept
<1>3. QED
  BY <1>1, <1>2, PTL DEF Spec

\* A late answer is never taken for the answer to another command: complete() goes by the
\* command id and the Agent by the command it claimed.
THEOREM AnswersMeetTheirCommands == Spec => AnswersOwnCommand
<1>1. Types /\ Identities /\ [Next]_vars =>
        [\A l \in Lane :
           /\ channel[l] # NoExchange /\ channel'[l] # NoExchange
           /\ channel'[l].answer # channel[l].answer
           => /\ agent[l] # NoJob /\ agent[l].stage = "RAN"
              /\ channel[l].command = agent[l].command
              /\ channel'[l].answer = agent[l].result]_vars
  <2> SUFFICES ASSUME Types, Identities, Next, NEW l \in Lane,
                      channel[l] # NoExchange, channel'[l] # NoExchange,
                      channel'[l].answer # channel[l].answer
               PROVE /\ agent[l] # NoJob /\ agent[l].stage = "RAN"
                     /\ channel[l].command = agent[l].command
                     /\ channel'[l].answer = agent[l].result
    OBVIOUS
  <2>0. channel[l] \in Exchange
    BY DEF Types
  <2>1. PICK m \in Lane : \/ \E x \in Session : Start(x) \/ Act(x) \/ Close(x) \/ Cancel(x)
                          \/ Return(m) \/ TimeOut(m)
                          \/ Claim(m) \/ LoseClaim(m)
                          \/ Complete(m)
                          \/ UNCHANGED channel
    BY DEF Next, Persist, Fence, Submit, LoseComplete, BrowserThread, BeginStart, EndStart, RunAct, RunClose,
      RunCancel, CloseRejectedStart, AgentRestarts
  <2>2. ASSUME NEW x \in Session, Start(x) \/ Act(x) \/ Close(x) \/ Cancel(x) PROVE FALSE
    <3>1. PICK operation \in Operation : Dispatch(operation, x)
      BY <2>2 DEF Start, Act, Close, Cancel
    <3>2. channel'[l] = channel[l]
      BY <3>1, DispatchEffect DEF LaneOf
    <3>3. QED
      BY <3>2
  <2>3. CASE Return(m) \/ TimeOut(m)
    BY <2>3, ExchangeTaken DEF Return, TimeOut
  <2>4. CASE Claim(m) \/ LoseClaim(m)
    BY <2>4, ExchangeClaimed DEF Claim, LoseClaim, Claimable
  <2>5. CASE Complete(m)
    <3>1. Accepted(m) /\ channel' = [channel EXCEPT ![m].answer = agent[m].result] /\ At(m, "RAN")
      BY <2>5 DEF Complete
    <3>2. channel' = [channel EXCEPT ![m] = [channel[m] EXCEPT !.answer = agent[m].result]]
      BY <3>1
    <3>3. m = l
      BY <3>2 DEF Types
    <3>4. channel'[l] = [channel[l] EXCEPT !.answer = agent[l].result]
      BY <3>2, <3>3 DEF Types
    <3>5. channel'[l].answer = agent[l].result
      BY <2>0, <3>4 DEF Exchange
    <3>6. QED
      BY <3>1, <3>3, <3>5 DEF Accepted, At, Identities
  <2>6. QED
    BY <2>1, <2>2, <2>3, <2>4, <2>5
<1>2. QED
  BY <1>1, Identified, PTL DEF Spec, AnswersOwnCommand

-----------------------------------------------------------------------------
(* Flags *)

LEMMA FlagsKept == Types /\ Identities /\ FlagsAreLowered /\ Next => FlagsAreLowered'
<1> SUFFICES ASSUME Types, Identities, FlagsAreLowered, Next, NEW x \in flagged'
             PROVE /\ agent'["CANCEL"] # NoJob /\ agent'["CANCEL"].stage = "QUEUED"
                   /\ agent'["CANCEL"].command.session = x
  BY DEF FlagsAreLowered, At
<1>0. x \in flagged => /\ agent["CANCEL"] # NoJob /\ agent["CANCEL"].stage = "QUEUED"
                       /\ agent["CANCEL"].command.session = x
  BY DEF FlagsAreLowered, At
<1>1. agent["CANCEL"] # NoJob => agent["CANCEL"].command.operation = "cancel"
  BY DEF Identities, LaneOf
<1>2. agent["WORK"] # NoJob => agent["WORK"].command.operation # "cancel"
  BY DEF Identities, LaneOf
<1>3. CASE UNCHANGED <<agent, flagged>>
  BY <1>0, <1>3
<1>4. ASSUME NEW l \in Lane, Claim(l)
      PROVE x \in flagged /\ agent'["CANCEL"] = agent["CANCEL"]
  BY <1>0, <1>4, JobClaimed DEF Claim, Claimable, Polling
<1>5. ASSUME NEW l \in Lane, Submit(l)
      PROVE /\ agent'["CANCEL"] # NoJob /\ agent'["CANCEL"].stage = "QUEUED"
            /\ agent'["CANCEL"].command.session = x
  <2>1. /\ agent' = [agent EXCEPT ![l].stage = "QUEUED"]
        /\ agent[l] # NoJob /\ "QUEUED" \in Stage /\ agent[l].stage = "CLAIMED"
    BY <1>5 DEF Submit, At, Stage
  <2>2. /\ agent'[l] \in Job
        /\ agent'[l].command = agent[l].command
        /\ agent'[l].stage = "QUEUED"
        /\ \A m \in Lane \ {l} : agent'[m] = agent[m]
    BY <2>1, JobMoved
  <2>3. CASE l = "WORK"
    BY <1>0, <1>2, <1>5, <2>1, <2>2, <2>3 DEF Submit
  <2>4. CASE l = "CANCEL"
    BY <1>0, <1>1, <1>5, <2>1, <2>2, <2>4, ChannelAssumption DEF Submit
  <2>5. QED
    BY <2>3, <2>4
<1>6. ASSUME NEW l \in Lane, Complete(l) \/ LoseComplete(l)
      PROVE x \in flagged /\ agent'["CANCEL"] = agent["CANCEL"]
  <2>1. x \in flagged /\ At(l, "RAN")
    BY <1>6 DEF Complete, LoseComplete
  <2>2. l = "WORK"
    BY <1>0, <2>1 DEF At
  <2>3. CASE agent' = [agent EXCEPT ![l] = NoJob]
    BY <2>1, <2>2, <2>3
  <2>4. CASE agent' = [agent EXCEPT ![l].stage = "REJECTED"]
    BY <2>1, <2>2, <2>4
  <2>5. QED
    BY <1>6, <2>3, <2>4 DEF Complete, LoseComplete, Refused
<1>7. ASSUME NEW l \in Lane, BrowserThread(l), ~RunCancel(l)
      PROVE x \in flagged /\ agent'["CANCEL"] = agent["CANCEL"]
  <2>1. x \in flagged /\ agent[l] # NoJob
    BY <1>7 DEF BrowserThread, BeginStart, EndStart, RunAct, RunClose, CloseRejectedStart,
      Heads, At
  <2>2. l = "WORK"
    BY <1>0, <1>1, <1>7, <2>1 DEF BrowserThread, BeginStart, EndStart, RunAct, RunClose,
      CloseRejectedStart, Heads, At
  <2>3. \/ \E r \in Result : Ran(l, r)
        \/ agent' = [agent EXCEPT ![l].stage = "RUNNING"]
        \/ agent' = [agent EXCEPT ![l] = NoJob]
    BY <1>7 DEF BrowserThread, BeginStart, EndStart, RunAct, RunClose, CloseRejectedStart,
      StartFails
  <2>4. agent'["CANCEL"] = agent["CANCEL"]
    BY <2>2, <2>3 DEF Ran, Types
  <2>5. QED
    BY <2>1, <2>4
<1>8. ASSUME NEW l \in Lane, RunCancel(l)
      PROVE FALSE
  <2>1. x \in flagged /\ x # agent[l].command.session /\ l = "CANCEL"
    BY <1>2, <1>8 DEF RunCancel, LowerFlag, Heads, At
  <2>2. QED
    BY <1>0, <2>1
<1>9. CASE AgentRestarts
  BY <1>9 DEF AgentRestarts
<1>10. QED
  BY <1>0, <1>3, <1>4, <1>5, <1>6, <1>7, <1>8, <1>9 DEF Next, Start, Persist, Act, Close,
    Fence, Cancel, Return, TimeOut, LoseClaim

\* No cancellation flag outlives its cancellation, whatever fails or is restarted.
THEOREM FlagsComeDown == Spec => []FlagsAreLowered
<1>1. Init => FlagsAreLowered
  BY DEF Init, FlagsAreLowered
<1>2. Types /\ Identities /\ FlagsAreLowered /\ [Next]_vars => FlagsAreLowered'
  <2>1. FlagsAreLowered /\ UNCHANGED vars => FlagsAreLowered'
    BY DEF vars, FlagsAreLowered, At
  <2>2. QED
    BY <2>1, FlagsKept
<1>3. QED
  BY <1>1, <1>2, Identified, PTL DEF Spec

-----------------------------------------------------------------------------
(* What a step does to the lane that starts and closes browsers *)

OnlyCloses ==
  \A x \in Session : \/ browser'[x] = browser[x]
                     \/ browser[x] = "OPEN" /\ browser'[x] = "CLOSED"

\* The lane is not involved.
Quiet ==
  /\ channel'["WORK"] = channel["WORK"] /\ agent'["WORK"] = agent["WORK"]
  /\ caller' = caller /\ lost \subseteq lost' /\ OnlyCloses

MayAsk(operation, x) ==
  /\ operation \in {"start", "act", "owns", "close"} /\ ~Waiting("WORK", x)
  /\ caller[x] = IF operation = "start" THEN "NEW" ELSE "READY"

Asked(operation, x) ==
  /\ MayAsk(operation, x)
  /\ channel["WORK"] = NoExchange /\ channel'["WORK"] # NoExchange
  /\ channel'["WORK"].command.operation = operation
  /\ channel'["WORK"].command.session = x
  /\ channel'["WORK"].claimed = FALSE /\ channel'["WORK"].answer = "NONE"
  /\ UNCHANGED <<agent, caller, browser, lost>>

FoundBusy(operation, x) ==
  /\ MayAsk(operation, x)
  /\ AfterDispatch(operation, x, "ERROR")
  /\ UNCHANGED <<channel, agent, browser, lost>>

Ended(result) ==
  /\ channel["WORK"] # NoExchange /\ channel'["WORK"] = NoExchange
  /\ \/ channel["WORK"].answer = result /\ result # "NONE"
     \/ channel["WORK"].answer = "NONE" /\ result = "ERROR"
  /\ AfterDispatch(channel["WORK"].command.operation, channel["WORK"].command.session, result)
  /\ UNCHANGED <<agent, browser, lost>>

Taken ==
  /\ channel["WORK"] # NoExchange /\ channel'["WORK"] # NoExchange
  /\ ~channel["WORK"].claimed /\ channel'["WORK"].claimed
  /\ channel'["WORK"].command = channel["WORK"].command
  /\ channel'["WORK"].answer = channel["WORK"].answer
  /\ \/ agent'["WORK"] = agent["WORK"]
     \/ /\ agent["WORK"] = NoJob
        /\ agent'["WORK"].command = channel["WORK"].command
        /\ agent'["WORK"].stage = "CLAIMED"
  /\ UNCHANGED <<caller, browser, lost>>

Answered ==
  /\ channel["WORK"] # NoExchange /\ channel'["WORK"] # NoExchange
  /\ agent["WORK"] # NoJob /\ agent'["WORK"] = NoJob /\ agent["WORK"].stage = "RAN"
  /\ channel["WORK"].command = agent["WORK"].command /\ channel["WORK"].claimed
  /\ channel'["WORK"].command = channel["WORK"].command
  /\ channel'["WORK"].claimed = channel["WORK"].claimed
  /\ channel'["WORK"].answer = agent["WORK"].result
  /\ UNCHANGED <<caller, browser, lost>>

\* The loop forgets a command, with the browser that it started if there is one left.
Forgotten ==
  /\ agent["WORK"] # NoJob /\ agent'["WORK"] = NoJob
  /\ \/ agent["WORK"].stage = "RAN" /\ ~Unheard("WORK")
     \/ Unheard("WORK") /\ agent["WORK"].command.session \in lost'
     \/ /\ agent["WORK"].command.operation = "start"
        /\ browser'[agent["WORK"].command.session] # "OPEN"
  /\ channel' = channel /\ caller' = caller /\ lost \subseteq lost' /\ OnlyCloses

Progressed(from, to) ==
  /\ agent["WORK"] # NoJob /\ agent["WORK"].stage \in from
  /\ agent'["WORK"] # NoJob /\ agent'["WORK"].stage = to
  /\ agent'["WORK"].command = agent["WORK"].command
  /\ UNCHANGED <<channel, caller>> /\ lost \subseteq lost'

Moved ==
  \/ Progressed({"CLAIMED"}, "QUEUED") /\ browser' = browser
  \/ Progressed({"RAN"}, "REJECTED") /\ browser' = browser

Opened ==
  /\ Progressed({"QUEUED"}, "RUNNING")
  /\ agent["WORK"].command.operation = "start"
  /\ browser' = [browser EXCEPT ![agent["WORK"].command.session] = "OPEN"]

Executed(result) ==
  /\ Progressed({"QUEUED", "RUNNING"}, "RAN")
  /\ agent'["WORK"].result = result
  /\ OnlyCloses
  /\ agent["WORK"].command.operation = "start" /\ result # "OK" =>
       \/ browser' = browser /\ agent["WORK"].stage = "QUEUED"
       \/ browser'[agent["WORK"].command.session] # "OPEN"
       \/ agent["WORK"].command.session \in lost'
  /\ agent["WORK"].command.operation = "close" /\ result = "OK" =>
       browser'[agent["WORK"].command.session] # "OPEN"

Restarted ==
  /\ agent'["WORK"] = NoJob /\ OnlyCloses /\ \A x \in Session : browser'[x] # "OPEN"
  /\ UNCHANGED <<channel, caller, lost>>

WorkStep ==
  \/ Quiet
  \/ \E operation \in Operation, x \in Session : Asked(operation, x) \/ FoundBusy(operation, x)
  \/ \E r \in {"NONE"} \cup Result : Ended(r)
  \/ Taken \/ Answered \/ Forgotten \/ Moved \/ Opened
  \/ \E r \in Result : Executed(r)
  \/ Restarted

\* The other lane has cancellations only, which leave run() and the start lane alone.
LEMMA CancelLane ==
  ASSUME Types, Identities, Next
  PROVE /\ channel["CANCEL"] # NoExchange => channel["CANCEL"].command.operation = "cancel"
        /\ agent["CANCEL"] # NoJob => agent["CANCEL"].command.operation = "cancel"
        /\ channel["WORK"] # NoExchange => channel["WORK"].command.operation # "cancel"
        /\ agent["WORK"] # NoJob => agent["WORK"].command.operation # "cancel"
BY DEF Identities, LaneOf

LEMMA AskedOrBusy ==
  ASSUME Types, NEW operation \in {"start", "act", "owns", "close"}, NEW x \in Session,
         MayAsk(operation, x), Dispatch(operation, x),
         UNCHANGED <<agent, browser, flagged, lost, persisted>>
  PROVE WorkStep
<1>1. LaneOf(operation) = "WORK" /\ operation \in Operation
  BY DEF LaneOf
<1>2. \/ /\ channel["WORK"] = NoExchange
         /\ channel'["WORK"] \in Exchange
         /\ channel'["WORK"].command = [id |-> issued + 1, operation |-> operation, session |-> x]
         /\ channel'["WORK"].claimed = FALSE /\ channel'["WORK"].answer = "NONE"
         /\ UNCHANGED caller
      \/ AfterDispatch(operation, x, "ERROR") /\ UNCHANGED channel
  BY ONLY Types, Dispatch(operation, x), <1>1, DispatchEffect
<1>3. CASE AfterDispatch(operation, x, "ERROR") /\ UNCHANGED channel
  BY <1>1, <1>3 DEF FoundBusy, WorkStep
<1>4. CASE /\ channel["WORK"] = NoExchange
           /\ channel'["WORK"] \in Exchange
           /\ channel'["WORK"].command = [id |-> issued + 1, operation |-> operation, session |-> x]
           /\ channel'["WORK"].claimed = FALSE /\ channel'["WORK"].answer = "NONE"
           /\ UNCHANGED caller
  <2>1. channel'["WORK"] # NoExchange
    BY <1>4, ChannelAssumption
  <2>2. channel'["WORK"].command.operation = operation /\ channel'["WORK"].command.session = x
    BY <1>4
  <2>3. QED
    BY <1>1, <1>4, <2>1, <2>2 DEF Asked, WorkStep
<1>5. QED
  BY <1>2, <1>3, <1>4

LEMMA WorkSteps == Types /\ Identities /\ Next => WorkStep
<1> SUFFICES ASSUME Types, Identities, Next
             PROVE WorkStep
  OBVIOUS
<1>0. \A l \in Lane : /\ channel[l] # NoExchange => channel[l] \in Exchange
                      /\ agent[l] # NoJob => agent[l] \in Job
  BY DEF Types
<1>1. ASSUME NEW x \in Session, Start(x) \/ Act(x) \/ Close(x)
      PROVE WorkStep
  <2>1. PICK operation \in {"start", "act", "owns", "close"} :
          MayAsk(operation, x) /\ Dispatch(operation, x) /\ UNCHANGED <<agent, browser, flagged, lost, persisted>>
    BY <1>1 DEF Start, Act, Close, MayAsk
  <2>2. QED
    BY <2>1, AskedOrBusy
<1>2. ASSUME NEW x \in Session, Cancel(x)
      PROVE WorkStep
  <2>1. Dispatch("cancel", x) /\ LaneOf("cancel") = "CANCEL" /\ UNCHANGED <<agent, browser, lost>>
    BY <1>2 DEF Cancel, LaneOf
  <2>2. channel'["WORK"] = channel["WORK"]
    BY <2>1, DispatchEffect
  <2>3. AfterDispatch("cancel", x, "ERROR") => caller' = caller
    BY DEF AfterDispatch, Types
  <2>4. caller' = caller
    BY <2>1, <2>3 DEF Dispatch
  <2>5. QED
    BY <2>1, <2>2, <2>4 DEF WorkStep, Quiet, OnlyCloses
<1>3. ASSUME NEW l \in Lane, Return(l) \/ TimeOut(l)
      PROVE WorkStep
  <2>1. PICK r \in {"NONE"} \cup Result :
          /\ AfterDispatch(channel[l].command.operation, channel[l].command.session, r)
          /\ \/ channel[l].answer = r /\ r # "NONE"
             \/ channel[l].answer = "NONE" /\ r = "ERROR"
    BY <1>0, <1>3 DEF Return, TimeOut, Expired, Exchange
  <2>2. /\ channel[l] # NoExchange
        /\ channel' = [channel EXCEPT ![l] = NoExchange]
        /\ UNCHANGED <<agent, browser, lost>>
    BY <1>3 DEF Return, TimeOut, Expired
  <2>3. CASE l = "WORK"
    BY <2>1, <2>2, <2>3, ExchangeTaken DEF WorkStep, Ended
  <2>4. CASE l = "CANCEL"
    <3>1. caller' = caller
      BY <2>1, <2>2, <2>4, CancelLane DEF AfterDispatch, Types
    <3>2. QED
      BY <2>2, <2>4, <3>1, ExchangeTaken DEF WorkStep, Quiet, OnlyCloses
  <2>5. QED
    BY <2>3, <2>4
<1>4. ASSUME NEW l \in Lane, Claim(l) \/ LoseClaim(l)
      PROVE WorkStep
  <2>1. /\ channel[l] # NoExchange /\ ~channel[l].claimed /\ agent[l] = NoJob
        /\ channel' = [channel EXCEPT ![l].claimed = TRUE]
        /\ UNCHANGED <<caller, browser, lost>>
        /\ \/ agent' = agent
           \/ agent' = [agent EXCEPT ![l] = [command |-> channel[l].command,
                                             stage |-> "CLAIMED", result |-> "NONE"]]
    BY <1>4 DEF Claim, LoseClaim, Claimable, Polling
  <2>2. CASE l = "WORK"
    BY <2>1, <2>2, ExchangeClaimed, JobClaimed, ChannelAssumption DEF WorkStep, Taken
  <2>3. CASE l = "CANCEL"
    BY <2>1, <2>3, ExchangeClaimed, JobClaimed DEF WorkStep, Quiet, OnlyCloses
  <2>4. QED
    BY <2>2, <2>3
<1>5. ASSUME NEW l \in Lane, Submit(l)
      PROVE WorkStep
  <2>1. /\ agent[l] # NoJob /\ agent[l].stage = "CLAIMED" /\ "QUEUED" \in Stage
        /\ agent' = [agent EXCEPT ![l].stage = "QUEUED"]
        /\ UNCHANGED <<channel, caller, browser, lost>>
    BY <1>5 DEF Submit, At, Stage
  <2>2. CASE l = "WORK"
    BY <2>1, <2>2, JobMoved, ChannelAssumption DEF WorkStep, Moved, Progressed
  <2>3. CASE l = "CANCEL"
    BY <2>1, <2>3, JobMoved DEF WorkStep, Quiet, OnlyCloses
  <2>4. QED
    BY <2>2, <2>3
<1>6. ASSUME NEW l \in Lane, Complete(l)
      PROVE WorkStep
  <2>1. agent[l] # NoJob /\ agent[l].stage = "RAN" /\ UNCHANGED <<caller, browser, lost>>
    BY <1>6 DEF Complete, At
  <2>2. CASE Accepted(l) /\ channel' = [channel EXCEPT ![l].answer = agent[l].result]
             /\ agent' = [agent EXCEPT ![l] = NoJob]
    <3>1. channel[l] \in Exchange /\ channel[l].command = agent[l].command
      BY <1>0, <2>1, <2>2 DEF Accepted, Identities
    <3>2. channel' = [channel EXCEPT ![l] = [channel[l] EXCEPT !.answer = agent[l].result]]
      BY <2>2
    <3>3. /\ channel'[l] = [channel[l] EXCEPT !.answer = agent[l].result]
          /\ \A m \in Lane \ {l} : channel'[m] = channel[m]
      BY <3>2 DEF Types
    <3>4. /\ channel'[l].command = channel[l].command
          /\ channel'[l].claimed = channel[l].claimed
          /\ channel'[l].answer = agent[l].result
      BY <3>1, <3>3 DEF Exchange
    <3>5. [channel[l] EXCEPT !.answer = agent[l].result] \in Exchange
      BY <1>0, <2>1, <3>1 DEF Exchange, Job
    <3>6. channel'[l] # NoExchange
      BY <3>3, <3>5, ChannelAssumption
    <3>7. CASE l = "WORK"
      BY <2>1, <2>2, <3>1, <3>4, <3>6, <3>7, JobDone DEF WorkStep, Answered, Accepted
    <3>8. CASE l = "CANCEL"
      BY <2>1, <2>2, <3>3, <3>8, JobDone DEF WorkStep, Quiet, OnlyCloses
    <3>9. QED
      BY <3>7, <3>8
  <2>3. CASE UNCHANGED channel /\ agent' = [agent EXCEPT ![l] = NoJob] /\ ~Unheard(l)
    <3>1. CASE l = "WORK"
      BY <2>1, <2>3, <3>1, JobDone DEF WorkStep, Forgotten, OnlyCloses
    <3>2. CASE l = "CANCEL"
      BY <2>1, <2>3, <3>2, JobDone DEF WorkStep, Quiet, OnlyCloses
    <3>3. QED
      BY <3>1, <3>2
  <2>4. CASE UNCHANGED channel /\ agent' = [agent EXCEPT ![l].stage = "REJECTED"] /\ Unheard(l)
    <3>1. l = "WORK" /\ "REJECTED" \in Stage
      BY <2>1, <2>4, CancelLane DEF Unheard, Stage
    <3>2. QED
      BY <2>1, <2>4, <3>1, JobMoved, ChannelAssumption DEF WorkStep, Moved, Progressed
  <2>5. QED
    BY <1>6, <2>2, <2>3, <2>4 DEF Complete, Refused
<1>7. ASSUME NEW l \in Lane, LoseComplete(l)
      PROVE WorkStep
  <2>1. /\ agent[l] # NoJob /\ agent[l].stage = "RAN"
        /\ agent' = [agent EXCEPT ![l] = NoJob]
        /\ UNCHANGED <<channel, caller, browser>>
        /\ lost \subseteq lost'
        /\ Unheard(l) => agent[l].command.session \in lost'
    BY <1>7 DEF LoseComplete, At
  <2>2. CASE l = "WORK"
    BY <2>1, <2>2, JobDone DEF WorkStep, Forgotten, OnlyCloses
  <2>3. CASE l = "CANCEL"
    BY <2>1, <2>3, JobDone DEF WorkStep, Quiet, OnlyCloses
  <2>4. QED
    BY <2>2, <2>3
<1>8. ASSUME NEW l \in Lane, BrowserThread(l)
      PROVE WorkStep
  <2>1. /\ agent[l] # NoJob /\ agent[l] \in Job
        /\ UNCHANGED <<channel, caller>> /\ lost \subseteq lost'
    BY <1>8, <1>0 DEF StartFails, BrowserThread, BeginStart, EndStart, RunAct, RunClose, RunCancel,
      CloseRejectedStart, Heads, At
  <2> DEFINE x == agent[l].command.session
  <2>2. x \in Session
    BY <2>1 DEF Job, Command
  <2>3. browser' = Closed(x) => OnlyCloses /\ browser'[x] # "OPEN"
    BY <2>2 DEF Closed, Types, OnlyCloses
  <2>4. browser' = browser => OnlyCloses
    BY DEF OnlyCloses
  <2> HIDE DEF x
  <2>5. CASE RunCancel(l)
    <3>1. l = "CANCEL"
      BY <2>1, <2>5, CancelLane DEF RunCancel, Heads
    <3>2. \E r \in Result : Ran(l, r)
      BY <2>5 DEF RunCancel
    <3>3. OnlyCloses
      BY <2>3, <2>4, <2>5 DEF RunCancel, x
    <3>4. QED
      BY <2>1, <3>1, <3>2, <3>3, JobRan DEF WorkStep, Quiet
  <2>6. ASSUME ~RunCancel(l) PROVE l = "WORK"
    BY <1>8, <2>1, <2>6, CancelLane DEF BrowserThread, BeginStart, EndStart, RunAct, RunClose,
      CloseRejectedStart, Heads
  <2>7. CASE CloseRejectedStart(l)
    <3>1. /\ l = "WORK" /\ agent[l].command.operation = "start"
          /\ agent' = [agent EXCEPT ![l] = NoJob] /\ browser' = Closed(x)
      BY <2>1, <2>7, CancelLane DEF CloseRejectedStart, Heads, x
    <3>2. QED
      BY <2>1, <2>3, <3>1, JobDone DEF WorkStep, Forgotten, x
  <2>8. CASE /\ BeginStart(l) /\ browser' = [browser EXCEPT ![x] = "OPEN"]
             /\ agent' = [agent EXCEPT ![l].stage = "RUNNING"]
    <3>1. l = "WORK" /\ "RUNNING" \in Stage /\ agent[l].stage = "QUEUED"
          /\ agent[l].command.operation = "start"
      BY <2>1, <2>8, CancelLane DEF BeginStart, Heads, At, Stage
    <3>2. QED
      BY <2>1, <2>8, <3>1, JobMoved, ChannelAssumption DEF WorkStep, Opened, Progressed, x
  <2>9. CASE \E r \in Result :
               /\ Ran(l, r) /\ ~RunCancel(l)
               /\ agent[l].stage \in {"QUEUED", "RUNNING"}
               /\ OnlyCloses
               /\ agent[l].command.operation = "start" /\ r # "OK" =>
                    \/ browser' = browser /\ agent[l].stage = "QUEUED"
                    \/ browser'[x] # "OPEN"
                    \/ x \in lost'
               /\ agent[l].command.operation = "close" /\ r = "OK" => browser'[x] # "OPEN"
    <3>1. l = "WORK"
      BY <2>6, <2>9
    <3>2. QED
      BY <2>1, <2>9, <3>1, JobRan, ChannelAssumption DEF WorkStep, Executed, Progressed, x
  <2>10. ASSUME BeginStart(l) \/ EndStart(l) \/ RunAct(l) \/ RunClose(l),
                ~(browser' = [browser EXCEPT ![x] = "OPEN"]
                  /\ agent' = [agent EXCEPT ![l].stage = "RUNNING"] /\ BeginStart(l)),
                ~RunCancel(l)
         PROVE \E r \in Result :
                 /\ Ran(l, r) /\ ~RunCancel(l)
                 /\ agent[l].stage \in {"QUEUED", "RUNNING"}
                 /\ OnlyCloses
                 /\ agent[l].command.operation = "start" /\ r # "OK" =>
                      \/ browser' = browser /\ agent[l].stage = "QUEUED"
                      \/ browser'[x] # "OPEN"
                      \/ x \in lost'
                 /\ agent[l].command.operation = "close" /\ r = "OK" => browser'[x] # "OPEN"
    <3>1. CASE BeginStart(l)
      BY <2>4, <2>10, <3>1 DEF BeginStart, Heads, At, x
    <3>2. CASE EndStart(l)
      BY <2>3, <2>4, <2>10, <3>2 DEF EndStart, StartFails, Heads, At, x
    <3>3. CASE RunAct(l)
      BY <2>4, <2>10, <3>3 DEF RunAct, Heads, At, x
    <3>4. CASE RunClose(l)
      BY <2>3, <2>4, <2>10, <3>4 DEF RunClose, Heads, At, x
    <3>5. QED
      BY <2>10, <3>1, <3>2, <3>3, <3>4
  <2>11. QED
    BY <1>8, <2>5, <2>7, <2>8, <2>9, <2>10 DEF BrowserThread
<1>9. CASE AgentRestarts
  BY <1>9 DEF AgentRestarts, WorkStep, Restarted, OnlyCloses, Types
<1>10. ASSUME NEW x \in Session, Persist(x) \/ Fence(x)
       PROVE WorkStep
  BY <1>10 DEF Persist, Fence, WorkStep, Quiet, OnlyCloses
<1>11. QED
  BY <1>1, <1>2, <1>3, <1>4, <1>5, <1>6, <1>7, <1>8, <1>9, <1>10 DEF Next

-----------------------------------------------------------------------------
(* Starts, and the browsers they leave *)

StartWaits(x) == Waiting("WORK", x) /\ channel["WORK"].command.operation = "start"

JobOf(operation, x) ==
  /\ agent["WORK"] # NoJob
  /\ agent["WORK"].command.operation = operation /\ agent["WORK"].command.session = x

\* Until run() has the answer to its start, the start is in one place: not asked yet, waiting
\* in the lane, or in the hands of the Agent, where it opens a browser at most once.
StartedOnce(x) ==
  /\ caller[x] = "NEW" /\ ~Waiting("WORK", x) => browser[x] = "NONE" /\ ~JobOf("start", x)
  /\ StartWaits(x) => caller[x] = "NEW"
  /\ Waiting("WORK", x) /\ ~StartWaits(x) => caller[x] = "READY"
  /\ StartWaits(x) /\ ~channel["WORK"].claimed => browser[x] = "NONE" /\ ~JobOf("start", x)
  /\ StartWaits(x) /\ channel["WORK"].answer # "NONE" =>
       channel["WORK"].claimed /\ ~JobOf("start", x)
  /\ JobOf("start", x) => caller[x] \in {"NEW", "DONE"}
  /\ JobOf("start", x) /\ agent["WORK"].stage \in {"CLAIMED", "QUEUED"} => browser[x] = "NONE"

\* A start that failed and could clean up, and a close that did its work leave no browser, on their way as well.
Owned(x) ==
  /\ JobOf("start", x) /\ agent["WORK"].stage = "RAN" /\ agent["WORK"].result # "OK" =>
       browser[x] # "OPEN" \/ x \in lost
  /\ JobOf("close", x) /\ agent["WORK"].stage = "RAN" /\ agent["WORK"].result = "OK" =>
       browser[x] # "OPEN"
  /\ /\ Waiting("WORK", x) /\ channel["WORK"].command.operation = "close"
     /\ channel["WORK"].answer = "OK"
     => browser[x] # "OPEN"
  /\ browser[x] = "OPEN" => \/ JobOf("start", x)
                            \/ StartWaits(x) /\ channel["WORK"].answer = "OK"
                            \/ caller[x] \in {"READY", "UNCLOSED"}
                            \/ x \in lost

LEMMA OwnedAfter ==
  ASSUME Types, Types', Identities, NEW x \in Session, StartedOnce(x), Owned(x), WorkStep
  PROVE StartedOnce(x)' /\ Owned(x)'
<1> USE DEF StartedOnce, Owned, StartWaits, JobOf, Waiting
<1>0. /\ caller \in [Session -> {"NEW", "READY", "DONE", "UNCLOSED"}]
      /\ browser \in [Session -> {"NONE", "OPEN", "CLOSED"}]
  BY DEF Types
<1>1. CASE Quiet
  BY <1>1 DEF Quiet, OnlyCloses
<1>2. ASSUME NEW operation \in Operation, NEW y \in Session, Asked(operation, y)
      PROVE StartedOnce(x)' /\ Owned(x)'
  BY <1>2 DEF Asked, MayAsk
<1>3. ASSUME NEW operation \in Operation, NEW y \in Session, FoundBusy(operation, y)
      PROVE StartedOnce(x)' /\ Owned(x)'
  BY <1>0, <1>3 DEF FoundBusy, MayAsk, AfterDispatch
<1>4. ASSUME NEW r \in {"NONE"} \cup Result, Ended(r)
      PROVE StartedOnce(x)' /\ Owned(x)'
  BY <1>0, <1>4 DEF Ended, AfterDispatch
<1>5. CASE Taken
  BY <1>5 DEF Taken
<1>6. CASE Answered
  BY <1>6 DEF Answered
<1>7. CASE Forgotten
  BY <1>7 DEF Forgotten, OnlyCloses, Unheard
<1>8. CASE Moved
  BY <1>8 DEF Moved, Progressed
<1>9. CASE Opened
  BY <1>0, <1>9 DEF Opened, Progressed
<1>10. ASSUME NEW r \in Result, Executed(r)
       PROVE StartedOnce(x)' /\ Owned(x)'
  BY <1>10 DEF Executed, Progressed, OnlyCloses
<1>11. CASE Restarted
  BY <1>11 DEF Restarted, OnlyCloses
<1>12. QED
  BY <1>1, <1>2, <1>3, <1>4, <1>5, <1>6, <1>7, <1>8, <1>9, <1>10, <1>11 DEF WorkStep

BrowsersOwned == \A x \in Session : StartedOnce(x) /\ Owned(x)

LEMMA Owners == Spec => []BrowsersOwned
<1>1. Init => BrowsersOwned
  <2> SUFFICES ASSUME Init, NEW x \in Session
               PROVE StartedOnce(x) /\ Owned(x)
    BY DEF BrowsersOwned
  <2>1. /\ caller[x] = "NEW" /\ browser[x] = "NONE"
        /\ channel["WORK"] = NoExchange /\ agent["WORK"] = NoJob
    BY DEF Init
  <2>2. QED
    BY <2>1 DEF StartedOnce, Owned, StartWaits, JobOf, Waiting
<1>2. Types /\ Types' /\ Identities /\ BrowsersOwned /\ [Next]_vars => BrowsersOwned'
  <2>1. BrowsersOwned /\ UNCHANGED vars => BrowsersOwned'
    BY DEF vars, BrowsersOwned, StartedOnce, Owned, StartWaits, JobOf, Waiting
  <2>2. Types /\ Types' /\ Identities /\ BrowsersOwned /\ Next => BrowsersOwned'
    BY WorkSteps, OwnedAfter DEF BrowsersOwned
  <2>3. QED
    BY <2>1, <2>2
<1>3. QED
  BY <1>1, <1>2, Identified, PTL DEF Spec

\* Every open browser has somebody who still has to close it, or is one that the code gives
\* up: its close failed, or the answer to its start was lost.
THEOREM BrowsersAreAccounted == Spec => []BrowserAccounted
<1>1. BrowsersOwned => BrowserAccounted
  BY DEF BrowsersOwned, Owned, BrowserAccounted, JobOf, StartWaits, Waiting
<1>2. QED
  BY <1>1, Owners, PTL

\* A browser that was closed stays closed.
THEOREM BrowsersStartOnce == Spec => BrowserStartsOnce
<1>1. Types /\ Identities /\ BrowsersOwned /\ [Next]_vars =>
        [\A x \in Session : browser[x] # "NONE" => browser'[x] \in {browser[x], "CLOSED"}]_vars
  <2> SUFFICES ASSUME Types, Identities, BrowsersOwned, Next,
                      NEW x \in Session, browser[x] # "NONE"
               PROVE browser'[x] \in {browser[x], "CLOSED"}
    OBVIOUS
  <2>1. CASE OnlyCloses
    BY <2>1 DEF OnlyCloses
  <2>2. CASE Opened
    <3>1. agent["WORK"].command.session # x
      BY <2>2 DEF Opened, Progressed, BrowsersOwned, StartedOnce, JobOf
    <3>2. QED
      BY <2>2, <3>1 DEF Opened, Types
  <2>3. OnlyCloses \/ Opened
    BY WorkSteps DEF WorkStep, Quiet, Asked, FoundBusy, Ended, Taken, Answered, Forgotten, Moved,
      Executed, Restarted, OnlyCloses
  <2>4. QED
    BY <2>1, <2>2, <2>3
<1>2. QED
  BY <1>1, Owners, Identified, PTL DEF Spec, BrowserStartsOnce

-----------------------------------------------------------------------------
(* What a step does to the lane of cancellations *)

NotInvolved ==
  channel'["CANCEL"] = channel["CANCEL"] /\ agent'["CANCEL"] = agent["CANCEL"]

SameFences == UNCHANGED <<canceller, persisted>>

Fenced(x) ==
  /\ NotInvolved /\ persisted' = persisted
  /\ canceller' = [canceller EXCEPT ![x] = "FENCED"] /\ canceller[x] = "IDLE"

Persisted(x) ==
  /\ NotInvolved /\ canceller' = canceller
  /\ persisted' = persisted \cup {x} /\ canceller[x] = "IDLE"
  /\ caller[x] = "READY" /\ caller' = caller

CancelAsked(x) ==
  /\ canceller[x] = "FENCED"
  /\ channel'["CANCEL"].command.session = x /\ channel'["CANCEL"].answer = "NONE"
  /\ agent' = agent /\ SameFences

CancelEnded(result) ==
  /\ channel["CANCEL"] # NoExchange /\ channel'["CANCEL"] = NoExchange
  /\ canceller' = [canceller EXCEPT ![channel["CANCEL"].command.session] =
                     IF result = "OK" THEN "CANCELLED" ELSE @]
  /\ result = "OK" => channel["CANCEL"].answer = "OK"
  /\ agent' = agent /\ persisted' = persisted

CancelTaken ==
  /\ channel["CANCEL"] # NoExchange
  /\ channel'["CANCEL"].command = channel["CANCEL"].command
  /\ channel'["CANCEL"].answer = channel["CANCEL"].answer
  /\ \/ agent'["CANCEL"] = agent["CANCEL"]
     \/ /\ agent'["CANCEL"].command = channel["CANCEL"].command
        /\ agent'["CANCEL"].stage = "CLAIMED"
  /\ SameFences

CancelAnswered ==
  /\ channel["CANCEL"] # NoExchange /\ agent["CANCEL"] # NoJob
  /\ agent["CANCEL"].stage = "RAN" /\ agent'["CANCEL"] = NoJob
  /\ channel["CANCEL"].command = agent["CANCEL"].command
  /\ channel'["CANCEL"].command = channel["CANCEL"].command
  /\ channel'["CANCEL"].answer = agent["CANCEL"].result
  /\ SameFences

CancelDropped == agent'["CANCEL"] = NoJob /\ channel' = channel /\ SameFences

CancelQueued ==
  /\ agent["CANCEL"] # NoJob /\ agent'["CANCEL"] # NoJob
  /\ agent'["CANCEL"].command = agent["CANCEL"].command /\ agent'["CANCEL"].stage # "RAN"
  /\ channel' = channel /\ SameFences

CancelRan(result) ==
  /\ agent["CANCEL"] # NoJob /\ agent'["CANCEL"] # NoJob
  /\ agent'["CANCEL"].command = agent["CANCEL"].command
  /\ agent'["CANCEL"].stage = "RAN" /\ agent'["CANCEL"].result = result
  /\ result = "OK" /\ agent["CANCEL"].command.session \in persisted =>
       browser'[agent["CANCEL"].command.session] # "OPEN"
  /\ channel' = channel /\ SameFences

CancelStep ==
  \/ NotInvolved /\ SameFences
  \/ \E x \in Session : Fenced(x) \/ Persisted(x) \/ CancelAsked(x)
  \/ \E r \in {"NONE"} \cup Result : CancelEnded(r)
  \/ CancelTaken \/ CancelAnswered \/ CancelDropped \/ CancelQueued
  \/ \E r \in Result : CancelRan(r)

LEMMA CancelSteps == Types /\ Identities /\ Next => CancelStep
<1> SUFFICES ASSUME Types, Identities, Next
             PROVE CancelStep
  OBVIOUS
<1> USE DEF SameFences, NotInvolved
<1>0. \A l \in Lane : /\ channel[l] # NoExchange => channel[l] \in Exchange
                      /\ agent[l] # NoJob => agent[l] \in Job
  BY DEF Types
<1>1. ASSUME NEW x \in Session, Start(x) \/ Act(x) \/ Close(x)
      PROVE CancelStep
  <2>1. PICK operation \in {"start", "act", "owns", "close"} :
          Dispatch(operation, x) /\ UNCHANGED <<agent, browser, flagged, lost, persisted>>
    BY <1>1 DEF Start, Act, Close
  <2>2. LaneOf(operation) = "WORK" /\ operation \in Operation
    BY DEF LaneOf
  <2>3. channel'["CANCEL"] = channel["CANCEL"]
    BY <2>1, <2>2, DispatchEffect
  <2>4. AfterDispatch(operation, x, "ERROR") => canceller' = canceller
    BY DEF AfterDispatch, Types
  <2>5. canceller' = canceller
    BY <2>1, <2>4 DEF Dispatch
  <2>6. QED
    BY <2>1, <2>3, <2>5 DEF CancelStep
<1>2. ASSUME NEW x \in Session, Cancel(x)
      PROVE CancelStep
  <2>1. /\ Dispatch("cancel", x) /\ LaneOf("cancel") = "CANCEL" /\ canceller[x] = "FENCED"
        /\ agent' = agent /\ persisted' = persisted /\ "cancel" \in Operation
    BY <1>2 DEF Cancel, LaneOf
  <2>2. \/ /\ channel'["CANCEL"].command = [id |-> issued + 1, operation |-> "cancel", session |-> x]
           /\ channel'["CANCEL"].answer = "NONE"
           /\ canceller' = canceller
        \/ AfterDispatch("cancel", x, "ERROR") /\ channel' = channel
    BY <2>1, DispatchEffect
  <2>3. CASE AfterDispatch("cancel", x, "ERROR") /\ channel' = channel
    BY <2>1, <2>3 DEF AfterDispatch, Types, CancelStep
  <2>4. CASE /\ channel'["CANCEL"].command = [id |-> issued + 1, operation |-> "cancel", session |-> x]
             /\ channel'["CANCEL"].answer = "NONE"
             /\ canceller' = canceller
    BY <2>1, <2>4 DEF CancelStep, CancelAsked
  <2>5. QED
    BY <2>2, <2>3, <2>4
<1>3. ASSUME NEW x \in Session, Persist(x) \/ Fence(x)
      PROVE CancelStep
  BY <1>3 DEF Persist, Fence, CancelStep, Persisted, Fenced
<1>4. ASSUME NEW l \in Lane, Return(l) \/ TimeOut(l)
      PROVE CancelStep
  <2>1. PICK r \in {"NONE"} \cup Result :
          /\ AfterDispatch(channel[l].command.operation, channel[l].command.session, r)
          /\ r = "OK" => channel[l].answer = "OK"
    BY <1>0, <1>4 DEF Return, TimeOut, Expired, Exchange
  <2>2. /\ channel[l] # NoExchange
        /\ channel' = [channel EXCEPT ![l] = NoExchange]
        /\ agent' = agent /\ persisted' = persisted
    BY <1>4 DEF Return, TimeOut, Expired
  <2>3. CASE l = "CANCEL"
    BY <2>1, <2>2, <2>3, ExchangeTaken, CancelLane DEF CancelStep, CancelEnded, AfterDispatch
  <2>4. CASE l = "WORK"
    <3>1. canceller' = canceller
      BY <2>1, <2>2, <2>4, CancelLane DEF AfterDispatch, Types
    <3>2. QED
      BY <2>2, <2>4, <3>1, ExchangeTaken DEF CancelStep
  <2>5. QED
    BY <2>3, <2>4
<1>5. ASSUME NEW l \in Lane, Claim(l) \/ LoseClaim(l)
      PROVE CancelStep
  <2>1. /\ channel[l] # NoExchange
        /\ channel' = [channel EXCEPT ![l].claimed = TRUE]
        /\ UNCHANGED <<canceller, persisted>>
        /\ \/ agent' = agent
           \/ agent' = [agent EXCEPT ![l] = [command |-> channel[l].command,
                                             stage |-> "CLAIMED", result |-> "NONE"]]
    BY <1>5 DEF Claim, LoseClaim, Claimable
  <2>2. CASE l = "WORK"
    BY <2>1, <2>2, ExchangeClaimed, JobClaimed DEF CancelStep
  <2>3. CASE l = "CANCEL"
    BY <2>1, <2>3, ExchangeClaimed, JobClaimed DEF CancelStep, CancelTaken
  <2>4. QED
    BY <2>2, <2>3
<1>6. ASSUME NEW l \in Lane, Submit(l)
      PROVE CancelStep
  <2>1. /\ agent[l] # NoJob /\ "QUEUED" \in Stage
        /\ agent' = [agent EXCEPT ![l].stage = "QUEUED"]
        /\ UNCHANGED <<channel, canceller, persisted>>
    BY <1>6 DEF Submit, At, Stage
  <2>2. CASE l = "WORK"
    BY <2>1, <2>2, JobMoved DEF CancelStep
  <2>3. CASE l = "CANCEL"
    BY <2>1, <2>3, JobMoved, ChannelAssumption DEF CancelStep, CancelQueued
  <2>4. QED
    BY <2>2, <2>3
<1>7. ASSUME NEW l \in Lane, Complete(l)
      PROVE CancelStep
  <2>1. agent[l] # NoJob /\ agent[l].stage = "RAN" /\ UNCHANGED <<canceller, persisted>>
    BY <1>7 DEF Complete, At
  <2>2. CASE Accepted(l) /\ channel' = [channel EXCEPT ![l].answer = agent[l].result]
             /\ agent' = [agent EXCEPT ![l] = NoJob]
    <3>1. channel[l] \in Exchange /\ channel[l].command = agent[l].command
          /\ channel[l] # NoExchange
      BY <1>0, <2>1, <2>2 DEF Accepted, Identities
    <3>2. channel' = [channel EXCEPT ![l] = [channel[l] EXCEPT !.answer = agent[l].result]]
      BY <2>2
    <3>3. /\ channel'[l] = [channel[l] EXCEPT !.answer = agent[l].result]
          /\ \A m \in Lane \ {l} : channel'[m] = channel[m]
      BY <3>2 DEF Types
    <3>4. /\ channel'[l].command = channel[l].command
          /\ channel'[l].answer = agent[l].result
      BY <3>1, <3>3 DEF Exchange
    <3>5. CASE l = "CANCEL"
      BY <2>1, <2>2, <3>1, <3>4, <3>5, JobDone DEF CancelStep, CancelAnswered
    <3>6. CASE l = "WORK"
      BY <2>1, <2>2, <3>3, <3>6, JobDone DEF CancelStep
    <3>7. QED
      BY <3>5, <3>6
  <2>3. CASE UNCHANGED channel /\ agent' = [agent EXCEPT ![l] = NoJob]
    <3>1. CASE l = "CANCEL"
      BY <2>1, <2>3, <3>1, JobDone DEF CancelStep, CancelDropped
    <3>2. CASE l = "WORK"
      BY <2>1, <2>3, <3>2, JobDone DEF CancelStep
    <3>3. QED
      BY <3>1, <3>2
  <2>4. CASE UNCHANGED channel /\ agent' = [agent EXCEPT ![l].stage = "REJECTED"] /\ Unheard(l)
    <3>1. l = "WORK" /\ "REJECTED" \in Stage
      BY <2>1, <2>4, CancelLane DEF Unheard, Stage
    <3>2. QED
      BY <2>1, <2>4, <3>1, JobMoved DEF CancelStep
  <2>5. QED
    BY <1>7, <2>2, <2>3, <2>4 DEF Complete, Refused
<1>8. ASSUME NEW l \in Lane, LoseComplete(l)
      PROVE CancelStep
  <2>1. /\ agent' = [agent EXCEPT ![l] = NoJob]
        /\ UNCHANGED <<channel, canceller, persisted>>
    BY <1>8 DEF LoseComplete
  <2>2. CASE l = "CANCEL"
    BY <2>1, <2>2, JobDone DEF CancelStep, CancelDropped
  <2>3. CASE l = "WORK"
    BY <2>1, <2>3, JobDone DEF CancelStep
  <2>4. QED
    BY <2>2, <2>3
<1>9. ASSUME NEW l \in Lane, BrowserThread(l)
      PROVE CancelStep
  <2>1. /\ agent[l] # NoJob /\ agent[l] \in Job
        /\ UNCHANGED <<channel, canceller, persisted>>
    BY <1>9, <1>0 DEF BrowserThread, BeginStart, EndStart, RunAct, RunClose, RunCancel,
      CloseRejectedStart, Heads, At
  <2> DEFINE x == agent[l].command.session
  <2>2. x \in Session
    BY <2>1 DEF Job, Command
  <2>3. CASE RunCancel(l)
    <3>1. l = "CANCEL"
      BY <2>1, <2>3, CancelLane DEF RunCancel, Heads
    <3>2. browser' = Closed(x) => browser'[x] # "OPEN"
      BY <2>2 DEF Closed, Types
    <3>3. PICK r \in Result : Ran(l, r) /\ (r = "OK" /\ x \in persisted => browser'[x] # "OPEN")
      BY <2>3, <3>2 DEF RunCancel, x
    <3>4. QED
      BY <2>1, <3>1, <3>3, JobRan, ChannelAssumption DEF CancelStep, CancelRan, x
  <2>4. CASE ~RunCancel(l)
    <3>1. l = "WORK"
      BY <1>9, <2>1, <2>4, CancelLane DEF BrowserThread, BeginStart, EndStart, RunAct, RunClose,
        CloseRejectedStart, Heads
    <3>2. \/ \E r \in Result : Ran(l, r)
          \/ agent' = [agent EXCEPT ![l].stage = "RUNNING"]
          \/ agent' = [agent EXCEPT ![l] = NoJob]
      BY <1>9, <2>4 DEF BrowserThread, BeginStart, EndStart, RunAct, RunClose,
        CloseRejectedStart, StartFails
    <3>3. agent'["CANCEL"] = agent["CANCEL"]
      BY <2>1, <3>1, <3>2, JobRan, JobMoved, JobDone DEF Stage
    <3>4. QED
      BY <2>1, <3>3 DEF CancelStep
  <2>5. QED
    BY <2>3, <2>4
<1>10. CASE AgentRestarts
  BY <1>10 DEF AgentRestarts, CancelStep, CancelDropped
<1>11. QED
  BY <1>1, <1>2, <1>3, <1>4, <1>5, <1>6, <1>7, <1>8, <1>9, <1>10 DEF Next

-----------------------------------------------------------------------------
(* Cancellations that name their browser *)

CancelFor(x) ==
  \/ channel["CANCEL"] # NoExchange /\ channel["CANCEL"].command.session = x
  \/ agent["CANCEL"] # NoJob /\ agent["CANCEL"].command.session = x

\* A row gets its browser_session_id after the start and before the fence, so a cancellation
\* carries it if there will ever be one, and no start is left that could open another browser.
Known(x) ==
  /\ canceller[x] = "IDLE" => ~CancelFor(x)
  /\ x \in persisted => caller[x] # "NEW" /\ ~JobOf("start", x)
  /\ x \in persisted =>
       /\ canceller[x] = "CANCELLED" => browser[x] # "OPEN"
       /\ /\ channel["CANCEL"] # NoExchange /\ channel["CANCEL"].command.session = x
          /\ channel["CANCEL"].answer = "OK"
          => browser[x] # "OPEN"
       /\ /\ agent["CANCEL"] # NoJob /\ agent["CANCEL"].command.session = x
          /\ agent["CANCEL"].stage = "RAN" /\ agent["CANCEL"].result = "OK"
          => browser[x] # "OPEN"

LEMMA NoneToStart ==
  ASSUME Types, Identities, NEW x \in persisted, StartedOnce(x), Known(x), WorkStep
  PROVE /\ caller'[x] # "NEW" /\ ~JobOf("start", x)'
        /\ browser[x] # "OPEN" => browser'[x] # "OPEN"
<1> USE DEF StartedOnce, StartWaits, JobOf, Waiting, Known
<1>0. /\ caller \in [Session -> {"NEW", "READY", "DONE", "UNCLOSED"}] /\ x \in Session
      /\ browser \in [Session -> {"NONE", "OPEN", "CLOSED"}]
  BY DEF Types
<1>1. CASE Quiet
  BY <1>0, <1>1 DEF Quiet, OnlyCloses
<1>2. ASSUME NEW operation \in Operation, NEW y \in Session, Asked(operation, y) \/ FoundBusy(operation, y)
      PROVE /\ caller'[x] # "NEW" /\ ~JobOf("start", x)'
            /\ browser[x] # "OPEN" => browser'[x] # "OPEN"
  BY <1>0, <1>2 DEF Asked, FoundBusy, MayAsk, AfterDispatch
<1>3. ASSUME NEW r \in {"NONE"} \cup Result, Ended(r)
      PROVE /\ caller'[x] # "NEW" /\ ~JobOf("start", x)'
            /\ browser[x] # "OPEN" => browser'[x] # "OPEN"
  BY <1>0, <1>3 DEF Ended, AfterDispatch
<1>4. CASE Taken \/ Answered \/ Moved
  BY <1>4 DEF Taken, Answered, Moved, Progressed
<1>5. CASE Forgotten \/ Restarted
  BY <1>0, <1>5 DEF Forgotten, Restarted, OnlyCloses
<1>6. CASE Opened
  BY <1>0, <1>6 DEF Opened, Progressed
<1>7. ASSUME NEW r \in Result, Executed(r)
      PROVE /\ caller'[x] # "NEW" /\ ~JobOf("start", x)'
            /\ browser[x] # "OPEN" => browser'[x] # "OPEN"
  BY <1>0, <1>7 DEF Executed, Progressed, OnlyCloses
<1>8. QED
  BY <1>1, <1>2, <1>3, <1>4, <1>5, <1>6, <1>7 DEF WorkStep

LEMMA KnownAfter ==
  ASSUME Types, Types', Identities, NEW x \in Session, StartedOnce(x), StartedOnce(x)', Known(x),
         WorkStep, CancelStep
  PROVE Known(x)'
<1>0. canceller \in [Session -> {"IDLE", "FENCED", "CANCELLED"}]
  BY DEF Types
<1>1. x \in persisted => /\ caller'[x] # "NEW" /\ ~JobOf("start", x)'
                         /\ browser[x] # "OPEN" => browser'[x] # "OPEN"
  BY NoneToStart
<1> USE DEF SameFences, NotInvolved, Known, CancelFor
<1>2. CASE NotInvolved /\ SameFences
  BY <1>1, <1>2
<1>3. ASSUME NEW y \in Session, Fenced(y)
      PROVE Known(x)'
  BY <1>0, <1>1, <1>3 DEF Fenced
<1>4. ASSUME NEW y \in Session, Persisted(y)
      PROVE Known(x)'
  <2>1. CASE x = y /\ x \notin persisted
    <3>1. caller'[x] = "READY" /\ ~JobOf("start", x)'
      BY <1>4, <2>1 DEF Persisted, StartedOnce
    <3>2. QED
      BY <1>4, <2>1, <3>1 DEF Persisted
  <2>2. CASE x # y \/ x \in persisted
    BY <1>1, <1>4, <2>2 DEF Persisted
  <2>3. QED
    BY <2>1, <2>2
<1>5. ASSUME NEW y \in Session, CancelAsked(y)
      PROVE Known(x)'
  BY <1>1, <1>5 DEF CancelAsked
<1>6. ASSUME NEW r \in {"NONE"} \cup Result, CancelEnded(r)
      PROVE Known(x)'
  BY <1>0, <1>1, <1>6 DEF CancelEnded
<1>7. CASE CancelTaken
  BY <1>1, <1>7 DEF CancelTaken
<1>8. CASE CancelAnswered
  BY <1>1, <1>8 DEF CancelAnswered
<1>9. CASE CancelDropped \/ CancelQueued
  BY <1>1, <1>9 DEF CancelDropped, CancelQueued
<1>10. ASSUME NEW r \in Result, CancelRan(r)
       PROVE Known(x)'
  BY <1>1, <1>10 DEF CancelRan
<1>11. QED
  BY <1>2, <1>3, <1>4, <1>5, <1>6, <1>7, <1>8, <1>9, <1>10 DEF CancelStep

AllKnown == \A x \in Session : Known(x)

\* A cancellation that knew its browser is the end of it, whatever start, act, close or answer
\* was under way on the other lane.
THEOREM KnownBrowsersEnd == Spec => []CancelEndsKnownBrowser
<1>1. Init => AllKnown
  <2> SUFFICES ASSUME Init, NEW x \in Session
               PROVE Known(x)
    BY DEF AllKnown
  <2>1. channel["CANCEL"] = NoExchange /\ agent["CANCEL"] = NoJob /\ x \notin persisted
    BY DEF Init
  <2>2. QED
    BY <2>1 DEF Known, CancelFor
<1>2. /\ Types /\ Types' /\ Identities /\ BrowsersOwned /\ BrowsersOwned'
      /\ AllKnown /\ [Next]_vars
      => AllKnown'
  <2>1. AllKnown /\ UNCHANGED vars => AllKnown'
    BY DEF vars, AllKnown, Known, CancelFor, JobOf
  <2>2. Types /\ Types' /\ Identities /\ BrowsersOwned /\ BrowsersOwned' /\ AllKnown /\ Next
        => AllKnown'
    BY WorkSteps, CancelSteps, KnownAfter DEF BrowsersOwned, AllKnown
  <2>3. QED
    BY <2>1, <2>2
<1>3. Types /\ AllKnown => CancelEndsKnownBrowser
  BY DEF Types, AllKnown, Known, CancelEndsKnownBrowser
<1>4. QED
  BY <1>1, <1>2, <1>3, Identified, Owners, PTL DEF Spec
===============================================================================
