------------------------- MODULE RunnerRegistration --------------------------
(***************************************************************************)
(* How a host becomes the Runner of one runner_code: enrollments,          *)
(* registration over a network that loses requests and answers, and the    *)
(* Agent's token (runner_service.py, idempotency.py; application.py,       *)
(* credentials.py, transport.py and cli.py of the Agent).                  *)
(*                                                                         *)
(* The idempotency key of a registration and the token it issues are       *)
(* digests of the enrollment credential, so that a repetition can be given *)
(* the same token again.  The request also carries what identifies the     *)
(* process (runtime_metadata), and is compared with the first one.         *)
(*                                                                         *)
(* A registration is two steps of the API, for the first statement of its  *)
(* transaction opens the snapshot all its reads without a lock come from   *)
(* (REPEATABLE READ), and the insertion of the record then waits for a     *)
(* registration with the same key that is under way.                       *)
(***************************************************************************)
EXTENDS Naturals

CONSTANTS
  Host,        \* machines, each given one enrollment credential
  Process,     \* process ids
  Call,        \* registrations under way together
  MaxClerks,   \* people who create enrollments at the same time
  MaxVersion   \* bound: versions of the token

ASSUME RegistrationAssumption ==
  /\ MaxClerks \in Nat
  /\ MaxVersion \in Nat \ {0}
  /\ "nobody" \notin Host
  /\ "none" \notin Process

VARIABLES
  clerks,      \* how many create_enrollment saw the code free and wait for the project's lock
  enrollment,  \* enrollment_status of each host's credential
  owner,       \* the host whose enrollment the Runner of the code consumed
  issued,      \* token_version and token_status of its RunnerAgent, version 0 before
  record,      \* idempotency record of each host's registration: the process it came from
  agent,       \* what the Agent of each host does, its process, the token version it uses
  file,        \* token version in each host's credential file, 0 for no file
  call         \* requests to register

registrationVars == <<clerks, enrollment, owner, issued, record, agent, file, call>>

Version == 0..MaxVersion

\* awaited: the Agent still waits for it.  seen: the token version of the host's Runner in
\* its snapshot, 0 without a Runner.
CallRow ==
  [state : {"IDLE", "SENT", "READING", "TOKEN", "REFUSED"}, host : Host \cup {"nobody"},
   process : Process \cup {"none"}, awaited : BOOLEAN, seen : Version]

Idle == [state |-> "IDLE", host |-> "nobody", process |-> "none", awaited |-> FALSE,
         seen |-> 0]

RegistrationTypeOK ==
  /\ clerks \in 0..MaxClerks
  /\ enrollment \in [Host -> {"NONE", "PENDING", "CONSUMED"}]
  /\ owner \in Host \cup {"nobody"}
  /\ issued \in [version : Version, status : {"ACTIVE", "REVOKED"}]
  /\ record \in [Host -> Process \cup {"none"}]
  /\ agent \in [Host -> [doing : {"DOWN", "REGISTERING", "RUNNING"},
                         process : Process \cup {"none"}, version : Version]]
  /\ file \in [Host -> Version]
  /\ call \in [Call -> CallRow]

Stopped == [doing |-> "DOWN", process |-> "none", version |-> 0]

RegistrationInit ==
  /\ clerks = 0
  /\ enrollment = [h \in Host |-> "NONE"]
  /\ owner = "nobody"
  /\ issued = [version |-> 0, status |-> "REVOKED"]
  /\ record = [h \in Host |-> "none"]
  /\ agent = [h \in Host |-> Stopped]
  /\ file = [h \in Host |-> 0]
  /\ call = [c \in Call |-> Idle]

-----------------------------------------------------------------------------
(* create_enrollment *)

CodeTaken == owner # "nobody" \/ \E h \in Host : enrollment[h] = "PENDING"

\* The snapshot is taken; who sees the code taken is refused.
BeginEnrollment ==
  /\ clerks < MaxClerks
  /\ ~CodeTaken
  /\ clerks' = clerks + 1
  /\ UNCHANGED <<enrollment, owner, issued, record, agent, file, call>>

\* The lock of the project orders two creations, and tells the second nothing of the first.
CreateEnrollment(h) ==
  /\ clerks > 0
  /\ enrollment[h] = "NONE"
  /\ clerks' = clerks - 1
  /\ enrollment' = [enrollment EXCEPT ![h] = "PENDING"]
  /\ UNCHANGED <<owner, issued, record, agent, file, call>>

\* Refused for another reason.
EnrollmentRefused ==
  /\ clerks > 0
  /\ clerks' = clerks - 1
  /\ UNCHANGED <<enrollment, owner, issued, record, agent, file, call>>

-----------------------------------------------------------------------------
(* The Agent *)

\* start of process p: with its file it runs, without one it registers.
StartAgent(h, p) ==
  /\ agent[h] = Stopped
  /\ enrollment[h] # "NONE"
  /\ agent' = [agent EXCEPT ![h] =
        [doing |-> IF file[h] = 0 THEN "REGISTERING" ELSE "RUNNING", process |-> p,
         version |-> file[h]]]
  /\ UNCHANGED <<clerks, enrollment, owner, issued, record, file, call>>

AwaitedBy(h) == {c \in Call : call[c].host = h /\ call[c].awaited}

\* One round of _register_with_retry.
SendRegistration(h, c) ==
  /\ agent[h].doing = "REGISTERING"
  /\ AwaitedBy(h) = {}
  /\ call[c] = Idle
  /\ call' = [call EXCEPT ![c] = [state |-> "SENT", host |-> h, process |-> agent[h].process,
                                  awaited |-> TRUE, seen |-> 0]]
  /\ UNCHANGED <<clerks, enrollment, owner, issued, record, agent, file>>

\* The request or its answer is late or lost, and will be repeated.
TimeOut(c) ==
  /\ call[c].awaited
  /\ call' = [call EXCEPT ![c].awaited = FALSE]
  /\ UNCHANGED <<clerks, enrollment, owner, issued, record, agent, file>>

\* What nobody waits for disappears: on its way, or when it has been answered.
Vanish(c) ==
  /\ call[c].state \in {"SENT", "TOKEN", "REFUSED"}
  /\ ~call[c].awaited
  /\ call' = [call EXCEPT ![c] = Idle]
  /\ UNCHANGED <<clerks, enrollment, owner, issued, record, agent, file>>

\* The answer has the token, which always is the one of version 1: save and go on.
Registered(c) ==
  /\ call[c].state = "TOKEN"
  /\ call[c].awaited
  /\ LET h == call[c].host IN
       /\ file' = [file EXCEPT ![h] = 1]
       /\ agent' = [agent EXCEPT ![h].doing = "RUNNING", ![h].version = 1]
  /\ call' = [call EXCEPT ![c] = Idle]
  /\ UNCHANGED <<clerks, enrollment, owner, issued, record>>

\* A status below 500 is not retried: the process ends.
RegistrationFails(c) ==
  /\ call[c].state = "REFUSED"
  /\ call[c].awaited
  /\ agent' = [agent EXCEPT ![call[c].host] = Stopped]
  /\ call' = [call EXCEPT ![c] = Idle]
  /\ UNCHANGED <<clerks, enrollment, owner, issued, record, file>>

\* The process ends, or is ended by the 401 of a heartbeat with an outdated token.
ProcessEnds(h) ==
  /\ agent[h] # Stopped
  /\ agent' = [agent EXCEPT ![h] = Stopped]
  /\ call' = [c \in Call |-> IF c \in AwaitedBy(h) THEN [call[c] EXCEPT !.awaited = FALSE]
                             ELSE call[c]]
  /\ UNCHANGED <<clerks, enrollment, owner, issued, record, file>>

-----------------------------------------------------------------------------
(* register *)

\* The transaction's first statement looks for the record of the key, without a lock.
BeginRegistration(c) ==
  /\ call[c].state = "SENT"
  /\ call' = [call EXCEPT ![c].state = "READING",
                          ![c].seen = IF owner = call[c].host THEN issued.version ELSE 0]
  /\ UNCHANGED <<clerks, enrollment, owner, issued, record, agent, file>>

Answer(c, state) == call' = [call EXCEPT ![c].state = state, ![c].seen = 0]

\* Mutated RegisterRunner: there may be a Runner of that code already.
RegisterDuplicate(c) ==
  LET h == call[c].host IN
    /\ call[c].state = "READING"
    /\ record[h] = "none"
    /\ enrollment[h] = "PENDING"
    /\ enrollment' = [enrollment EXCEPT ![h] = "CONSUMED"]
    /\ owner' = h
    /\ issued' = [version |-> 1, status |-> "ACTIVE"]
    /\ record' = [record EXCEPT ![h] = call[c].process]
    /\ Answer(c, "TOKEN")
    /\ UNCHANGED <<clerks, agent, file>>

\* The key is new, and the request the first to consume the enrollment.  The unique key on
\* (project, runner_code) holds whatever the snapshot says.
RegisterRunner(c) ==
  LET h == call[c].host IN
    /\ call[c].state = "READING"
    /\ record[h] = "none"
    /\ enrollment[h] = "PENDING"
    /\ owner = "nobody"
    /\ enrollment' = [enrollment EXCEPT ![h] = "CONSUMED"]
    /\ owner' = h
    /\ issued' = [version |-> 1, status |-> "ACTIVE"]
    /\ record' = [record EXCEPT ![h] = call[c].process]
    /\ Answer(c, "TOKEN")
    /\ UNCHANGED <<clerks, agent, file>>

\* _replayed_registration: the key has a record of the same request; in the snapshot the
\* enrollment is consumed and the token is the one that was issued.
Replayable(c) == record[call[c].host] = call[c].process /\ call[c].seen = 1

ReplayRegistration(c) ==
  /\ call[c].state = "READING"
  /\ Replayable(c)
  /\ Answer(c, "TOKEN")
  /\ UNCHANGED <<clerks, enrollment, owner, issued, record, agent, file>>

\* Anything else is refused, and leaves no record.
RefuseRegistration(c) ==
  LET h == call[c].host IN
    /\ call[c].state = "READING"
    /\ IF record[h] = "none" THEN enrollment[h] # "PENDING" \/ owner # "nobody" ELSE ~Replayable(c)
    /\ Answer(c, "REFUSED")
    /\ UNCHANGED <<clerks, enrollment, owner, issued, record, agent, file>>

\* The record's day is over.
RecordExpires(h) ==
  /\ record[h] # "none"
  /\ record' = [record EXCEPT ![h] = "none"]
  /\ UNCHANGED <<clerks, enrollment, owner, issued, agent, file, call>>

-----------------------------------------------------------------------------
(* The token *)

\* rotate_token, also of a revoked one.
RotateAgentToken ==
  /\ issued.version \in 1..(MaxVersion - 1)
  /\ issued' = [version |-> issued.version + 1, status |-> "ACTIVE"]
  /\ UNCHANGED <<clerks, enrollment, owner, record, agent, file, call>>

\* revoke_token
RevokeAgentToken ==
  /\ issued.status = "ACTIVE"
  /\ issued' = [issued EXCEPT !.status = "REVOKED"]
  /\ UNCHANGED <<clerks, enrollment, owner, record, agent, file, call>>

\* --install-token with a token that a rotation showed to somebody.
InstallToken(h, v) ==
  /\ v \in 2..issued.version
  /\ file[h] < v
  /\ file' = [file EXCEPT ![h] = v]
  /\ UNCHANGED <<clerks, enrollment, owner, issued, record, agent, call>>

RegistrationNext ==
  \/ BeginEnrollment
  \/ \E h \in Host : CreateEnrollment(h)
  \/ EnrollmentRefused
  \/ \E h \in Host, p \in Process : StartAgent(h, p)
  \/ \E h \in Host, c \in Call : SendRegistration(h, c)
  \/ \E c \in Call : TimeOut(c)
  \/ \E c \in Call : Vanish(c)
  \/ \E c \in Call : Registered(c)
  \/ \E c \in Call : RegistrationFails(c)
  \/ \E h \in Host : ProcessEnds(h)
  \/ \E c \in Call : BeginRegistration(c)
  \/ \E c \in Call : RegisterRunner(c)
  \/ \E c \in Call : ReplayRegistration(c)
  \/ \E c \in Call : RefuseRegistration(c)
  \/ \E h \in Host : RecordExpires(h)
  \/ RotateAgentToken
  \/ RevokeAgentToken
  \/ \E h \in Host, v \in Version : InstallToken(h, v)

RegistrationSpec == RegistrationInit /\ [][RegistrationNext]_registrationVars
-----------------------------------------------------------------------------
(* Properties *)

\* However many enrollments of the code two clerks created at the same time: one host becomes
\* its Runner, and its enrollment is the one that is consumed.  What an Agent has in its file,
\* or runs with, is a version of the token that was issued; the first one is only on the host
\* that registered, and only that host can be told it again.
TokensOfTheRunner ==
  /\ \A h \in Host : enrollment[h] = "CONSUMED" <=> owner = h
  /\ \A h \in Host : \A v \in {file[h], agent[h].version} :
       v <= issued.version /\ (v = 1 => owner = h)
  /\ \A c \in Call : call[c].state = "TOKEN" => owner = call[c].host

\* Refuted, see the README: the same process may repeat its registration until it has the
\* token: nothing but another token, another process or a day gone by makes the API refuse it.
RetryReproducesToken ==
  \A c \in Call : LET h == call[c].host IN
    call[c].state = "REFUSED" /\ call[c].awaited /\ owner = h /\ record[h] = call[c].process =>
      issued.version # 1
=============================================================================
