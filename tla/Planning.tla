------------------------------- MODULE Planning -------------------------------
(***************************************************************************)
(* create_ai_exploration_session: one Idempotency-Key of one principal,    *)
(* the record that claims it (idempotency.py), the planning session and    *)
(* its single call of the model (ai_exploration_service.py: create and     *)
(* what it calls), repetitions of the request, interrupted planning, and   *)
(* the rotation of the key ring the record's name is computed with         *)
(* (auth_hmac.py).                                                         *)
(*                                                                         *)
(* A record is stored under a digest of the key, so a key has a record for *)
(* each ring key it was claimed under, and a session at most one record    *)
(* and a record at most one session (uq_..._session_idempotency): both are *)
(* indexed by ring key.  A transaction locks the record first, and two     *)
(* first requests meet at its primary key, so each is one step.  A         *)
(* rejected request rolls back and is a step that is not taken.            *)
(*                                                                         *)
(* The processes of the API load the ring when they start, and a rotation  *)
(* is taken to restart them together.                                      *)
(***************************************************************************)
EXTENDS Naturals

CONSTANTS
  Request,      \* requests the API can be serving at a time
  Payload,      \* request bodies, as far as the fingerprint tells them apart
  NoPayload,    \* request_hash of a record that does not exist yet
  RingKey,      \* keys of the ring, now or later
  FirstKey,     \* the key that is active at the beginning
  Retention,    \* how long a record lives, in ticks of the model's clock
  Overlap       \* how long a retired key is accepted

ASSUME PlanningAssumption ==
  /\ FirstKey \in RingKey
  /\ NoPayload \notin Payload
  /\ Retention \in Nat \ {0}
  /\ Overlap \in Nat

VARIABLES
  key,          \* status of each ring key, and how long a previous one is accepted yet
  record,       \* IdempotencyRecord
  session,      \* AIExplorationSession, as far as planning goes
  request,      \* requests that wait for the model
  calls,        \* history: calls of the model made for each session
  told          \* history: what clients were answered of each session

vars == <<key, record, session, request, calls, told>>

Outcome == {"READY", "FAILED"}

\* What invoke of the gateway answers.  INVALID_RESPONSE: the provider's envelope is broken, too
\* long or empty.  ERROR: it was refused, timed out or could not be reached, or nothing is set up
\* to reach it with.
GatewayResult == {"SUCCESS", "INVALID_RESPONSE", "ERROR"}

Body == Payload \cup {NoPayload}

\* A digest is computed with the active key and with previous ones still accepted.
Key == [status : {"STAGED", "ACTIVE", "PREVIOUS"}, ttl : Nat]

\* OPEN: response_status and completed_at are null.  ttl: expires_at minus the clock.
Record == [status : {"NONE", "OPEN"} \cup Outcome, payload : Body, ttl : Nat]

\* overdue: planning_deadline_at has passed.
SessionRow == [status : {"NONE", "PLANNING"} \cup Outcome, payload : Body, overdue : BOOLEAN]

\* A request that waits for the model, and the session it does that for.
Pending == [busy : BOOLEAN, session : RingKey, payload : Body]

Answer == [payload : Body, outcome : Outcome]

TypeOK ==
  /\ key \in [RingKey -> Key]
  /\ record \in [RingKey -> Record]
  /\ session \in [RingKey -> SessionRow]
  /\ request \in [Request -> Pending]
  /\ calls \in [RingKey -> Nat]
  /\ told \in [RingKey -> SUBSET Answer]

Init ==
  /\ key = [k \in RingKey |->
              [status |-> IF k = FirstKey THEN "ACTIVE" ELSE "STAGED", ttl |-> 0]]
  /\ record = [k \in RingKey |-> [status |-> "NONE", payload |-> NoPayload, ttl |-> 0]]
  /\ session = [k \in RingKey |->
                  [status |-> "NONE", payload |-> NoPayload, overdue |-> FALSE]]
  /\ request = [q \in Request |->
                  [busy |-> FALSE, session |-> FirstKey, payload |-> NoPayload]]
  /\ calls = [k \in RingKey |-> 0]
  /\ told = [k \in RingKey |-> {}]

-----------------------------------------------------------------------------
(* The claim of a key *)

Active(k) == key[k].status = "ACTIVE"

\* hex_digests: the candidates a request looks for.  Rows of an older release, stored under
\* the key itself, are left out: _validate refuses them.
Accepted(k) == Active(k) \/ (key[k].status = "PREVIOUS" /\ key[k].ttl > 0)

Live(k) == record[k].status # "NONE" /\ record[k].ttl > 0

Found(k) == Accepted(k) /\ Live(k)

\* Mutated Matches: the fingerprint is not compared.
MatchesAny(k, p) == p \in Payload

\* _validate.  Principal and operation went into the digest.
Matches(k, p) == record[k].payload = p

\* The record of the active key is new, or has expired and is taken again; then the session
\* must be new as well, or its insertion fails and the transaction with it.
Unclaimed(k) == ~Live(k) /\ session[k].status = "NONE"

\* Mutated Settle: the record is left for a later request to complete.
SettleSession(k, outcome) ==
  /\ session' = [session EXCEPT ![k].status = outcome]
  /\ UNCHANGED record

\* The end of planning: session, task and call take the outcome, and the record the response,
\* with a day to live from now.
Settle(k, outcome) ==
  /\ session' = [session EXCEPT ![k].status = outcome]
  /\ record' = [record EXCEPT ![k].status = outcome, ![k].ttl = Retention]

Tell(k, p, outcome) ==
  told' = [told EXCEPT ![k] = told[k] \cup {[payload |-> p, outcome |-> outcome]}]

-----------------------------------------------------------------------------
(* create *)

\* _create_planning_session, the first time: the record stays OPEN until planning ends.
Create(q, k, p) ==
  /\ ~request[q].busy
  /\ Active(k)
  /\ \A other \in RingKey : ~Found(other)
  /\ Unclaimed(k)
  /\ record' = [record EXCEPT ![k] = [status |-> "OPEN", payload |-> p, ttl |-> Retention]]
  /\ session' = [session EXCEPT ![k] = [status |-> "PLANNING", payload |-> p, overdue |-> FALSE]]
  /\ request' = [request EXCEPT ![q] = [busy |-> TRUE, session |-> k, payload |-> p]]
  /\ calls' = [calls EXCEPT ![k] = calls[k] + 1]
  /\ UNCHANGED <<key, told>>

\* A repetition after the end is answered from the record.
Replay(k, p) ==
  /\ Found(k) /\ Matches(k, p)
  /\ record[k].status \in Outcome
  /\ Tell(k, p, record[k].status)
  /\ UNCHANGED <<key, record, session, request, calls>>

\* What _recover_interrupted needs to find.  A repetition before the deadline is refused.
Recoverable(k) ==
  /\ Found(k)
  /\ record[k].status = "OPEN"
  /\ session[k].status = "PLANNING" /\ session[k].overdue

\* _recover_interrupted, in the claim of a repetition: FAILED, without the model.
Recover(k, p) ==
  /\ Recoverable(k) /\ Matches(k, p)
  /\ Settle(k, "FAILED")
  /\ Tell(k, p, "FAILED")
  /\ UNCHANGED <<key, request, calls>>

\* _terminal_replay: somebody else has ended the planning.
Settled(k) == record[k].status \in Outcome

\* What create makes of the answer, whose content is a valid ExplorationPlan or not.
PlanningOutcome(result, isPlan) == IF result = "SUCCESS" /\ isPlan THEN "READY" ELSE "FAILED"

\* _ready and _fail.  A request whose planning has been ended meanwhile answers what was decided; one that
\* finds the record OPEN and the session not PLANNING raises (_require_planning).
Conclude(q, outcome) ==
  LET k == request[q].session IN
    /\ request[q].busy
    /\ IF Settled(k)
       THEN Tell(k, request[q].payload, record[k].status) /\ UNCHANGED <<record, session>>
       ELSE /\ session[k].status = "PLANNING"
            /\ Settle(k, outcome) /\ Tell(k, request[q].payload, outcome)
    /\ request' = [request EXCEPT ![q].busy = FALSE]
    /\ UNCHANGED <<key, calls>>

-----------------------------------------------------------------------------
(* Environment *)

\* The worker dies, or neither _ready nor _fail can commit.
RequestDies(q) ==
  /\ request[q].busy
  /\ request' = [request EXCEPT ![q].busy = FALSE]
  /\ UNCHANGED <<key, record, session, calls, told>>

DeadlinePasses(k) ==
  /\ session[k].status = "PLANNING" /\ ~session[k].overdue
  /\ session' = [session EXCEPT ![k].overdue = TRUE]
  /\ UNCHANGED <<key, record, request, calls, told>>

Less(n) == IF n > 0 THEN n - 1 ELSE 0

Tick ==
  /\ \E k \in RingKey : record[k].ttl > 0 \/ key[k].ttl > 0
  /\ record' = [k \in RingKey |-> [record[k] EXCEPT !.ttl = Less(record[k].ttl)]]
  /\ key' = [k \in RingKey |-> [key[k] EXCEPT !.ttl = Less(key[k].ttl)]]
  /\ UNCHANGED <<session, request, calls, told>>

\* The API is restarted with a ring whose active key is k: requests die with their processes.
Rotate(k) ==
  /\ key[k].status = "STAGED"
  /\ key' = [other \in RingKey |->
               IF other = k THEN [status |-> "ACTIVE", ttl |-> 0]
               ELSE IF Active(other) THEN [status |-> "PREVIOUS", ttl |-> Overlap]
               ELSE key[other]]
  /\ request' = [q \in Request |-> [request[q] EXCEPT !.busy = FALSE]]
  /\ UNCHANGED <<record, session, calls, told>>

Next ==
  \/ \E q \in Request, k \in RingKey, p \in Payload : Create(q, k, p)
  \/ \E k \in RingKey, p \in Payload : Replay(k, p)
  \/ \E k \in RingKey, p \in Payload : Recover(k, p)
  \/ \E q \in Request, result \in GatewayResult, isPlan \in BOOLEAN :
       Conclude(q, PlanningOutcome(result, isPlan))
  \/ \E q \in Request : RequestDies(q)
  \/ \E k \in RingKey : DeadlinePasses(k)
  \/ Tick
  \/ \E k \in RingKey : Rotate(k)

Spec == Init /\ [][Next]_vars

-----------------------------------------------------------------------------
(* Properties *)

\* Record and session tell one story, whoever ended the planning: a session plans exactly
\* while its record is OPEN, and a completed record holds the outcome its session has, under
\* the fingerprint the session was created from.
RecordTellsOutcome ==
  \A k \in RingKey :
    /\ record[k].status = IF session[k].status = "PLANNING" THEN "OPEN" ELSE session[k].status
    /\ record[k].payload = session[k].payload

\* Everybody who is answered of a session is answered the same, and what its row says: the
\* request that created it, repetitions, and the late caller whose planning was recovered.
\* Nobody is answered for a body he did not send.
AnswersAgree ==
  \A k \in RingKey : told[k] \subseteq
    {[payload |-> session[k].payload, outcome |-> session[k].status]}

\* The model is called once for a session, however often the request is repeated, recovered
\* or taken up after its record has expired; and only one request waits for its answer.
OneProviderCall ==
  /\ \A k \in RingKey : calls[k] <= 1
  /\ \A q, r \in Request :
       request[q].busy /\ request[r].busy /\ request[q].session = request[r].session => q = r

\* Candidates never compete: of the records stored under keys of the ring that are accepted,
\* one at most is alive, whichever way rotation, expiry and recovery went, so it does not
\* matter in which order claim looks at them.
OneFound ==
  \A j, k \in RingKey : Accepted(j) /\ Live(j) /\ Accepted(k) /\ Live(k) => j = k

\* recovery: a planning that was ended stays as it was ended, and the answer of the model
\* that comes later changes neither session nor response.
OutcomeFinal ==
  [][\A k \in RingKey : session[k].status \in Outcome =>
       /\ session'[k] = session[k]
       /\ record'[k].status = record[k].status]_vars

\* What the documentation says of the program and the code does not do: refuted, see the README.

\* recovery: a planning that was interrupted and is overdue is ended by the same request.
InterruptedIsRecoverable ==
  \A k \in RingKey :
    /\ session[k].status = "PLANNING" /\ session[k].overdue
    /\ \A q \in Request : ~(request[q].busy /\ request[q].session = k)
    => Recoverable(k)
===============================================================================
