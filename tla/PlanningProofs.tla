---------------------------- MODULE PlanningProofs ----------------------------
(* What Planning guarantees for any number of requests and bodies, any ring and any times. *)
EXTENDS Planning, TLAPS

-----------------------------------------------------------------------------
(* The inductive invariant *)

\* One key is active, and a key that was not yet in use has claimed nothing.
Ring ==
  /\ \A j, k \in RingKey : Active(j) /\ Active(k) => j = k
  /\ \A k \in RingKey : key[k].status = "STAGED" => session[k].status = "NONE"

\* A request waits for a session of its own body, created under the key that is active, and
\* is alone in that.
Waiting ==
  /\ \A q \in Request : request[q].busy =>
       /\ Active(request[q].session)
       /\ session[request[q].session].status # "NONE"
       /\ session[request[q].session].payload = request[q].payload
  /\ \A q, r \in Request :
       request[q].busy /\ request[r].busy /\ request[q].session = request[r].session => q = r

\* What is counted for a session is the call of the request that created it.
Counted ==
  \A k \in RingKey : calls[k] = IF session[k].status = "NONE" THEN 0 ELSE 1

\* Nobody is told of a session before it has its outcome.
ToldOutcome ==
  \A k \in RingKey : \A a \in told[k] :
    /\ session[k].status \in Outcome
    /\ a = [payload |-> session[k].payload, outcome |-> session[k].status]

\* The session of the active key was created when no other candidate was found, and none can
\* come back to life: this is what makes OneFound inductive, where a late completion gives an
\* expired record another day.
NoRival ==
  \A j, k \in RingKey :
    Active(k) /\ session[k].status # "NONE" /\ Accepted(j) /\ Live(j) => j = k

Inv ==
  /\ TypeOK
  /\ RecordTellsOutcome
  /\ Ring
  /\ Waiting
  /\ Counted
  /\ ToldOutcome
  /\ NoRival
  /\ OneFound

LEMMA InitInv == Init => Inv
<1> SUFFICES ASSUME Init PROVE Inv
  OBVIOUS
<1> USE PlanningAssumption DEF Init
<1>1. TypeOK
  BY DEF TypeOK, Key, Record, SessionRow, Pending, Body
<1>2. \A k \in RingKey : /\ session[k].status = "NONE" /\ session[k].payload = NoPayload
                         /\ record[k].status = "NONE" /\ record[k].payload = NoPayload
                         /\ ~Live(k)
  BY DEF Live
<1>3. RecordTellsOutcome
  BY <1>2 DEF RecordTellsOutcome
<1>4. Ring
  BY <1>2 DEF Ring, Active
<1>5. Waiting /\ Counted /\ ToldOutcome
  BY DEF Waiting, Counted, ToldOutcome
<1>6. NoRival /\ OneFound
  BY <1>2 DEF NoRival, OneFound
<1>. QED
  BY <1>1, <1>3, <1>4, <1>5, <1>6 DEF Inv

-----------------------------------------------------------------------------
(* What the steps do to the rows *)

\* A settled session and its record take the outcome; nothing else of them changes, except
\* that the record lives on.
LEMMA SettleEffect ==
  ASSUME TypeOK, NEW k \in RingKey, NEW outcome \in Outcome, Settle(k, outcome)
  PROVE /\ record' \in [RingKey -> Record] /\ session' \in [RingKey -> SessionRow]
        /\ session'[k].status = outcome /\ session'[k].payload = session[k].payload
        /\ record'[k].status = outcome /\ record'[k].payload = record[k].payload
        /\ \A j \in RingKey \ {k} : session'[j] = session[j] /\ record'[j] = record[j]
<1>1. record[k] \in Record /\ session[k] \in SessionRow
  BY DEF TypeOK
<1>2. [record[k] EXCEPT !.status = outcome, !.ttl = Retention] \in Record
  BY <1>1, PlanningAssumption DEF Record, Outcome
<1>3. [session[k] EXCEPT !.status = outcome] \in SessionRow
  BY <1>1 DEF SessionRow, Outcome
<1>4. /\ record' = [record EXCEPT ![k] = [record[k] EXCEPT !.status = outcome, !.ttl = Retention]]
      /\ session' = [session EXCEPT ![k] = [session[k] EXCEPT !.status = outcome]]
  BY DEF Settle
<1>5. record' \in [RingKey -> Record] /\ session' \in [RingKey -> SessionRow]
  BY <1>2, <1>3, <1>4 DEF TypeOK
<1>6. /\ record'[k] = [record[k] EXCEPT !.status = outcome, !.ttl = Retention]
      /\ session'[k] = [session[k] EXCEPT !.status = outcome]
      /\ \A j \in RingKey \ {k} : session'[j] = session[j] /\ record'[j] = record[j]
  BY <1>4 DEF TypeOK
<1>. QED
  BY <1>1, <1>5, <1>6 DEF Record, SessionRow

\* An answer is added to what is told of its session.
LEMMA TellEffect ==
  ASSUME TypeOK, NEW k \in RingKey, NEW p \in Body, NEW outcome \in Outcome,
         Tell(k, p, outcome)
  PROVE /\ told' \in [RingKey -> SUBSET Answer]
        /\ told'[k] = told[k] \cup {[payload |-> p, outcome |-> outcome]}
        /\ \A j \in RingKey \ {k} : told'[j] = told[j]
BY DEF TypeOK, Tell, Answer

\* A request that has been answered, or has died, is not busy; the others are as they were.
LEMMA RequestFreed ==
  ASSUME TypeOK, NEW q \in Request, request' = [request EXCEPT ![q].busy = FALSE]
  PROVE /\ request' \in [Request -> Pending]
        /\ ~request'[q].busy
        /\ \A r \in Request \ {q} : request'[r] = request[r]
BY DEF TypeOK, Pending

\* No request becomes busy.
NoneStarts ==
  /\ request' \in [Request -> Pending]
  /\ \A q \in Request : request'[q].busy => request'[q] = request[q]

\* Waiting survives when no request starts, no ring key retires and the sessions that are
\* there keep their bodies.
LEMMA WaitingKept ==
  ASSUME TypeOK, Waiting, NoneStarts, UNCHANGED key,
         \A k \in RingKey : /\ session'[k].payload = session[k].payload
                            /\ session[k].status # "NONE" => session'[k].status # "NONE"
  PROVE Waiting'
<1>1. \A q \in Request : request'[q].busy => request'[q] = request[q]
  BY DEF NoneStarts
<1>2. \A q \in Request : request[q].session \in RingKey
  BY DEF TypeOK, Pending
<1>3. ASSUME NEW q \in Request, request'[q].busy
      PROVE /\ key'[request'[q].session].status = "ACTIVE"
            /\ session'[request'[q].session].status # "NONE"
            /\ session'[request'[q].session].payload = request'[q].payload
  BY <1>1, <1>2, <1>3 DEF Waiting, Active
<1>4. \A q, r \in Request :
        request'[q].busy /\ request'[r].busy /\ request'[q].session = request'[r].session => q = r
  BY <1>1 DEF Waiting
<1>. QED
  BY <1>3, <1>4 DEF Waiting, Active

\* Recovery, and a conclusion that comes first, keep the invariant.
LEMMA SettleInv ==
  ASSUME Inv, NEW k \in RingKey, NEW outcome \in Outcome,
         session[k].status = "PLANNING", Active(k) \/ Found(k),
         Settle(k, outcome), Tell(k, session[k].payload, outcome),
         UNCHANGED <<key, calls>>, NoneStarts
  PROVE Inv'
<1>1. TypeOK /\ session[k].payload \in Body
  BY DEF Inv, TypeOK, SessionRow
<1>2. /\ record' \in [RingKey -> Record] /\ session' \in [RingKey -> SessionRow]
      /\ session'[k].status = outcome /\ session'[k].payload = session[k].payload
      /\ record'[k].status = outcome /\ record'[k].payload = record[k].payload
      /\ \A j \in RingKey \ {k} : session'[j] = session[j] /\ record'[j] = record[j]
  BY <1>1, SettleEffect
<1>3. /\ told' \in [RingKey -> SUBSET Answer]
      /\ told'[k] = told[k] \cup {[payload |-> session[k].payload, outcome |-> outcome]}
      /\ \A j \in RingKey \ {k} : told'[j] = told[j]
  BY <1>1, TellEffect
<1>4. outcome # "NONE" /\ outcome # "PLANNING" /\ "PLANNING" \notin Outcome
  BY DEF Outcome
<1>5. TypeOK'
  BY <1>1, <1>2, <1>3 DEF TypeOK, NoneStarts
<1>6. RecordTellsOutcome'
  BY <1>2, <1>4 DEF Inv, RecordTellsOutcome
<1>7. \A j \in RingKey : session'[j].status = "NONE" <=> session[j].status = "NONE"
  BY <1>2, <1>4
<1>8. Ring'
  BY <1>7 DEF Inv, Ring, Active
<1>9. Waiting'
  <2>1. \A j \in RingKey : session'[j].payload = session[j].payload
    BY <1>2
  <2>. QED
    BY <1>1, <1>7, <2>1, WaitingKept DEF Inv
<1>10. Counted'
  BY <1>7 DEF Inv, Counted
<1>11. ToldOutcome'
  <2>1. told[k] = {}
    BY <1>1, <1>4 DEF Inv, ToldOutcome, TypeOK
  <2>. QED
    BY <1>2, <1>3, <2>1 DEF Inv, ToldOutcome
<1>12. \A j \in RingKey : /\ Active(j)' <=> Active(j)
                          /\ Accepted(j)' <=> Accepted(j)
                          /\ j # k => (Live(j)' <=> Live(j))
  BY <1>2 DEF Active, Accepted, Live
<1>13. ASSUME NEW j \in RingKey, j # k PROVE ~(Accepted(j)' /\ Live(j)')
  <2>1. ~(Accepted(j) /\ Live(j))
    BY <1>13 DEF Inv, NoRival, OneFound, Found
  <2>. QED
    BY <1>12, <1>13, <2>1
<1>14. OneFound'
  BY <1>13 DEF OneFound
<1>15. NoRival'
  <2> SUFFICES ASSUME NEW i \in RingKey, NEW j \in RingKey, Active(j)',
                      session'[j].status # "NONE", Accepted(i)', Live(i)'
               PROVE i = j
    BY DEF NoRival
  <2>1. i = k
    BY <1>13
  <2>2. CASE Active(k)
    BY <1>12, <2>1, <2>2 DEF Inv, Ring
  <2>3. CASE Found(k)
    BY <1>7, <1>12, <2>1, <2>3 DEF Inv, NoRival, Found
  <2>. QED
    BY <2>2, <2>3
<1>. QED
  BY <1>5, <1>6, <1>8, <1>9, <1>10, <1>11, <1>14, <1>15 DEF Inv

\* An answer from a completed record keeps the invariant.
LEMMA AnswerInv ==
  ASSUME Inv, NEW k \in RingKey, record[k].status \in Outcome,
         Tell(k, session[k].payload, record[k].status),
         UNCHANGED <<key, record, session, calls>>, NoneStarts
  PROVE Inv'
<1>1. TypeOK /\ session[k].payload \in Body
  BY DEF Inv, TypeOK, SessionRow
<1>2. /\ told' \in [RingKey -> SUBSET Answer]
      /\ told'[k] = told[k] \cup {[payload |-> session[k].payload, outcome |-> record[k].status]}
      /\ \A j \in RingKey \ {k} : told'[j] = told[j]
  BY <1>1, TellEffect
<1>3. record[k].status = session[k].status
  BY DEF Inv, RecordTellsOutcome, Outcome
<1>4. TypeOK'
  BY <1>1, <1>2 DEF TypeOK, NoneStarts
<1>5. Waiting'
  BY <1>1, WaitingKept DEF Inv
<1>6. ToldOutcome'
  BY <1>2, <1>3 DEF Inv, ToldOutcome
<1>7. RecordTellsOutcome' /\ Ring' /\ Counted'
  BY DEF Inv, RecordTellsOutcome, Ring, Counted, Active
<1>8. NoRival' /\ OneFound'
  BY DEF Inv, NoRival, OneFound, Active, Accepted, Live
<1>. QED
  BY <1>4, <1>5, <1>6, <1>7, <1>8 DEF Inv

-----------------------------------------------------------------------------
(* Each step keeps the invariant *)

LEMMA CreateInv ==
  ASSUME Inv, NEW q \in Request, NEW k \in RingKey, NEW p \in Payload, Create(q, k, p)
  PROVE Inv'
<1>1. TypeOK /\ ~request[q].busy /\ Active(k)
  BY DEF Inv, Create
<1>2. /\ session[k].status = "NONE"
      /\ \A j \in RingKey : ~Found(j)
  BY DEF Create, Unclaimed
<1>3. /\ record' \in [RingKey -> Record]
      /\ record'[k].status = "OPEN" /\ record'[k].payload = p
      /\ \A j \in RingKey \ {k} : record'[j] = record[j]
  <2>1. [status |-> "OPEN", payload |-> p, ttl |-> Retention] \in Record
    BY PlanningAssumption DEF Record, Body
  <2>. QED
    BY <1>1, <2>1 DEF Create, TypeOK
<1>4. /\ session' \in [RingKey -> SessionRow]
      /\ session'[k].status = "PLANNING" /\ session'[k].payload = p
      /\ \A j \in RingKey \ {k} : session'[j] = session[j]
  <2>1. [status |-> "PLANNING", payload |-> p, overdue |-> FALSE] \in SessionRow
    BY DEF SessionRow, Body
  <2>. QED
    BY <1>1, <2>1 DEF Create, TypeOK
<1>5. /\ request' \in [Request -> Pending]
      /\ request'[q].busy /\ request'[q].session = k /\ request'[q].payload = p
      /\ \A r \in Request \ {q} : request'[r] = request[r]
  <2>1. [busy |-> TRUE, session |-> k, payload |-> p] \in Pending
    BY DEF Pending, Body
  <2>. QED
    BY <1>1, <2>1 DEF Create, TypeOK
<1>6. /\ calls' = [calls EXCEPT ![k] = calls[k] + 1]
      /\ UNCHANGED <<key, told>>
  BY DEF Create
<1>7. TypeOK'
  BY <1>1, <1>3, <1>4, <1>5, <1>6 DEF TypeOK
<1>8. RecordTellsOutcome'
  BY <1>3, <1>4 DEF Inv, RecordTellsOutcome
<1>9. Ring'
  BY <1>1, <1>4, <1>6 DEF Inv, Ring, Active
<1>10. Waiting'
  <2>1. \A r \in Request : /\ request[r].session \in RingKey
                           /\ request[r].busy => request[r].session # k
    BY <1>1, <1>2 DEF Inv, Waiting, TypeOK, Pending
  <2>2. ASSUME NEW r \in Request, request'[r].busy
        PROVE /\ key'[request'[r].session].status = "ACTIVE"
              /\ session'[request'[r].session].status # "NONE"
              /\ session'[request'[r].session].payload = request'[r].payload
    <3>1. CASE r = q
      BY <1>1, <1>4, <1>5, <1>6, <3>1 DEF Active
    <3>2. CASE r # q
      <4>1. request'[r] = request[r] /\ request[r].session \in RingKey \ {k}
        BY <1>5, <2>1, <2>2, <3>2
      <4>. QED
        BY <1>4, <1>6, <2>2, <4>1 DEF Inv, Waiting, Active
    <3>. QED
      BY <3>1, <3>2
  <2>3. ASSUME NEW r \in Request, NEW s \in Request, request'[r].busy, request'[s].busy,
               request'[r].session = request'[s].session
        PROVE r = s
    BY <1>5, <2>1, <2>3 DEF Inv, Waiting
  <2>. QED
    BY <2>2, <2>3 DEF Waiting, Active
<1>11. Counted'
  BY <1>1, <1>2, <1>4, <1>6 DEF Inv, Counted, TypeOK
<1>12. ToldOutcome'
  <2>1. told[k] = {}
    BY <1>1, <1>2 DEF Inv, ToldOutcome, Outcome, TypeOK
  <2>. QED
    BY <1>4, <1>6, <2>1 DEF Inv, ToldOutcome
<1>13. ASSUME NEW j \in RingKey, Accepted(j)', Live(j)' PROVE j = k
  BY <1>2, <1>3, <1>6, <1>13 DEF Accepted, Active, Live, Found
<1>14. NoRival'
  BY <1>1, <1>6, <1>13 DEF NoRival, Inv, Ring, Active
<1>15. OneFound'
  BY <1>13 DEF OneFound
<1>. QED
  BY <1>7, <1>8, <1>9, <1>10, <1>11, <1>12, <1>14, <1>15 DEF Inv

LEMMA ReplayInv ==
  ASSUME Inv, NEW k \in RingKey, NEW p \in Payload, Replay(k, p)
  PROVE Inv'
<1>1. p = session[k].payload
  BY DEF Inv, RecordTellsOutcome, Replay, Matches
<1>2. NoneStarts
  BY DEF Inv, TypeOK, Replay, NoneStarts
<1>. QED
  BY <1>1, <1>2, AnswerInv DEF Replay

LEMMA RecoverInv ==
  ASSUME Inv, NEW k \in RingKey, NEW p \in Payload, Recover(k, p)
  PROVE Inv'
<1>1. p = session[k].payload
  BY DEF Inv, RecordTellsOutcome, Recover, Matches
<1>2. NoneStarts
  BY DEF Inv, TypeOK, Recover, NoneStarts
<1>3. "FAILED" \in Outcome
  BY DEF Outcome
<1>. QED
  BY <1>1, <1>2, <1>3, SettleInv DEF Recover, Recoverable

LEMMA ConcludeInv ==
  ASSUME Inv, NEW q \in Request, NEW outcome \in Outcome, Conclude(q, outcome)
  PROVE Inv'
<1> DEFINE k == request[q].session
<1>1. TypeOK /\ k \in RingKey /\ request[q].busy
  BY DEF Inv, TypeOK, Pending, Conclude
<1>2. Active(k) /\ session[k].status # "NONE" /\ session[k].payload = request[q].payload
  BY <1>1 DEF Inv, Waiting
<1>3. NoneStarts
  <2>1. request' = [request EXCEPT ![q].busy = FALSE]
    BY DEF Conclude
  <2>. QED
    BY <1>1, <2>1, RequestFreed DEF NoneStarts
<1>4. CASE Settled(k)
  BY <1>1, <1>2, <1>3, <1>4, AnswerInv DEF Conclude, Settled
<1>5. CASE ~Settled(k)
  <2>1. /\ session[k].status = "PLANNING"
        /\ Settle(k, outcome) /\ Tell(k, session[k].payload, outcome)
        /\ UNCHANGED <<key, calls>>
    BY <1>2, <1>5 DEF Conclude
  <2>. QED
    BY <1>1, <1>2, <1>3, <2>1, SettleInv
<1>. QED
  BY <1>4, <1>5

LEMMA RequestDiesInv ==
  ASSUME Inv, NEW q \in Request, RequestDies(q)
  PROVE Inv'
<1>1. UNCHANGED <<key, record, session, calls, told>> /\ TypeOK
  BY DEF Inv, RequestDies
<1>2. NoneStarts
  BY <1>1, RequestFreed DEF RequestDies, NoneStarts
<1>3. TypeOK'
  BY <1>1, <1>2 DEF TypeOK, NoneStarts
<1>4. Waiting'
  BY <1>1, <1>2, WaitingKept DEF Inv
<1>5. RecordTellsOutcome' /\ Ring' /\ Counted' /\ ToldOutcome'
  BY <1>1 DEF Inv, RecordTellsOutcome, Ring, Counted, ToldOutcome, Active
<1>6. NoRival' /\ OneFound'
  BY <1>1 DEF Inv, NoRival, OneFound, Active, Accepted, Live
<1>. QED
  BY <1>3, <1>4, <1>5, <1>6 DEF Inv

LEMMA DeadlinePassesInv ==
  ASSUME Inv, NEW k \in RingKey, DeadlinePasses(k)
  PROVE Inv'
<1>1. UNCHANGED <<key, record, request, calls, told>> /\ TypeOK
  BY DEF Inv, DeadlinePasses
<1>2. session[k] \in SessionRow /\ [session[k] EXCEPT !.overdue = TRUE] \in SessionRow
  BY <1>1 DEF TypeOK, SessionRow
<1>3. session' = [session EXCEPT ![k] = [session[k] EXCEPT !.overdue = TRUE]]
  BY DEF DeadlinePasses
<1>4. session' \in [RingKey -> SessionRow]
  BY <1>1, <1>2, <1>3 DEF TypeOK
<1>5. \A j \in RingKey : /\ session'[j].status = session[j].status
                         /\ session'[j].payload = session[j].payload
  BY <1>1, <1>2, <1>3 DEF TypeOK, SessionRow
<1>6. NoneStarts
  BY <1>1 DEF TypeOK, NoneStarts
<1>7. TypeOK'
  BY <1>1, <1>4 DEF TypeOK
<1>8. Waiting'
  BY <1>1, <1>5, <1>6, WaitingKept DEF Inv
<1>9. RecordTellsOutcome' /\ Ring' /\ Counted' /\ ToldOutcome'
  BY <1>1, <1>5 DEF Inv, RecordTellsOutcome, Ring, Counted, ToldOutcome, Active
<1>10. NoRival' /\ OneFound'
  BY <1>1, <1>5 DEF Inv, NoRival, OneFound, Active, Accepted, Live
<1>. QED
  BY <1>7, <1>8, <1>9, <1>10 DEF Inv

\* Time lets records expire and retired keys be forgotten, and that is all it does.
LEMMA TickInv ==
  ASSUME Inv, Tick
  PROVE Inv'
<1>1. UNCHANGED <<session, request, calls, told>> /\ TypeOK
  BY DEF Inv, Tick
<1>2. \A n \in Nat : Less(n) \in Nat /\ (Less(n) > 0 => n > 0)
  BY DEF Less
<1>3. /\ record' \in [RingKey -> Record]
      /\ \A k \in RingKey : /\ record'[k].status = record[k].status
                            /\ record'[k].payload = record[k].payload
                            /\ record'[k].ttl > 0 => record[k].ttl > 0
  <2>1. ASSUME NEW k \in RingKey
        PROVE /\ [record[k] EXCEPT !.ttl = Less(record[k].ttl)] \in Record
              /\ [record[k] EXCEPT !.ttl = Less(record[k].ttl)].status = record[k].status
              /\ [record[k] EXCEPT !.ttl = Less(record[k].ttl)].payload = record[k].payload
              /\ [record[k] EXCEPT !.ttl = Less(record[k].ttl)].ttl = Less(record[k].ttl)
              /\ record[k].ttl \in Nat
    BY <1>1, <1>2 DEF TypeOK, Record
  <2>2. record' = [k \in RingKey |-> [record[k] EXCEPT !.ttl = Less(record[k].ttl)]]
    BY DEF Tick
  <2>. QED
    BY <1>2, <2>1, <2>2
<1>4. /\ key' \in [RingKey -> Key]
      /\ \A k \in RingKey : /\ key'[k].status = key[k].status
                            /\ key'[k].ttl > 0 => key[k].ttl > 0
  <2>1. ASSUME NEW k \in RingKey
        PROVE /\ [key[k] EXCEPT !.ttl = Less(key[k].ttl)] \in Key
              /\ [key[k] EXCEPT !.ttl = Less(key[k].ttl)].status = key[k].status
              /\ [key[k] EXCEPT !.ttl = Less(key[k].ttl)].ttl = Less(key[k].ttl)
              /\ key[k].ttl \in Nat
    BY <1>1, <1>2 DEF TypeOK, Key
  <2>2. key' = [k \in RingKey |-> [key[k] EXCEPT !.ttl = Less(key[k].ttl)]]
    BY DEF Tick
  <2>. QED
    BY <1>2, <2>1, <2>2
<1>5. TypeOK'
  BY <1>1, <1>3, <1>4 DEF TypeOK
<1>6. RecordTellsOutcome' /\ Counted' /\ ToldOutcome'
  BY <1>1, <1>3 DEF Inv, RecordTellsOutcome, Counted, ToldOutcome
<1>7. Ring'
  BY <1>1, <1>4 DEF Inv, Ring, Active
<1>8. Waiting'
  <2>1. \A q \in Request : request[q].session \in RingKey
    BY <1>1 DEF TypeOK, Pending
  <2>. QED
    BY <1>1, <1>4, <2>1 DEF Inv, Waiting, Active
<1>9. \A k \in RingKey : /\ Active(k)' <=> Active(k)
                         /\ Accepted(k)' => Accepted(k)
                         /\ Live(k)' => Live(k)
  BY <1>3, <1>4 DEF Active, Accepted, Live
<1>10. NoRival' /\ OneFound'
  BY <1>1, <1>9 DEF Inv, NoRival, OneFound
<1>. QED
  BY <1>5, <1>6, <1>7, <1>8, <1>10 DEF Inv

\* A rotation comes with a restart, so no request waits under a key that is retired.
LEMMA RotateInv ==
  ASSUME Inv, NEW k \in RingKey, Rotate(k)
  PROVE Inv'
<1>1. UNCHANGED <<record, session, calls, told>> /\ TypeOK
  BY DEF Inv, Rotate
<1>2. session[k].status = "NONE" /\ record[k].status = "NONE"
  BY DEF Inv, Ring, RecordTellsOutcome, Rotate
<1>3. /\ key' \in [RingKey -> Key]
      /\ key'[k].status = "ACTIVE"
      /\ \A j \in RingKey \ {k} :
           \/ Active(j) /\ key'[j].status = "PREVIOUS"
           \/ ~Active(j) /\ key'[j] = key[j]
  <2>1. [status |-> "ACTIVE", ttl |-> 0] \in Key /\ [status |-> "PREVIOUS", ttl |-> Overlap] \in Key
    BY PlanningAssumption DEF Key
  <2>. QED
    BY <1>1, <2>1 DEF Rotate, TypeOK
<1>4. request' \in [Request -> Pending] /\ \A q \in Request : ~request'[q].busy
  BY <1>1 DEF Rotate, TypeOK, Pending
<1>5. TypeOK'
  BY <1>1, <1>3, <1>4 DEF TypeOK
<1>6. RecordTellsOutcome' /\ Counted' /\ ToldOutcome'
  BY <1>1 DEF Inv, RecordTellsOutcome, Counted, ToldOutcome
<1>7. \A j \in RingKey : Active(j)' => j = k
  BY <1>3 DEF Active
<1>8. Ring'
  BY <1>1, <1>3, <1>7 DEF Inv, Ring
<1>9. Waiting'
  BY <1>4 DEF Waiting
<1>10. NoRival'
  BY <1>1, <1>2, <1>7 DEF NoRival
<1>11. \A j \in RingKey : Accepted(j)' /\ Live(j)' => Accepted(j) /\ Live(j)
  BY <1>1, <1>2, <1>3 DEF Accepted, Active, Live
<1>12. OneFound'
  BY <1>11 DEF Inv, OneFound
<1>. QED
  BY <1>5, <1>6, <1>8, <1>9, <1>10, <1>12 DEF Inv

\* Whatever the gateway answers, planning ends in one of its two outcomes.
LEMMA AnswerHasOutcome ==
  ASSUME NEW result \in GatewayResult, NEW isPlan \in BOOLEAN
  PROVE  PlanningOutcome(result, isPlan) \in Outcome
BY DEF PlanningOutcome, Outcome

LEMMA StepInv == Inv /\ [Next]_vars => Inv'
<1> SUFFICES ASSUME Inv, [Next]_vars PROVE Inv'
  OBVIOUS
<1>1. CASE UNCHANGED vars
  BY <1>1 DEF vars, Inv, TypeOK, RecordTellsOutcome, Ring, Waiting, Counted, ToldOutcome,
              NoRival, OneFound, Active, Accepted, Live
<1>2. CASE Next
  BY <1>2, CreateInv, ReplayInv, RecoverInv, ConcludeInv, AnswerHasOutcome, RequestDiesInv, DeadlinePassesInv,
     TickInv, RotateInv DEF Next
<1>. QED
  BY <1>1, <1>2

LEMMA SpecInv == Spec => []Inv
BY InitInv, StepInv, PTL DEF Spec

-----------------------------------------------------------------------------
(* The theorems *)

\* The rows of planning keep their types: in particular the life of a record never runs
\* below nothing, and nobody is told an outcome that is none.
THEOREM PlanningTypeCorrect == Spec => []TypeOK
<1>1. Inv => TypeOK
  BY DEF Inv
<1>. QED
  BY <1>1, SpecInv, PTL

\* idempotency.py and create keep a session and its record in step, whoever ends the planning:
\* the record is OPEN exactly while the session plans and has its outcome afterwards.
THEOREM RecordsTellTheOutcome == Spec => []RecordTellsOutcome
<1>1. Inv => RecordTellsOutcome
  BY DEF Inv
<1>. QED
  BY <1>1, SpecInv, PTL

\* Creators, repetitions and late callers are given one answer for one session, that of its
\* row, however recovery, late answers, expiry and rotations interleave.
THEOREM AnswersNeverDiffer == Spec => []AnswersAgree
<1>1. Inv => AnswersAgree
  BY DEF Inv, ToldOutcome, AnswersAgree
<1>. QED
  BY <1>1, SpecInv, PTL

\* The model is asked once for a session and one request waits for its answer: neither a
\* repetition, nor a recovery, nor an expired record that is taken again asks it anew.
THEOREM OneCallPerSession == Spec => []OneProviderCall
<1>1. Inv => OneProviderCall
  BY DEF Inv, Counted, Waiting, OneProviderCall
<1>. QED
  BY <1>1, SpecInv, PTL

\* claim finds at most one live record among its candidates, for every length of a record's
\* life and of the overlap of ring keys.
THEOREM CandidatesNeverCompete == Spec => []OneFound
<1>1. Inv => OneFound
  BY DEF Inv
<1>. QED
  BY <1>1, SpecInv, PTL

-----------------------------------------------------------------------------
(* An outcome is final *)

\* Where a session is settled, it was planning.
LEMMA SettleIsFinal ==
  ASSUME Inv, NEW k \in RingKey, NEW outcome \in Outcome, Settle(k, outcome),
         session[k].status = "PLANNING", NEW j \in RingKey, session[j].status \in Outcome
  PROVE session'[j] = session[j] /\ record'[j].status = record[j].status
<1>1. j # k
  BY DEF Outcome
<1>. QED
  BY <1>1, SettleEffect DEF Inv

LEMMA FinalStep ==
  ASSUME Inv, [Next]_vars, NEW j \in RingKey, session[j].status \in Outcome
  PROVE session'[j] = session[j] /\ record'[j].status = record[j].status
<1> USE DEF Outcome
<1>1. TypeOK
  BY DEF Inv
<1>2. ASSUME NEW q \in Request, NEW k \in RingKey, NEW p \in Payload, Create(q, k, p)
      PROVE session'[j] = session[j] /\ record'[j].status = record[j].status
  <2>1. j # k
    BY <1>2 DEF Create, Unclaimed
  <2>. QED
    BY <1>1, <1>2, <2>1 DEF Create, TypeOK
<1>3. ASSUME NEW k \in RingKey, NEW p \in Payload, Recover(k, p)
      PROVE session'[j] = session[j] /\ record'[j].status = record[j].status
  BY <1>3, SettleIsFinal DEF Recover, Recoverable
<1>4. ASSUME NEW q \in Request, NEW outcome \in Outcome, Conclude(q, outcome)
      PROVE session'[j] = session[j] /\ record'[j].status = record[j].status
  <2> DEFINE k == request[q].session
  <2>1. k \in RingKey
    BY <1>1 DEF TypeOK, Pending
  <2>2. CASE Settled(k)
    BY <1>4, <2>2 DEF Conclude
  <2>3. CASE ~Settled(k)
    BY <1>4, <2>1, <2>3, SettleIsFinal DEF Conclude
  <2>. QED
    BY <2>2, <2>3
<1>5. ASSUME NEW k \in RingKey, DeadlinePasses(k)
      PROVE session'[j] = session[j] /\ record'[j].status = record[j].status
  BY <1>1, <1>5 DEF DeadlinePasses, TypeOK
<1>6. CASE Tick
  BY <1>1, <1>6 DEF Tick, TypeOK, Record
<1>7. CASE UNCHANGED <<record, session>>
  BY <1>7
<1>. QED
  BY <1>2, <1>3, <1>4, <1>5, <1>6, <1>7, AnswerHasOutcome DEF Next, vars, Replay, RequestDies, Rotate

\* A planning that has ended stays as it ended: what the model answers after a recovery, or
\* a second recovery, changes neither the session nor what its record says.
THEOREM OutcomesAreFinal == Spec => OutcomeFinal
<1>1. Inv /\ [Next]_vars =>
        [\A k \in RingKey : session[k].status \in Outcome =>
           /\ session'[k] = session[k]
           /\ record'[k].status = record[k].status]_vars
  BY FinalStep
<1>. QED
  BY <1>1, SpecInv, PTL DEF Spec, OutcomeFinal
===============================================================================
