---------------------------- MODULE IdentityProofs ----------------------------
(***************************************************************************)
(* Proofs about who is let in (RefreshSessions), who may do what           *)
(* (AccessControl) and what the tab of a browser shows of it (WebConsole). *)
(* Three specifications with variables of their own: each theorem is about *)
(* one of them.                                                            *)
(***************************************************************************)
EXTENDS RefreshSessions, AccessControl, WebConsole, FiniteSetTheorems, SequenceTheorems,
        WellFoundedInduction, TLAPS

-----------------------------------------------------------------------------
(* RefreshSessions: the inductive invariant *)

\* What a refresh has read is a session that was issued.
ReadsIssued ==
  \A q \in Request : refresh[q].status # "NONE" => refresh[q].session \in Issued

\* Every session has a founder, and has its version and its expiry.
Lineage ==
  \A s \in Issued : LET login == session[s].family IN
    /\ login \in Issued /\ session[login].family = login
    /\ session[login].version = session[s].version
    /\ session[login].ttl = session[s].ttl

\* A step that changes the status of issued sessions, to none that is in use, and no more; a
\* session it marks as compromised is marked with its whole family.
Marks ==
  /\ session' \in [Session -> SessionRow]
  /\ \A s \in Session :
       \/ session'[s] = session[s]
       \/ /\ s \in Issued
          /\ \E status \in SessionStatus \ {"NONE", "ACTIVE"} :
               session'[s] = [session[s] EXCEPT !.status = status]
  /\ \A s \in Session : session'[s].status = "COMPROMISED" =>
       \/ session[s].status = "COMPROMISED"
       \/ \A t \in FamilyOf(s) : session'[t].status = "COMPROMISED"

\* Such a step keeps what sessions descend from, and makes none usable again.
LEMMA MarksKeep ==
  ASSUME AccountTypeOK, Marks
  PROVE /\ Issued' = Issued /\ Active' \subseteq Active /\ Live' \subseteq Live
        /\ \A s \in Session : /\ session'[s].family = session[s].family
                              /\ session'[s].version = session[s].version
                              /\ session'[s].ttl = session[s].ttl
<1>1. \A s \in Session : session[s] \in SessionRow /\ session'[s] \in SessionRow
  BY DEF AccountTypeOK, Marks
<1>2. ASSUME NEW s \in Session
      PROVE /\ session'[s].family = session[s].family
            /\ session'[s].version = session[s].version
            /\ session'[s].ttl = session[s].ttl
            /\ (session'[s].status = "NONE" <=> session[s].status = "NONE")
            /\ (session'[s].status = "ACTIVE" => session[s].status = "ACTIVE")
  <2>1. CASE session'[s] = session[s]
    BY <2>1
  <2>2. ASSUME s \in Issued, NEW status \in SessionStatus \ {"NONE", "ACTIVE"},
               session'[s] = [session[s] EXCEPT !.status = status]
        PROVE /\ session'[s].family = session[s].family
              /\ session'[s].version = session[s].version
              /\ session'[s].ttl = session[s].ttl
              /\ (session'[s].status = "NONE" <=> session[s].status = "NONE")
              /\ (session'[s].status = "ACTIVE" => session[s].status = "ACTIVE")
    BY <1>1, <2>2 DEF SessionRow, Issued
  <2>3. QED
    BY <2>1, <2>2 DEF Marks
<1>3. QED
  BY <1>2 DEF Issued, Active, Live

\* Which steps mark and do no more to the sessions.
LEMMA MarkingSteps ==
  ASSUME AccountTypeOK, ReadsIssued,
         \/ session' = session
         \/ session' = RevokeAll
         \/ \E s \in Session : session' = CompromiseFamily(s)
         \/ \E s \in Issued, status \in {"EXPIRED", "REVOKED"} :
              session' = [session EXCEPT ![s].status = status]
  PROVE Marks
<1>1. ASSUME NEW s \in Session, NEW status \in SessionStatus
      PROVE session[s] \in SessionRow /\ [session[s] EXCEPT !.status = status] \in SessionRow
  BY DEF AccountTypeOK, SessionRow
<1>2. CASE session' = session
  BY <1>2 DEF AccountTypeOK, Marks
<1>3. CASE session' = RevokeAll
  <2>1. \A r \in Session : session'[r] = IF r \in Active
                                           THEN [session[r] EXCEPT !.status = "REVOKED"]
                                           ELSE session[r]
    BY <1>3 DEF RevokeAll
  <2>2. "REVOKED" \in SessionStatus \ {"NONE", "ACTIVE"} /\ Active \subseteq Issued
    BY DEF SessionStatus, Active, Issued
  <2>3. session' \in [Session -> SessionRow]
    BY <1>1, <1>3, <2>2 DEF RevokeAll
  <2>4. ASSUME NEW r \in Session, session'[r].status = "COMPROMISED"
        PROVE session[r].status = "COMPROMISED"
    BY <1>1, <2>1, <2>4 DEF AccountTypeOK, SessionRow
  <2>5. QED
    BY <2>1, <2>2, <2>3, <2>4 DEF Marks
<1>4. ASSUME NEW s \in Session, session' = CompromiseFamily(s)
      PROVE Marks
  <2>1. \A r \in Session : session'[r] = IF r \in FamilyOf(s)
                                           THEN [session[r] EXCEPT !.status = "COMPROMISED"]
                                           ELSE session[r]
    BY <1>4 DEF CompromiseFamily
  <2>2. "COMPROMISED" \in SessionStatus \ {"NONE", "ACTIVE"} /\ FamilyOf(s) \subseteq Issued
    BY DEF SessionStatus, FamilyOf
  <2>3. session' \in [Session -> SessionRow]
    BY <1>1, <1>4, <2>2 DEF CompromiseFamily
  <2>4. ASSUME NEW r \in FamilyOf(s)
        PROVE session'[r].status = "COMPROMISED"
    BY <2>1 DEF FamilyOf, Issued, AccountTypeOK, SessionRow
  <2>5. \A r \in FamilyOf(s) : FamilyOf(r) = FamilyOf(s)
    BY DEF FamilyOf
  <2>6. QED
    BY <2>1, <2>2, <2>3, <2>4, <2>5 DEF Marks
<1>5. ASSUME NEW s \in Issued, NEW status \in {"EXPIRED", "REVOKED"},
             session' = [session EXCEPT ![s].status = status]
      PROVE Marks
  <2>1. s \in Session
    BY DEF Issued
  <2>2. \A t \in Session : session'[t] = IF t = s THEN [session[s] EXCEPT !.status = status]
                                                  ELSE session[t]
    BY <1>5, <2>1 DEF AccountTypeOK
  <2>3. session' \in [Session -> SessionRow]
    <3>1. [session[s] EXCEPT !.status = status] \in SessionRow
      BY <1>1, <2>1 DEF SessionStatus
    <3>2. session' = [session EXCEPT ![s] = [session[s] EXCEPT !.status = status]]
      BY <1>5
    <3>3. QED
      BY <2>1, <3>1, <3>2 DEF AccountTypeOK
  <2>4. ASSUME NEW r \in Session, session'[r].status = "COMPROMISED"
        PROVE session[r].status = "COMPROMISED"
    BY <1>1, <2>2, <2>4 DEF AccountTypeOK, SessionRow
  <2>5. status \in SessionStatus \ {"NONE", "ACTIVE"}
    BY DEF SessionStatus
  <2>6. QED
    BY <2>2, <2>3, <2>4, <2>5 DEF Marks
<1>6. QED
  BY <1>2, <1>3, <1>4, <1>5

\* The rows a login writes.
LEMMA FoundRows ==
  ASSUME AccountTypeOK, NEW n \in Session, IsNext(n), session' = Found(n)
  PROVE /\ session' \in [Session -> SessionRow]
        /\ session'[n] = [status |-> "ACTIVE", family |-> n, version |-> credential.version,
                          ttl |-> SessionTTL]
        /\ \A s \in Session \ {n} :
             \/ /\ session'[s] = session[s]
                /\ s \in Live => s \notin Evicted
             \/ /\ s \in Active
                /\ \E status \in {"EXPIRED", "REVOKED"} :
                     session'[s] = [session[s] EXCEPT !.status = status]
<1>1. n \notin Active /\ n \notin Evicted
  BY DEF IsNext, Issued, Active, Evicted, Live
<1>2. session'[n] = [status |-> "ACTIVE", family |-> n, version |-> credential.version,
                    ttl |-> SessionTTL]
  BY DEF Found
<1>3. session'[n] \in SessionRow
  BY <1>2, SessionsAssumption DEF AccountTypeOK, Credential, SessionRow, SessionStatus, Session
<1>4. ASSUME NEW s \in Session \ {n}
      PROVE /\ session'[s] \in SessionRow
            /\ \/ /\ session'[s] = session[s]
                  /\ s \in Live => s \notin Evicted
               \/ /\ s \in Active
                  /\ \E status \in {"EXPIRED", "REVOKED"} :
                       session'[s] = [session[s] EXCEPT !.status = status]
  <2>1. /\ session[s] \in SessionRow
        /\ [session[s] EXCEPT !.status = "EXPIRED"] \in SessionRow
        /\ [session[s] EXCEPT !.status = "REVOKED"] \in SessionRow
    BY DEF AccountTypeOK, SessionRow, SessionStatus
  <2>2. CASE s \in Active \ Live
    <3>1. session'[s] = [session[s] EXCEPT !.status = "EXPIRED"]
      BY <2>2 DEF Found
    <3>2. QED
      BY <2>1, <2>2, <3>1
  <2>3. CASE s \in Evicted
    <3>1. session'[s] = [session[s] EXCEPT !.status = "REVOKED"] /\ s \in Active
      BY <2>3 DEF Found, Evicted, Live
    <3>2. QED
      BY <2>1, <3>1
  <2>4. CASE s \notin Active \ Live /\ s \notin Evicted
    <3>1. session'[s] = session[s]
      BY <2>4 DEF Found
    <3>2. QED
      BY <2>1, <2>4, <3>1
  <2>5. QED
    BY <2>2, <2>3, <2>4
<1>5. session' \in [Session -> SessionRow]
  BY <1>3, <1>4 DEF Found
<1>6. QED
  BY <1>2, <1>4, <1>5

\* The rows a rotation writes.
LEMMA RotateRows ==
  ASSUME AccountTypeOK, ReadsIssued, NEW q \in Request, NEW n \in Session, RefreshRotates(q, n)
  PROVE LET s == refresh[q].session IN
        /\ s \in Issued /\ s # n /\ n \notin Issued
        /\ session' \in [Session -> SessionRow]
        /\ session'[n] = [status |-> "ACTIVE", family |-> session[s].family,
                          version |-> session[s].version, ttl |-> session[s].ttl]
        /\ session'[s] = [session[s] EXCEPT !.status = "ROTATED"]
        /\ \A t \in Session \ {n, s} : session'[t] = session[t]
<1> DEFINE s == refresh[q].session
           new == [status |-> "ACTIVE", family |-> session[s].family,
                   version |-> refresh[q].version, ttl |-> session[s].ttl]
           old == [session[s] EXCEPT !.status = "ROTATED"]
<1>1. s \in Issued /\ n \notin Issued /\ session[s].version = refresh[q].version
  BY DEF RefreshRotates, Rotatable, Presentable, ReadsIssued, IsNext
<1>2. s \in Session /\ s # n
  BY <1>1 DEF Issued
<1>3. session' = [session EXCEPT ![n] = new, ![s].status = "ROTATED"]
  BY DEF RefreshRotates, Rotate
<1>4. session[s] \in SessionRow
  BY <1>2 DEF AccountTypeOK
<1>5. new \in SessionRow /\ old \in SessionRow
  BY <1>1, <1>4 DEF SessionRow, SessionStatus
<1>6. /\ session'[n] = new /\ session'[s] = old
      /\ \A t \in Session \ {n, s} : session'[t] = session[t]
  BY <1>2, <1>3 DEF AccountTypeOK
<1>7. session' \in [Session -> SessionRow]
  BY <1>2, <1>3, <1>5 DEF AccountTypeOK
<1>8. QED
  BY <1>1, <1>2, <1>6, <1>7

\* The rows after a tick.
LEMMA TickRows ==
  ASSUME AccountTypeOK, Tick
  PROVE /\ session' \in [Session -> SessionRow]
        /\ \A s \in Session : session'[s] = [session[s] EXCEPT !.ttl = Left(session[s].ttl)]
<1>1. ASSUME NEW s \in Session
      PROVE [session[s] EXCEPT !.ttl = Left(session[s].ttl)] \in SessionRow
  BY SessionsAssumption DEF AccountTypeOK, SessionRow, Left
<1>2. QED
  BY <1>1 DEF Tick

\* A step either marks sessions, or founds one, or rotates one, or ages them all.
LEMMA AccountSteps ==
  ASSUME AccountTypeOK, ReadsIssued, [AccountNext]_accountVars
  PROVE \/ Marks /\ raced' = raced
        \/ \E n \in Session : Login(n)
        \/ \E q \in Request, n \in Session : RefreshRotates(q, n)
        \/ Tick
<1>1. ASSUME NEW q \in Request, refresh[q].status # "NONE"
      PROVE refresh[q].session \in Issued /\ refresh[q].session \in Session
  BY <1>1 DEF ReadsIssued, Issued
<1>2. CASE Disable
  BY <1>2, MarkingSteps DEF Disable
<1>3. CASE Enable
  BY <1>3, MarkingSteps DEF Enable
<1>4. CASE ResetCredential
  BY <1>4, MarkingSteps DEF ResetCredential
<1>5. CASE LoginFails
  BY <1>5, MarkingSteps DEF LoginFails
<1>6. CASE \E q \in Request, s \in Session : BeginRefresh(q, s)
  BY <1>6, MarkingSteps DEF BeginRefresh
<1>7. CASE \E q \in Request : RefreshReplayed(q)
  BY <1>1, <1>7, MarkingSteps DEF RefreshReplayed
<1>8. CASE \E q \in Request : RefreshExpired(q)
  BY <1>1, <1>8, MarkingSteps DEF RefreshExpired
<1>9. CASE \E q \in Request : RefreshUserDisabled(q)
  BY <1>9, MarkingSteps DEF RefreshUserDisabled
<1>10. CASE \E q \in Request : RefreshRefused(q)
  BY <1>10, MarkingSteps DEF RefreshRefused
<1>11. CASE \E s \in Session : Logout(s)
  <2>1. PICK s \in Session : Logout(s)
    BY <1>11
  <2>2. s \in Issued
    BY <2>1 DEF Logout, Active, Issued
  <2>3. QED
    BY <2>1, <2>2, MarkingSteps DEF Logout
<1>12. CASE \E s \in Session : AccessExpires(s)
  <2>1. PICK s \in Session : AccessExpires(s)
    BY <1>12
  <2>2. s \in Issued
    BY <2>1 DEF AccessExpires, Active, Issued
  <2>3. QED
    BY <2>1, <2>2, MarkingSteps DEF AccessExpires
<1>13. CASE \E s \in Session : ChangePassword(s)
  BY <1>13, MarkingSteps DEF ChangePassword
<1>14. CASE UNCHANGED accountVars
  BY <1>14, MarkingSteps DEF accountVars
<1>15. QED
  BY <1>2, <1>3, <1>4, <1>5, <1>6, <1>7, <1>8, <1>9, <1>10, <1>11, <1>12, <1>13, <1>14
  DEF AccountNext

-----------------------------------------------------------------------------
(* RefreshSessions: types *)

\* What a step leaves of the credential is a credential.
LEMMA CredentialTypes ==
  ASSUME AccountTypeOK, [AccountNext]_accountVars
  PROVE credential' \in Credential
<1>1. /\ credential.version \in Nat /\ credential.forced \in BOOLEAN
      /\ credential.failures \in 0..MaxFailures /\ credential.window \in 0..LockTTL
  BY DEF AccountTypeOK, Credential
<1>2. credential \in Credential /\ 0 \in 0..MaxFailures /\ 0 \in 0..LockTTL /\ LockTTL \in 0..LockTTL
  BY SessionsAssumption DEF AccountTypeOK
<1>3. ASSUME NEW forced \in BOOLEAN, credential' = NewPassword(forced)
      PROVE credential' \in Credential
  <2>1. credential.version + 1 \in Nat
    BY <1>1
  <2>2. QED
    BY <1>2, <1>3, <2>1, Zenon DEF Credential, NewPassword
<1>4. CASE ResetCredential \/ \E s \in Session : ChangePassword(s)
  BY <1>3, <1>4 DEF ResetCredential, ChangePassword
<1>5. CASE \E n \in Session : Login(n)
  <2>1. credential' = [credential EXCEPT !.failures = 0, !.window = 0]
    BY <1>5 DEF Login
  <2>2. QED
    BY <1>2, <2>1 DEF Credential
<1>6. CASE LoginFails
  <2> DEFINE count == credential.failures + 1
             window == IF count \in {1, MaxFailures} THEN LockTTL ELSE credential.window
  <2>1. count \in 0..MaxFailures /\ window \in 0..LockTTL
    BY <1>1, <1>2, <1>6, SessionsAssumption DEF LoginFails, Locked
  <2>2. credential' = [credential EXCEPT !.failures = count, !.window = window]
    BY <1>6 DEF LoginFails
  <2> HIDE DEF count, window
  <2>3. QED
    BY <1>2, <2>1, <2>2 DEF Credential
<1>7. CASE Tick
  <2> DEFINE window == Left(credential.window)
             failures == IF credential.window > 1 THEN credential.failures ELSE 0
  <2>1. failures \in 0..MaxFailures /\ window \in 0..LockTTL
    BY <1>1, <1>2, SessionsAssumption DEF Left
  <2>2. credential' = [credential EXCEPT !.window = window, !.failures = failures]
    BY <1>7 DEF Tick
  <2> HIDE DEF failures, window
  <2>3. QED
    BY <1>2, <2>1, <2>2 DEF Credential
<1>8. CASE UNCHANGED credential
  BY <1>8 DEF AccountTypeOK
<1>9. QED
  BY <1>4, <1>5, <1>6, <1>8, <1>7
  DEF AccountNext, accountVars, Disable, Enable, BeginRefresh, RefreshReplayed, RefreshExpired,
      RefreshUserDisabled, RefreshRotates, RefreshRefused, Logout, AccessExpires

\* Sessions stay rows of their table, and an issued session stays issued.
LEMMA SessionTypes ==
  ASSUME AccountTypeOK, ReadsIssued, [AccountNext]_accountVars
  PROVE session' \in [Session -> SessionRow] /\ Issued \subseteq Issued'
<1>1. CASE Marks
  BY <1>1, MarksKeep DEF Marks
<1>2. ASSUME NEW n \in Session, Login(n)
      PROVE session' \in [Session -> SessionRow] /\ Issued \subseteq Issued'
  <2>1. \A s \in Session : session[s] \in SessionRow
    BY DEF AccountTypeOK
  <2>2. IsNext(n) /\ session' = Found(n)
    BY <1>2 DEF Login
  <2>3. /\ session' \in [Session -> SessionRow]
        /\ session'[n] = [status |-> "ACTIVE", family |-> n, version |-> credential.version,
                          ttl |-> SessionTTL]
        /\ \A s \in Session \ {n} :
             \/ session'[s] = session[s]
             \/ \E status \in {"EXPIRED", "REVOKED"} :
                  session'[s] = [session[s] EXCEPT !.status = status]
    BY <2>2, FoundRows, Zenon
  <2>4. session'[n].status = "ACTIVE"
    BY <2>3
  <2>5. ASSUME NEW s \in Session, session[s].status # "NONE"
        PROVE session'[s].status # "NONE"
    BY <2>1, <2>4, <2>5, <2>3 DEF SessionRow
  <2>6. QED
    BY <2>4, <2>5, <2>3 DEF Issued
<1>3. ASSUME NEW q \in Request, NEW n \in Session, RefreshRotates(q, n)
      PROVE session' \in [Session -> SessionRow] /\ Issued \subseteq Issued'
  <2> DEFINE s == refresh[q].session
  <2>1. /\ s \in Issued
        /\ session' \in [Session -> SessionRow]
        /\ session'[n] = [status |-> "ACTIVE", family |-> session[s].family,
                          version |-> session[s].version, ttl |-> session[s].ttl]
        /\ session'[s] = [session[s] EXCEPT !.status = "ROTATED"]
        /\ \A t \in Session \ {n, s} : session'[t] = session[t]
    BY <1>3, RotateRows, Zenon
  <2>2. session[s] \in SessionRow
    BY <2>1 DEF AccountTypeOK, Issued
  <2>3. session'[s].status = "ROTATED" /\ session'[n].status = "ACTIVE"
    BY <2>1, <2>2 DEF SessionRow
  <2>4. QED
    BY <2>1, <2>3 DEF Issued
<1>4. CASE Tick
  <2>1. \A s \in Session : session'[s].status = session[s].status
    BY <1>4, TickRows DEF AccountTypeOK, SessionRow
  <2>2. QED
    BY <1>4, <2>1, TickRows DEF Issued
<1>5. QED
  BY <1>1, <1>2, <1>3, <1>4, AccountSteps

\* AccountTypeOK and what refreshes have read are kept.
LEMMA AccountTypesKept ==
  ASSUME AccountTypeOK, ReadsIssued, [AccountNext]_accountVars
  PROVE AccountTypeOK' /\ ReadsIssued'
<1>1. /\ session' \in [Session -> SessionRow] /\ Issued \subseteq Issued'
      /\ credential' \in Credential
  BY SessionTypes, CredentialTypes
<1>2. ASSUME NEW q \in Request, NEW s \in Session, BeginRefresh(q, s)
      PROVE refresh' \in [Request -> Reading] /\ ReadsIssued'
  <2>1. session[s] \in SessionRow
    BY DEF AccountTypeOK
  <2>2. [session |-> s, status |-> session[s].status, version |-> credential.version,
         forced |-> credential.forced] \in Reading
    BY <2>1, SessionsAssumption DEF AccountTypeOK, Reading, SessionRow, Credential, Session
  <2>3. refresh' \in [Request -> Reading]
    BY <1>2, <2>2 DEF AccountTypeOK, BeginRefresh
  <2>4. /\ refresh'[q].session = s /\ s \in Issued
        /\ \A r \in Request \ {q} : refresh'[r] = refresh[r]
    BY <1>2 DEF AccountTypeOK, BeginRefresh
  <2>5. QED
    BY <1>1, <2>3, <2>4 DEF ReadsIssued
<1>3. ASSUME NEW q \in Request, Answered(q)
      PROVE refresh' \in [Request -> Reading] /\ ReadsIssued'
  <2>1. NotReading \in Reading /\ NotReading.status = "NONE"
    BY SessionsAssumption DEF NotReading, Reading, SessionStatus
  <2>2. refresh' \in [Request -> Reading]
    BY <1>3, <2>1 DEF AccountTypeOK, Answered
  <2>3. refresh'[q] = NotReading /\ \A r \in Request \ {q} : refresh'[r] = refresh[r]
    BY <1>3 DEF AccountTypeOK, Answered
  <2>4. QED
    BY <1>1, <2>1, <2>2, <2>3 DEF ReadsIssued
<1>4. ASSUME UNCHANGED refresh
      PROVE refresh' \in [Request -> Reading] /\ ReadsIssued'
  BY <1>1, <1>4 DEF AccountTypeOK, ReadsIssued
<1>5. refresh' \in [Request -> Reading] /\ ReadsIssued'
  BY <1>2, <1>3, <1>4
  DEF AccountNext, accountVars, Disable, Enable, ResetCredential, Login, LoginFails,
      RefreshReplayed, RefreshExpired, RefreshUserDisabled, RefreshRotates, RefreshRefused,
      Logout, AccessExpires, ChangePassword, Tick
<1>6. account' \in {"ACTIVE", "DISABLED"} /\ raced' \in BOOLEAN
  BY DEF AccountTypeOK, AccountNext, accountVars, Disable, Enable, ResetCredential, Login,
      LoginFails, BeginRefresh, RefreshReplayed, RefreshExpired, RefreshUserDisabled,
      RefreshRotates, RefreshRefused, Logout, AccessExpires, ChangePassword, Tick
<1>7. QED
  BY <1>1, <1>5, <1>6 DEF AccountTypeOK

-----------------------------------------------------------------------------
(* RefreshSessions: where sessions come from *)

\* The sessions after a login, field by field.
LEMMA LoginFields ==
  ASSUME AccountTypeOK, NEW n \in Session, Login(n)
  PROVE /\ n \notin Issued /\ Issued' = Issued \cup {n}
        /\ session'[n] = [status |-> "ACTIVE", family |-> n, version |-> credential.version,
                          ttl |-> SessionTTL]
        /\ Active' \subseteq Active \cup {n}
        /\ Live' \subseteq (Live \ Evicted) \cup {n}
        /\ \A s \in Session \ {n} :
             /\ session'[s].family = session[s].family
             /\ session'[s].version = session[s].version
             /\ session'[s].ttl = session[s].ttl
             /\ session'[s].status = "COMPROMISED" => session[s].status = "COMPROMISED"
<1>1. n \notin Issued /\ IsNext(n) /\ session' = Found(n)
  BY DEF Login, IsNext
<1>2. /\ session'[n] = [status |-> "ACTIVE", family |-> n, version |-> credential.version,
                        ttl |-> SessionTTL]
      /\ \A s \in Session \ {n} :
           \/ session'[s] = session[s] /\ (s \in Live => s \notin Evicted)
           \/ /\ s \in Active
              /\ \E status \in {"EXPIRED", "REVOKED"} :
                   session'[s] = [session[s] EXCEPT !.status = status]
  BY <1>1, FoundRows, Zenon
<1>3. ASSUME NEW s \in Session \ {n}
      PROVE /\ session'[s].family = session[s].family
            /\ session'[s].version = session[s].version
            /\ session'[s].ttl = session[s].ttl
            /\ session'[s].status = "COMPROMISED" => session[s].status = "COMPROMISED"
            /\ session'[s].status = "ACTIVE" =>
                 session[s].status = "ACTIVE" /\ (s \in Live => s \notin Evicted)
            /\ session'[s].status = "NONE" <=> session[s].status = "NONE"
  <2>1. session[s] \in SessionRow
    BY DEF AccountTypeOK
  <2>2. CASE session'[s] = session[s] /\ (s \in Live => s \notin Evicted)
    BY <2>2
  <2>3. ASSUME s \in Active, NEW status \in {"EXPIRED", "REVOKED"},
               session'[s] = [session[s] EXCEPT !.status = status]
        PROVE /\ session'[s].family = session[s].family
              /\ session'[s].version = session[s].version
              /\ session'[s].ttl = session[s].ttl
              /\ session'[s].status = status /\ session[s].status = "ACTIVE"
    BY <2>1, <2>3 DEF SessionRow, Active
  <2>4. QED
    BY <1>2, <2>2, <2>3
<1>4. session'[n].status = "ACTIVE"
  BY <1>2
<1>5. Issued' = Issued \cup {n}
  BY <1>3, <1>4 DEF Issued
<1>6. Active' \subseteq Active \cup {n} /\ Live' \subseteq (Live \ Evicted) \cup {n}
  BY <1>3 DEF Active, Live
<1>7. QED
  BY <1>1, <1>2, <1>3, <1>5, <1>6

\* The sessions after a rotation, field by field.
LEMMA RotationFields ==
  ASSUME AccountTypeOK, ReadsIssued, NEW q \in Request, NEW n \in Session, RefreshRotates(q, n)
  PROVE LET r == refresh[q].session IN
        /\ r \in Issued /\ n \notin Issued /\ Issued' = Issued \cup {n} /\ n # r
        /\ session'[n] = [status |-> "ACTIVE", family |-> session[r].family,
                          version |-> session[r].version, ttl |-> session[r].ttl]
        /\ Active' \subseteq (Active \ {r}) \cup {n}
        /\ Live' \subseteq (Live \ {r}) \cup {n}
        /\ \A s \in Session \ {n} :
             /\ session'[s].family = session[s].family
             /\ session'[s].version = session[s].version
             /\ session'[s].ttl = session[s].ttl
             /\ session'[s].status = "COMPROMISED" => session[s].status = "COMPROMISED"
<1> DEFINE r == refresh[q].session
<1>1. /\ r \in Issued /\ r # n /\ n \notin Issued
      /\ session'[n] = [status |-> "ACTIVE", family |-> session[r].family,
                        version |-> session[r].version, ttl |-> session[r].ttl]
      /\ session'[r] = [session[r] EXCEPT !.status = "ROTATED"]
      /\ \A t \in Session \ {n, r} : session'[t] = session[t]
  BY RotateRows, Zenon
<1> HIDE DEF r
<1>2. /\ session'[r].family = session[r].family
      /\ session'[r].version = session[r].version
      /\ session'[r].ttl = session[r].ttl
      /\ session'[r].status = "ROTATED"
      /\ session'[n].status = "ACTIVE"
  BY <1>1 DEF AccountTypeOK, SessionRow, Issued
<1>3. Issued' = Issued \cup {n}
  <2>1. \A s \in Session : session'[s].status # "NONE" <=> session[s].status # "NONE" \/ s = n
    BY <1>1, <1>2 DEF Issued
  <2>2. QED
    BY <2>1 DEF Issued
<1>4. Active' \subseteq (Active \ {r}) \cup {n} /\ Live' \subseteq (Live \ {r}) \cup {n}
  BY <1>1, <1>2 DEF Active, Live
<1>5. \A s \in Session \ {n} :
        /\ session'[s].family = session[s].family
        /\ session'[s].version = session[s].version
        /\ session'[s].ttl = session[s].ttl
        /\ session'[s].status = "COMPROMISED" => session[s].status = "COMPROMISED"
  BY <1>1, <1>2
<1>6. QED
  BY <1>1, <1>3, <1>4, <1>5 DEF r

\* The fields a tick changes.
LEMMA TickFields ==
  ASSUME AccountTypeOK, Tick
  PROVE /\ Issued' = Issued /\ Active' = Active /\ Live' \subseteq Live
        /\ \A s \in Session : /\ session'[s].family = session[s].family
                              /\ session'[s].version = session[s].version
                              /\ session'[s].status = session[s].status
                              /\ session'[s].ttl = Left(session[s].ttl)
<1>1. ASSUME NEW s \in Session
      PROVE /\ session'[s].family = session[s].family
            /\ session'[s].version = session[s].version
            /\ session'[s].status = session[s].status
            /\ session'[s].ttl = Left(session[s].ttl)
            /\ session'[s].ttl > 0 => session[s].ttl > 0
  <2>1. session[s] \in SessionRow /\ session'[s] = [session[s] EXCEPT !.ttl = Left(session[s].ttl)]
    BY TickRows DEF AccountTypeOK
  <2>2. session[s].ttl \in Nat
    BY <2>1, SessionsAssumption DEF SessionRow
  <2>3. QED
    BY <2>1, <2>2 DEF SessionRow, Left
<1>2. QED
  BY <1>1 DEF Issued, Active, Live

\* Every session keeps its founder.
LEMMA LineageKept ==
  ASSUME AccountTypeOK, ReadsIssued, Lineage, [AccountNext]_accountVars
  PROVE Lineage'
<1>1. CASE Marks
  BY <1>1, MarksKeep DEF Lineage, Issued
<1>2. ASSUME NEW n \in Session, Login(n)
      PROVE Lineage'
  <2>1. /\ n \notin Issued /\ Issued' = Issued \cup {n}
        /\ session'[n] = [status |-> "ACTIVE", family |-> n, version |-> credential.version,
                          ttl |-> SessionTTL]
        /\ \A s \in Session \ {n} : /\ session'[s].family = session[s].family
                                    /\ session'[s].version = session[s].version
                                    /\ session'[s].ttl = session[s].ttl
    BY <1>2, LoginFields, Zenon
  <2>2. \A s \in Issued : s \in Session \ {n} /\ session[s].family \in Session \ {n}
    BY <2>1 DEF Lineage, Issued
  <2>3. ASSUME NEW s \in Issued
        PROVE LET login == session'[s].family IN
                /\ login \in Issued' /\ session'[login].family = login
                /\ session'[login].version = session'[s].version
                /\ session'[login].ttl = session'[s].ttl
    BY <2>1, <2>2 DEF Lineage
  <2>4. session'[n].family = n
    BY <2>1
  <2>5. QED
    BY <2>1, <2>3, <2>4 DEF Lineage
<1>3. ASSUME NEW q \in Request, NEW n \in Session, RefreshRotates(q, n)
      PROVE Lineage'
  <2> DEFINE r == refresh[q].session
  <2>1. /\ r \in Issued /\ n \notin Issued /\ Issued' = Issued \cup {n}
        /\ session'[n] = [status |-> "ACTIVE", family |-> session[r].family,
                          version |-> session[r].version, ttl |-> session[r].ttl]
        /\ \A s \in Session \ {n} : /\ session'[s].family = session[s].family
                                    /\ session'[s].version = session[s].version
                                    /\ session'[s].ttl = session[s].ttl
    BY <1>3, RotationFields, Zenon
  <2>2. \A s \in Issued : s \in Session \ {n} /\ session[s].family \in Issued
    BY <2>1 DEF Lineage, Issued
  <2>3. ASSUME NEW s \in Issued
        PROVE LET login == session'[s].family IN
                /\ login \in Issued' /\ session'[login].family = login
                /\ session'[login].version = session'[s].version
                /\ session'[login].ttl = session'[s].ttl
    BY <2>1, <2>2 DEF Lineage
  <2>4. /\ session'[n].family = session'[r].family
        /\ session'[n].version = session'[r].version
        /\ session'[n].ttl = session'[r].ttl
    BY <2>1, <2>2
  <2>5. QED
    BY <2>1, <2>3, <2>4 DEF Lineage
<1>4. CASE Tick
  <2>1. \A s \in Issued : s \in Session /\ session[s].family \in Session
    BY DEF Lineage, Issued
  <2>2. QED
    BY <1>4, <2>1, TickFields DEF Lineage
<1>5. QED
  BY <1>1, <1>2, <1>3, <1>4, AccountSteps

-----------------------------------------------------------------------------
(* RefreshSessions: disabled users *)

\* A step after which the user is disabled leaves no session in use that was not: it is the
\* one that disables the user, or the user was disabled already.
LEMMA DisabledKept ==
  ASSUME AccountTypeOK, ReadsIssued, DisabledHasNoSession, [AccountNext]_accountVars
  PROVE DisabledHasNoSession'
<1>1. CASE Disable
  <2>1. session' = RevokeAll
    BY <1>1 DEF Disable
  <2>2. ASSUME NEW s \in Session
        PROVE session'[s].status # "ACTIVE"
    BY <2>1 DEF RevokeAll, Active, AccountTypeOK, SessionRow
  <2>3. QED
    BY <2>2 DEF DisabledHasNoSession, Active
<1>2. CASE account' = account /\ Active' \subseteq Active
  BY <1>2 DEF DisabledHasNoSession
<1>3. CASE account' = "ACTIVE"
  BY <1>3 DEF DisabledHasNoSession
<1>4. (Marks \/ Tick) => Active' \subseteq Active
  BY MarksKeep, TickFields
<1>5. Disable \/ account' = account \/ account' = "ACTIVE"
  BY DEF AccountNext, accountVars, Disable, Enable, ResetCredential, Login, LoginFails,
      BeginRefresh, RefreshReplayed, RefreshExpired, RefreshUserDisabled, RefreshRotates,
      RefreshRefused, Logout, AccessExpires, ChangePassword, Tick
<1>6. (\E n \in Session : Login(n)) => account' = "ACTIVE"
  BY DEF Login
<1>7. (\E q \in Request, n \in Session : RefreshRotates(q, n)) => account' = "ACTIVE"
  BY DEF RefreshRotates, Rotatable
<1>8. QED
  BY <1>1, <1>2, <1>3, <1>4, <1>5, <1>6, <1>7, AccountSteps

-----------------------------------------------------------------------------
(* RefreshSessions: how many sessions there are *)

\* Sets of sessions are finite, a subset has no more elements than its set, and one element
\* more or less counts as one.
LEMMA SessionsCount ==
  ASSUME NEW S \in SUBSET Session
  PROVE /\ IsFiniteSet(S) /\ Cardinality(S) \in Nat
        /\ \A T \in SUBSET S : Cardinality(T) <= Cardinality(S)
        /\ \A x \in S : Cardinality(S \ {x}) = Cardinality(S) - 1
        /\ \A x : Cardinality(S \cup {x}) <= Cardinality(S) + 1
<1>1. IsFiniteSet(Session)
  BY FS_Interval, SessionsAssumption DEF Session
<1>2. IsFiniteSet(S)
  BY <1>1, FS_Subset
<1>3. Cardinality(S) \in Nat
  BY <1>2, FS_CardinalityType
<1>4. \A T \in SUBSET S : Cardinality(T) <= Cardinality(S)
  BY <1>2, FS_Subset
<1>5. \A x \in S : Cardinality(S \ {x}) = Cardinality(S) - 1
  BY <1>2, FS_RemoveElement
<1>6. \A x : Cardinality(S \cup {x}) <= Cardinality(S) + 1
  BY <1>2, <1>3, FS_AddElement
<1>7. QED
  BY <1>2, <1>3, <1>4, <1>5, <1>6

\* A set of sessions that is not empty has an oldest one.
LEMMA OldestSession ==
  ASSUME NEW S \in SUBSET Session, S # {}
  PROVE \E m \in S : \A t \in S : m <= t
<1>1. S \subseteq Nat
  BY SessionsAssumption DEF Session
<1>2. PICK m \in S : \A t \in S : ~(<<t, m>> \in OpToRel(<, Nat))
  BY <1>1, WFMin, NatLessThanWellFounded, Zenon
<1>3. \A t \in S : ~(t < m)
  BY <1>1, <1>2, Zenon DEF OpToRel
<1>4. QED
  BY <1>1, <1>3

\* What a login does not evict leaves room for the session it founds.
LEMMA RoomForOne ==
  ASSUME AccountTypeOK
  PROVE Cardinality(Live \ Evicted) <= SessionLimit - 1
<1> DEFINE Kept == Live \ Evicted
<1>1. Kept \in SUBSET Session /\ Live \in SUBSET Session
  BY DEF Live, Active
<1>2. CASE Kept = {}
  BY <1>2, FS_EmptySet, SessionsAssumption
<1>3. CASE Kept # {}
  <2>1. PICK m \in Kept : \A t \in Kept : m <= t
    BY <1>1, <1>3, OldestSession
  <2> DEFINE Later == {t \in Live : t > m}
  <2>2. Later \in SUBSET Session
    BY <1>1
  <2>3. Kept \ {m} \in SUBSET Later
    BY <1>1, <2>1, SessionsAssumption DEF Session
  <2>4. Cardinality(Kept \ {m}) <= Cardinality(Later)
    BY <2>2, <2>3, SessionsCount
  <2>5. Cardinality(Kept \ {m}) = Cardinality(Kept) - 1
    BY <1>1, <2>1, SessionsCount
  <2>6. ~(Cardinality(Later) >= SessionLimit - 1)
    BY <2>1 DEF Evicted
  <2>7. Cardinality(Later) \in Nat /\ Cardinality(Kept) \in Nat
    BY <1>1, <2>2, SessionsCount
  <2> HIDE DEF Kept, Later
  <2>8. QED
    BY <2>4, <2>5, <2>6, <2>7, SessionsAssumption DEF Kept
<1>4. QED
  BY <1>2, <1>3

\* The limit is kept.
LEMMA LimitKept ==
  ASSUME AccountTypeOK, ReadsIssued, [AccountNext]_accountVars,
         ~raced => Cardinality(Live) <= SessionLimit
  PROVE ~raced' => Cardinality(Live') <= SessionLimit
<1>1. Live \in SUBSET Session /\ Live' \in SUBSET Session
  BY DEF Live, Active
<1>2. CASE Live' \subseteq Live /\ raced' = raced
  <2>1. Cardinality(Live') <= Cardinality(Live)
    BY <1>1, <1>2, SessionsCount
  <2>2. QED
    BY <1>1, <1>2, <2>1, SessionsCount, SessionsAssumption
<1>3. ASSUME NEW n \in Session, Login(n)
      PROVE ~raced' => Cardinality(Live') <= SessionLimit
  <2> DEFINE Kept == Live \ Evicted
  <2>1. Kept \in SUBSET Session /\ Kept \cup {n} \in SUBSET Session
    BY <1>1
  <2>2. Live' \in SUBSET (Kept \cup {n})
    BY <1>3, LoginFields, Zenon
  <2>3. Cardinality(Kept) <= SessionLimit - 1
    BY RoomForOne
  <2>4. Cardinality(Live') <= Cardinality(Kept \cup {n})
    BY <2>1, <2>2, SessionsCount
  <2>5. /\ Cardinality(Kept \cup {n}) <= Cardinality(Kept) + 1
        /\ Cardinality(Kept) \in Nat /\ Cardinality(Kept \cup {n}) \in Nat
        /\ Cardinality(Live') \in Nat
    BY <1>1, <2>1, SessionsCount
  <2> HIDE DEF Kept
  <2>6. QED
    BY <2>3, <2>4, <2>5, SessionsAssumption
<1>4. ASSUME NEW q \in Request, NEW n \in Session, RefreshRotates(q, n), ~raced'
      PROVE Cardinality(Live') <= SessionLimit
  <2> DEFINE r == refresh[q].session
             Rest == Live \ {r}
  <2>1. ~raced /\ r \in Live
    BY <1>4 DEF RefreshRotates, Rotatable, Presentable, Live, AccountTypeOK
  <2>2. Rest \in SUBSET Session /\ Rest \cup {n} \in SUBSET Session
    BY <1>1
  <2>3. Live' \in SUBSET (Rest \cup {n})
    BY <1>4, RotationFields, Zenon
  <2>4. Cardinality(Live') <= Cardinality(Rest \cup {n})
    BY <2>2, <2>3, SessionsCount
  <2>5. /\ Cardinality(Rest \cup {n}) <= Cardinality(Rest) + 1
        /\ Cardinality(Rest) = Cardinality(Live) - 1
        /\ Cardinality(Rest) \in Nat /\ Cardinality(Rest \cup {n}) \in Nat
        /\ Cardinality(Live') \in Nat /\ Cardinality(Live) \in Nat
    BY <1>1, <2>1, <2>2, SessionsCount
  <2> HIDE DEF Rest
  <2>6. QED
    BY <2>1, <2>4, <2>5, SessionsAssumption
<1>5. (Marks /\ raced' = raced) \/ Tick => Live' \subseteq Live /\ raced' = raced
  BY MarksKeep, TickFields DEF Tick
<1>6. QED
  BY <1>2, <1>3, <1>4, <1>5, AccountSteps

-----------------------------------------------------------------------------
(* RefreshSessions: one session in use per family, and none of a family that was replayed *)

\* Of a family one session is in use at most.
OneActive == \A s, t \in Active : session[s].family = session[t].family => s = t

\* No session is in use whose family has a session marked as compromised.
DeadFamilies ==
  \A s \in Session, t \in Active :
    session[s].status = "COMPROMISED" => session[s].family # session[t].family

\* Both hold as long as no rotation met a session that was not ACTIVE any more.
LEMMA FamiliesKept ==
  ASSUME AccountTypeOK, ReadsIssued, Lineage, [AccountNext]_accountVars,
         ~raced => OneActive /\ DeadFamilies, ~raced'
  PROVE OneActive' /\ DeadFamilies'
<1>1. CASE Marks /\ raced' = raced
  <2>1. OneActive /\ DeadFamilies
    BY <1>1
  <2>2. /\ Active' \subseteq Active
        /\ \A s \in Session : session'[s].family = session[s].family
    BY <1>1, MarksKeep
  <2>3. OneActive'
    BY <2>1, <2>2 DEF OneActive, Active
  <2>4. ASSUME NEW s \in Session, NEW t \in Active', session'[s].status = "COMPROMISED",
               session[s].family = session[t].family
        PROVE FALSE
    <3>1. t \in Active /\ t \in Issued /\ t \in Session /\ session'[t].status = "ACTIVE"
      BY <2>2, <2>4 DEF Active, Issued
    <3>2. session[s].status # "COMPROMISED"
      BY <2>1, <2>4, <3>1 DEF DeadFamilies
    <3>3. t \in FamilyOf(s)
      BY <2>4, <3>1 DEF FamilyOf
    <3>4. QED
      BY <1>1, <2>4, <3>1, <3>2, <3>3 DEF Marks
  <2>5. QED
    BY <2>2, <2>3, <2>4 DEF DeadFamilies, Active
<1>2. ASSUME NEW n \in Session, Login(n)
      PROVE OneActive' /\ DeadFamilies'
  <2>1. /\ n \notin Issued /\ Issued' = Issued \cup {n}
        /\ session'[n] = [status |-> "ACTIVE", family |-> n, version |-> credential.version,
                          ttl |-> SessionTTL]
        /\ Active' \subseteq Active \cup {n}
        /\ \A s \in Session \ {n} :
             /\ session'[s].family = session[s].family
             /\ session'[s].status = "COMPROMISED" => session[s].status = "COMPROMISED"
    BY <1>2, LoginFields, Zenon
  <2>2. OneActive /\ DeadFamilies
    BY <1>2 DEF Login
  <2>3. /\ \A s \in Issued : s \in Session \ {n} /\ session'[s].family # n
        /\ session'[n].family = n /\ session'[n].status = "ACTIVE"
    BY <2>1 DEF Lineage, Issued
  <2>4. /\ Active \subseteq Issued
        /\ \A s \in Session \ {n} : session[s].status = "COMPROMISED" => s \in Issued
    BY DEF Active, Issued
  <2>5. OneActive'
    BY <2>1, <2>2, <2>3, <2>4 DEF OneActive
  <2>6. DeadFamilies'
    BY <2>1, <2>2, <2>3, <2>4 DEF DeadFamilies
  <2>7. QED
    BY <2>5, <2>6
<1>3. ASSUME NEW q \in Request, NEW n \in Session, RefreshRotates(q, n)
      PROVE OneActive' /\ DeadFamilies'
  <2> DEFINE r == refresh[q].session
  <2>1. /\ r \in Issued /\ n \notin Issued /\ Issued' = Issued \cup {n} /\ n # r
        /\ session'[n] = [status |-> "ACTIVE", family |-> session[r].family,
                          version |-> session[r].version, ttl |-> session[r].ttl]
        /\ Active' \subseteq (Active \ {r}) \cup {n}
        /\ \A s \in Session \ {n} :
             /\ session'[s].family = session[s].family
             /\ session'[s].status = "COMPROMISED" => session[s].status = "COMPROMISED"
    BY <1>3, RotationFields, Zenon
  <2>2. OneActive /\ DeadFamilies /\ r \in Active
    BY <1>3 DEF RefreshRotates, AccountTypeOK
  <2> HIDE DEF r
  <2>3. /\ session'[n].family = session[r].family /\ session'[n].status = "ACTIVE"
        /\ \A s \in Active : s \in Session \ {n}
    BY <2>1 DEF Active, Issued
  <2>4. \A s \in Active' : (s \in Active /\ s # r /\ s # n /\ session'[s].family # session[r].family)
                            \/ s = n
    BY <2>1, <2>2, <2>3 DEF OneActive
  <2>5. OneActive'
    BY <2>1, <2>2, <2>3, <2>4 DEF OneActive
  <2>6. DeadFamilies'
    BY <2>1, <2>2, <2>3, <2>4 DEF DeadFamilies
  <2>7. QED
    BY <2>5, <2>6
<1>4. CASE Tick
  <2>1. OneActive /\ DeadFamilies
    BY <1>4 DEF Tick
  <2>2. QED
    BY <1>4, <2>1, TickFields DEF OneActive, DeadFamilies, Active
<1>5. QED
  BY <1>1, <1>2, <1>3, <1>4, AccountSteps

-----------------------------------------------------------------------------
(* RefreshSessions: the theorems *)

AccountInv ==
  /\ AccountTypeOK
  /\ ReadsIssued
  /\ Lineage
  /\ DisabledHasNoSession
  /\ ~raced => Cardinality(Live) <= SessionLimit /\ OneActive /\ DeadFamilies

\* A new account satisfies it.
LEMMA AccountInvInit == AccountInit => AccountInv
<1> SUFFICES ASSUME AccountInit PROVE AccountInv
  OBVIOUS
<1>1. /\ \A s \in Session : session[s].status = "NONE"
      /\ Issued = {} /\ Active = {} /\ Live = {}
  BY DEF AccountInit, Issued, Active, Live
<1>2. AccountTypeOK
  <2>1. session \in [Session -> SessionRow]
    BY SessionsAssumption DEF AccountInit, SessionRow, SessionStatus
  <2>2. credential \in Credential
    BY SessionsAssumption DEF AccountInit, Credential
  <2>3. refresh \in [Request -> Reading]
    BY SessionsAssumption DEF AccountInit, Reading, NotReading, SessionStatus
  <2>4. QED
    BY <2>1, <2>2, <2>3 DEF AccountInit, AccountTypeOK
<1>3. ReadsIssued
  BY DEF AccountInit, ReadsIssued, NotReading
<1>4. Cardinality(Live) = 0
  BY <1>1, FS_EmptySet
<1>5. QED
  BY <1>1, <1>2, <1>3, <1>4, SessionsAssumption
  DEF AccountInv, Lineage, DisabledHasNoSession, OneActive, DeadFamilies

\* Every step keeps it.
LEMMA AccountInvStep == AccountInv /\ [AccountNext]_accountVars => AccountInv'
<1> SUFFICES ASSUME AccountInv, [AccountNext]_accountVars PROVE AccountInv'
  OBVIOUS
<1>1. AccountTypeOK' /\ ReadsIssued'
  BY AccountTypesKept DEF AccountInv
<1>2. Lineage'
  BY LineageKept DEF AccountInv
<1>3. DisabledHasNoSession'
  BY DisabledKept DEF AccountInv
<1>4. ~raced' => Cardinality(Live') <= SessionLimit
  BY LimitKept DEF AccountInv
<1>5. ~raced' => OneActive' /\ DeadFamilies'
  BY FamiliesKept DEF AccountInv
<1>6. QED
  BY <1>1, <1>2, <1>3, <1>4, <1>5 DEF AccountInv

\* The inductive invariant holds.
THEOREM AccountInvariant == AccountSpec => []AccountInv
BY AccountInvInit, AccountInvStep, PTL DEF AccountSpec

\* The account, its credential, its sessions and what its refreshes read stay of their types.
THEOREM AccountTypes == AccountSpec => []AccountTypeOK
<1>1. AccountInv => AccountTypeOK
  BY DEF AccountInv
<1>2. QED
  BY <1>1, AccountInvariant, PTL

\* A session that opens the API descends, under the version and the expiry it has, from a
\* login with the password in force, however refreshes interleave with changes of the
\* password, with logouts and with administrators.
THEOREM SessionsDescend == AccountSpec => []UsableDescendsFromLogin
<1>1. AccountInv => UsableDescendsFromLogin
  BY DEF AccountInv, Lineage, UsableDescendsFromLogin, Usable, Live, Active, Issued
<1>2. QED
  BY <1>1, AccountInvariant, PTL

\* A disabled user has no ACTIVE session, whatever refreshes were under way.
THEOREM DisablingEndsSessions == AccountSpec => []DisabledHasNoSession
<1>1. AccountInv => DisabledHasNoSession
  BY DEF AccountInv
<1>2. QED
  BY <1>1, AccountInvariant, PTL

\* As long as no two refreshes used one session together, logins and rotations keep to the
\* limit of live sessions, a family has one ACTIVE session at most, and none once one of its
\* tokens came again.
THEOREM RotationsAreSerial == AccountSpec => []SerialRotation
<1>1. AccountInv => SerialRotation
  <2> SUFFICES ASSUME AccountInv, ~raced
               PROVE /\ Cardinality(Live) <= SessionLimit
                     /\ OneActive
                     /\ \A s \in Session :
                          session[s].status = "COMPROMISED" => FamilyOf(s) \cap Active = {}
    BY DEF SerialRotation, OneActive
  <2>1. QED
    BY DEF AccountInv, DeadFamilies, FamilyOf
<1>2. QED
  BY <1>1, AccountInvariant, PTL

-----------------------------------------------------------------------------
(* AccessControl: the parts of the inductive invariant *)

\* A command that ends a binding has one to end.
RevokesKnown ==
  \A c \in Call : tx[c].op = "revoke_role_binding" => tx[c].binding \in Bindings

\* Who holds a binding, and who a command on a user is about, exists.
BoundUsersKnown == \A b \in Bindings : user[binding[b].user].status # "absent"

TargetsKnown ==
  \A c \in Call : tx[c].op \in {"set_user_state", "create_role_binding"} =>
    user[tx[c].target].status # "absent"

\* As long as a user's row was not written over, a command that has read it reads the
\* version it has now or an earlier one, and if it is the version it has now, the binding
\* the command looked for is still not there.
PendingBindings ==
  \A c \in Call :
    (tx[c].op = "create_role_binding" /\ tx[c].target \notin overwritten) =>
      /\ tx[c].version <= user[tx[c].target].version
      /\ tx[c].version = user[tx[c].target].version => ~Taken(tx[c].target, tx[c].as)

\* A project has an owner.
ProjectsOwned == \A p \in Project : project[p].status # "absent" => member[p] # {}

\* A command that changes a project was let in by a duty there or a super administrator.
ChangesEntitled ==
  \A c \in Call : tx[c].op = "change_project" =>
    /\ project[tx[c].project].status # "absent"
    /\ \/ tx[c].by \in member[tx[c].project]
       \/ \E b \in Bindings : binding[b].user = tx[c].by /\ binding[b].role = "SUPER_ADMIN"

-----------------------------------------------------------------------------
(* AccessControl: types *)

\* A command that opens changes nothing else.
LEMMA BeginsChangeNothing ==
  ASSUME NEW c \in Call, NEW u \in User, Begin(c, u)
  PROVE UNCHANGED <<user, binding, member, project, overwritten>>
<1>1. CASE BeginCreateUser(c, u)
  BY <1>1, Zenon DEF BeginCreateUser, Open
<1>2. CASE BeginSetUserState(c, u)
  BY <1>2, Zenon DEF BeginSetUserState, Open
<1>3. CASE BeginCreateRoleBinding(c, u)
  BY <1>3, Zenon DEF BeginCreateRoleBinding, Open
<1>4. CASE BeginRevokeRoleBinding(c, u)
  BY <1>4, Zenon DEF BeginRevokeRoleBinding, Open
<1>5. CASE BeginCreateProject(c, u)
  BY <1>5, Zenon DEF BeginCreateProject, Open
<1>6. CASE BeginTransitionProject(c, u) \/ BeginUpdateProject(c, u)
  BY <1>6, Zenon DEF BeginTransitionProject, BeginUpdateProject, BeginMoveProject, Open
<1>7. QED
  BY <1>1, <1>2, <1>3, <1>4, <1>5, <1>6 DEF Begin

\* What the commands under way carry.
LEMMA CommandFields ==
  ASSUME TypeOK, NEW c \in Call
  PROVE LET t == tx[c] IN
        /\ t \in Command
        /\ t.op = "create_user" => t.by \in User /\ t.target \in User /\ t.as \in Assignment
        /\ t.op = "set_user_state" =>
             /\ t.by \in User /\ t.target \in User
             /\ t.to \in {"ACTIVE", "DISABLED"} /\ t.version \in Nat
        /\ t.op = "create_role_binding" =>
             t.by \in User /\ t.target \in User /\ t.as \in Assignment /\ t.version \in Nat
        /\ t.op = "create_project" => t.by \in User /\ t.target \in User /\ t.project \in Project
        /\ t.op = "change_project" =>
             /\ t.by \in User /\ t.project \in Project /\ t.version \in Nat
             /\ t.move[2] \in {"ACTIVE", "DISABLED", "ARCHIVED"}
<1>1. tx[c] \in Command
  BY DEF TypeOK
<1>2. QED
  BY <1>1 DEF Command, NoCommand, UserState, Transition

\* The rows of bindings after one was made.
LEMMA BindingMade ==
  ASSUME TypeOK, NEW c \in Call, tx[c].by \in User, tx[c].target \in User,
         tx[c].as \in Assignment, binding' = Assigned(c)
  PROVE /\ binding' \in Seq(BindingRow)
        /\ Len(binding) + 1 \notin Bindings /\ Bindings' = Bindings \cup {Len(binding) + 1}
        /\ \A b \in Bindings : b < Len(binding) + 1 /\ binding'[b] = binding[b]
        /\ binding'[Len(binding) + 1].user = tx[c].target
        /\ binding'[Len(binding) + 1].role = tx[c].as.role
        /\ binding'[Len(binding) + 1].project = tx[c].as.project
<1> DEFINE row == [user |-> tx[c].target, role |-> tx[c].as.role,
                   project |-> tx[c].as.project, grants |-> tx[c].as.grants,
                   ended |-> FALSE, by |-> tx[c].by]
<1>1. tx[c].as \in [role : Role, project : Project \cup {None}, grants : SUBSET Grant]
  BY AccessAssumption
<1>2. /\ row \in BindingRow /\ row.user = tx[c].target
      /\ row.role = tx[c].as.role /\ row.project = tx[c].as.project
  BY <1>1 DEF BindingRow
<1>3. binding' = Append(binding, row) /\ binding \in Seq(BindingRow)
  BY DEF Assigned, TypeOK
<1> HIDE DEF row
<1>4. /\ binding' \in Seq(BindingRow) /\ Len(binding') = Len(binding) + 1
      /\ \A b \in 1..Len(binding) : binding'[b] = binding[b]
      /\ binding'[Len(binding) + 1] = row
      /\ Len(binding) \in Nat /\ Bindings = 1..Len(binding) /\ Bindings' = 1..Len(binding')
  BY <1>2, <1>3, AppendProperties DEF Bindings
<1>5. QED
  BY <1>2, <1>4

\* The rows of bindings after one was ended.
LEMMA BindingEnded ==
  ASSUME TypeOK, NEW k \in Bindings, binding' = [binding EXCEPT ![k].ended = TRUE]
  PROVE /\ binding' \in Seq(BindingRow) /\ Bindings' = Bindings
        /\ \A b \in Bindings : /\ binding'[b].user = binding[b].user
                               /\ binding'[b].role = binding[b].role
                               /\ binding'[b].project = binding[b].project
                               /\ ~binding'[b].ended => ~binding[b].ended
<1> DEFINE row == [binding[k] EXCEPT !.ended = TRUE]
<1>1. binding \in Seq(BindingRow) /\ Bindings = 1..Len(binding) /\ k \in 1..Len(binding)
  BY DEF TypeOK, Bindings
<1>2. \A b \in Bindings : binding[b] \in BindingRow
  BY <1>1
<1>3. /\ row \in BindingRow /\ row.user = binding[k].user /\ row.role = binding[k].role
      /\ row.project = binding[k].project /\ row.ended = TRUE
  BY <1>2 DEF BindingRow
<1>4. binding' = [binding EXCEPT ![k] = row]
  OBVIOUS
<1> HIDE DEF row
<1>5. /\ binding' \in Seq(BindingRow) /\ DOMAIN binding' = 1..Len(binding)
      /\ \A b \in 1..Len(binding) : binding'[b] = IF b = k THEN row ELSE binding[b]
  <2>1. binding \in [1..Len(binding) -> BindingRow] /\ Len(binding) \in Nat
    BY <1>1, LenProperties
  <2>2. /\ binding' \in [1..Len(binding) -> BindingRow]
        /\ \A b \in 1..Len(binding) : binding'[b] = IF b = k THEN row ELSE binding[b]
    BY <1>1, <1>3, <1>4, <2>1
  <2>3. binding' \in Seq(BindingRow)
    BY <2>1, <2>2, SeqDef
  <2>4. QED
    BY <2>2, <2>3
<1>6. Bindings' = Bindings
  BY <1>1, <1>5 DEF Bindings
<1>7. QED
  BY <1>1, <1>3, <1>5, <1>6

\* Bindings are made and ended, and never taken away.
LEMMA BindingSteps ==
  ASSUME TypeOK, RevokesKnown, [Next]_vars
  PROVE /\ binding' \in Seq(BindingRow) /\ Bindings \subseteq Bindings'
        /\ \A b \in Bindings : /\ binding'[b].user = binding[b].user
                               /\ binding'[b].role = binding[b].role
                               /\ binding'[b].project = binding[b].project
                               /\ ~binding'[b].ended => ~binding[b].ended
<1>1. ASSUME NEW c \in Call, CreateUser(c) \/ CreateRoleBinding(c)
      PROVE /\ binding' \in Seq(BindingRow) /\ Bindings \subseteq Bindings'
            /\ \A b \in Bindings : binding'[b] = binding[b]
  <2>1. /\ tx[c].by \in User /\ tx[c].target \in User /\ tx[c].as \in Assignment
        /\ binding' = Assigned(c)
    BY <1>1, CommandFields DEF CreateUser, CreateRoleBinding
  <2>2. QED
    BY <2>1, BindingMade
<1>2. ASSUME NEW c \in Call, RevokeRoleBinding(c)
      PROVE /\ binding' \in Seq(BindingRow) /\ Bindings \subseteq Bindings'
            /\ \A b \in Bindings : /\ binding'[b].user = binding[b].user
                                   /\ binding'[b].role = binding[b].role
                                   /\ binding'[b].project = binding[b].project
                                   /\ ~binding'[b].ended => ~binding[b].ended
  <2>1. tx[c].binding \in Bindings /\ binding' = [binding EXCEPT ![tx[c].binding].ended = TRUE]
    BY <1>2 DEF RevokeRoleBinding, RevokesKnown
  <2>2. QED
    BY <2>1, BindingEnded
<1>3. CASE UNCHANGED binding
  BY <1>3 DEF TypeOK, Bindings
<1>4. \/ UNCHANGED binding
      \/ \E c \in Call : CreateUser(c) \/ CreateRoleBinding(c) \/ RevokeRoleBinding(c)
  BY BeginsChangeNothing
  DEF Next, vars, Commit, Refuse, CreateUser, SetUserState, CreateRoleBinding,
      RevokeRoleBinding, CreateProject, ChangeProject
<1>5. QED
  BY <1>1, <1>2, <1>3, <1>4

\* A user's row is of its type, and a user who exists goes on existing.
LEMMA UserSteps ==
  ASSUME TypeOK, TargetsKnown, [Next]_vars
  PROVE /\ user' \in [User -> [status : UserState, version : Nat]]
        /\ \A u \in User : user[u].status # "absent" => user'[u].status # "absent"
<1>1. \A u \in User : user[u] \in [status : UserState, version : Nat]
  BY DEF TypeOK
<1>2. ASSUME NEW t \in User, NEW row \in [status : UserState \ {"absent"}, version : Nat],
             user' = [user EXCEPT ![t] = row]
      PROVE /\ user' \in [User -> [status : UserState, version : Nat]]
            /\ \A u \in User : user[u].status # "absent" => user'[u].status # "absent"
  <2>1. row \in [status : UserState, version : Nat] /\ row.status # "absent"
    BY <1>2
  <2>2. QED
    BY <1>2, <2>1 DEF TypeOK
<1>3. ASSUME NEW c \in Call, CreateUser(c)
      PROVE /\ user' \in [User -> [status : UserState, version : Nat]]
            /\ \A u \in User : user[u].status # "absent" => user'[u].status # "absent"
  <2>1. [status |-> "ACTIVE", version |-> 0] \in [status : UserState \ {"absent"}, version : Nat]
    BY DEF UserState
  <2>2. QED
    BY <1>2, <1>3, <2>1, CommandFields DEF CreateUser
<1>4. ASSUME NEW c \in Call, SetUserState(c)
      PROVE /\ user' \in [User -> [status : UserState, version : Nat]]
            /\ \A u \in User : user[u].status # "absent" => user'[u].status # "absent"
  <2>1. /\ tx[c].target \in User /\ tx[c].to \in {"ACTIVE", "DISABLED"} /\ tx[c].version \in Nat
        /\ user' = [user EXCEPT ![tx[c].target] =
             [status |-> tx[c].to, version |-> tx[c].version + 1]]
    BY <1>4, CommandFields DEF SetUserState
  <2>2. [status |-> tx[c].to, version |-> tx[c].version + 1]
          \in [status : UserState \ {"absent"}, version : Nat]
    BY <2>1 DEF UserState
  <2>3. QED
    BY <1>2, <2>1, <2>2
<1>5. ASSUME NEW c \in Call, CreateRoleBinding(c)
      PROVE /\ user' \in [User -> [status : UserState, version : Nat]]
            /\ \A u \in User : user[u].status # "absent" => user'[u].status # "absent"
  <2> DEFINE t == tx[c].target
             row == [user[t] EXCEPT !.version = tx[c].version + 1]
  <2>1. /\ t \in User /\ tx[c].version \in Nat /\ user[t].status # "absent"
        /\ user' = [user EXCEPT ![t].version = tx[c].version + 1]
    BY <1>5, CommandFields DEF CreateRoleBinding, TargetsKnown
  <2>2. row \in [status : UserState \ {"absent"}, version : Nat]
    BY <1>1, <2>1
  <2>3. user' = [user EXCEPT ![t] = row]
    BY <2>1
  <2> HIDE DEF row, t
  <2>4. QED
    BY <1>2, <2>1, <2>2, <2>3
<1>6. CASE UNCHANGED user
  BY <1>6 DEF TypeOK
<1>7. UNCHANGED user \/ \E c \in Call : CreateUser(c) \/ SetUserState(c) \/ CreateRoleBinding(c)
  BY BeginsChangeNothing
  DEF Next, vars, Commit, Refuse, CreateUser, SetUserState, CreateRoleBinding,
      RevokeRoleBinding, CreateProject, ChangeProject
<1>8. QED
  BY <1>3, <1>4, <1>5, <1>6, <1>7

\* What a command knows when it opens.
Knows(t) ==
  /\ t \in Command
  /\ t.op = "revoke_role_binding" => t.binding \in Bindings
  /\ t.op \in {"set_user_state", "create_role_binding"} => user[t.target].status # "absent"
  /\ t.op = "create_role_binding" =>
       t.version = user[t.target].version /\ ~Taken(t.target, t.as)
  /\ t.op = "change_project" =>
       /\ project[t.project].status # "absent"
       /\ \/ t.by \in member[t.project]
          \/ \E b \in Bindings : binding[b].user = t.by /\ binding[b].role = "SUPER_ADMIN"

\* Of the roles that may bear on a project, only the owner's duty and the super administrator
\* allow its change.
LEMMA WhoMayEdit ==
  ASSUME TypeOK, NEW u \in User, NEW p \in Project, ProjectAllowed(u, p, "PROJECT_EDIT")
  PROVE \/ u \in member[p]
        \/ \E b \in Bindings : binding[b].user = u /\ binding[b].role = "SUPER_ADMIN"
<1>1. CASE IsOwner(u, p)
  BY <1>1 DEF IsOwner
<1>2. ASSUME NEW b \in EffectiveOf(u), AppliesTo(b, u, p, "PROJECT_EDIT"),
             Allowed(binding[b].role, "PROJECT_EDIT")
      PROVE \/ u \in member[p]
            \/ binding[b].user = u /\ binding[b].role = "SUPER_ADMIN" /\ b \in Bindings
  <2>1. b \in Bindings /\ binding[b].user = u
    BY DEF EffectiveOf
  <2>2. binding[b].role # "PLATFORM_ADMIN"
    BY <1>2 DEF Allowed
  <2>3. QED
    BY <1>2, <2>1, <2>2 DEF AppliesTo, HasDuty, IsOwner
<1>3. QED
  BY <1>1, <1>2 DEF ProjectAllowed, SomeAllows

\* A command that opens knows what it needs.
LEMMA CommandOpens ==
  ASSUME TypeOK, NEW c \in Call, NEW u \in User, Begin(c, u)
  PROVE \E t : Knows(t) /\ tx' = [tx EXCEPT ![c] = t]
<1>1. /\ user \in [User -> [status : UserState, version : Nat]]
      /\ project \in [Project -> [status : ProjectState, version : Nat]]
      /\ Bindings \subseteq Nat
  BY LenProperties DEF TypeOK, Bindings
<1>2. CASE BeginCreateUser(c, u)
  <2>1. PICK a \in Assignment, t \in User :
          tx' = [tx EXCEPT ![c] = [op |-> "create_user", by |-> u, target |-> t, as |-> a]]
    BY <1>2, Zenon DEF BeginCreateUser, Open
  <2>2. Knows([op |-> "create_user", by |-> u, target |-> t, as |-> a])
    BY DEF Knows, Command
  <2>3. QED
    BY <2>1, <2>2
<1>3. CASE BeginSetUserState(c, u)
  <2>1. PICK t \in User \ {Admin}, to \in {"ACTIVE", "DISABLED"} :
          /\ user[t].status \notin {"absent", to}
          /\ tx' = [tx EXCEPT ![c] = [op |-> "set_user_state", by |-> u, target |-> t,
                                     to |-> to, version |-> user[t].version]]
    BY <1>3, Zenon DEF BeginSetUserState, Open
  <2>2. Knows([op |-> "set_user_state", by |-> u, target |-> t, to |-> to,
               version |-> user[t].version])
    BY <1>1, <2>1 DEF Knows, Command, UserState
  <2>3. QED
    BY <2>1, <2>2
<1>4. CASE BeginCreateRoleBinding(c, u)
  <2>1. PICK t \in User, a \in Assignment :
          /\ user[t].status # "absent"
          /\ ~Taken(t, a)
          /\ tx' = [tx EXCEPT ![c] = [op |-> "create_role_binding", by |-> u, target |-> t,
                                     as |-> a, version |-> user[t].version]]
    BY <1>4, Zenon DEF BeginCreateRoleBinding, Open
  <2>2. Knows([op |-> "create_role_binding", by |-> u, target |-> t, as |-> a,
               version |-> user[t].version])
    BY <1>1, <2>1 DEF Knows, Command
  <2>3. QED
    BY <2>1, <2>2
<1>5. CASE BeginRevokeRoleBinding(c, u)
  <2>1. PICK b \in Bindings :
          tx' = [tx EXCEPT ![c] = [op |-> "revoke_role_binding", by |-> u, binding |-> b]]
    BY <1>5, Zenon DEF BeginRevokeRoleBinding, Open
  <2>2. Knows([op |-> "revoke_role_binding", by |-> u, binding |-> b])
    BY <1>1, <2>1 DEF Knows, Command
  <2>3. QED
    BY <2>1, <2>2
<1>6. CASE BeginCreateProject(c, u)
  <2>1. PICK p \in Project, o \in User :
          tx' = [tx EXCEPT ![c] = [op |-> "create_project", by |-> u, project |-> p, target |-> o]]
    BY <1>6, Zenon DEF BeginCreateProject, Open
  <2>2. Knows([op |-> "create_project", by |-> u, project |-> p, target |-> o])
    BY DEF Knows, Command
  <2>3. QED
    BY <2>1, <2>2
<1>7. CASE BeginTransitionProject(c, u) \/ BeginUpdateProject(c, u)
  <2>1. PICK p \in Project, move \in Transition \cup {<<"ACTIVE", "ACTIVE">>} :
          /\ ProjectAllowed(u, p, "PROJECT_EDIT")
          /\ project[p].status = move[1]
          /\ tx' = [tx EXCEPT ![c] = [op |-> "change_project", by |-> u, project |-> p,
                                     move |-> move, version |-> project[p].version]]
    BY <1>7, Zenon DEF BeginTransitionProject, BeginUpdateProject, BeginMoveProject, Open
  <2> DEFINE t == [op |-> "change_project", by |-> u, project |-> p,
                   move |-> move, version |-> project[p].version]
  <2>2. project[p].status # "absent"
    BY <2>1 DEF Transition
  <2>3. \/ t.by \in member[t.project]
        \/ \E b \in Bindings : binding[b].user = t.by /\ binding[b].role = "SUPER_ADMIN"
    BY <2>1, WhoMayEdit
  <2>4. t \in Command
    BY <1>1, <2>1 DEF Command
  <2>5. t.op = "change_project" /\ project[t.project].status # "absent"
    BY <2>2
  <2> HIDE DEF t
  <2>6. Knows(t)
    BY <2>3, <2>4, <2>5 DEF Knows
  <2>7. QED
    BY <2>1, <2>6 DEF t
<1>8. QED
  BY <1>2, <1>3, <1>4, <1>5, <1>6, <1>7 DEF Begin

\* A command stays as it is, or is over, or has just opened, and then nothing else changes.
LEMMA CommandSteps ==
  ASSUME TypeOK, [Next]_vars, NEW c \in Call
  PROVE /\ tx' \in [Call -> Command]
        /\ \/ tx'[c] = tx[c]
           \/ tx'[c] = NoCommand
           \/ /\ Knows(tx'[c])
              /\ UNCHANGED <<user, binding, member, project, overwritten>>
<1>1. tx \in [Call -> Command] /\ NoCommand \in Command
  BY DEF TypeOK, Command
<1>2. CASE UNCHANGED tx
  BY <1>1, <1>2
<1>3. ASSUME NEW d \in Call, tx' = [tx EXCEPT ![d] = NoCommand]
      PROVE tx' \in [Call -> Command] /\ (tx'[c] = tx[c] \/ tx'[c] = NoCommand)
  BY <1>1, <1>3
<1>4. ASSUME NEW d \in Call, NEW u \in User, Begin(d, u)
      PROVE /\ tx' \in [Call -> Command] /\ (tx'[c] = tx[c] \/ Knows(tx'[c]))
            /\ UNCHANGED <<user, binding, member, project, overwritten>>
  <2>1. PICK t : Knows(t) /\ tx' = [tx EXCEPT ![d] = t]
    BY <1>4, CommandOpens
  <2>2. t \in Command
    BY <2>1 DEF Knows
  <2>3. tx' \in [Call -> Command] /\ (tx'[c] = tx[c] \/ tx'[c] = t)
    BY <1>1, <2>1, <2>2
  <2>4. QED
    BY <1>4, <2>1, <2>3, BeginsChangeNothing
<1>5. \/ UNCHANGED tx
      \/ \E d \in Call : tx' = [tx EXCEPT ![d] = NoCommand]
      \/ \E d \in Call, u \in User : Begin(d, u)
  BY DEF Next, vars, Commit, Close, Refuse, CreateUser, SetUserState, CreateRoleBinding,
      RevokeRoleBinding, CreateProject, ChangeProject
<1>6. QED
  BY <1>2, <1>3, <1>4, <1>5

\* Projects and their members stay of their types, a project goes on existing, and an
\* existing project keeps its members; a project that comes to exist has one.
LEMMA ProjectSteps ==
  ASSUME TypeOK, ChangesEntitled, [Next]_vars
  PROVE /\ project' \in [Project -> [status : ProjectState, version : Nat]]
        /\ member' \in [Project -> SUBSET User]
        /\ \A p \in Project : project[p].status # "absent" =>
             project'[p].status # "absent" /\ member'[p] = member[p]
        /\ \A p \in Project : project'[p].status # "absent" /\ project[p].status = "absent" =>
             member'[p] # {}
<1>1. /\ project \in [Project -> [status : ProjectState, version : Nat]]
      /\ member \in [Project -> SUBSET User]
  BY DEF TypeOK
<1>2. ASSUME NEW c \in Call, CreateProject(c)
      PROVE /\ project' \in [Project -> [status : ProjectState, version : Nat]]
            /\ member' \in [Project -> SUBSET User]
            /\ \A p \in Project : project[p].status # "absent" =>
                 project'[p].status # "absent" /\ member'[p] = member[p]
            /\ \A p \in Project : project'[p].status # "absent" /\ project[p].status = "absent" =>
                 member'[p] # {}
  <2> DEFINE p == tx[c].project
             row == [status |-> "ACTIVE", version |-> 3]
  <2>1. /\ p \in Project /\ tx[c].target \in User /\ project[p].status = "absent"
        /\ project' = [project EXCEPT ![p] = row] /\ member' = [member EXCEPT ![p] = {tx[c].target}]
    BY <1>2, CommandFields DEF CreateProject
  <2>2. row \in [status : ProjectState, version : Nat] /\ row.status # "absent"
    BY DEF ProjectState
  <2> HIDE DEF row, p
  <2>3. QED
    BY <1>1, <2>1, <2>2
<1>3. ASSUME NEW c \in Call, ChangeProject(c)
      PROVE /\ project' \in [Project -> [status : ProjectState, version : Nat]]
            /\ member' = member
            /\ tx[c].op = "change_project" /\ project'[tx[c].project].status # "absent"
            /\ \A p \in Project \ {tx[c].project} : project'[p] = project[p]
  <2> DEFINE p == tx[c].project
             row == [status  |-> tx[c].move[2],
                     version |-> tx[c].version + IF tx[c].move = <<"DISABLED", "ACTIVE">> THEN 2 ELSE 1]
  <2>1. /\ p \in Project /\ tx[c].version \in Nat
        /\ tx[c].move[2] \in {"ACTIVE", "DISABLED", "ARCHIVED"}
        /\ tx[c].op = "change_project" /\ project' = [project EXCEPT ![p] = row] /\ member' = member
    BY <1>3, CommandFields DEF ChangeProject
  <2>2. row \in [status : ProjectState, version : Nat] /\ row.status # "absent"
    BY <2>1 DEF ProjectState
  <2> HIDE DEF row
  <2>3. QED
    BY <1>1, <2>1, <2>2
<1>4. CASE UNCHANGED <<project, member>>
  BY <1>1, <1>4
<1>5. UNCHANGED <<project, member>> \/ \E c \in Call : CreateProject(c) \/ ChangeProject(c)
  BY BeginsChangeNothing
  DEF Next, vars, Commit, Refuse, CreateUser, SetUserState, CreateRoleBinding, RevokeRoleBinding
<1>6. QED
  BY <1>1, <1>2, <1>3, <1>4, <1>5 DEF ChangesEntitled

-----------------------------------------------------------------------------
(* AccessControl: the parts of the inductive invariant are kept *)

\* The types are kept, and what commands know of bindings and of users.
LEMMA AccessTypesKept ==
  ASSUME TypeOK, RevokesKnown, TargetsKnown, ChangesEntitled, [Next]_vars
  PROVE TypeOK' /\ RevokesKnown' /\ TargetsKnown'
<1>1. tx' \in [Call -> Command]
  <2>1. CASE Call = {}
    BY <2>1 DEF TypeOK, Next, vars
  <2>2. CASE Call # {}
    BY <2>2, CommandSteps
  <2>3. QED
    BY <2>1, <2>2
<1>2. overwritten' \subseteq User
  <2>1. ASSUME NEW c \in Call, SetUserState(c) \/ CreateRoleBinding(c)
        PROVE overwritten' \subseteq User
    BY <2>1, CommandFields DEF TypeOK, SetUserState, CreateRoleBinding, Overwrites
  <2>2. \/ UNCHANGED overwritten
        \/ \E c \in Call : SetUserState(c) \/ CreateRoleBinding(c)
    BY BeginsChangeNothing
    DEF Next, vars, Commit, Refuse, CreateUser, RevokeRoleBinding, CreateProject, ChangeProject
  <2>3. QED
    BY <2>1, <2>2 DEF TypeOK
<1>3. TypeOK'
  BY <1>1, <1>2, BindingSteps, UserSteps, ProjectSteps DEF TypeOK
<1>4. ASSUME NEW c \in Call, tx'[c].op = "revoke_role_binding"
      PROVE tx'[c].binding \in Bindings'
  <2>1. Bindings \subseteq Bindings'
    BY BindingSteps
  <2>2. tx'[c].binding \in Bindings
    BY <1>4, CommandSteps DEF RevokesKnown, Knows, NoCommand
  <2>3. QED
    BY <2>1, <2>2
<1>5. ASSUME NEW c \in Call, tx'[c].op \in {"set_user_state", "create_role_binding"}
      PROVE user'[tx'[c].target].status # "absent"
  <2>1. tx'[c].target \in User
    BY <1>1, <1>5 DEF Command, NoCommand
  <2>2. user[tx'[c].target].status # "absent"
    BY <1>5, CommandSteps DEF TargetsKnown, Knows, NoCommand
  <2>3. QED
    BY <2>1, <2>2, UserSteps
<1>6. QED
  BY <1>3, <1>4, <1>5 DEF RevokesKnown, TargetsKnown

\* A step makes a user's row newer, or leaves its version and gives the user no binding -
\* unless a command of the user's own writes over a newer row.
LEMMA RowSteps ==
  ASSUME TypeOK, RevokesKnown, TargetsKnown, [Next]_vars,
         NEW u \in User, u \notin overwritten', user[u].status # "absent"
  PROVE /\ u \notin overwritten
        /\ \/ user'[u].version > user[u].version
           \/ user'[u].version = user[u].version /\ EffectiveOf(u)' \subseteq EffectiveOf(u)
<1>1. user[u].version \in Nat
  BY DEF TypeOK
<1>2. ASSUME NEW c \in Call, SetUserState(c) \/ CreateRoleBinding(c), tx[c].target = u
      PROVE u \notin overwritten /\ user'[u].version > user[u].version
  <2>1. /\ u \notin overwritten /\ u \notin Overwrites(c)
        /\ SeenVersion(c, user[u].version) = tx[c].version
        /\ user'[u].version = tx[c].version + 1
    BY <1>2 DEF SetUserState, CreateRoleBinding, TypeOK
  <2>2. tx[c].version = user[u].version
    BY <1>2, <2>1 DEF SeenVersion, Overwrites
  <2>3. QED
    BY <1>1, <2>1, <2>2
<1>3. ASSUME NEW c \in Call, SetUserState(c), tx[c].target # u
      PROVE /\ u \notin overwritten /\ user'[u] = user[u]
            /\ EffectiveOf(u)' \subseteq EffectiveOf(u)
  BY <1>3 DEF SetUserState, TypeOK, EffectiveOf, Bindings
<1>4. ASSUME NEW c \in Call, CreateUser(c) \/ CreateRoleBinding(c), tx[c].target # u
      PROVE /\ u \notin overwritten /\ user'[u] = user[u]
            /\ EffectiveOf(u)' \subseteq EffectiveOf(u)
  <2>1. /\ u \notin overwritten /\ user'[u] = user[u] /\ binding' = Assigned(c)
        /\ tx[c].by \in User /\ tx[c].target \in User /\ tx[c].as \in Assignment
    BY <1>4, CommandFields DEF CreateUser, CreateRoleBinding, TypeOK
  <2>2. /\ Bindings' = Bindings \cup {Len(binding) + 1}
        /\ \A b \in Bindings : binding'[b] = binding[b]
        /\ binding'[Len(binding) + 1].user # u
    BY <1>4, <2>1, BindingMade
  <2>3. QED
    BY <2>1, <2>2 DEF EffectiveOf
<1>5. ASSUME NEW c \in Call, CreateUser(c)
      PROVE tx[c].target # u
  BY <1>5 DEF CreateUser
<1>6. ASSUME NEW c \in Call, RevokeRoleBinding(c)
      PROVE /\ u \notin overwritten /\ user'[u] = user[u]
            /\ EffectiveOf(u)' \subseteq EffectiveOf(u)
  <2>1. /\ tx[c].binding \in Bindings /\ binding' = [binding EXCEPT ![tx[c].binding].ended = TRUE]
        /\ u \notin overwritten /\ user' = user
    BY <1>6 DEF RevokeRoleBinding, RevokesKnown
  <2>2. Bindings' = Bindings
    BY <2>1, BindingEnded
  <2>3. \A b \in Bindings : /\ binding'[b].user = binding[b].user
                            /\ ~binding'[b].ended => ~binding[b].ended
    BY <2>1, BindingEnded
  <2>4. QED
    BY <2>1, <2>2, <2>3 DEF EffectiveOf
<1>7. CASE UNCHANGED <<user, binding, overwritten>>
  BY <1>7 DEF EffectiveOf, Bindings
<1>8. \/ UNCHANGED <<user, binding, overwritten>>
      \/ \E c \in Call : \/ CreateUser(c) \/ SetUserState(c)
                         \/ CreateRoleBinding(c) \/ RevokeRoleBinding(c)
  BY BeginsChangeNothing DEF Next, vars, Commit, Refuse, CreateProject, ChangeProject
<1>9. QED
  BY <1>2, <1>3, <1>4, <1>5, <1>6, <1>7, <1>8

\* A binding that is in effect was in effect, or was just made.
LEMMA TakenSteps ==
  ASSUME TypeOK, RevokesKnown, [Next]_vars, NEW u \in User, NEW a,
         EffectiveOf(u)' \subseteq EffectiveOf(u), Taken(u, a)'
  PROVE Taken(u, a)
<1>1. PICK b \in EffectiveOf(u)' : binding'[b].role = a.role /\ binding'[b].project = a.project
  BY DEF Taken
<1>2. b \in EffectiveOf(u) /\ b \in Bindings
  BY <1>1 DEF EffectiveOf
<1>3. QED
  BY <1>1, <1>2, BindingSteps DEF Taken

\* What a pending binding command has read goes on saying whether the binding is there.
LEMMA PendingBindingsKept ==
  ASSUME TypeOK, RevokesKnown, TargetsKnown, PendingBindings, [Next]_vars
  PROVE PendingBindings'
<1> SUFFICES ASSUME NEW c \in Call, tx'[c].op = "create_role_binding",
                    NEW u, u = tx'[c].target, u \notin overwritten',
                    NEW a, a = tx'[c].as, NEW v, v = tx'[c].version
             PROVE v <= user'[u].version /\ (v = user'[u].version => ~Taken(u, a)')
  BY DEF PendingBindings, Taken, EffectiveOf, Bindings
<1>1. tx'[c] # NoCommand
  BY DEF NoCommand
<1>2. CASE tx'[c] = tx[c]
  <2>1. u \in User /\ v \in Nat /\ user[u].status # "absent"
    BY <1>2, CommandFields DEF TargetsKnown
  <2>2. user[u].version \in Nat /\ user'[u].version \in Nat
    BY <2>1, UserSteps DEF TypeOK
  <2>3. /\ u \notin overwritten
        /\ \/ user'[u].version > user[u].version
           \/ user'[u].version = user[u].version /\ EffectiveOf(u)' \subseteq EffectiveOf(u)
    BY <2>1, RowSteps
  <2>4. v <= user[u].version /\ (v = user[u].version => ~Taken(u, a))
    BY <1>2, <2>3 DEF PendingBindings
  <2>5. CASE user'[u].version > user[u].version
    BY <2>1, <2>2, <2>4, <2>5
  <2>6. CASE /\ user'[u].version = user[u].version
             /\ EffectiveOf(u)' \subseteq EffectiveOf(u)
    BY <2>1, <2>4, <2>6, TakenSteps
  <2>7. QED
    BY <2>3, <2>5, <2>6
<1>3. CASE Knows(tx'[c]) /\ UNCHANGED <<user, binding, member, project, overwritten>>
  <2>1. u \in User /\ user \in [User -> [status : UserState, version : Nat]]
    BY <1>3 DEF Knows, Command, TypeOK, NoCommand
  <2>2. v = user[u].version /\ ~Taken(u, a)
    BY <1>3 DEF Knows
  <2>3. Taken(u, a)' <=> Taken(u, a)
    BY <1>3 DEF Taken, EffectiveOf, Bindings
  <2>4. QED
    BY <1>3, <2>1, <2>2, <2>3
<1>4. QED
  BY <1>1, <1>2, <1>3, CommandSteps

\* No user gets a second binding of a role in a scope.
LEMMA OneBindingKept ==
  ASSUME TypeOK, RevokesKnown, TargetsKnown, BoundUsersKnown, PendingBindings,
         OneEffectiveBinding, [Next]_vars
  PROVE BoundUsersKnown' /\ OneEffectiveBinding'
<1>1. overwritten \subseteq overwritten'
  BY BeginsChangeNothing
  DEF Next, vars, Commit, Refuse, CreateUser, SetUserState, CreateRoleBinding,
      RevokeRoleBinding, CreateProject, ChangeProject
<1>2. /\ Bindings \subseteq Bindings' /\ \A b \in Bindings : binding[b].user \in User
      /\ \A b \in Bindings : /\ binding'[b].user = binding[b].user
                             /\ binding'[b].role = binding[b].role
                             /\ binding'[b].project = binding[b].project
                             /\ ~binding'[b].ended => ~binding[b].ended
  <2>1. \A b \in Bindings : binding[b].user \in User
    <3>1. binding \in Seq(BindingRow)
      BY DEF TypeOK
    <3>2. \A b \in Bindings : binding[b] \in BindingRow
      BY <3>1, LenProperties, ElementOfSeq DEF Bindings
    <3>3. QED
      BY <3>2 DEF BindingRow
  <2>2. QED
    BY <2>1, BindingSteps
<1>3. \A u \in User : user[u].status # "absent" => user'[u].status # "absent"
  BY UserSteps
<1>4. ASSUME Bindings' = Bindings
      PROVE BoundUsersKnown' /\ OneEffectiveBinding'
  <2>1. BoundUsersKnown'
    BY <1>2, <1>3, <1>4 DEF BoundUsersKnown
  <2>2. OneEffectiveBinding'
    BY <1>1, <1>2, <1>4 DEF OneEffectiveBinding
  <2>3. QED
    BY <2>1, <2>2
<1>5. ASSUME NEW d \in Call, CreateUser(d) \/ CreateRoleBinding(d)
      PROVE BoundUsersKnown' /\ OneEffectiveBinding'
  <2> DEFINE t == tx[d]
             new == Len(binding) + 1
  <2>1. t.by \in User /\ t.target \in User /\ t.as \in Assignment /\ binding' = Assigned(d)
    BY <1>5, CommandFields DEF CreateUser, CreateRoleBinding
  <2>2. /\ new \notin Bindings /\ Bindings' = Bindings \cup {new}
        /\ \A b \in Bindings : b < new
        /\ binding'[new].user = t.target /\ binding'[new].role = t.as.role
        /\ binding'[new].project = t.as.project
    BY <2>1, BindingMade
  <2>3. user'[t.target].status # "absent"
    BY <1>3, <1>5, <2>1 DEF CreateUser, CreateRoleBinding, TargetsKnown, TypeOK
  <2>4. BoundUsersKnown'
    BY <1>2, <1>3, <2>2, <2>3 DEF BoundUsersKnown
  <2>5. ASSUME NEW b \in Bindings, ~binding'[b].ended, binding'[b].user = t.target,
               binding'[b].role = t.as.role, binding'[b].project = t.as.project,
               t.target \notin overwritten'
        PROVE FALSE
    <3>1. Taken(t.target, t.as) /\ user[t.target].status # "absent"
      BY <1>2, <2>5 DEF Taken, EffectiveOf, BoundUsersKnown
    <3>2. CreateRoleBinding(d) /\ t.op = "create_role_binding"
      BY <1>5, <3>1 DEF CreateUser, CreateRoleBinding
    <3>3. t.version = user[t.target].version
      BY <2>1, <2>5, <3>2 DEF CreateRoleBinding, SeenVersion, Overwrites
    <3>4. t.target \notin overwritten
      BY <1>1, <2>5
    <3>5. QED
      BY <3>1, <3>2, <3>3, <3>4 DEF PendingBindings
  <2> HIDE DEF t, new
  <2>6. ASSUME NEW b \in Bindings', NEW e \in Bindings', b < e,
               ~binding'[b].ended, ~binding'[e].ended,
               binding'[b].user = binding'[e].user, binding'[b].role = binding'[e].role,
               binding'[b].project = binding'[e].project
        PROVE binding'[e].user \in overwritten'
    <3>1. CASE b \in Bindings /\ e \in Bindings
      BY <1>1, <1>2, <2>6, <3>1 DEF OneEffectiveBinding
    <3>2. CASE b \in Bindings /\ e = new
      BY <2>2, <2>5, <2>6, <3>2
    <3>3. CASE b = new
      <4>1. new \in Nat /\ \A k \in Bindings : k \in Nat
        BY LenProperties DEF new, TypeOK, Bindings
      <4>2. QED
        BY <2>2, <2>6, <3>3, <4>1
    <3>4. QED
      BY <2>2, <2>6, <3>1, <3>2, <3>3
  <2>7. QED
    BY <2>4, <2>6 DEF OneEffectiveBinding
<1>6. ASSUME NEW d \in Call, RevokeRoleBinding(d)
      PROVE Bindings' = Bindings
  <2>1. tx[d].binding \in Bindings /\ binding' = [binding EXCEPT ![tx[d].binding].ended = TRUE]
    BY <1>6 DEF RevokeRoleBinding, RevokesKnown
  <2>2. QED
    BY <2>1, BindingEnded
<1>7. \/ UNCHANGED binding
      \/ \E c \in Call : CreateUser(c) \/ CreateRoleBinding(c) \/ RevokeRoleBinding(c)
  BY BeginsChangeNothing
  DEF Next, vars, Commit, Refuse, SetUserState, CreateProject, ChangeProject
<1>8. QED
  BY <1>4, <1>5, <1>6, <1>7 DEF Bindings

\* Projects keep an owner, and commands on them what let them in.
LEMMA ProjectsKept ==
  ASSUME TypeOK, RevokesKnown, TargetsKnown, ProjectsOwned, ChangesEntitled, [Next]_vars
  PROVE ProjectsOwned' /\ ChangesEntitled'
<1>1. ProjectsOwned'
  BY ProjectSteps DEF ProjectsOwned
<1>2. ASSUME NEW c \in Call, tx'[c].op = "change_project"
      PROVE /\ project'[tx'[c].project].status # "absent"
            /\ \/ tx'[c].by \in member'[tx'[c].project]
               \/ \E b \in Bindings' :
                    binding'[b].user = tx'[c].by /\ binding'[b].role = "SUPER_ADMIN"
  <2> DEFINE t == tx'[c]
  <2>1. /\ project[t.project].status # "absent" /\ t.project \in Project
        /\ \/ t.by \in member[t.project]
           \/ \E b \in Bindings : binding[b].user = t.by /\ binding[b].role = "SUPER_ADMIN"
    BY <1>2, CommandSteps DEF ChangesEntitled, Knows, NoCommand, Command
  <2> HIDE DEF t
  <2>2. project'[t.project].status # "absent" /\ member'[t.project] = member[t.project]
    BY <2>1, ProjectSteps
  <2>3. (\E b \in Bindings : binding[b].user = t.by /\ binding[b].role = "SUPER_ADMIN")
        => \E b \in Bindings' : binding'[b].user = t.by /\ binding'[b].role = "SUPER_ADMIN"
    BY BindingSteps
  <2>4. QED
    BY <2>1, <2>2, <2>3 DEF t
<1>3. QED
  BY <1>1, <1>2 DEF ChangesEntitled

-----------------------------------------------------------------------------
(* AccessControl: the evaluations of the matrix *)

\* Every role of the matrix may view a project, so no binding denies it.
LEMMA EveryRoleViews ==
  ASSUME TypeOK, NEW b \in Bindings
  PROVE Allowed(binding[b].role, "PROJECT_VIEW")
<1>1. binding \in Seq(BindingRow)
  BY DEF TypeOK
<1>2. binding[b] \in BindingRow
  BY <1>1, LenProperties, ElementOfSeq DEF Bindings
<1>3. QED
  BY <1>2 DEF BindingRow, Role, Allowed

\* The single read of a project and the list of projects agree, and authorize_access opens
\* no project that they hide.
LEMMA ViewsAgree ==
  ASSUME TypeOK, NEW u \in User, NEW p \in Project
  PROVE /\ ProjectAllowed(u, p, "PROJECT_VIEW") <=> p \in VisibleProjects(u, "PROJECT_VIEW")
        /\ IsOwner(u, p) => ProjectAllowed(u, p, "PROJECT_VIEW")
        /\ AccessAllowed(u, p, "PROJECT_VIEW") => ProjectAllowed(u, p, "PROJECT_VIEW")
<1> DEFINE own    == EffectiveOf(u)
           global == {b \in own : binding[b].role = "SUPER_ADMIN"}
           bears(b) == /\ Grants(b, p, "PROJECT_VIEW")
                       /\ binding[b].project \in {None, p}
                       /\ \/ binding[b].role = "PLATFORM_ADMIN"
                          \/ HasDuty(u, p, binding[b].role)
<1>1. \A b \in own : Allowed(binding[b].role, "PROJECT_VIEW")
  BY EveryRoleViews DEF EffectiveOf
<1>2. Allowed("OWNER_DUTY", "PROJECT_VIEW")
  BY DEF Allowed
<1>3. ProjectAllowed(u, p, "PROJECT_VIEW")
        <=> IsOwner(u, p) \/ global # {} \/ \E b \in own : bears(b)
  BY <1>1, <1>2 DEF ProjectAllowed, NoneDenies, SomeAllows, AppliesTo
<1>4. p \in VisibleProjects(u, "PROJECT_VIEW")
        <=> IsOwner(u, p) \/ global # {} \/ \E b \in own : bears(b)
  <2>1. CASE global # {}
    BY <1>1, <2>1 DEF VisibleProjects
  <2>2. CASE global = {}
    <3>1. {b \in own : Allowed(binding[b].role, "PROJECT_VIEW")} = own
      BY <1>1
    <3>2. QED
      BY <1>2, <2>2, <3>1 DEF VisibleProjects
  <2>3. QED
    BY <2>1, <2>2
<1>5. AccessAllowed(u, p, "PROJECT_VIEW")
        => global # {} \/ \E b \in own : bears(b)
  BY DEF AccessAllowed
<1>6. QED
  BY <1>3, <1>4, <1>5

-----------------------------------------------------------------------------
(* AccessControl: the theorems *)

AccessInv ==
  /\ TypeOK
  /\ RevokesKnown
  /\ BoundUsersKnown
  /\ TargetsKnown
  /\ PendingBindings
  /\ OneEffectiveBinding
  /\ ProjectsOwned
  /\ ChangesEntitled

\* The platform starts with its administrator alone bound to a role.
LEMMA AccessInvInit == Init => AccessInv
<1> SUFFICES ASSUME Init PROVE AccessInv
  OBVIOUS
<1> DEFINE row == [user |-> Admin, role |-> "SUPER_ADMIN", project |-> None,
                   grants |-> {[scope |-> None, permission |-> AnyPermission]},
                   ended |-> FALSE, by |-> Admin]
<1>1. /\ user \in [User -> [status : UserState, version : Nat]]
      /\ user[Admin].status = "ACTIVE"
  BY AccessAssumption DEF Init, UserState
<1>2. row \in BindingRow
  BY AccessAssumption DEF BindingRow, Role, Grant
<1>3. binding = <<row>> /\ binding \in Seq(BindingRow) /\ Bindings = {1} /\ binding[1].user = Admin
  BY <1>2 DEF Init, Bindings
<1>4. \A c \in Call : tx[c] = NoCommand
  BY DEF Init
<1>5. TypeOK
  BY <1>1, <1>3 DEF Init, TypeOK, Command, ProjectState
<1>6. OneEffectiveBinding /\ BoundUsersKnown
  BY <1>1, <1>3 DEF OneEffectiveBinding, BoundUsersKnown
<1>7. ProjectsOwned
  BY DEF Init, ProjectsOwned
<1>8. QED
  BY <1>4, <1>5, <1>6, <1>7
  DEF AccessInv, RevokesKnown, TargetsKnown, PendingBindings, ChangesEntitled, NoCommand

\* Every step keeps it.
LEMMA AccessInvStep == AccessInv /\ [Next]_vars => AccessInv'
<1> SUFFICES ASSUME AccessInv, [Next]_vars PROVE AccessInv'
  OBVIOUS
<1>1. TypeOK' /\ RevokesKnown' /\ TargetsKnown'
  BY AccessTypesKept DEF AccessInv
<1>2. PendingBindings'
  BY PendingBindingsKept DEF AccessInv
<1>3. BoundUsersKnown' /\ OneEffectiveBinding'
  BY OneBindingKept DEF AccessInv
<1>4. ProjectsOwned' /\ ChangesEntitled'
  BY ProjectsKept DEF AccessInv
<1>5. QED
  BY <1>1, <1>2, <1>3, <1>4 DEF AccessInv

\* The inductive invariant holds.
THEOREM AccessInvariant == Spec => []AccessInv
BY AccessInvInit, AccessInvStep, PTL DEF Spec

\* Users, bindings, members, projects and commands stay of their types.
THEOREM AccessTypes == Spec => []TypeOK
<1>1. AccessInv => TypeOK
  BY DEF AccessInv
<1>2. QED
  BY <1>1, AccessInvariant, PTL

\* Whatever roles, grants and duties a user collects, the list of projects and the single
\* read of one agree, and authorize_access opens none that they hide.
THEOREM ListsAgree == Spec => []ListAgreesWithGet
<1>1. TypeOK => ListAgreesWithGet
  BY ViewsAgree DEF ListAgreesWithGet
<1>2. QED
  BY <1>1, AccessTypes, PTL

\* A project that exists has an owner who sees it, whatever else was bound to them.
THEOREM OwnersKeepSight == Spec => []OwnerKeepsSight
<1>1. AccessInv => OwnerKeepsSight
  <2> SUFFICES ASSUME AccessInv, NEW p \in Project, project[p].status # "absent"
               PROVE \E u \in member[p] : /\ p \in VisibleProjects(u, "PROJECT_VIEW")
                                         /\ ProjectAllowed(u, p, "PROJECT_VIEW")
    BY DEF OwnerKeepsSight
  <2>1. TypeOK /\ member[p] # {}
    BY DEF AccessInv, ProjectsOwned
  <2>2. PICK u \in member[p] : u \in User
    BY <2>1 DEF TypeOK
  <2>3. QED
    BY <2>1, <2>2, ViewsAgree DEF IsOwner
<1>2. QED
  BY <1>1, AccessInvariant, PTL

\* However commands overlap, a role is bound to a user once at a time in a scope, as long as
\* no command of the user's own has written over a newer row of theirs.
THEOREM BindingsAreUnique == Spec => []OneEffectiveBinding
<1>1. AccessInv => OneEffectiveBinding
  BY DEF AccessInv
<1>2. QED
  BY <1>1, AccessInvariant, PTL

\* A project is changed by its owner or a super administrator only.
THEOREM ChangesNeedDuty == Spec => ChangedByDuty
<1>1. ASSUME AccessInv, [Next]_vars, NEW p \in Project,
             project[p].status # "absent", project'[p] # project[p]
      PROVE \E c \in Call :
              /\ tx[c].op = "change_project" /\ tx[c].project = p
              /\ \/ tx[c].by \in member[p]
                 \/ \E b \in Bindings :
                      binding[b].user = tx[c].by /\ binding[b].role = "SUPER_ADMIN"
  <2>1. \/ UNCHANGED project
        \/ \E c \in Call : CreateProject(c)
        \/ \E c \in Call : ChangeProject(c)
    BY <1>1, BeginsChangeNothing
    DEF Next, vars, Commit, Refuse, CreateUser, SetUserState, CreateRoleBinding,
        RevokeRoleBinding
  <2>2. ASSUME NEW c \in Call, CreateProject(c)
        PROVE FALSE
    BY <1>1, <2>2 DEF CreateProject, AccessInv, TypeOK
  <2>3. ASSUME NEW c \in Call, ChangeProject(c)
        PROVE tx[c].op = "change_project" /\ tx[c].project = p
    BY <1>1, <2>3 DEF ChangeProject, AccessInv, TypeOK
  <2>4. QED
    BY <1>1, <2>1, <2>2, <2>3 DEF AccessInv, ChangesEntitled
<1>2. AccessInv /\ [Next]_vars =>
        [\A p \in Project :
          (project[p].status # "absent" /\ project'[p] # project[p]) =>
            \E c \in Call :
              /\ tx[c].op = "change_project" /\ tx[c].project = p
              /\ \/ tx[c].by \in member[p]
                 \/ \E b \in Bindings :
                      binding[b].user = tx[c].by /\ binding[b].role = "SUPER_ADMIN"]_vars
  BY <1>1
<1>3. QED
  BY <1>2, AccessInvariant, PTL DEF Spec, ChangedByDuty

-----------------------------------------------------------------------------
(* WebConsole: the inductive invariant *)

\* The call makes a store idle that it finds as in k.
Frees(k, c) == c.op # "side" /\ (IF c.op = "reload" THEN c.fresh ELSE Accepts(k, c))

\* Calls of the session are of its operations, and the others of a store in use.
CallsOfStores(all, used) ==
  \A c \in DOMAIN all :
    /\ all[c].store = "session" \/ all[c].store \in used
    /\ all[c].op \in {"login", "logout", "password", "me"} => all[c].store = "session"
    /\ all[c].op \in {"default", "reload"} => all[c].store = "models"

\* A store shows no newer read than the last it began.
ReadsBegun(kept) ==
  \A s \in DOMAIN kept \cap Guarded :
    kept[s].listed <= kept[s].lists /\ kept[s].detailed <= kept[s].details

\* A call that a guarded store may still take the answer of carries the token of user u.
FreshCallsOf(all, u) ==
  \A c \in DOMAIN all :
    all[c].store \in Guarded /\ all[c].phase # "done" /\ all[c].fresh => all[c].user = u

\* The guarded stores show the data of user u.
DataOf(kept, u) ==
  \A s \in DOMAIN kept \cap Guarded :
    /\ kept[s].items \cup kept[s].results \subseteq {u} \ {Nobody}
    /\ kept[s].current \in {u, Nobody}

\* A busy store waits for a call that makes it idle.
BusyEnds(kept, all) ==
  \A s \in DOMAIN kept :
    kept[s].busy => \E c \in DOMAIN all :
                      all[c].store = s /\ all[c].phase # "done" /\ Frees(kept[s], all[c])

RefreshEnds == refreshing <=> restoring \/ Waiting # {}

ConsoleInv ==
  /\ ConsoleTypeOK
  /\ CallsOfStores(calls, Used)
  /\ ReadsBegun(cache)
  /\ ~strayed => me = token /\ FreshCallsOf(calls, token) /\ DataOf(cache, token)
  /\ BusyEnds(cache, calls)
  /\ RefreshEnds

\* The reads shown are those of before, newer ones, or none.
NotOlder(new, old) ==
  \A s \in DOMAIN old \cap Guarded :
    /\ new[s].listed = 0 \/ new[s].listed >= old[s].listed
    /\ new[s].detailed = 0 \/ new[s].detailed >= old[s].detailed

\* What the finally block does.
LEMMA IdleIsFreed ==
  ASSUME NEW k \in Cache, NEW c \in CallRow
  PROVE /\ Idle(k, c) = [k EXCEPT !.busy = k.busy /\ ~Frees(k, c)]
        /\ Idle(k, c) \in Cache
        /\ Idle([k EXCEPT !.busy = TRUE], c).busy <=> ~Frees(k, c)
<1>1. k.busy \in BOOLEAN /\ Frees(k, c) \in BOOLEAN
  BY DEF Cache, Frees
<1>2. [k EXCEPT !.busy = TRUE].lists = k.lists /\ [k EXCEPT !.busy = TRUE].details = k.details
  BY DEF Cache
<1>3. Accepts([k EXCEPT !.busy = TRUE], c) <=> Accepts(k, c)
  BY <1>2 DEF Accepts
<1>4. Idle(k, c) = [k EXCEPT !.busy = k.busy /\ ~Frees(k, c)]
  <2> DEFINE busy == CASE c.op = "side" -> k.busy
                       [] c.op = "reload" -> k.busy /\ ~c.fresh
                       [] OTHER -> k.busy /\ ~Accepts(k, c)
  <2>1. CASE c.op = "side"
    <3>1. busy = k.busy /\ (k.busy <=> k.busy /\ ~Frees(k, c))
      BY <2>1 DEF Frees
    <3>2. QED
      BY <1>1, <3>1, Zenon DEF Idle
  <2>2. CASE c.op = "reload"
    <3>1. busy = (k.busy /\ ~c.fresh) /\ (k.busy /\ ~c.fresh <=> k.busy /\ ~Frees(k, c))
      BY <2>2 DEF Frees
    <3>2. QED
      BY <1>1, <3>1, Zenon DEF Idle
  <2>3. CASE c.op # "side" /\ c.op # "reload"
    <3>1. /\ busy = (k.busy /\ ~Accepts(k, c))
          /\ k.busy /\ ~Accepts(k, c) <=> k.busy /\ ~Frees(k, c)
      BY <2>3 DEF Frees
    <3>2. QED
      BY <1>1, <3>1, Zenon DEF Idle
  <2>4. QED
    BY <2>1, <2>2, <2>3
<1>5. \A b \in BOOLEAN : [k EXCEPT !.busy = b] \in Cache
  BY DEF Cache
<1>6. QED
  BY <1>1, <1>3, <1>4, <1>5 DEF Idle, Frees, Cache

\* A row that keeps its ids and takes its data from the row k, or from an answer for user u.
Follows(row, k, c, u) ==
  /\ row \in Cache /\ row.lists = k.lists /\ row.details = k.details
  /\ row.items \cup row.results \subseteq k.items \cup k.results \cup {u}
  /\ row.current \in {k.current, u, Nobody}
  /\ \/ row.listed \in {k.listed, 0}
     \/ c.op \in {"list", "reload"} /\ row.listed = c.req
  /\ \/ row.detailed \in {k.detailed, 0}
     \/ c.op = "detail" /\ row.detailed = c.req

Takes(row, k, c, u) == row.busy = k.busy /\ Follows(row, k, c, u)

\* The row k with other data.
Row(k, items, results, current, listed, detailed) ==
  [k EXCEPT !.items = items, !.results = results, !.current = current,
            !.listed = listed, !.detailed = detailed]

LEMMA RowFields ==
  ASSUME NEW k \in Cache, NEW i \in SUBSET Person, NEW r \in SUBSET Person, NEW o \in Someone,
         NEW l \in Nat, NEW d \in Nat,
         NEW row, row = Row(k, i, r, o, l, d)
  PROVE /\ row \in Cache
        /\ row.items = i /\ row.results = r /\ row.current = o
        /\ row.listed = l /\ row.detailed = d
        /\ row.lists = k.lists /\ row.details = k.details /\ row.busy = k.busy
BY Zenon DEF Cache, Row

LEMMA RowFollows ==
  ASSUME NEW k \in Cache, NEW c \in CallRow, NEW u \in Someone,
         NEW i \in SUBSET Person, NEW r \in SUBSET Person, NEW o \in Someone,
         NEW l \in Nat, NEW d \in Nat,
         i \cup r \subseteq k.items \cup k.results \cup {u},
         o \in {k.current, u, Nobody},
         l \in {k.listed, 0} \/ (c.op \in {"list", "reload"} /\ l = c.req),
         d \in {k.detailed, 0} \/ (c.op = "detail" /\ d = c.req),
         NEW row, row = Row(k, i, r, o, l, d)
  PROVE Takes(row, k, c, u)
<1>1. /\ row \in Cache
      /\ row.items = i /\ row.results = r /\ row.current = o
      /\ row.listed = l /\ row.detailed = d
      /\ row.lists = k.lists /\ row.details = k.details /\ row.busy = k.busy
  BY RowFields
<1>2. QED
  BY <1>1 DEF Follows, Takes

LEMMA RowTypes ==
  ASSUME NEW k \in Cache, NEW c \in CallRow
  PROVE /\ k.items \in SUBSET Person /\ k.results \in SUBSET Person /\ k.current \in Someone
        /\ k.listed \in Nat /\ k.detailed \in Nat /\ k.lists \in Nat /\ k.details \in Nat
        /\ k.busy \in BOOLEAN /\ c.req \in Nat /\ c.fresh \in BOOLEAN /\ Nobody \in Someone
BY DEF Cache, CallRow, Someone

\* What the stores do with answers and errors is that.
LEMMA ShownFollows ==
  ASSUME NEW k \in Cache, NEW c \in CallRow, NEW u \in Person, NEW s \in Store,
         NEW row \in Shown(s, k, c, u)
  PROVE Takes(row, k, c, u)
<1> USE RowTypes
<1>u. u \in Someone /\ {u} \in SUBSET Person /\ {} \in SUBSET Person
  BY DEF Someone
<1>r. ASSUME row \in RowShown(k, u)
      PROVE Takes(row, k, c, u)
  <2>1. PICK i \in {k.items, k.items \cup {u}} : row = [k EXCEPT !.items = i, !.current = u]
    BY <1>r DEF RowShown
  <2>2. row = Row(k, i, k.results, u, k.listed, k.detailed)
    BY <2>1 DEF Row, Cache
  <2>3. i \in SUBSET Person /\ i \cup k.results \subseteq k.items \cup k.results \cup {u}
    BY <2>1
  <2>4. QED
    BY <1>u, <2>2, <2>3, RowFollows
<1>b. ASSUME row \in BesideShown(k, u)
      PROVE Takes(row, k, c, u)
  <2>1. row = Row(k, k.items, k.results \cup {u}, k.current, k.listed, k.detailed)
    BY <1>b DEF BesideShown, Row, Cache
  <2>2. QED
    BY <1>u, <2>1, RowFollows
<1>l. ASSUME row = [k EXCEPT !.items = {u}]
      PROVE Takes(row, k, c, u)
  <2>1. row = Row(k, {u}, k.results, k.current, k.listed, k.detailed)
    BY <1>l DEF Row, Cache
  <2>2. QED
    BY <1>u, <2>1, RowFollows
<1>a. ASSUME row = [k EXCEPT !.items = k.items \cup {u}, !.current = u]
      PROVE Takes(row, k, c, u)
  <2>1. row = Row(k, k.items \cup {u}, k.results, u, k.listed, k.detailed)
    BY <1>a DEF Row, Cache
  <2>2. QED
    BY <1>u, <2>1, RowFollows
<1>1. CASE s = "projects"
  <2>0. row \in ProjectsShown(k, c, u)
    BY <1>1 DEF Shown
  <2>1. CASE c.op = "list"
    <3>1. row = [k EXCEPT !.items = {u}, !.listed = c.req]
      BY <2>0, <2>1 DEF ProjectsShown
    <3>2. row = Row(k, {u}, k.results, k.current, c.req, k.detailed)
      BY <3>1 DEF Row, Cache
    <3>3. QED
      BY <1>u, <2>1, <3>2, RowFollows
  <2>2. CASE c.op = "detail"
    <3>1. row = [k EXCEPT !.current = u, !.detailed = c.req]
      BY <2>0, <2>2 DEF ProjectsShown
    <3>2. row = Row(k, k.items, k.results, u, k.listed, c.req)
      BY <3>1 DEF Row, Cache
    <3>3. QED
      BY <1>u, <2>2, <3>2, RowFollows
  <2>3. CASE c.op # "list" /\ c.op # "detail"
    <3>1. row = [k EXCEPT !.items = k.items \cup {u}, !.current = u, !.detailed = 0]
      BY <2>0, <2>3 DEF ProjectsShown
    <3>2. row = Row(k, k.items \cup {u}, k.results, u, k.listed, 0)
      BY <3>1 DEF Row, Cache
    <3>3. QED
      BY <1>u, <3>2, RowFollows
  <2>4. QED
    BY <2>1, <2>2, <2>3
<1>2. CASE s = "models"
  <2>0. row \in ModelsShown(k, c, u)
    BY <1>2 DEF Shown
  <2>1. CASE c.op \in {"list", "reload"}
    <3>0. PICK found : found = IF k.current = Nobody THEN {Nobody} ELSE {u, Nobody}
      OBVIOUS
    <3>m. row \in ModelsRead(k, c, u)
      BY <2>0, <2>1 DEF ModelsShown
    <3>1. PICK one \in found :
               row = [k EXCEPT !.items = {u}, !.listed = c.req, !.current = one,
                             !.detailed = IF one = Nobody THEN 0 ELSE k.detailed]
      BY <3>0, <3>m DEF ModelsRead
    <3>2. PICK d : d = IF one = Nobody THEN 0 ELSE k.detailed
      OBVIOUS
    <3>3. row = Row(k, {u}, k.results, one, c.req, d)
      BY <3>1, <3>2 DEF Row, Cache
    <3>4. d \in {0, k.detailed} /\ d \in Nat /\ one \in Someone
      BY <1>u, <3>0, <3>1, <3>2
    <3>5. {u} \cup k.results \subseteq k.items \cup k.results \cup {u}
      OBVIOUS
    <3>6. QED
      BY <1>u, <2>1, <3>0, <3>1, <3>3, <3>4, <3>5, RowFollows
  <2>2. CASE c.op = "detail"
    <3>1. PICK kept \in {{}, k.results} :
            row = [k EXCEPT !.items = k.items \cup {u}, !.results = kept, !.current = u,
                            !.detailed = c.req]
      BY <2>0, <2>2 DEF ModelsShown
    <3>2. row = Row(k, k.items \cup {u}, kept, u, k.listed, c.req)
      BY <3>1 DEF Row, Cache
    <3>3. kept \in SUBSET Person /\ (k.items \cup {u}) \cup kept \subseteq k.items \cup k.results \cup {u}
      BY <3>1
    <3>4. QED
      BY <1>u, <2>2, <3>2, <3>3, RowFollows
  <2>3. CASE c.op = "test"
    <3>1. row \in BesideShown(k, u)
      BY <2>0, <2>3 DEF ModelsShown, BesideShown
    <3>2. QED
      BY <3>1, <1>b
  <2>4. CASE c.op \notin {"list", "reload", "detail", "test"}
    <3>m. row \in ModelsRow(k, u)
      BY <2>0, <2>4 DEF ModelsShown
    <3>1. PICK kept \in {{}, k.results},
               one \in IF k.current = Nobody THEN {Nobody} ELSE {u, k.current} :
            row = Written(k, u, kept, one)
      BY <3>m DEF ModelsRow
    <3>2. row = Row(k, k.items \cup {u}, kept, one, k.listed, k.detailed)
      BY <3>1 DEF Written, Row, Cache
    <3>3. kept \in SUBSET Person /\ (k.items \cup {u}) \cup kept \subseteq k.items \cup k.results \cup {u}
      BY <3>1
    <3>4. one \in {u, k.current, Nobody} /\ one \in Someone
      BY <1>u, <3>1
    <3>5. QED
      BY <1>u, <3>1, <3>2, <3>3, <3>4, RowFollows
  <2>5. QED
    BY <2>1, <2>2, <2>3, <2>4
<1>3. CASE s = "explorations"
  <2>0. row \in ExplorationsShown(k, c, u)
    BY <1>3 DEF Shown
  <2>1. CASE c.op = "side"
    BY <1>l, <2>0, <2>1 DEF ExplorationsShown
  <2>2. CASE c.op # "side"
    <3>1. row = [k EXCEPT !.current = u]
      BY <2>0, <2>2 DEF ExplorationsShown
    <3>2. row = Row(k, k.items, k.results, u, k.listed, k.detailed)
      BY <3>1 DEF Row, Cache
    <3>3. QED
      BY <1>u, <3>2, RowFollows
  <2>3. QED
    BY <2>1, <2>2
<1>4. CASE s = "environments"
  <2>0. row \in EnvironmentsShown(k, c, u)
    BY <1>4 DEF Shown
  <2>1. CASE c.op = "list"
    BY <1>l, <2>0, <2>1 DEF EnvironmentsShown
  <2>2. CASE c.op # "list"
    <3>1. PICK i \in {k.items, k.items \cup {u}, {}} : row = [k EXCEPT !.items = i, !.current = u]
      BY <2>0, <2>2 DEF EnvironmentsShown
    <3>2. row = Row(k, i, k.results, u, k.listed, k.detailed)
      BY <3>1 DEF Row, Cache
    <3>3. i \in SUBSET Person /\ i \cup k.results \subseteq k.items \cup k.results \cup {u}
      BY <3>1
    <3>4. QED
      BY <1>u, <3>2, <3>3, RowFollows
  <2>3. QED
    BY <2>1, <2>2
<1>5. CASE s = "testAccounts"
  <2>0. row \in TestAccountsShown(k, c, u)
    BY <1>5 DEF Shown
  <2>1. CASE c.op = "list"
    BY <1>l, <2>0, <2>1 DEF TestAccountsShown
  <2>2. CASE c.op = "create"
    BY <1>a, <2>0, <2>2 DEF TestAccountsShown
  <2>3. CASE c.op # "list" /\ c.op # "create"
    BY <1>r, <2>0, <2>3 DEF TestAccountsShown
  <2>4. QED
    BY <2>1, <2>2, <2>3
<1>6. CASE s = "runners"
  <2>0. row \in RunnersShown(k, c, u)
    BY <1>6 DEF Shown
  <2>1. CASE c.op = "list"
    BY <1>l, <2>0, <2>1 DEF RunnersShown
  <2>2. CASE c.op = "test"
    BY <1>b, <2>0, <2>2 DEF RunnersShown
  <2>3. CASE c.op # "list" /\ c.op # "test"
    BY <1>r, <2>0, <2>3 DEF RunnersShown
  <2>4. QED
    BY <2>1, <2>2, <2>3
<1>7. CASE s = "businessTerminals"
  <2>0. row \in TerminalsShown(k, c, u)
    BY <1>7 DEF Shown
  <2>1. CASE c.op = "list"
    BY <1>l, <2>0, <2>1 DEF TerminalsShown
  <2>2. CASE c.op = "create"
    <3>1. row = [k EXCEPT !.current = u]
      BY <2>0, <2>2 DEF TerminalsShown
    <3>2. row = Row(k, k.items, k.results, u, k.listed, k.detailed)
      BY <3>1 DEF Row, Cache
    <3>3. QED
      BY <1>u, <3>2, RowFollows
  <2>3. CASE c.op \in {"side", "test"}
    BY <1>b, <2>0, <2>3 DEF TerminalsShown
  <2>4. CASE c.op \notin {"list", "create", "side", "test"}
    BY <1>r, <2>0, <2>4 DEF TerminalsShown
  <2>5. QED
    BY <2>1, <2>2, <2>3, <2>4
<1>8. CASE s = "executionBindings"
  <2>0. row \in BindingsShown(k, c, u)
    BY <1>8 DEF Shown
  <2>1. CASE c.op = "list"
    BY <1>l, <2>0, <2>1 DEF BindingsShown
  <2>2. CASE c.op \in {"side", "test"}
    BY <1>b, <2>0, <2>2 DEF BindingsShown
  <2>3. CASE c.op \notin {"list", "side", "test"}
    BY <1>a, <2>0, <2>3 DEF BindingsShown
  <2>4. QED
    BY <2>1, <2>2, <2>3
<1>9. QED
  BY <1>1, <1>2, <1>3, <1>4, <1>5, <1>6, <1>7, <1>8 DEF Store, Cleared, Guarded, Pages

LEMMA EmptiedFollows ==
  ASSUME NEW k \in Cache, NEW c \in CallRow, NEW u \in Someone, NEW s \in Store,
         NEW row \in Emptied(s, k, c)
  PROVE Takes(row, k, c, u)
<1> USE RowTypes
<1>1. CASE c.op \in {"list", "reload"}
  <2>1. PICK o : o = IF s = "models" THEN Nobody ELSE k.current
    OBVIOUS
  <2>2. PICK d : d = IF s = "models" THEN 0 ELSE k.detailed
    OBVIOUS
  <2>3. row = [k EXCEPT !.items = {}, !.listed = 0, !.current = o, !.detailed = d]
    BY <1>1, <2>1, <2>2 DEF Emptied
  <2>4. row = Row(k, {}, k.results, o, 0, d)
    BY <2>3 DEF Row, Cache
  <2>5. o \in {Nobody, k.current} /\ o \in Someone /\ d \in {0, k.detailed} /\ d \in Nat
    BY <2>1, <2>2
  <2>6. QED
    BY <2>4, <2>5, RowFollows
<1>2. CASE c.op = "detail" /\ s \in Guarded
  <2>1. row = [k EXCEPT !.current = Nobody, !.detailed = 0]
    BY <1>2 DEF Emptied
  <2>2. row = Row(k, k.items, k.results, Nobody, k.listed, 0)
    BY <2>1 DEF Row, Cache
  <2>3. QED
    BY <2>2, RowFollows
<1>3. CASE c.op = "side" /\ s \in Pages
  <2>1. PICK kept \in {{}, k.results} : row = [k EXCEPT !.results = kept]
    BY <1>3 DEF Emptied
  <2>2. row = Row(k, k.items, kept, k.current, k.listed, k.detailed)
    BY <2>1 DEF Row, Cache
  <2>3. kept \in SUBSET Person /\ k.items \cup kept \subseteq k.items \cup k.results \cup {u}
    BY <2>1
  <2>4. QED
    BY <2>2, <2>3, RowFollows
<1>4. CASE ~(c.op \in {"list", "reload"}) /\ ~(c.op = "detail" /\ s \in Guarded)
             /\ ~(c.op = "side" /\ s \in Pages)
  <2>1. row = k
    BY <1>4 DEF Emptied
  <2>2. QED
    BY <2>1 DEF Follows, Takes
<1>5. QED
  BY <1>1, <1>2, <1>3, <1>4

\* The busy flag is nobody's data.
LEMMA IdleFollows ==
  ASSUME NEW k \in Cache, NEW c \in CallRow, NEW u, NEW row, Takes(row, k, c, u)
  PROVE /\ Follows(Idle(row, c), k, c, u)
        /\ Idle(row, c).busy <=> k.busy /\ ~Frees(k, c)
<1>1. row \in Cache /\ (Frees(row, c) <=> Frees(k, c))
  BY DEF Takes, Follows, Frees, Accepts
<1>2. Idle(row, c) = [row EXCEPT !.busy = row.busy /\ ~Frees(row, c)] /\ Idle(row, c) \in Cache
  BY <1>1, IdleIsFreed
<1>3. /\ Idle(row, c).items = row.items /\ Idle(row, c).results = row.results
      /\ Idle(row, c).current = row.current
      /\ Idle(row, c).lists = row.lists /\ Idle(row, c).details = row.details
      /\ Idle(row, c).listed = row.listed /\ Idle(row, c).detailed = row.detailed
      /\ Idle(row, c).busy = (row.busy /\ ~Frees(row, c))
  BY <1>1, <1>2, Zenon DEF Cache
<1>4. QED
  BY <1>1, <1>2, <1>3 DEF Follows, Takes


\* What the types say of a call and of a store.
LEMMA ConsoleRows ==
  ASSUME ConsoleTypeOK
  PROVE /\ Used \subseteq Store /\ DOMAIN calls = 1..made /\ made \in Nat
        /\ \A s \in Used : cache[s] \in Cache
        /\ \A c \in DOMAIN calls : calls[c] \in CallRow
BY ConsoleAssumption DEF ConsoleTypeOK

LEMMA OverFields ==
  /\ Over \in CallRow /\ Over.phase = "done" /\ Over.store = "session" /\ Over.op = "me"
  /\ Over.fresh = FALSE
BY Zenon, ConsoleAssumption DEF Over, CallRow, Op, Someone

LEMMA EmptyFields ==
  /\ EmptyCache \in Cache
  /\ EmptyCache.items = {} /\ EmptyCache.results = {} /\ EmptyCache.current = Nobody
  /\ EmptyCache.busy = FALSE /\ EmptyCache.lists = 0 /\ EmptyCache.details = 0
  /\ EmptyCache.listed = 0 /\ EmptyCache.detailed = 0
<1>1. 0 \in Nat /\ {} \in SUBSET Person /\ Nobody \in Someone /\ FALSE \in BOOLEAN
  BY DEF Someone
<1>2. QED
  BY <1>1, Zenon DEF EmptyCache, Cache

\* Clearing: the stores of the session start again, the others are left alone.
LEMMA ClearedRows ==
  ASSUME NEW used \in SUBSET Store, NEW kept \in [used -> Cache]
  PROVE /\ ClearedCache(kept) \in [used -> Cache]
        /\ \A s \in used : ClearedCache(kept)[s] = IF s \in Cleared THEN EmptyCache ELSE kept[s]
BY EmptyFields DEF ClearedCache

\* The call goes on: who it is for and what it carries may be another.
GoesOn(new, old) ==
  /\ new \in CallRow
  /\ new.op = old.op /\ new.store = old.store /\ new.req = old.req
  /\ new.phase = "done" <=> old.phase = "done"

LEMMA OutdatedRows ==
  ASSUME NEW n \in Nat, NEW all \in [1..n -> CallRow]
  PROVE /\ Outdated(all) \in [1..n -> CallRow]
        /\ \A c \in 1..n :
             /\ GoesOn(Outdated(all)[c], all[c])
             /\ Outdated(all)[c].user = all[c].user /\ Outdated(all)[c].phase = all[c].phase
             /\ Outdated(all)[c].fresh <=>
                  all[c].fresh /\ ~(all[c].store \in Guarded /\ all[c].phase # "done")
<1>1. ASSUME NEW c \in 1..n
      PROVE /\ GoesOn(Outdated(all)[c], all[c])
            /\ Outdated(all)[c].user = all[c].user /\ Outdated(all)[c].phase = all[c].phase
            /\ Outdated(all)[c].fresh <=>
                 all[c].fresh /\ ~(all[c].store \in Guarded /\ all[c].phase # "done")
  <2>1. all[c] \in CallRow
    OBVIOUS
  <2>2. CASE all[c].store \in Guarded /\ all[c].phase # "done"
    <3>1. Outdated(all)[c] = [all[c] EXCEPT !.fresh = FALSE]
      BY <2>2 DEF Outdated
    <3>2. QED
      BY <2>1, <2>2, <3>1, Zenon DEF CallRow, GoesOn
  <2>3. CASE ~(all[c].store \in Guarded /\ all[c].phase # "done")
    <3>1. Outdated(all)[c] = all[c]
      BY <2>3 DEF Outdated
    <3>2. QED
      BY <2>1, <2>3, <3>1, Zenon DEF GoesOn
  <2>4. QED
    BY <2>2, <2>3
<1>2. DOMAIN Outdated(all) = 1..n /\ Outdated(all) = [c \in 1..n |-> Outdated(all)[c]]
  BY DEF Outdated
<1>3. QED
  BY <1>1, <1>2 DEF GoesOn

\* A refresh that succeeds: the calls that waited are under way again, for its user.
LEMMA ResumedRows ==
  ASSUME NEW n \in Nat, NEW all \in [1..n -> CallRow], NEW u \in Person
  PROVE /\ Resumed(all, u) \in [1..n -> CallRow]
        /\ \A c \in 1..n :
             /\ Resumed(all, u)[c].fresh = all[c].fresh
             /\ IF c \in Waiting
                  THEN /\ Resumed(all, u)[c].user = u /\ Resumed(all, u)[c].phase = "sent"
                       /\ Resumed(all, u)[c].op = all[c].op /\ Resumed(all, u)[c].req = all[c].req
                       /\ Resumed(all, u)[c].store = all[c].store
                  ELSE Resumed(all, u)[c] = all[c]
<1>1. ASSUME NEW c \in 1..n
      PROVE /\ Resumed(all, u)[c] \in CallRow
            /\ Resumed(all, u)[c].fresh = all[c].fresh
            /\ IF c \in Waiting
                 THEN /\ Resumed(all, u)[c].user = u /\ Resumed(all, u)[c].phase = "sent"
                      /\ Resumed(all, u)[c].op = all[c].op /\ Resumed(all, u)[c].req = all[c].req
                      /\ Resumed(all, u)[c].store = all[c].store
                 ELSE Resumed(all, u)[c] = all[c]
  <2>1. all[c] \in CallRow /\ u \in Someone
    BY DEF Someone
  <2>2. CASE c \in Waiting
    <3>1. Resumed(all, u)[c] = [all[c] EXCEPT !.phase = "sent", !.user = u, !.retried = TRUE]
      BY <2>2 DEF Resumed
    <3>2. QED
      BY <2>1, <2>2, <3>1, Zenon DEF CallRow
  <2>3. CASE c \notin Waiting
    BY <2>1, <2>3 DEF Resumed
  <2>4. QED
    BY <2>2, <2>3
<1>2. DOMAIN Resumed(all, u) = 1..n /\ Resumed(all, u) = [c \in 1..n |-> Resumed(all, u)[c]]
  BY DEF Resumed
<1>3. QED
  BY <1>1, <1>2

LEMMA DoneRows ==
  ASSUME NEW n \in Nat, NEW all \in [1..n -> CallRow], NEW c \in 1..n
  PROVE /\ Done(c, all) \in [1..n -> CallRow]
        /\ Done(c, all)[c] = Over
        /\ \A d \in (1..n) \ {c} : Done(c, all)[d] = all[d]
BY OverFields DEF Done

\* The error of the calls that are over leaves less in their stores, and nobody's new data.
LessOf(row, k, s, over) ==
  /\ row \in Cache
  /\ row.lists = k.lists /\ row.details = k.details
  /\ row.listed = k.listed /\ row.detailed = k.detailed
  /\ row.items \subseteq k.items /\ row.results \subseteq k.results
  /\ row.current = k.current
  /\ row.busy => k.busy /\ \A c \in over : calls[c].store = s => calls[c].op = "side"

LEMMA FailedRows ==
  ASSUME ConsoleTypeOK, NEW kept \in [Used -> Cache], NEW over \in SUBSET DOMAIN calls,
         NEW bare \in BOOLEAN
  PROVE /\ Failed(kept, over, bare) \in [Used -> Cache]
        /\ \A s \in Used : LessOf(Failed(kept, over, bare)[s], kept[s], s, over)
<1>1. ASSUME NEW s \in Used
      PROVE LessOf(Failed(kept, over, bare)[s], kept[s], s, over)
  <2> DEFINE Ended == {calls[c].op : c \in {d \in over : calls[d].store = s}}
  <2>1. PICK ended : ended = Ended
    OBVIOUS
  <2>2. PICK busy \in BOOLEAN : busy <=> kept[s].busy /\ ended \subseteq {"side"}
    OBVIOUS
  <2>3. PICK items : items = IF "list" \in ended THEN {} ELSE kept[s].items
    OBVIOUS
  <2>4. PICK results : results = IF s \in Pages /\ "side" \in ended /\ bare THEN {} ELSE kept[s].results
    OBVIOUS
  <2>5. kept[s] \in Cache /\ kept[s].busy \in BOOLEAN
    BY DEF Cache
  <2>6. (kept[s].busy /\ ended \subseteq {"side"}) = busy
    BY <2>2, <2>5
  <2>7. Failed(kept, over, bare)[s] = [kept[s] EXCEPT !.busy = busy, !.items = items, !.results = results]
    BY <2>1, <2>3, <2>4, <2>6, Zenon DEF Failed
  <2>8. /\ items \in SUBSET Person /\ items \subseteq kept[s].items
        /\ results \in SUBSET Person /\ results \subseteq kept[s].results
    BY <2>3, <2>4 DEF Cache
  <2>9. PICK row : row = Failed(kept, over, bare)[s]
    OBVIOUS
  <2>10. /\ row \in Cache /\ row.busy = busy /\ row.items = items /\ row.results = results
         /\ row.lists = kept[s].lists /\ row.details = kept[s].details
         /\ row.listed = kept[s].listed /\ row.detailed = kept[s].detailed
         /\ row.current = kept[s].current
    BY <2>2, <2>5, <2>7, <2>8, <2>9, Zenon DEF Cache
  <2>11. busy => \A c \in over : calls[c].store = s => calls[c].op = "side"
    BY <2>1, <2>2
  <2>12. QED
    BY <2>2, <2>8, <2>9, <2>10, <2>11 DEF LessOf
<1>2. DOMAIN Failed(kept, over, bare) = Used
      /\ Failed(kept, over, bare) = [s \in Used |-> Failed(kept, over, bare)[s]]
  BY DEF Failed
<1>3. QED
  BY <1>1, <1>2 DEF LessOf

\* What a store does when an operation is called.
LEMMA BegunRow ==
  ASSUME ConsoleTypeOK, NEW s \in Used, NEW op \in Op
  PROVE LET row == Begun(s, op)
        IN  /\ row \in Cache
            /\ row.busy <=> cache[s].busy \/ op # "side"
            /\ row.lists = IF op = "list" /\ s \in Guarded THEN cache[s].lists + 1 ELSE cache[s].lists
            /\ row.details = IF op = "detail" /\ s \in Guarded THEN cache[s].details + 1 ELSE cache[s].details
            /\ row.items \subseteq cache[s].items /\ row.results = cache[s].results
            /\ row.current \in {cache[s].current, Nobody}
            /\ row.listed \in {cache[s].listed, 0} /\ row.detailed \in {cache[s].detailed, 0}
<1>1. cache[s] \in Cache /\ cache[s].busy \in BOOLEAN
  BY ConsoleRows DEF Cache
<1>2. PICK lists : lists = IF op = "list" /\ s \in Guarded THEN cache[s].lists + 1 ELSE cache[s].lists
  OBVIOUS
<1>3. PICK details : details = IF op = "detail" /\ s \in Guarded THEN cache[s].details + 1 ELSE cache[s].details
  OBVIOUS
<1>4. PICK busy \in BOOLEAN : busy <=> cache[s].busy \/ op # "side"
  OBVIOUS
<1>5. PICK items : items = IF s = "projects" /\ op = "list" THEN {} ELSE cache[s].items
  OBVIOUS
<1>6. PICK listed : listed = IF s = "projects" /\ op = "list" THEN 0 ELSE cache[s].listed
  OBVIOUS
<1>7. PICK current : current = IF <<s, op>> \in {<<"projects", "detail">>, <<"explorations", "create">>}
                                 THEN Nobody ELSE cache[s].current
  OBVIOUS
<1>8. PICK detailed : detailed = IF s = "projects" /\ op = "detail" THEN 0 ELSE cache[s].detailed
  OBVIOUS
<1>9. PICK row : row = Begun(s, op)
  OBVIOUS
<1>10. (cache[s].busy \/ op # "side") = busy
  BY <1>1, <1>4
<1>11. row = [cache[s] EXCEPT !.lists = lists, !.details = details, !.busy = busy, !.items = items,
                              !.listed = listed, !.current = current, !.detailed = detailed]
  BY <1>2, <1>3, <1>5, <1>6, <1>7, <1>8, <1>9, <1>10, Zenon DEF Begun
<1>12. /\ lists \in Nat /\ details \in Nat /\ listed \in Nat /\ detailed \in Nat
       /\ items \in SUBSET Person /\ current \in Someone
       /\ items \subseteq cache[s].items /\ current \in {cache[s].current, Nobody}
       /\ listed \in {cache[s].listed, 0} /\ detailed \in {cache[s].detailed, 0}
  BY <1>1, <1>2, <1>3, <1>5, <1>6, <1>7, <1>8 DEF Cache, Someone
<1>13. /\ row \in Cache /\ row.lists = lists /\ row.details = details /\ row.busy = busy
       /\ row.items = items /\ row.listed = listed /\ row.current = current
       /\ row.detailed = detailed /\ row.results = cache[s].results
  BY <1>1, <1>4, <1>11, <1>12, Zenon DEF Cache
<1>14. QED
  BY <1>2, <1>3, <1>4, <1>9, <1>12, <1>13

\* A call that is sent is the last, carries the token of the session, and is fresh.
LEMMA SentRow ==
  ASSUME ConsoleTypeOK, NEW op \in Op, NEW s \in Store \cup {"session"}, NEW as \in Someone,
         NEW req \in Nat, Send(op, s, as, req)
  PROVE /\ made' \in 0..MaxCalls /\ made' = made + 1 /\ calls' \in [1..made' -> CallRow]
        /\ \A c \in 1..made : calls'[c] = calls[c]
        /\ calls'[made'].op = op /\ calls'[made'].store = s /\ calls'[made'].phase = "sent"
        /\ calls'[made'].user = token /\ calls'[made'].fresh = TRUE /\ calls'[made'].req = req
<1>1. made \in Nat /\ calls \in [1..made -> CallRow] /\ token \in Someone /\ MaxCalls \in Nat
  BY ConsoleAssumption DEF ConsoleTypeOK
<1>2. calls \in Seq(CallRow) /\ Len(calls) = made
  <2>1. \E n \in Nat : calls \in [1..n -> CallRow]
    BY <1>1
  <2>2. calls \in Seq(CallRow)
    BY <2>1, SeqDef
  <2>3. QED
    BY <1>1, <2>2, LenProperties
<1>3. PICK row : row = [op |-> op, store |-> s, as |-> as, phase |-> "sent",
                        user |-> token, retried |-> FALSE, fresh |-> TRUE, req |-> req]
  OBVIOUS
<1>4. /\ row \in CallRow /\ row.op = op /\ row.store = s /\ row.phase = "sent"
      /\ row.user = token /\ row.fresh = TRUE /\ row.req = req
  BY <1>1, <1>3, Zenon DEF CallRow
<1>5. calls' = Append(calls, row) /\ made' = made + 1 /\ made < MaxCalls
  BY <1>3 DEF Send
<1>6. /\ calls' \in Seq(CallRow) /\ Len(calls') = made + 1
      /\ \A c \in 1..made : calls'[c] = calls[c]
      /\ calls'[made + 1] = row
  BY <1>2, <1>4, <1>5, AppendProperties
<1>7. calls' \in [1..made' -> CallRow]
  BY <1>5, <1>6, LenProperties
<1>8. QED
  BY <1>1, <1>4, <1>5, <1>6, <1>7

\* A call that goes on still makes its store idle.
LEMMA StillFrees ==
  ASSUME NEW k \in Cache, NEW row \in Cache, row.lists = k.lists, row.details = k.details,
         NEW old, NEW new, GoesOn(new, old), new.fresh <=> old.fresh,
         old.phase # "done", Frees(k, old)
  PROVE new.store = old.store /\ new.phase # "done" /\ Frees(row, new)
BY DEF GoesOn, Frees, Accepts

\* The calls are the ones before, without their generation, but for those that are over.
OverAndOutdated(all, over) ==
  /\ all \in [1..made -> CallRow]
  /\ \A c \in over : all[c] = Over
  /\ \A c \in DOMAIN calls \ over :
       /\ GoesOn(all[c], calls[c])
       /\ all[c].fresh <=> calls[c].fresh /\ ~(calls[c].store \in Guarded /\ calls[c].phase # "done")

PhasesStay(all, over) == \A c \in DOMAIN calls \ over : all[c].phase = calls[c].phase

\* The stores are the ones before, those of the session cleared: busy only if they were, and
\* with nothing among the calls that are over but reads beside the rows.
LeftOf(kept, over) ==
  /\ kept \in [Used -> Cache]
  /\ \A s \in Used :
       IF s \in Cleared
         THEN /\ kept[s].items = {} /\ kept[s].results = {} /\ kept[s].current = Nobody
              /\ kept[s].listed = 0 /\ kept[s].detailed = 0 /\ ~kept[s].busy
         ELSE /\ kept[s].lists = cache[s].lists /\ kept[s].details = cache[s].details
              /\ kept[s].busy => /\ cache[s].busy
                                 /\ \A c \in over : calls[c].store = s => calls[c].op = "side"

\* The stores of the session were cleared and the calls left without their generation: what is
\* left is anybody's.
LEMMA ClearingKeeps ==
  ASSUME ConsoleInv, NEW over \in SUBSET DOMAIN calls,
         NEW kept, NEW all,
         LeftOf(kept, over), OverAndOutdated(all, over),
         NEW u
  PROVE /\ kept \in [Used -> Cache]
        /\ CallsOfStores(all, Used) /\ ReadsBegun(kept) /\ FreshCallsOf(all, u)
        /\ DataOf(kept, u) /\ BusyEnds(kept, all) /\ NotOlder(kept, cache)
<1>0. /\ kept \in [Used -> Cache] /\ all \in [1..made -> CallRow]
      /\ \A s \in Used :
           IF s \in Cleared
             THEN /\ kept[s].items = {} /\ kept[s].results = {} /\ kept[s].current = Nobody
                  /\ kept[s].listed = 0 /\ kept[s].detailed = 0 /\ ~kept[s].busy
             ELSE /\ kept[s].lists = cache[s].lists /\ kept[s].details = cache[s].details
                  /\ kept[s].busy => /\ cache[s].busy
                                     /\ \A c \in over : calls[c].store = s => calls[c].op = "side"
      /\ \A c \in over : all[c] = Over
      /\ \A c \in DOMAIN calls \ over :
           /\ GoesOn(all[c], calls[c])
           /\ all[c].fresh <=> calls[c].fresh /\ ~(calls[c].store \in Guarded /\ calls[c].phase # "done")
  BY DEF LeftOf, OverAndOutdated
<1>1. /\ Used \subseteq Store /\ DOMAIN calls = 1..made /\ made \in Nat
      /\ \A s \in Used : cache[s] \in Cache
      /\ \A c \in DOMAIN calls : calls[c] \in CallRow
  BY ConsoleRows DEF ConsoleInv
<1>2. DOMAIN kept = Used /\ DOMAIN all = 1..made /\ Guarded \subseteq Cleared
  BY <1>0 DEF Cleared
<1>3. CallsOfStores(all, Used)
  BY <1>0, <1>1, <1>2, OverFields DEF CallsOfStores, ConsoleInv, GoesOn
<1>4. ReadsBegun(kept) /\ DataOf(kept, u) /\ NotOlder(kept, cache)
  <2>1. \A s \in Used : kept[s].lists \in Nat /\ kept[s].details \in Nat
    BY <1>0 DEF Cache
  <2>2. QED
    BY <1>0, <1>2, <2>1 DEF ReadsBegun, DataOf, NotOlder, Used
<1>5. FreshCallsOf(all, u)
  BY <1>0, <1>1, <1>2, OverFields DEF FreshCallsOf, GoesOn
<1>6. BusyEnds(kept, all)
  <2> SUFFICES ASSUME NEW s \in Used, kept[s].busy
               PROVE \E c \in DOMAIN all :
                       all[c].store = s /\ all[c].phase # "done" /\ Frees(kept[s], all[c])
    BY <1>2 DEF BusyEnds
  <2>1. /\ s \notin Cleared /\ s \notin Guarded /\ cache[s].busy
        /\ kept[s].lists = cache[s].lists /\ kept[s].details = cache[s].details
        /\ \A c \in over : calls[c].store = s => calls[c].op = "side"
    BY <1>0, <1>2
  <2>2. PICK c \in DOMAIN calls :
          calls[c].store = s /\ calls[c].phase # "done" /\ Frees(cache[s], calls[c])
    BY <2>1 DEF ConsoleInv, BusyEnds, Used
  <2>3. c \notin over
    BY <2>1, <2>2 DEF Frees
  <2>4. GoesOn(all[c], calls[c]) /\ (all[c].fresh <=> calls[c].fresh)
    BY <1>0, <2>1, <2>2, <2>3
  <2>5. kept[s] \in Cache /\ cache[s] \in Cache
    BY <1>0, <1>1
  <2>6. all[c].store = s /\ all[c].phase # "done" /\ Frees(kept[s], all[c])
    BY <2>1, <2>2, <2>4, <2>5, StillFrees
  <2>7. QED
    BY <1>1, <1>2, <2>6
<1>7. QED
  BY <1>0, <1>3, <1>4, <1>5, <1>6

\* The stores stay as they are, and of the calls only some of the session end.
LEMMA StayingKeeps ==
  ASSUME ConsoleInv, NEW all \in [1..made -> CallRow],
         \A c \in DOMAIN calls :
           \/ GoesOn(all[c], calls[c]) /\ (all[c].fresh <=> calls[c].fresh)
           \/ all[c] = Over /\ calls[c].store = "session"
  PROVE /\ CallsOfStores(all, Used) /\ BusyEnds(cache, all) /\ NotOlder(cache, cache)
<1>1. /\ Used \subseteq Store /\ DOMAIN calls = 1..made /\ made \in Nat
      /\ \A s \in Used : cache[s] \in Cache
      /\ \A c \in DOMAIN calls : calls[c] \in CallRow
  BY ConsoleRows DEF ConsoleInv
<1>2. DOMAIN all = 1..made
  OBVIOUS
<1>3. CallsOfStores(all, Used)
  BY <1>1, <1>2, OverFields DEF CallsOfStores, ConsoleInv, GoesOn
<1>4. BusyEnds(cache, all)
  <2> SUFFICES ASSUME NEW s \in Used, cache[s].busy
               PROVE \E c \in DOMAIN all :
                       all[c].store = s /\ all[c].phase # "done" /\ Frees(cache[s], all[c])
    BY DEF BusyEnds, Used
  <2>1. PICK c \in DOMAIN calls :
          calls[c].store = s /\ calls[c].phase # "done" /\ Frees(cache[s], calls[c])
    BY DEF ConsoleInv, BusyEnds, Used
  <2>2. s # "session" /\ cache[s] \in Cache
    BY <1>1 DEF Store, Cleared, Guarded, Pages
  <2>3. GoesOn(all[c], calls[c]) /\ (all[c].fresh <=> calls[c].fresh)
    BY <2>1, <2>2
  <2>4. all[c].store = s /\ all[c].phase # "done" /\ Frees(cache[s], all[c])
    BY <2>1, <2>2, <2>3, StillFrees
  <2>5. QED
    BY <1>1, <1>2, <2>4
<1>5. NotOlder(cache, cache)
  BY <1>1 DEF NotOlder, Cache, Used
<1>6. QED
  BY <1>3, <1>4, <1>5

\* An operation of a store is answered, or fails: the store takes of it what it accepts.
LEMMA AnsweredKeeps ==
  ASSUME ConsoleInv, NEW c \in DOMAIN calls,
         calls[c].phase = "sent", calls[c].store # "session",
         NEW u \in Someone, u \in {calls[c].user, Nobody},
         NEW shown,
         \/ shown = cache[calls[c].store]
         \/ /\ Accepts(cache[calls[c].store], calls[c])
            /\ Takes(shown, cache[calls[c].store], calls[c], u),
         NEW kept, kept = [cache EXCEPT ![calls[c].store] = Idle(shown, calls[c])]
  PROVE /\ kept \in [Used -> Cache]
        /\ CallsOfStores(Done(c, calls), Used) /\ ReadsBegun(kept)
        /\ ~strayed => FreshCallsOf(Done(c, calls), token) /\ DataOf(kept, token)
        /\ BusyEnds(kept, Done(c, calls)) /\ NotOlder(kept, cache)
<1> DEFINE t == calls[c].store
           k == cache[t]
           row == Idle(shown, calls[c])
           all == Done(c, calls)
<1>1. /\ Used \subseteq Store /\ DOMAIN calls = 1..made /\ made \in Nat
      /\ \A s \in Used : cache[s] \in Cache
      /\ \A d \in DOMAIN calls : calls[d] \in CallRow
      /\ calls \in [1..made -> CallRow] /\ cache \in [Used -> Cache]
  BY ConsoleRows DEF ConsoleInv, ConsoleTypeOK
<1>2. t \in Used /\ k \in Cache /\ calls[c] \in CallRow /\ t \in Store
  BY <1>1 DEF ConsoleInv, CallsOfStores
<1>3. Takes(shown, k, calls[c], u)
  <2>1. CASE shown = k
    BY <1>2, <2>1 DEF Takes, Follows
  <2>2. CASE shown # k
    BY <2>2
  <2>3. QED
    BY <2>1, <2>2
<1>4. Follows(row, k, calls[c], u) /\ (row.busy <=> k.busy /\ ~Frees(k, calls[c]))
  BY <1>2, <1>3, IdleFollows
<1>5. row \in Cache
  BY <1>4 DEF Follows
<1>6. /\ kept \in [Used -> Cache] /\ kept[t] = row
      /\ \A s \in Used \ {t} : kept[s] = cache[s]
  BY <1>1, <1>2, <1>5
<1>7. /\ all \in [1..made -> CallRow] /\ all[c] = Over
      /\ \A d \in (DOMAIN calls) \ {c} : all[d] = calls[d]
  BY <1>1, DoneRows
<1>8. CallsOfStores(all, Used)
  BY <1>1, <1>7, OverFields DEF CallsOfStores, ConsoleInv
<1>9. ASSUME t \in Guarded
      PROVE /\ row.listed \in {k.listed, 0, k.lists} /\ row.detailed \in {k.detailed, 0, k.details}
            /\ row.items \cup row.results # k.items \cup k.results \/ row.current # k.current =>
                 calls[c].fresh
  <2>1. CASE shown = k
    <3>2. row = [k EXCEPT !.busy = k.busy /\ ~Frees(k, calls[c])]
      BY <1>2, <2>1, IdleIsFreed
    <3>3. (k.busy /\ ~Frees(k, calls[c])) \in BOOLEAN
      BY <1>2 DEF Cache
    <3>4. /\ row.items = k.items /\ row.results = k.results /\ row.current = k.current
          /\ row.listed = k.listed /\ row.detailed = k.detailed
      BY <1>2, <3>2, Zenon DEF Cache
    <3>5. QED
      BY <3>4
  <2>2. CASE shown # k
    <3>1. Accepts(k, calls[c])
      BY <2>2
    <3>2. /\ calls[c].fresh
          /\ calls[c].op \in {"list", "reload"} => calls[c].req = k.lists
          /\ calls[c].op = "detail" => calls[c].req = k.details
      BY <1>9, <3>1 DEF Accepts
    <3>3. QED
      BY <1>4, <3>2 DEF Follows
  <2>3. QED
    BY <2>1, <2>2
<1>10. ReadsBegun(kept)
  <2>1. \A s \in Used \cap Guarded :
          /\ cache[s].listed <= cache[s].lists /\ cache[s].detailed <= cache[s].details
          /\ cache[s].lists \in Nat /\ cache[s].details \in Nat
    BY <1>1 DEF ConsoleInv, ReadsBegun, Used, Cache
  <2>2. row.lists = k.lists /\ row.details = k.details
    BY <1>4 DEF Follows
  <2>3. ASSUME t \in Guarded
        PROVE row.listed <= row.lists /\ row.detailed <= row.details
    BY <1>2, <1>9, <2>1, <2>2, <2>3
  <2>4. QED
    BY <1>6, <2>1, <2>3 DEF ReadsBegun
<1>11. NotOlder(kept, cache)
  <2>1. \A s \in Used \cap Guarded :
          /\ cache[s].listed <= cache[s].lists /\ cache[s].detailed <= cache[s].details
          /\ cache[s].lists \in Nat /\ cache[s].details \in Nat
          /\ cache[s].listed \in Nat /\ cache[s].detailed \in Nat
    BY <1>1 DEF ConsoleInv, ReadsBegun, Used, Cache
  <2>2. ASSUME t \in Guarded
        PROVE /\ row.listed = 0 \/ row.listed >= k.listed
              /\ row.detailed = 0 \/ row.detailed >= k.detailed
    BY <1>2, <1>9, <2>1, <2>2
  <2>3. QED
    BY <1>1, <1>6, <2>1, <2>2 DEF NotOlder, Used
<1>12. ASSUME ~strayed
       PROVE FreshCallsOf(all, token) /\ DataOf(kept, token)
  <2>1. FreshCallsOf(calls, token) /\ DataOf(cache, token)
    BY <1>12 DEF ConsoleInv
  <2>2. FreshCallsOf(all, token)
    BY <1>1, <1>7, <2>1, OverFields DEF FreshCallsOf
  <2>3. ASSUME t \in Guarded
        PROVE /\ row.items \cup row.results \subseteq {token} \ {Nobody}
              /\ row.current \in {token, Nobody}
    <3>1. /\ k.items \cup k.results \subseteq {token} \ {Nobody}
          /\ k.current \in {token, Nobody}
      BY <1>2, <2>1, <2>3 DEF DataOf, Used
    <3>2. Nobody \notin row.items \cup row.results
      BY <1>5, ConsoleAssumption DEF Cache
    <3>3. CASE calls[c].fresh
      <4>1. calls[c].user = token
        BY <2>1, <2>3, <3>3 DEF FreshCallsOf
      <4>2. QED
        BY <1>4, <3>1, <3>2, <4>1 DEF Follows
    <3>4. CASE ~calls[c].fresh
      BY <1>9, <2>3, <3>1, <3>4
    <3>5. QED
      BY <3>3, <3>4
  <2>4. DataOf(kept, token)
    BY <1>6, <2>1, <2>3 DEF DataOf, Used
  <2>5. QED
    BY <2>2, <2>4
<1>13. BusyEnds(kept, all)
  <2> SUFFICES ASSUME NEW s \in Used, kept[s].busy
               PROVE \E d \in DOMAIN all :
                       all[d].store = s /\ all[d].phase # "done" /\ Frees(kept[s], all[d])
    BY <1>6 DEF BusyEnds
  <2>1. cache[s].busy /\ (s = t => ~Frees(k, calls[c]))
    BY <1>4, <1>6
  <2>2. PICK d \in DOMAIN calls :
          calls[d].store = s /\ calls[d].phase # "done" /\ Frees(cache[s], calls[d])
    BY <2>1 DEF ConsoleInv, BusyEnds, Used
  <2>3. d # c
    BY <2>1, <2>2
  <2>4. kept[s].lists = cache[s].lists /\ kept[s].details = cache[s].details
    BY <1>4, <1>6 DEF Follows
  <2>5. all[d] = calls[d] /\ calls[d] \in CallRow
    BY <1>1, <1>7, <2>3
  <2>6. GoesOn(all[d], calls[d]) /\ (all[d].fresh <=> calls[d].fresh)
    BY <2>5 DEF GoesOn
  <2>7. kept[s] \in Cache /\ cache[s] \in Cache
    BY <1>1, <1>6
  <2>8. all[d].store = s /\ all[d].phase # "done" /\ Frees(kept[s], all[d])
    BY <2>2, <2>4, <2>6, <2>7, StillFrees
  <2>9. QED
    BY <1>1, <1>7, <2>8
<1>14. QED
  BY <1>6, <1>8, <1>10, <1>11, <1>12, <1>13

\* A call that is over does not wait for the refresh, and did not.
LEMMA DoneWaits ==
  ASSUME NEW c \in DOMAIN calls, calls[c].phase = "sent", calls \in [1..made -> CallRow], made \in Nat,
         calls' = Done(c, calls)
  PROVE Waiting' = Waiting
<1>1. /\ DOMAIN calls = 1..made /\ DOMAIN calls' = 1..made
      /\ calls'[c] = Over /\ \A d \in (1..made) \ {c} : calls'[d] = calls[d]
  BY DoneRows
<1>2. \A d \in 1..made : calls'[d].phase = "waiting" <=> calls[d].phase = "waiting"
  BY <1>1, OverFields
<1>3. QED
  BY <1>1, <1>2 DEF Waiting

\* What is left to show once a call of a store, or of the session, is over and the session is
\* the one it was.
LEMMA DoneKeeps ==
  ASSUME ConsoleInv, NEW c \in DOMAIN calls, calls[c].phase = "sent", calls' = Done(c, calls),
         UNCHANGED <<token, me, initialized, restoring, view, refreshing, made, strayed>>,
         cache' \in [Used -> Cache],
         CallsOfStores(calls', Used), ReadsBegun(cache'),
         ~strayed => FreshCallsOf(calls', token) /\ DataOf(cache', token),
         BusyEnds(cache', calls')
  PROVE ConsoleInv'
<1>1. DOMAIN calls = 1..made /\ made \in Nat /\ calls \in [1..made -> CallRow]
  BY ConsoleRows DEF ConsoleInv, ConsoleTypeOK
<1>2. calls' \in [1..made -> CallRow] /\ Waiting' = Waiting
  BY <1>1, DoneWaits, DoneRows
<1>3. Used' = Used
  BY DEF Used
<1>4. ConsoleTypeOK'
  BY <1>2, <1>3 DEF ConsoleInv, ConsoleTypeOK
<1>5. RefreshEnds'
  BY <1>2 DEF ConsoleInv, RefreshEnds
<1>6. QED
  BY <1>3, <1>4, <1>5 DEF ConsoleInv

LEMMA SessionCallDone ==
  ASSUME ConsoleInv, NEW c \in DOMAIN calls, calls[c].store = "session"
  PROVE LET all == Done(c, calls)
        IN  /\ CallsOfStores(all, Used) /\ BusyEnds(cache, all) /\ NotOlder(cache, cache)
            /\ FreshCallsOf(calls, token) => FreshCallsOf(all, token)
<1> DEFINE all == Done(c, calls)
<1>1. /\ DOMAIN calls = 1..made /\ made \in Nat /\ calls \in [1..made -> CallRow]
      /\ \A d \in DOMAIN calls : calls[d] \in CallRow
  BY ConsoleRows DEF ConsoleInv, ConsoleTypeOK
<1>2. /\ all \in [1..made -> CallRow] /\ all[c] = Over
      /\ \A d \in (1..made) \ {c} : all[d] = calls[d]
  BY <1>1, DoneRows
<1>3. \A d \in DOMAIN calls :
        \/ GoesOn(all[d], calls[d]) /\ (all[d].fresh <=> calls[d].fresh)
        \/ all[d] = Over /\ calls[d].store = "session"
  BY <1>1, <1>2 DEF GoesOn
<1>4. CallsOfStores(all, Used) /\ BusyEnds(cache, all) /\ NotOlder(cache, cache)
  BY <1>2, <1>3, StayingKeeps
<1>5. FreshCallsOf(calls, token) => FreshCallsOf(all, token)
  BY <1>1, <1>2, OverFields DEF FreshCallsOf
<1>6. QED
  BY <1>4, <1>5

LEMMA AnswerKeeps ==
  ASSUME ConsoleInv, NEW c \in ApiCall, Answer(c)
  PROVE ConsoleInv' /\ NotOlder(cache', cache)
<1> DEFINE t == calls[c].store
           k == cache[t]
           u == calls[c].user
<1>1. /\ Used \subseteq Store /\ DOMAIN calls = 1..made /\ made \in Nat
      /\ \A s \in Used : cache[s] \in Cache
      /\ \A d \in DOMAIN calls : calls[d] \in CallRow
      /\ calls \in [1..made -> CallRow]
  BY ConsoleRows DEF ConsoleInv, ConsoleTypeOK
<1>2. /\ c \in DOMAIN calls /\ calls[c].phase = "sent" /\ t # "session" /\ u # Nobody
      /\ calls' = Done(c, calls)
      /\ UNCHANGED <<token, me, initialized, restoring, view, refreshing, made, strayed>>
  BY DEF Answer, Sent
<1>3. PICK shown \in IF Accepts(k, calls[c]) THEN Shown(t, k, calls[c], u) ELSE {k} :
        cache' = [cache EXCEPT ![t] = Idle(shown, calls[c])]
  BY DEF Answer
<1>4. t \in Used /\ k \in Cache /\ calls[c] \in CallRow /\ t \in Store
  BY <1>1, <1>2 DEF ConsoleInv, CallsOfStores
<1>5. u \in Person /\ u \in Someone
  BY <1>2, <1>4 DEF CallRow, Someone
<1>6. shown = k \/ (Accepts(k, calls[c]) /\ Takes(shown, k, calls[c], u))
  BY <1>3, <1>4, <1>5, ShownFollows
<1>7. /\ cache' \in [Used -> Cache]
      /\ CallsOfStores(calls', Used) /\ ReadsBegun(cache')
      /\ ~strayed => FreshCallsOf(calls', token) /\ DataOf(cache', token)
      /\ BusyEnds(cache', calls') /\ NotOlder(cache', cache)
  BY <1>2, <1>3, <1>5, <1>6, AnsweredKeeps
<1>8. QED
  BY <1>1, <1>2, <1>7, DoneKeeps

LEMMA AnswerErrorKeeps ==
  ASSUME ConsoleInv, NEW c \in ApiCall, AnswerError(c)
  PROVE ConsoleInv' /\ NotOlder(cache', cache)
<1> DEFINE t == calls[c].store
           k == cache[t]
<1>1. /\ Used \subseteq Store /\ DOMAIN calls = 1..made /\ made \in Nat
      /\ \A s \in Used : cache[s] \in Cache
      /\ \A d \in DOMAIN calls : calls[d] \in CallRow
      /\ calls \in [1..made -> CallRow] /\ cache \in [Used -> Cache]
  BY ConsoleRows DEF ConsoleInv, ConsoleTypeOK
<1>2. /\ c \in DOMAIN calls /\ calls[c].phase = "sent" /\ calls' = Done(c, calls)
      /\ UNCHANGED <<token, me, initialized, restoring, view, refreshing, made, strayed>>
  BY DEF AnswerError, Sent
<1>3. /\ cache' \in [Used -> Cache]
      /\ CallsOfStores(calls', Used) /\ ReadsBegun(cache')
      /\ ~strayed => FreshCallsOf(calls', token) /\ DataOf(cache', token)
      /\ BusyEnds(cache', calls') /\ NotOlder(cache', cache)
  <2>1. CASE t = "session"
    <3>1. cache' = cache
      BY <2>1 DEF AnswerError
    <3>2. QED
      BY <1>1, <1>2, <2>1, <3>1, SessionCallDone DEF ConsoleInv
  <2>2. CASE t # "session"
    <3>1. PICK shown \in IF Accepts(k, calls[c]) THEN Emptied(t, k, calls[c]) ELSE {k} :
            cache' = [cache EXCEPT ![t] = Idle(shown, calls[c])]
      BY <2>2 DEF AnswerError
    <3>2. t \in Used /\ k \in Cache /\ calls[c] \in CallRow /\ t \in Store /\ Nobody \in Someone
      BY <1>1, <1>2, <2>2 DEF ConsoleInv, CallsOfStores, Someone
    <3>3. shown = k \/ (Accepts(k, calls[c]) /\ Takes(shown, k, calls[c], Nobody))
      BY <3>1, <3>2, EmptiedFollows
    <3>4. QED
      BY <1>2, <2>2, <3>1, <3>2, <3>3, AnsweredKeeps
  <2>3. QED
    BY <2>1, <2>2
<1>4. QED
  BY <1>1, <1>2, <1>3, DoneKeeps

LEMMA AnswerMeKeeps ==
  ASSUME ConsoleInv, NEW c \in ApiCall, AnswerMe(c)
  PROVE ConsoleInv' /\ NotOlder(cache', cache)
<1>1. /\ DOMAIN calls = 1..made /\ made \in Nat /\ calls \in [1..made -> CallRow]
      /\ \A d \in DOMAIN calls : calls[d] \in CallRow
      /\ cache \in [Used -> Cache]
  BY ConsoleRows DEF ConsoleInv, ConsoleTypeOK
<1>2. /\ c \in DOMAIN calls /\ calls[c].phase = "sent" /\ calls[c].op = "me"
      /\ me' = calls[c].user /\ strayed' = (strayed \/ token # calls[c].user)
      /\ calls' = Done(c, calls)
      /\ UNCHANGED <<token, initialized, restoring, view, refreshing, made, cache>>
  BY DEF AnswerMe, Sent
<1>3. calls[c].store = "session" /\ calls[c].user \in Someone
  BY <1>1, <1>2 DEF ConsoleInv, CallsOfStores, CallRow
<1>4. /\ CallsOfStores(calls', Used) /\ ReadsBegun(cache')
      /\ ~strayed => FreshCallsOf(calls', token) /\ DataOf(cache', token)
      /\ BusyEnds(cache', calls') /\ NotOlder(cache', cache)
  BY <1>1, <1>2, <1>3, SessionCallDone DEF ConsoleInv
<1>5. /\ calls' \in [1..made -> CallRow] /\ Waiting' = Waiting
  BY <1>1, <1>2, DoneWaits, DoneRows
<1>6. Used' = Used
  BY <1>2 DEF Used
<1>7. ConsoleTypeOK'
  BY <1>2, <1>3, <1>5, <1>6 DEF ConsoleInv, ConsoleTypeOK
<1>8. RefreshEnds'
  BY <1>2, <1>5 DEF ConsoleInv, RefreshEnds
<1>9. ~strayed' => me' = token' /\ FreshCallsOf(calls', token') /\ DataOf(cache', token')
  BY <1>2, <1>4
<1>10. QED
  BY <1>4, <1>6, <1>7, <1>8, <1>9 DEF ConsoleInv

\* A call was made: nothing of what was under way has changed.
LEMMA SendKeeps ==
  ASSUME ConsoleInv, NEW op \in Op, NEW s \in Used \cup {"session"}, NEW as \in Someone,
         NEW req \in Nat, Send(op, s, as, req),
         op \in {"login", "logout", "password", "me"} => s = "session",
         op = "default" => s = "models", op # "reload",
         UNCHANGED <<token, me, initialized, restoring, refreshing, strayed>>,
         view' \in {"login", "page"}, cache' \in [Used -> Cache],
         ReadsBegun(cache'),
         ~strayed => DataOf(cache', token),
         \A t \in Used : cache'[t].busy =>
           \/ /\ cache[t].busy
              /\ cache'[t].lists = cache[t].lists /\ cache'[t].details = cache[t].details
           \/ t = s /\ Frees(cache'[t], calls'[made'])
  PROVE ConsoleInv'
<1>1. /\ Used \subseteq Store /\ DOMAIN calls = 1..made /\ made \in Nat
      /\ \A t \in Used : cache[t] \in Cache
      /\ \A c \in DOMAIN calls : calls[c] \in CallRow
      /\ calls \in [1..made -> CallRow] /\ ConsoleTypeOK
  BY ConsoleRows DEF ConsoleInv, ConsoleTypeOK
<1>2. s \in Store \cup {"session"}
  BY <1>1
<1>3. /\ made' \in 0..MaxCalls /\ made' = made + 1 /\ calls' \in [1..made' -> CallRow]
      /\ \A c \in 1..made : calls'[c] = calls[c]
      /\ calls'[made'].op = op /\ calls'[made'].store = s /\ calls'[made'].phase = "sent"
      /\ calls'[made'].user = token /\ calls'[made'].fresh = TRUE /\ calls'[made'].req = req
  BY <1>1, <1>2, SentRow
<1>4. Used' = Used
  BY DEF Used
<1>5. /\ DOMAIN calls' = 1..made' /\ made' \in DOMAIN calls' /\ 1..made \subseteq 1..made'
      /\ \A c \in DOMAIN calls' : c = made' \/ (c \in DOMAIN calls /\ calls'[c] = calls[c])
  BY <1>1, <1>3
<1>6. ConsoleTypeOK'
  BY <1>3, <1>4 DEF ConsoleInv, ConsoleTypeOK
<1>7. CallsOfStores(calls', Used')
  BY <1>3, <1>4, <1>5 DEF ConsoleInv, CallsOfStores
<1>8. ~strayed' => me' = token' /\ FreshCallsOf(calls', token') /\ DataOf(cache', token')
  BY <1>3, <1>5 DEF ConsoleInv, FreshCallsOf
<1>9. BusyEnds(cache', calls')
  <2> SUFFICES ASSUME NEW t \in Used, cache'[t].busy
               PROVE \E c \in DOMAIN calls' :
                       calls'[c].store = t /\ calls'[c].phase # "done" /\ Frees(cache'[t], calls'[c])
    BY DEF BusyEnds
  <2>1. CASE t = s /\ Frees(cache'[t], calls'[made'])
    BY <1>3, <1>5, <2>1
  <2>2. CASE /\ cache[t].busy
             /\ cache'[t].lists = cache[t].lists /\ cache'[t].details = cache[t].details
    <3>1. PICK c \in DOMAIN calls :
            calls[c].store = t /\ calls[c].phase # "done" /\ Frees(cache[t], calls[c])
      BY <2>2 DEF ConsoleInv, BusyEnds, Used
    <3>2. calls'[c] = calls[c] /\ calls[c] \in CallRow /\ c \in DOMAIN calls'
      BY <1>1, <1>3, <1>5
    <3>3. GoesOn(calls'[c], calls[c]) /\ (calls'[c].fresh <=> calls[c].fresh)
      BY <3>2 DEF GoesOn
    <3>4. cache'[t] \in Cache /\ cache[t] \in Cache
      BY <1>1
    <3>5. calls'[c].store = t /\ calls'[c].phase # "done" /\ Frees(cache'[t], calls'[c])
      BY <2>2, <3>1, <3>3, <3>4, StillFrees
    <3>6. QED
      BY <3>2, <3>5
  <2>3. QED
    BY <2>1, <2>2
<1>10. RefreshEnds'
  <2>1. Waiting' = Waiting
    BY <1>1, <1>3, <1>5 DEF Waiting
  <2>2. QED
    BY <2>1 DEF ConsoleInv, RefreshEnds
<1>11. QED
  BY <1>4, <1>6, <1>7, <1>8, <1>9, <1>10 DEF ConsoleInv

\* Nothing is newer than itself.
LEMMA NothingOlder ==
  ASSUME ConsoleInv
  PROVE NotOlder(cache, cache)
<1>1. \A s \in Used : cache[s] \in Cache
  BY ConsoleRows DEF ConsoleInv
<1>2. QED
  BY <1>1 DEF NotOlder, Cache, Used

LEMMA SignInKeeps ==
  ASSUME ConsoleInv, NEW u \in Person, SignIn(u)
  PROVE ConsoleInv' /\ NotOlder(cache', cache)
<1>1. Send("login", "session", u, 0) /\ cache' = cache
      /\ UNCHANGED <<token, me, initialized, restoring, view, refreshing, strayed>>
  BY DEF SignIn
<1>2. "login" \in Op /\ u \in Someone /\ cache' \in [Used -> Cache] /\ view' \in {"login", "page"}
  BY <1>1 DEF Op, Someone, ConsoleInv, ConsoleTypeOK
<1>3. ReadsBegun(cache') /\ (~strayed => DataOf(cache', token))
  BY <1>1 DEF ConsoleInv
<1>4. ConsoleInv'
  BY <1>1, <1>2, <1>3, SendKeeps
<1>5. QED
  BY <1>1, <1>4, NothingOlder

LEMMA OperateSessionKeeps ==
  ASSUME ConsoleInv, NEW op \in {"me", "password", "logout"}, OperateSession(op)
  PROVE ConsoleInv' /\ NotOlder(cache', cache)
<1>1. Send(op, "session", Nobody, 0) /\ cache' = cache
      /\ UNCHANGED <<token, me, initialized, restoring, view, refreshing, strayed>>
  BY DEF OperateSession
<1>2. op \in Op /\ Nobody \in Someone /\ cache' \in [Used -> Cache] /\ view' \in {"login", "page"}
  BY <1>1 DEF Op, Someone, ConsoleInv, ConsoleTypeOK
<1>3. ReadsBegun(cache') /\ (~strayed => DataOf(cache', token))
  BY <1>1 DEF ConsoleInv
<1>4. ConsoleInv'
  BY <1>1, <1>2, <1>3, SendKeeps
<1>5. QED
  BY <1>1, <1>4, NothingOlder

LEMMA NavigateKeeps ==
  ASSUME ConsoleInv, Navigate
  PROVE ConsoleInv' /\ NotOlder(cache', cache)
<1>1. /\ view' \in {"login", "page"} /\ cache' = cache /\ calls' = calls
      /\ UNCHANGED <<token, me, initialized, restoring, refreshing, made, strayed>>
  BY DEF Navigate
<1>2. Used' = Used /\ Waiting' = Waiting
  BY <1>1 DEF Used, Waiting
<1>3. ConsoleInv'
  BY <1>1, <1>2 DEF ConsoleInv, ConsoleTypeOK, RefreshEnds
<1>4. QED
  BY <1>1, <1>3, NothingOlder

LEMMA OperateKeeps ==
  ASSUME ConsoleInv, NEW s \in Used, NEW op \in Operations(s), Operate(s, op)
  PROVE ConsoleInv' /\ NotOlder(cache', cache)
<1>1. /\ Used \subseteq Store /\ DOMAIN calls = 1..made /\ made \in Nat
      /\ \A t \in Used : cache[t] \in Cache
      /\ \A c \in DOMAIN calls : calls[c] \in CallRow
      /\ cache \in [Used -> Cache] /\ ConsoleTypeOK
  BY ConsoleRows DEF ConsoleInv, ConsoleTypeOK
<1>2. PICK req : req = CASE op = "list" -> cache'[s].lists
                         [] op = "detail" -> cache'[s].details
                         [] OTHER -> 0
  OBVIOUS
<1>3. /\ cache' = [cache EXCEPT ![s] = Begun(s, op)]
      /\ Send(op, s, Nobody, req)
      /\ UNCHANGED <<token, me, initialized, restoring, view, refreshing, strayed>>
  BY <1>2 DEF Operate
<1>4. /\ op \in Op \ {"login", "logout", "password", "me", "reload"}
      /\ op = "default" => s = "models"
  BY <1>1 DEF Operations, Op, Store, Cleared, Guarded, Pages
<1>5. PICK row : row = Begun(s, op)
  OBVIOUS
<1>6. /\ row \in Cache
      /\ row.busy <=> cache[s].busy \/ op # "side"
      /\ row.lists = IF op = "list" /\ s \in Guarded THEN cache[s].lists + 1 ELSE cache[s].lists
      /\ row.details = IF op = "detail" /\ s \in Guarded THEN cache[s].details + 1 ELSE cache[s].details
      /\ row.items \subseteq cache[s].items /\ row.results = cache[s].results
      /\ row.current \in {cache[s].current, Nobody}
      /\ row.listed \in {cache[s].listed, 0} /\ row.detailed \in {cache[s].detailed, 0}
  BY <1>1, <1>4, <1>5, BegunRow
<1>7. /\ cache' \in [Used -> Cache] /\ cache'[s] = row
      /\ \A t \in Used \ {s} : cache'[t] = cache[t]
  BY <1>1, <1>3, <1>5, <1>6
<1>8. req \in Nat /\ Nobody \in Someone /\ view' \in {"login", "page"}
  BY <1>1, <1>2, <1>3, <1>6, <1>7 DEF Cache, Someone, ConsoleTypeOK
<1>9. \A t \in Used \cap Guarded :
        /\ cache[t].listed <= cache[t].lists /\ cache[t].detailed <= cache[t].details
        /\ cache[t].lists \in Nat /\ cache[t].details \in Nat
        /\ cache[t].listed \in Nat /\ cache[t].detailed \in Nat
  BY <1>1 DEF ConsoleInv, ReadsBegun, Used, Cache
<1>10. ReadsBegun(cache') /\ NotOlder(cache', cache)
  <2>1. s \in Guarded => row.listed <= row.lists /\ row.detailed <= row.details
    BY <1>6, <1>9
  <2>2. s \in Guarded => /\ row.listed = 0 \/ row.listed >= cache[s].listed
                         /\ row.detailed = 0 \/ row.detailed >= cache[s].detailed
    BY <1>6, <1>9
  <2>3. ReadsBegun(cache')
    BY <1>7, <1>9, <2>1 DEF ReadsBegun
  <2>4. NotOlder(cache', cache)
    BY <1>1, <1>7, <1>9, <2>2 DEF NotOlder, Used
  <2>5. QED
    BY <2>3, <2>4
<1>11. ~strayed => DataOf(cache', token)
  BY <1>1, <1>6, <1>7 DEF ConsoleInv, DataOf, Used
<1>12. ASSUME NEW t \in Used, cache'[t].busy
       PROVE \/ /\ cache[t].busy
                /\ cache'[t].lists = cache[t].lists /\ cache'[t].details = cache[t].details
             \/ t = s /\ Frees(cache'[t], calls'[made'])
  <2>1. CASE t # s
    BY <1>7, <1>12, <2>1
  <2>2. CASE t = s /\ op = "side"
    BY <1>6, <1>7, <1>12, <2>2
  <2>3. CASE t = s /\ op # "side"
    <3>1. /\ calls'[made'].op = op /\ calls'[made'].store = s
          /\ calls'[made'].fresh = TRUE /\ calls'[made'].req = req
      BY <1>1, <1>3, <1>4, <1>8, SentRow
    <3>2. (op = "list" => req = row.lists) /\ (op = "detail" => req = row.details)
      BY <1>2, <1>7
    <3>3. Frees(row, calls'[made'])
      BY <1>4, <2>3, <3>1, <3>2 DEF Frees, Accepts
    <3>4. QED
      BY <1>7, <2>3, <3>3
  <2>4. QED
    BY <2>1, <2>2, <2>3
<1>13. ConsoleInv'
  BY <1>3, <1>4, <1>7, <1>8, <1>10, <1>11, <1>12, SendKeeps
<1>14. QED
  BY <1>10, <1>13

LEMMA OutdatedAndDone ==
  ASSUME ConsoleInv, NEW c \in DOMAIN calls
  PROVE /\ OverAndOutdated(Done(c, Outdated(calls)), {c})
        /\ PhasesStay(Done(c, Outdated(calls)), {c})
<1>1. /\ DOMAIN calls = 1..made /\ made \in Nat /\ calls \in [1..made -> CallRow]
  BY ConsoleRows DEF ConsoleInv, ConsoleTypeOK
<1>2. PICK all : all = Outdated(calls)
  OBVIOUS
<1>3. /\ all \in [1..made -> CallRow]
      /\ \A d \in 1..made :
           /\ GoesOn(all[d], calls[d]) /\ all[d].phase = calls[d].phase
           /\ all[d].fresh <=> calls[d].fresh /\ ~(calls[d].store \in Guarded /\ calls[d].phase # "done")
  BY <1>1, <1>2, OutdatedRows
<1>4. /\ Done(c, all) \in [1..made -> CallRow]
      /\ Done(c, all)[c] = Over
      /\ \A d \in (1..made) \ {c} : Done(c, all)[d] = all[d]
  BY <1>1, <1>3, DoneRows
<1>5. QED
  BY <1>1, <1>2, <1>3, <1>4 DEF OverAndOutdated, PhasesStay

LEMMA AnswerExpiredKeeps ==
  ASSUME ConsoleInv, NEW c \in ApiCall, AnswerExpired(c)
  PROVE ConsoleInv' /\ NotOlder(cache', cache)
<1>1. /\ DOMAIN calls = 1..made /\ made \in Nat /\ calls \in [1..made -> CallRow]
      /\ \A d \in DOMAIN calls : calls[d] \in CallRow
  BY ConsoleRows DEF ConsoleInv, ConsoleTypeOK
<1>2. /\ c \in DOMAIN calls /\ calls[c].phase = "sent" /\ refreshing' = TRUE
      /\ calls' = [calls EXCEPT ![c].phase = "waiting"]
      /\ UNCHANGED <<token, me, initialized, restoring, view, made, cache, strayed>>
  BY DEF AnswerExpired, Sent
<1>3. PICK row : row = [calls[c] EXCEPT !.phase = "waiting"]
  OBVIOUS
<1>4. /\ row \in CallRow /\ row.op = calls[c].op /\ row.store = calls[c].store
      /\ row.req = calls[c].req /\ row.fresh = calls[c].fresh /\ row.user = calls[c].user
      /\ row.phase = "waiting"
  BY <1>1, <1>2, <1>3, Zenon DEF CallRow
<1>5. /\ calls' \in [1..made -> CallRow] /\ calls'[c] = row
      /\ \A d \in (1..made) \ {c} : calls'[d] = calls[d]
  BY <1>1, <1>2, <1>3, <1>4
<1>6. \A d \in DOMAIN calls : GoesOn(calls'[d], calls[d]) /\ (calls'[d].fresh <=> calls[d].fresh)
  BY <1>1, <1>2, <1>4, <1>5 DEF GoesOn
<1>7. CallsOfStores(calls', Used) /\ BusyEnds(cache, calls') /\ NotOlder(cache, cache)
  BY <1>5, <1>6, StayingKeeps
<1>8. Used' = Used
  BY <1>2 DEF Used
<1>9. ConsoleTypeOK'
  BY <1>2, <1>5, <1>8 DEF ConsoleInv, ConsoleTypeOK
<1>10. FreshCallsOf(calls, token) => FreshCallsOf(calls', token)
  BY <1>1, <1>2, <1>4, <1>5 DEF FreshCallsOf
<1>11. Waiting' # {}
  <2>1. c \in Waiting'
    BY <1>1, <1>2, <1>4, <1>5 DEF Waiting
  <2>2. QED
    BY <2>1
<1>12. RefreshEnds'
  BY <1>2, <1>11 DEF RefreshEnds
<1>13. QED
  BY <1>2, <1>7, <1>8, <1>9, <1>10, <1>12 DEF ConsoleInv

LEMMA AnswerDefaultKeeps ==
  ASSUME ConsoleInv, NEW c \in ApiCall, AnswerDefault(c)
  PROVE ConsoleInv' /\ NotOlder(cache', cache)
<1>1. /\ Used \subseteq Store /\ DOMAIN calls = 1..made /\ made \in Nat
      /\ \A t \in Used : cache[t] \in Cache
      /\ \A d \in DOMAIN calls : calls[d] \in CallRow
      /\ calls \in [1..made -> CallRow] /\ cache \in [Used -> Cache] /\ token \in Someone
  BY ConsoleRows DEF ConsoleInv, ConsoleTypeOK
<1>2. /\ c \in DOMAIN calls /\ calls[c].phase = "sent" /\ calls[c].op = "default" /\ calls[c].fresh
      /\ cache' = [cache EXCEPT !["models"].lists = @ + 1, !["models"].busy = TRUE]
      /\ calls' = [calls EXCEPT ![c] = [@ EXCEPT !.op = "reload", !.user = token, !.retried = FALSE,
                                                 !.req = cache["models"].lists + 1]]
      /\ UNCHANGED <<token, me, initialized, restoring, view, refreshing, made, strayed>>
  BY DEF AnswerDefault, Sent
<1> DEFINE k == cache["models"]
<1>3. /\ calls[c].store = "models" /\ "models" \in Used /\ k \in Cache
      /\ calls[c] \in CallRow
  BY <1>1, <1>2 DEF ConsoleInv, CallsOfStores
<1>4. PICK row : row = [k EXCEPT !.lists = k.lists + 1, !.busy = TRUE]
  OBVIOUS
<1>5. PICK again : again = [calls[c] EXCEPT !.op = "reload", !.user = token, !.retried = FALSE,
                                            !.req = k.lists + 1]
  OBVIOUS
<1>6. k.lists + 1 \in Nat /\ "reload" \in Op /\ k.lists \in Nat
  BY <1>3 DEF Cache, Op
<1>7. /\ row \in Cache /\ row.lists = k.lists + 1 /\ row.details = k.details /\ row.busy = TRUE
      /\ row.items = k.items /\ row.results = k.results /\ row.current = k.current
      /\ row.listed = k.listed /\ row.detailed = k.detailed
  BY <1>3, <1>4, <1>6, Zenon DEF Cache
<1>8. /\ again \in CallRow /\ again.op = "reload" /\ again.store = "models" /\ again.phase = "sent"
      /\ again.user = token /\ again.fresh = calls[c].fresh /\ again.req = k.lists + 1
  BY <1>1, <1>2, <1>3, <1>5, <1>6, Zenon DEF CallRow
<1>9. cache' = [cache EXCEPT !["models"] = row]
  BY <1>1, <1>2, <1>3, <1>4
<1>10. /\ cache' \in [Used -> Cache] /\ cache'["models"] = row
       /\ \A t \in Used \ {"models"} : cache'[t] = cache[t]
  BY <1>1, <1>3, <1>7, <1>9
<1>11. /\ calls' \in [1..made -> CallRow] /\ calls'[c] = again
       /\ \A d \in (1..made) \ {c} : calls'[d] = calls[d]
  BY <1>1, <1>2, <1>5, <1>8
<1>12. Used' = Used
  BY <1>10 DEF Used
<1>13. Waiting' = Waiting
  BY <1>1, <1>2, <1>8, <1>11 DEF Waiting
<1>14. ConsoleTypeOK'
  BY <1>2, <1>10, <1>11, <1>12 DEF ConsoleInv, ConsoleTypeOK
<1>15. CallsOfStores(calls', Used')
  BY <1>1, <1>3, <1>8, <1>11, <1>12 DEF ConsoleInv, CallsOfStores
<1>16. \A t \in Used \cap Guarded :
         /\ cache[t].listed <= cache[t].lists /\ cache[t].detailed <= cache[t].details
         /\ cache[t].lists \in Nat /\ cache[t].details \in Nat
         /\ cache[t].listed \in Nat /\ cache[t].detailed \in Nat
  BY <1>1 DEF ConsoleInv, ReadsBegun, Used, Cache
<1>17. ReadsBegun(cache') /\ NotOlder(cache', cache)
  <2>1. "models" \in Guarded
    BY DEF Guarded
  <2>2. row.listed <= row.lists /\ row.detailed <= row.details
    BY <1>3, <1>6, <1>7, <1>16, <2>1
  <2>3. ReadsBegun(cache')
    BY <1>10, <1>16, <2>2 DEF ReadsBegun
  <2>4. NotOlder(cache', cache)
    BY <1>1, <1>3, <1>7, <1>10, <1>16 DEF NotOlder, Used
  <2>5. QED
    BY <2>3, <2>4
<1>18. ~strayed' => me' = token' /\ FreshCallsOf(calls', token') /\ DataOf(cache', token')
  <2>1. FreshCallsOf(calls, token) => FreshCallsOf(calls', token)
    BY <1>1, <1>8, <1>11 DEF FreshCallsOf
  <2>2. DataOf(cache, token) => DataOf(cache', token)
    BY <1>1, <1>7, <1>10 DEF DataOf, Used
  <2>3. QED
    BY <1>2, <2>1, <2>2 DEF ConsoleInv
<1>19. BusyEnds(cache', calls')
  <2> SUFFICES ASSUME NEW t \in Used, cache'[t].busy
               PROVE \E d \in DOMAIN calls' :
                       calls'[d].store = t /\ calls'[d].phase # "done" /\ Frees(cache'[t], calls'[d])
    BY <1>10 DEF BusyEnds
  <2>1. CASE t = "models"
    <3>1. Frees(cache'[t], calls'[c])
      BY <1>2, <1>8, <1>11 DEF Frees
    <3>2. QED
      BY <1>1, <1>2, <1>8, <1>11, <2>1, <3>1
  <2>2. CASE t # "models"
    <3>1. cache'[t] = cache[t]
      BY <1>10, <2>2
    <3>2. PICK d \in DOMAIN calls :
            calls[d].store = t /\ calls[d].phase # "done" /\ Frees(cache[t], calls[d])
      BY <3>1 DEF ConsoleInv, BusyEnds, Used
    <3>3. calls'[d] = calls[d]
      BY <1>1, <1>3, <1>11, <2>2, <3>2
    <3>4. QED
      BY <1>1, <1>11, <3>1, <3>2, <3>3
  <2>3. QED
    BY <2>1, <2>2
<1>20. RefreshEnds'
  BY <1>2, <1>13 DEF ConsoleInv, RefreshEnds
<1>21. QED
  BY <1>12, <1>14, <1>15, <1>17, <1>18, <1>19, <1>20 DEF ConsoleInv

\* The stores of the session are cleared when only calls of the session are over.
LEMMA ClearedIsLeft ==
  ASSUME ConsoleInv, NEW over \in SUBSET DOMAIN calls, \A c \in over : calls[c].store = "session"
  PROVE LeftOf(ClearedCache(cache), over)
<1>1. Used \subseteq Store /\ cache \in [Used -> Cache]
  BY ConsoleRows DEF ConsoleInv, ConsoleTypeOK
<1>2. PICK kept : kept = ClearedCache(cache)
  OBVIOUS
<1>3. /\ kept \in [Used -> Cache]
      /\ \A s \in Used : kept[s] = IF s \in Cleared THEN EmptyCache ELSE cache[s]
  BY <1>1, <1>2, ClearedRows
<1>4. "session" \notin Used
  BY <1>1 DEF Store, Cleared, Guarded, Pages
<1>5. LeftOf(kept, over)
  BY <1>3, <1>4, EmptyFields DEF LeftOf
<1>6. QED
  BY <1>2, <1>5

LEMMA AnswerSignOutKeeps ==
  ASSUME ConsoleInv, NEW c \in ApiCall, AnswerSignOut(c)
  PROVE ConsoleInv' /\ NotOlder(cache', cache)
<1>1. /\ DOMAIN calls = 1..made /\ made \in Nat /\ calls \in [1..made -> CallRow]
      /\ \A d \in DOMAIN calls : calls[d] \in CallRow
  BY ConsoleRows DEF ConsoleInv, ConsoleTypeOK
<1>2. /\ c \in DOMAIN calls /\ calls[c].phase = "sent" /\ calls[c].op \in {"password", "logout"}
      /\ token' = Nobody /\ me' = Nobody /\ strayed' = FALSE /\ initialized' = TRUE
      /\ view' = "login" /\ cache' = ClearedCache(cache) /\ calls' = Done(c, Outdated(calls))
      /\ UNCHANGED <<restoring, refreshing, made>>
  BY DEF AnswerSignOut, Sent, SignedOut
<1>3. calls[c].store = "session"
  BY <1>1, <1>2 DEF ConsoleInv, CallsOfStores
<1>4. PICK u : u = Nobody
  OBVIOUS
<1>5. OverAndOutdated(calls', {c}) /\ PhasesStay(calls', {c})
  BY <1>1, <1>2, OutdatedAndDone
<1>6. /\ cache' \in [Used -> Cache]
      /\ CallsOfStores(calls', Used) /\ ReadsBegun(cache') /\ FreshCallsOf(calls', u)
      /\ DataOf(cache', u) /\ BusyEnds(cache', calls') /\ NotOlder(cache', cache)
  <2>1. {c} \in SUBSET DOMAIN calls /\ \A d \in {c} : calls[d].store = "session"
    BY <1>2, <1>3
  <2>2. QED
    BY <1>2, <1>5, <2>1, ClearedIsLeft, ClearingKeeps
<1>7. Used' = Used
  BY <1>6 DEF Used
<1>8. ConsoleTypeOK'
  BY <1>2, <1>5, <1>6, <1>7 DEF ConsoleInv, ConsoleTypeOK, Someone, OverAndOutdated
<1>9. Waiting' = Waiting
  BY <1>1, <1>2, <1>5, OverFields DEF Waiting, OverAndOutdated, PhasesStay
<1>10. RefreshEnds'
  BY <1>2, <1>9 DEF ConsoleInv, RefreshEnds
<1>11. QED
  BY <1>2, <1>4, <1>6, <1>7, <1>8, <1>10 DEF ConsoleInv

LEMMA AnswerLoginKeeps ==
  ASSUME ConsoleInv, NEW c \in ApiCall, AnswerLogin(c)
  PROVE ConsoleInv' /\ NotOlder(cache', cache)
<1>1. /\ DOMAIN calls = 1..made /\ made \in Nat /\ calls \in [1..made -> CallRow]
      /\ \A d \in DOMAIN calls : calls[d] \in CallRow
      /\ cache \in [Used -> Cache]
  BY ConsoleRows DEF ConsoleInv, ConsoleTypeOK
<1>2. /\ c \in DOMAIN calls /\ calls[c].phase = "sent" /\ calls[c].op = "login"
      /\ token' = calls[c].as /\ me' = calls[c].as /\ initialized' = TRUE
      /\ strayed' = (strayed /\ me = calls[c].as)
      /\ cache' = IF me # calls[c].as THEN ClearedCache(cache) ELSE cache
      /\ calls' = Done(c, IF me # calls[c].as THEN Outdated(calls) ELSE calls)
      /\ UNCHANGED <<restoring, view, refreshing, made>>
  BY DEF AnswerLogin, Sent, Accept
<1>3. calls[c].store = "session" /\ calls[c].as \in Someone
  BY <1>1, <1>2 DEF ConsoleInv, CallsOfStores, CallRow
<1>4. /\ cache' \in [Used -> Cache] /\ calls' \in [1..made -> CallRow] /\ Waiting' = Waiting
      /\ CallsOfStores(calls', Used) /\ ReadsBegun(cache')
      /\ BusyEnds(cache', calls') /\ NotOlder(cache', cache)
      /\ ~strayed' => FreshCallsOf(calls', token') /\ DataOf(cache', token')
  <2>1. CASE me # calls[c].as
    <3>1. cache' = ClearedCache(cache) /\ calls' = Done(c, Outdated(calls))
      BY <1>2, <2>1
    <3>2. OverAndOutdated(calls', {c}) /\ PhasesStay(calls', {c})
      BY <1>2, <3>1, OutdatedAndDone
    <3>3. {c} \in SUBSET DOMAIN calls /\ \A d \in {c} : calls[d].store = "session"
      BY <1>2, <1>3
    <3>4. PICK u : u = token'
      OBVIOUS
    <3>5. /\ cache' \in [Used -> Cache]
          /\ CallsOfStores(calls', Used) /\ ReadsBegun(cache') /\ FreshCallsOf(calls', u)
          /\ DataOf(cache', u) /\ BusyEnds(cache', calls') /\ NotOlder(cache', cache)
      BY <3>1, <3>2, <3>3, ClearedIsLeft, ClearingKeeps
    <3>6. Waiting' = Waiting
      BY <1>1, <1>2, <3>2, OverFields DEF Waiting, OverAndOutdated, PhasesStay
    <3>7. QED
      BY <3>2, <3>4, <3>5, <3>6 DEF OverAndOutdated
  <2>2. CASE me = calls[c].as
    <3>1. cache' = cache /\ calls' = Done(c, calls) /\ strayed' = strayed
      BY <1>2, <2>2 DEF ConsoleInv, ConsoleTypeOK
    <3>2. /\ CallsOfStores(calls', Used) /\ BusyEnds(cache, calls') /\ NotOlder(cache, cache)
          /\ FreshCallsOf(calls, token) => FreshCallsOf(calls', token)
      BY <1>2, <1>3, <3>1, SessionCallDone
    <3>3. calls' \in [1..made -> CallRow] /\ Waiting' = Waiting
      BY <1>1, <1>2, <3>1, DoneRows, DoneWaits
    <3>4. ~strayed => token' = token /\ FreshCallsOf(calls, token) /\ DataOf(cache, token)
      BY <1>2, <2>2 DEF ConsoleInv
    <3>5. QED
      BY <1>1, <3>1, <3>2, <3>3, <3>4 DEF ConsoleInv
  <2>3. QED
    BY <2>1, <2>2
<1>5. Used' = Used
  BY <1>4 DEF Used
<1>6. strayed' \in BOOLEAN
  BY <1>2
<1>7. ConsoleTypeOK'
  BY <1>2, <1>3, <1>4, <1>5, <1>6 DEF ConsoleInv, ConsoleTypeOK
<1>8. RefreshEnds'
  BY <1>2, <1>4 DEF ConsoleInv, RefreshEnds
<1>9. QED
  BY <1>2, <1>4, <1>5, <1>7, <1>8 DEF ConsoleInv

\* The session is lost, for the calls that are over by it.
LEMMA LossKeeps ==
  ASSUME ConsoleInv, NEW over \in SUBSET DOMAIN calls, AuthenticationLost(over)
  PROVE /\ token' = Nobody /\ me' = Nobody /\ strayed' = FALSE /\ initialized' = TRUE
        /\ view' = "login"
        /\ cache' \in [Used -> Cache] /\ OverAndOutdated(calls', over) /\ PhasesStay(calls', over)
        /\ CallsOfStores(calls', Used) /\ ReadsBegun(cache') /\ FreshCallsOf(calls', Nobody)
        /\ DataOf(cache', Nobody) /\ BusyEnds(cache', calls') /\ NotOlder(cache', cache)
<1>1. /\ DOMAIN calls = 1..made /\ made \in Nat /\ calls \in [1..made -> CallRow]
      /\ Used \subseteq Store /\ cache \in [Used -> Cache] /\ ConsoleTypeOK
  BY ConsoleRows DEF ConsoleInv, ConsoleTypeOK
<1>2. PICK bare \in BOOLEAN : cache' = Failed(ClearedCache(cache), over, bare)
  BY DEF AuthenticationLost
<1>3. PICK kept : kept = ClearedCache(cache)
  OBVIOUS
<1>4. /\ kept \in [Used -> Cache]
      /\ \A s \in Used : kept[s] = IF s \in Cleared THEN EmptyCache ELSE cache[s]
  BY <1>1, <1>3, ClearedRows
<1>5. cache' \in [Used -> Cache] /\ \A s \in Used : LessOf(cache'[s], kept[s], s, over)
  BY <1>1, <1>2, <1>3, <1>4, FailedRows
<1>6. LeftOf(cache', over)
  <2>1. ASSUME NEW s \in Used
        PROVE IF s \in Cleared
                THEN /\ cache'[s].items = {} /\ cache'[s].results = {} /\ cache'[s].current = Nobody
                     /\ cache'[s].listed = 0 /\ cache'[s].detailed = 0 /\ ~cache'[s].busy
                ELSE /\ cache'[s].lists = cache[s].lists /\ cache'[s].details = cache[s].details
                     /\ cache'[s].busy => /\ cache[s].busy
                                          /\ \A c \in over : calls[c].store = s => calls[c].op = "side"
    BY <1>4, <1>5, EmptyFields DEF LessOf
  <2>2. QED
    BY <1>5, <2>1 DEF LeftOf
<1>7. OverAndOutdated(calls', over) /\ PhasesStay(calls', over)
  <2>1. PICK all : all = Outdated(calls)
    OBVIOUS
  <2>2. /\ all \in [1..made -> CallRow]
        /\ \A d \in 1..made :
             /\ GoesOn(all[d], calls[d]) /\ all[d].phase = calls[d].phase
             /\ all[d].fresh <=> calls[d].fresh /\ ~(calls[d].store \in Guarded /\ calls[d].phase # "done")
    BY <1>1, <2>1, OutdatedRows
  <2>3. calls' = [c \in DOMAIN calls |-> IF c \in over THEN Over ELSE all[c]]
    BY <2>1 DEF AuthenticationLost
  <2>4. /\ calls' \in [1..made -> CallRow]
        /\ \A c \in over : calls'[c] = Over
        /\ \A c \in DOMAIN calls \ over : calls'[c] = all[c]
    BY <1>1, <2>2, <2>3, OverFields
  <2>5. QED
    BY <1>1, <2>2, <2>4 DEF OverAndOutdated, PhasesStay
<1>8. PICK u : u = Nobody
  OBVIOUS
<1>9. /\ CallsOfStores(calls', Used) /\ ReadsBegun(cache') /\ FreshCallsOf(calls', u)
      /\ DataOf(cache', u) /\ BusyEnds(cache', calls') /\ NotOlder(cache', cache)
  BY <1>6, <1>7, ClearingKeeps
<1>10. QED
  BY <1>5, <1>7, <1>8, <1>9 DEF AuthenticationLost, SignedOut

LEMMA AnswerUnauthorizedKeeps ==
  ASSUME ConsoleInv, NEW c \in ApiCall, AnswerUnauthorized(c)
  PROVE ConsoleInv' /\ NotOlder(cache', cache)
<1>1. DOMAIN calls = 1..made /\ made \in Nat
  BY ConsoleRows DEF ConsoleInv
<1>2. /\ c \in DOMAIN calls /\ calls[c].phase = "sent" /\ AuthenticationLost({c})
      /\ UNCHANGED <<restoring, refreshing, made>>
  BY DEF AnswerUnauthorized, Sent
<1>3. /\ token' = Nobody /\ me' = Nobody /\ strayed' = FALSE /\ initialized' = TRUE
      /\ view' = "login"
      /\ cache' \in [Used -> Cache] /\ OverAndOutdated(calls', {c}) /\ PhasesStay(calls', {c})
      /\ CallsOfStores(calls', Used) /\ ReadsBegun(cache') /\ FreshCallsOf(calls', Nobody)
      /\ DataOf(cache', Nobody) /\ BusyEnds(cache', calls') /\ NotOlder(cache', cache)
  <2>1. {c} \in SUBSET DOMAIN calls
    BY <1>2
  <2>2. QED
    BY <1>2, <2>1, LossKeeps
<1>4. Waiting' = Waiting
  BY <1>1, <1>2, <1>3, OverFields DEF Waiting, OverAndOutdated, PhasesStay
<1>5. Used' = Used
  BY <1>3 DEF Used
<1>6. ConsoleTypeOK'
  BY <1>2, <1>3, <1>5 DEF ConsoleInv, ConsoleTypeOK, Someone, OverAndOutdated
<1>7. RefreshEnds'
  BY <1>2, <1>4 DEF ConsoleInv, RefreshEnds
<1>8. QED
  BY <1>3, <1>5, <1>6, <1>7 DEF ConsoleInv

LEMMA RefreshFailsKeeps ==
  ASSUME ConsoleInv, RefreshFails
  PROVE ConsoleInv' /\ NotOlder(cache', cache)
<1>1. DOMAIN calls = 1..made /\ made \in Nat
  BY ConsoleRows DEF ConsoleInv
<1>2. /\ AuthenticationLost(Waiting) /\ restoring' = FALSE /\ refreshing' = FALSE /\ made' = made
  BY DEF RefreshFails
<1>3. Waiting \in SUBSET DOMAIN calls
  BY DEF Waiting
<1>4. /\ token' = Nobody /\ me' = Nobody /\ strayed' = FALSE /\ initialized' = TRUE
      /\ view' = "login"
      /\ cache' \in [Used -> Cache] /\ OverAndOutdated(calls', Waiting) /\ PhasesStay(calls', Waiting)
      /\ CallsOfStores(calls', Used) /\ ReadsBegun(cache') /\ FreshCallsOf(calls', Nobody)
      /\ DataOf(cache', Nobody) /\ BusyEnds(cache', calls') /\ NotOlder(cache', cache)
  BY <1>2, <1>3, LossKeeps
<1>5. Waiting' = {}
  <2>1. \A c \in DOMAIN calls' : calls'[c].phase # "waiting"
    BY <1>1, <1>4, OverFields DEF Waiting, OverAndOutdated, PhasesStay
  <2>2. QED
    BY <2>1 DEF Waiting
<1>6. Used' = Used
  BY <1>4 DEF Used
<1>7. ConsoleTypeOK'
  BY <1>2, <1>4, <1>6 DEF ConsoleInv, ConsoleTypeOK, Someone, OverAndOutdated
<1>8. RefreshEnds'
  BY <1>2, <1>5 DEF RefreshEnds
<1>9. QED
  BY <1>4, <1>6, <1>7, <1>8 DEF ConsoleInv

LEMMA RefreshSucceedsKeeps ==
  ASSUME ConsoleInv, NEW u \in Person, RefreshSucceeds(u)
  PROVE ConsoleInv' /\ NotOlder(cache', cache)
<1>1. /\ DOMAIN calls = 1..made /\ made \in Nat /\ calls \in [1..made -> CallRow]
      /\ \A d \in DOMAIN calls : calls[d] \in CallRow
      /\ cache \in [Used -> Cache]
  BY ConsoleRows DEF ConsoleInv, ConsoleTypeOK
<1>2. /\ token' = u /\ me' = u /\ strayed' = (strayed /\ me = u)
      /\ initialized' = (initialized \/ restoring) /\ restoring' = FALSE /\ refreshing' = FALSE
      /\ cache' = IF me # u THEN ClearedCache(cache) ELSE cache
      /\ calls' = Resumed(IF me # u THEN Outdated(calls) ELSE calls, u)
      /\ UNCHANGED <<view, made>>
  BY DEF RefreshSucceeds, Accept
<1>3. PICK left : left = IF me # u THEN Outdated(calls) ELSE calls
  OBVIOUS
<1>4. /\ left \in [1..made -> CallRow]
      /\ \A d \in 1..made :
           /\ GoesOn(left[d], calls[d]) /\ left[d].phase = calls[d].phase
           /\ left[d].user = calls[d].user
           /\ left[d].fresh <=>
                calls[d].fresh /\ (me # u => ~(calls[d].store \in Guarded /\ calls[d].phase # "done"))
  <2>1. CASE me # u
    BY <1>1, <1>3, <2>1, OutdatedRows
  <2>2. CASE me = u
    BY <1>1, <1>3, <2>2 DEF GoesOn
  <2>3. QED
    BY <2>1, <2>2
<1>5. calls' = Resumed(left, u)
  BY <1>2, <1>3
<1>6. /\ calls' \in [1..made -> CallRow]
      /\ \A c \in 1..made :
           /\ calls'[c].fresh = left[c].fresh
           /\ IF c \in Waiting
                THEN /\ calls'[c].user = u /\ calls'[c].phase = "sent"
                     /\ calls'[c].op = left[c].op /\ calls'[c].req = left[c].req
                     /\ calls'[c].store = left[c].store
                ELSE calls'[c] = left[c]
  BY <1>1, <1>4, <1>5, ResumedRows
<1>7. ASSUME NEW d \in 1..made
      PROVE /\ GoesOn(calls'[d], calls[d]) /\ calls'[d].phase # "waiting"
            /\ calls'[d].fresh <=>
                 calls[d].fresh /\ (me # u => ~(calls[d].store \in Guarded /\ calls[d].phase # "done"))
            /\ calls'[d].user \in {calls[d].user, u}
  <2>1. CASE d \in Waiting
    BY <1>4, <1>6, <2>1 DEF GoesOn, Waiting
  <2>2. CASE d \notin Waiting
    BY <1>1, <1>4, <1>6, <2>2 DEF GoesOn, Waiting
  <2>3. QED
    BY <2>1, <2>2
<1>8. /\ cache' \in [Used -> Cache]
      /\ CallsOfStores(calls', Used) /\ ReadsBegun(cache')
      /\ BusyEnds(cache', calls') /\ NotOlder(cache', cache)
      /\ ~strayed' => FreshCallsOf(calls', u) /\ DataOf(cache', u)
  <2>1. CASE me # u
    <3>1. cache' = ClearedCache(cache)
      BY <1>2, <2>1
    <3>2. PICK over : over = {}
      OBVIOUS
    <3>3. over \in SUBSET DOMAIN calls /\ \A d \in over : calls[d].store = "session"
      BY <3>2
    <3>4. LeftOf(cache', over)
      BY <3>1, <3>3, ClearedIsLeft
    <3>5. QED
      <4>1. /\ \A c \in over : calls'[c] = Over
            /\ \A c \in DOMAIN calls \ over :
                 /\ GoesOn(calls'[c], calls[c])
                 /\ calls'[c].fresh <=> calls[c].fresh /\ ~(calls[c].store \in Guarded /\ calls[c].phase # "done")
        BY <1>1, <1>7, <2>1, <3>2
      <4>2. QED
        BY <1>6, <3>3, <3>4, <4>1, ClearingKeeps DEF OverAndOutdated
  <2>2. CASE me = u
    <3>1. cache' = cache /\ strayed' = strayed
      BY <1>2, <2>2 DEF ConsoleInv, ConsoleTypeOK
    <3>2. \A d \in DOMAIN calls :
            \/ GoesOn(calls'[d], calls[d]) /\ (calls'[d].fresh <=> calls[d].fresh)
            \/ calls'[d] = Over /\ calls[d].store = "session"
      BY <1>1, <1>7, <2>2
    <3>3. CallsOfStores(calls', Used) /\ BusyEnds(cache, calls') /\ NotOlder(cache, cache)
      BY <1>6, <3>2, StayingKeeps
    <3>4. ~strayed => token = u /\ FreshCallsOf(calls, u) /\ DataOf(cache, u)
      BY <2>2 DEF ConsoleInv
    <3>5. ~strayed => FreshCallsOf(calls', u)
      BY <1>1, <1>6, <1>7, <2>2, <3>4 DEF FreshCallsOf, GoesOn
    <3>6. QED
      BY <1>1, <3>1, <3>3, <3>4, <3>5 DEF ConsoleInv
  <2>3. QED
    BY <2>1, <2>2
<1>9. Used' = Used
  BY <1>8 DEF Used
<1>10. Waiting' = {}
  BY <1>6, <1>7 DEF Waiting
<1>11. strayed' \in BOOLEAN /\ initialized' \in BOOLEAN /\ u \in Someone
  BY <1>2 DEF Someone
<1>12. ConsoleTypeOK'
  BY <1>2, <1>6, <1>8, <1>9, <1>11 DEF ConsoleInv, ConsoleTypeOK
<1>13. RefreshEnds'
  BY <1>2, <1>10 DEF RefreshEnds
<1>14. QED
  BY <1>2, <1>8, <1>9, <1>12, <1>13 DEF ConsoleInv

LEMMA ConsoleStarts == ConsoleInit => ConsoleInv
<1> SUFFICES ASSUME ConsoleInit
             PROVE ConsoleInv
  OBVIOUS
<1>1. PICK used \in InUse : cache = [s \in used |-> EmptyCache]
  BY DEF ConsoleInit
<1>2. /\ Used = used /\ used \subseteq Store /\ cache \in [Used -> Cache]
      /\ \A s \in Used : cache[s] = EmptyCache
  BY <1>1, EmptyFields, ConsoleAssumption DEF Used
<1>3. /\ token = Nobody /\ me = Nobody /\ initialized = FALSE /\ restoring = TRUE /\ view = "login"
      /\ refreshing = TRUE /\ calls = << >> /\ made = 0 /\ strayed = FALSE
  BY DEF ConsoleInit
<1>4. DOMAIN calls = {} /\ calls \in [1..made -> CallRow] /\ made \in 0..MaxCalls
  BY <1>3, ConsoleAssumption
<1>5. ConsoleTypeOK
  BY <1>1, <1>2, <1>3, <1>4 DEF ConsoleTypeOK, Someone
<1>6. CallsOfStores(calls, Used) /\ FreshCallsOf(calls, token)
  BY <1>4 DEF CallsOfStores, FreshCallsOf
<1>7. ReadsBegun(cache) /\ DataOf(cache, token) /\ BusyEnds(cache, calls)
  BY <1>2, EmptyFields DEF ReadsBegun, DataOf, BusyEnds, Used
<1>8. RefreshEnds
  BY <1>3 DEF RefreshEnds
<1>9. QED
  BY <1>3, <1>5, <1>6, <1>7, <1>8 DEF ConsoleInv

LEMMA ConsoleStutters == ConsoleInv /\ UNCHANGED consoleVars => ConsoleInv' /\ NotOlder(cache', cache)
<1> SUFFICES ASSUME ConsoleInv, UNCHANGED consoleVars
             PROVE ConsoleInv' /\ NotOlder(cache', cache)
  OBVIOUS
<1>1. Used' = Used /\ Waiting' = Waiting /\ cache' = cache
  BY DEF consoleVars, Used, Waiting
<1>2. ConsoleInv'
  BY <1>1 DEF consoleVars, ConsoleInv, ConsoleTypeOK, RefreshEnds
<1>3. QED
  BY <1>1, <1>2, NothingOlder

LEMMA ConsoleStep == ConsoleInv /\ [ConsoleNext]_consoleVars => ConsoleInv' /\ NotOlder(cache', cache)
<1> SUFFICES ASSUME ConsoleInv, [ConsoleNext]_consoleVars
             PROVE ConsoleInv' /\ NotOlder(cache', cache)
  OBVIOUS
<1>1. CASE \E s \in Used : \E op \in Operations(s) : Operate(s, op)
  BY <1>1, OperateKeeps
<1>2. CASE \E u \in Person : SignIn(u)
  BY <1>2, SignInKeeps
<1>3. CASE \E op \in {"me", "password", "logout"} : OperateSession(op)
  BY <1>3, OperateSessionKeeps
<1>4. CASE Navigate
  BY <1>4, NavigateKeeps
<1>5. ASSUME NEW c \in ApiCall,
             \/ Answer(c) \/ AnswerDefault(c) \/ AnswerMe(c) \/ AnswerLogin(c) \/ AnswerSignOut(c)
             \/ AnswerError(c) \/ AnswerExpired(c) \/ AnswerUnauthorized(c)
      PROVE ConsoleInv' /\ NotOlder(cache', cache)
  BY <1>5, AnswerKeeps, AnswerDefaultKeeps, AnswerMeKeeps, AnswerLoginKeeps, AnswerSignOutKeeps,
     AnswerErrorKeeps, AnswerExpiredKeeps, AnswerUnauthorizedKeeps
<1>6. CASE \E u \in Person : RefreshSucceeds(u)
  BY <1>6, RefreshSucceedsKeeps
<1>7. CASE RefreshFails
  BY <1>7, RefreshFailsKeeps
<1>8. CASE UNCHANGED consoleVars
  BY <1>8, ConsoleStutters
<1>9. QED
  BY <1>1, <1>2, <1>3, <1>4, <1>5, <1>6, <1>7, <1>8 DEF ConsoleNext

LEMMA ConsoleInvariant == ConsoleSpec => []ConsoleInv
BY ConsoleStarts, ConsoleStep, PTL DEF ConsoleSpec

\* The state of a tab has its types.
THEOREM ConsoleTypes == ConsoleSpec => []ConsoleTypeOK
<1>1. ConsoleInv => ConsoleTypeOK
  BY DEF ConsoleInv
<1>2. QED
  BY <1>1, ConsoleInvariant, PTL

\* What projects and model configurations show belongs to the user who is signed in, unless
\* loadCurrentUser has taken the answer of an earlier session for one of this session.
THEOREM CachesFollowSessions == ConsoleSpec => []CachesOfSession
<1>1. ConsoleInv => CachesOfSession
  BY DEF ConsoleInv, CachesOfSession, DataOf, Used
<1>2. QED
  BY <1>1, ConsoleInvariant, PTL

\* An answer to a read never covers what a newer read of the same kind has brought.
THEOREM NewerReadsStay == ConsoleSpec => NewestReadShown
<1>1. ConsoleInv /\ [ConsoleNext]_consoleVars =>
        [\A s \in Used \intersect Guarded :
           /\ cache'[s].listed = 0 \/ cache'[s].listed >= cache[s].listed
           /\ cache'[s].detailed = 0 \/ cache'[s].detailed >= cache[s].detailed]_consoleVars
  BY ConsoleStep DEF NotOlder, Used
<1>2. QED
  BY <1>1, ConsoleInvariant, PTL DEF ConsoleSpec, NewestReadShown

\* A store is busy, and a call or the start of the tab waits, only for something that is
\* under way.
THEOREM WaitsAreAnswered == ConsoleSpec => []WaitsEnd
<1>1. ConsoleInv => WaitsEnd
  <2> SUFFICES ASSUME ConsoleInv
               PROVE WaitsEnd
    OBVIOUS
  <2>1. \A s \in Used : \A c \in DOMAIN calls :
          ~Idle([cache[s] EXCEPT !.busy = TRUE], calls[c]).busy <=> Frees(cache[s], calls[c])
    BY ConsoleRows, IdleIsFreed DEF ConsoleInv
  <2>2. QED
    BY <2>1 DEF ConsoleInv, BusyEnds, RefreshEnds, WaitsEnd, Used
<1>2. QED
  BY <1>1, ConsoleInvariant, PTL
================================================================================
