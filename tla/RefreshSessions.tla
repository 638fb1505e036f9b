--------------------------- MODULE RefreshSessions ---------------------------
(***************************************************************************)
(* One account: its user row, its password credential and its refresh      *)
(* sessions (auth_service.py, session_service.py, user_admin_service.py).  *)
(*                                                                         *)
(* A login founds a family of sessions; a refresh replaces the session of  *)
(* its token by another of the same family (rotation); a token that was    *)
(* rotated already ends the family when it comes again.                    *)
(*                                                                         *)
(* Every command locks the rows it decides on before it reads them, and is *)
(* one step, with one exception.  refresh() reads the session and the      *)
(* credential without a lock, to learn whom they belong to, keeps both     *)
(* objects, and selects them again FOR UPDATE once it has the user.  The   *)
(* second select waits for the lock but leaves the attributes of objects   *)
(* the database session already has as they are (only                      *)
(* _load_access_identity asks for populate_existing), so what refresh()    *)
(* decides on is what it read first.  Hence BeginRefresh and FinishRefresh.*)
(*                                                                         *)
(* Sessions are numbered in the order of their issue.                      *)
(***************************************************************************)
EXTENDS Naturals, FiniteSets

CONSTANTS
  Request,       \* refresh requests that may be under way together
  MaxSession,    \* bound: sessions ever issued
  MaxPasswords,  \* bound: credential versions
  SessionLimit,  \* sessions a login leaves ACTIVE at most (5 in the code)
  SessionTTL,    \* life of a family in ticks (604800 seconds)
  MaxFailures,   \* wrong passwords until the lock (5)
  LockTTL        \* length of the failure window and of the lock (900 seconds)

ASSUME SessionsAssumption ==
  /\ MaxSession \in Nat
  /\ MaxPasswords \in Nat \ {0}
  /\ SessionLimit \in Nat \ {0}
  /\ SessionTTL \in Nat \ {0}
  /\ MaxFailures \in Nat \ {0}
  /\ LockTTL \in Nat \ {0}

Session == 1..MaxSession

VARIABLES
  account,     \* PlatformUser.lifecycle_status
  credential,  \* version, force_password_change, login failures and lock
  session,     \* AuthRefreshSession rows
  refresh,     \* what each refresh request read before it waited for its locks
  raced        \* history: a refresh rotated a session that was not ACTIVE any more

accountVars == <<account, credential, session, refresh, raced>>

SessionStatus == {"NONE", "ACTIVE", "ROTATED", "REVOKED", "EXPIRED", "COMPROMISED"}

\* ttl is expires_at minus now, 0 once expired.
SessionRow == [status : SessionStatus, family : 0..MaxSession, version : Nat, ttl : 0..SessionTTL]

\* failures counts those of a window that is still open.  window is what is left of it, or
\* of the lock it led to: both last as long, so a window is over when its lock is, and
\* locked_until > now says that MaxFailures were counted.
Credential == [version : Nat, forced : BOOLEAN, failures : 0..MaxFailures, window : 0..LockTTL]

\* session 0: the request is not under way.
Reading == [session : 0..MaxSession, status : SessionStatus, version : Nat, forced : BOOLEAN]

NotReading == [session |-> 0, status |-> "NONE", version |-> 0, forced |-> FALSE]

AccountTypeOK ==
  /\ account \in {"ACTIVE", "DISABLED"}
  /\ credential \in Credential
  /\ session \in [Session -> SessionRow]
  /\ refresh \in [Request -> Reading]
  /\ raced \in BOOLEAN

\* An account without sessions: as create_user and the bootstrap leave it, or as a change of
\* its password does.  Versions count from here.
AccountInit ==
  /\ account = "ACTIVE"
  /\ \E forced \in BOOLEAN :
       credential = [version |-> 1, forced |-> forced, failures |-> 0, window |-> 0]
  /\ session = [s \in Session |-> [status |-> "NONE", family |-> 0, version |-> 0, ttl |-> 0]]
  /\ refresh = [q \in Request |-> NotReading]
  /\ raced = FALSE

-----------------------------------------------------------------------------
(* Sessions *)

Issued == {s \in Session : session[s].status # "NONE"}
Active == {s \in Session : session[s].status = "ACTIVE"}
Live == {s \in Active : session[s].ttl > 0}
FamilyOf(s) == {t \in Issued : session[t].family = session[s].family}

\* The id the next session takes.
IsNext(n) == n \notin Issued /\ \A s \in Session : s < n => s \in Issued

\* revoke_active_for_credential
RevokeAll ==
  [s \in Session |-> IF s \in Active THEN [session[s] EXCEPT !.status = "REVOKED"] ELSE session[s]]

\* Mutated CompromiseFamily: the replayed session alone is marked.
CompromiseSession(s) == [session EXCEPT ![s].status = "COMPROMISED"]

\* compromise_family
CompromiseFamily(s) ==
  [t \in Session |-> IF t \in FamilyOf(s) THEN [session[t] EXCEPT !.status = "COMPROMISED"]
                     ELSE session[t]]

\* The oldest live sessions create() revokes to make room for one more.
Evicted == {s \in Live : Cardinality({t \in Live : t > s}) >= SessionLimit - 1}

\* create() with enforce_limit: expired sessions are marked, the oldest ones revoked, and
\* session n is issued as the first of its family.
Found(n) ==
  [s \in Session |->
     IF s = n THEN [status |-> "ACTIVE", family |-> n, version |-> credential.version,
                    ttl |-> SessionTTL]
     ELSE IF s \in Active \ Live THEN [session[s] EXCEPT !.status = "EXPIRED"]
     ELSE IF s \in Evicted THEN [session[s] EXCEPT !.status = "REVOKED"]
     ELSE session[s]]

\* rotate(): session n replaces s in its family, under the same expiry, with the version of
\* the credential object in hand.
Rotate(s, n, version) ==
  [session EXCEPT
     ![n] = [status |-> "ACTIVE", family |-> session[s].family, version |-> version,
             ttl |-> session[s].ttl],
     ![s].status = "ROTATED"]

-----------------------------------------------------------------------------
(* What administrators do *)

\* set_user_state, disable_user
Disable ==
  /\ account = "ACTIVE"
  /\ account' = "DISABLED"
  /\ session' = RevokeAll
  /\ UNCHANGED <<credential, refresh, raced>>

\* set_user_state, enable_user
Enable ==
  /\ account = "DISABLED"
  /\ account' = "ACTIVE"
  /\ UNCHANGED <<credential, session, refresh, raced>>

\* The password is another one: next version, failures and lock cleared.
NewPassword(forced) ==
  [credential EXCEPT !.version = credential.version + 1, !.forced = forced,
                     !.failures = 0, !.window = 0]

\* reset_credential
ResetCredential ==
  /\ credential.version < MaxPasswords
  /\ credential' = NewPassword(TRUE)
  /\ session' = RevokeAll
  /\ UNCHANGED <<account, refresh, raced>>

-----------------------------------------------------------------------------
(* Login *)

Locked == credential.failures = MaxFailures

\* A login with the right password.
Login(n) ==
  /\ account = "ACTIVE"
  /\ ~Locked
  /\ IsNext(n)
  /\ credential' = [credential EXCEPT !.failures = 0, !.window = 0]
  /\ session' = Found(n)
  /\ UNCHANGED <<account, refresh, raced>>

\* A login with a wrong one: _record_login_failure.  The first failure opens the window, the
\* last one begins the lock; under the lock nothing is counted.
LoginFails ==
  /\ account = "ACTIVE"
  /\ ~Locked
  /\ LET count == credential.failures + 1 IN
       credential' = [credential EXCEPT
         !.failures = count,
         !.window = IF count \in {1, MaxFailures} THEN LockTTL ELSE credential.window]
  /\ UNCHANGED <<account, session, refresh, raced>>

-----------------------------------------------------------------------------
(* Refresh *)

\* session_hint and credential_hint
BeginRefresh(q, s) ==
  /\ refresh[q] = NotReading
  /\ s \in Issued
  /\ refresh' = [refresh EXCEPT ![q] =
        [session |-> s, status |-> session[s].status,
         version |-> credential.version, forced |-> credential.forced]]
  /\ UNCHANGED <<account, credential, session, raced>>

Answered(q) == refresh' = [refresh EXCEPT ![q] = NotReading]

\* The token was rotated when the request read it.
RefreshReplayed(q) ==
  /\ refresh[q].status = "ROTATED"
  /\ session' = CompromiseFamily(refresh[q].session)
  /\ Answered(q)
  /\ UNCHANGED <<account, credential, raced>>

\* Its time is up.
RefreshExpired(q) ==
  /\ refresh[q].status = "ACTIVE"
  /\ session[refresh[q].session].ttl = 0
  /\ session' = [session EXCEPT ![refresh[q].session].status = "EXPIRED"]
  /\ Answered(q)
  /\ UNCHANGED <<account, credential, raced>>

\* The request passes the checks on the session it read.
Presentable(q) == refresh[q].status = "ACTIVE" /\ session[refresh[q].session].ttl > 0

\* _require_login_user_state; the user is read once, under its lock.
RefreshUserDisabled(q) ==
  /\ Presentable(q)
  /\ account # "ACTIVE"
  /\ session' = RevokeAll
  /\ Answered(q)
  /\ UNCHANGED <<account, credential, raced>>

\* Mutated Rotatable: the version of the credential is not looked at.
RotatableAcrossVersions(q) ==
  /\ Presentable(q)
  /\ account = "ACTIVE"
  /\ ~refresh[q].forced

\* Mutated Rotatable: the user's state is left to login.
RotatableWhileDisabled(q) ==
  /\ Presentable(q)
  /\ ~refresh[q].forced
  /\ session[refresh[q].session].version = refresh[q].version

Rotatable(q) ==
  /\ Presentable(q)
  /\ account = "ACTIVE"
  /\ ~refresh[q].forced
  /\ session[refresh[q].session].version = refresh[q].version

RefreshRotates(q, n) ==
  /\ Rotatable(q)
  /\ IsNext(n)
  /\ session' = Rotate(refresh[q].session, n, refresh[q].version)
  /\ raced' = (raced \/ refresh[q].session \notin Active)
  /\ Answered(q)
  /\ UNCHANGED <<account, credential>>

\* What remains is refused: an inactive session, a password to change, another version.
RefreshRefused(q) ==
  /\ refresh[q].session # 0
  /\ refresh[q].status # "ROTATED"
  /\ Presentable(q) => account = "ACTIVE"
  /\ refresh[q].status = "ACTIVE" => session[refresh[q].session].ttl > 0
  /\ ~Rotatable(q)
  /\ Answered(q)
  /\ UNCHANGED <<account, credential, session, raced>>

-----------------------------------------------------------------------------
(* Logout, access and change of password *)

Logout(s) ==
  /\ s \in Active
  /\ session' = [session EXCEPT ![s].status = "REVOKED"]
  /\ UNCHANGED <<account, credential, refresh, raced>>

\* What _load_access_identity demands of the session an access token names.
Usable(s) == s \in Live /\ account = "ACTIVE" /\ session[s].version = credential.version

\* authenticate_access of a session whose time is up; any other outcome leaves the rows alone,
\* for a disabled user has no ACTIVE session left to revoke (DisabledHasNoSession).
AccessExpires(s) ==
  /\ account = "ACTIVE"
  /\ s \in Active \ Live
  /\ session' = [session EXCEPT ![s].status = "EXPIRED"]
  /\ UNCHANGED <<account, credential, refresh, raced>>

\* change_password with the access token of session s.
ChangePassword(s) ==
  /\ Usable(s)
  /\ credential.version < MaxPasswords
  /\ credential' = NewPassword(FALSE)
  /\ session' = RevokeAll
  /\ UNCHANGED <<account, refresh, raced>>

Left(n) == IF n > 0 THEN n - 1 ELSE 0

Tick ==
  /\ \/ \E s \in Session : session[s].ttl > 0
     \/ credential.window > 0
  /\ session' = [s \in Session |-> [session[s] EXCEPT !.ttl = Left(session[s].ttl)]]
  /\ credential' = [credential EXCEPT !.window = Left(credential.window),
        !.failures = IF credential.window > 1 THEN credential.failures ELSE 0]
  /\ UNCHANGED <<account, refresh, raced>>

AccountNext ==
  \/ Disable
  \/ Enable
  \/ ResetCredential
  \/ \E n \in Session : Login(n)
  \/ LoginFails
  \/ \E q \in Request, s \in Session : BeginRefresh(q, s)
  \/ \E q \in Request : RefreshReplayed(q)
  \/ \E q \in Request : RefreshExpired(q)
  \/ \E q \in Request : RefreshUserDisabled(q)
  \/ \E q \in Request, n \in Session : RefreshRotates(q, n)
  \/ \E q \in Request : RefreshRefused(q)
  \/ \E s \in Session : Logout(s)
  \/ \E s \in Session : AccessExpires(s)
  \/ \E s \in Session : ChangePassword(s)
  \/ Tick

AccountSpec == AccountInit /\ [][AccountNext]_accountVars

-----------------------------------------------------------------------------
(* Properties *)

\* A session that opens the API descends from a login with the password in force, not longer
\* ago than a session may last: rotation hands on the version and the expiry of the login,
\* also where it works on a credential that has changed since it was read.
UsableDescendsFromLogin ==
  \A s \in Session : Usable(s) =>
    LET login == session[s].family IN
      /\ login \in Issued /\ session[login].family = login
      /\ session[login].version = credential.version
      /\ session[login].ttl = session[s].ttl

\* A user who is disabled has no ACTIVE session, whatever refreshes were under way when the
\* user was disabled: they read the user under its lock.
DisabledHasNoSession == account # "ACTIVE" => Active = {}

\* As long as no two transactions used one session at the same time, an account has no more
\* live sessions than the limit, a family has one ACTIVE session at most, and none once one
\* of its tokens was replayed.
SerialRotation ==
  ~raced =>
    /\ Cardinality(Live) <= SessionLimit
    /\ \A s, t \in Active : session[s].family = session[t].family => s = t
    /\ \A s \in Session : session[s].status = "COMPROMISED" => FamilyOf(s) \cap Active = {}

\* Refuted, see the README: a rotated token is good for nothing, no family has two ACTIVE
\* sessions.  Two refreshes that read one token together rotate it twice.
FamilyHasOneActive ==
  \A s, t \in Active : session[s].family = session[t].family => s = t
===============================================================================
