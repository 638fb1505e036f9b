------------------------------ MODULE WebConsole ------------------------------
(***************************************************************************)
(* The web console of one browser tab (apps/web/src): the session store,   *)
(* the transport every call of the API goes through (api/client.ts) and    *)
(* the stores the pages show (stores/*.ts).                                *)
(*                                                                         *)
(* A call suspends its store until the answer is handled.  Between two     *)
(* answers the tab runs to completion, so an action is the handling of one *)
(* event: a command of the user, an answer, or the end of a refresh with   *)
(* everything that waited for it.  Answers come in any order, or a network *)
(* error in their place.                                                   *)
(*                                                                         *)
(* A call carries the access token of the session at the time it is sent.  *)
(* An access token is represented by the user it was issued to.  What a    *)
(* store shows is represented by the users whose calls brought it.         *)
(*                                                                         *)
(* Three kinds of store: projects and models drop an answer that is older  *)
(* than the last change of identity, or than the newest read of its kind;  *)
(* explorations is emptied by a change of identity and takes every answer; *)
(* the stores of the project's pages do neither.                           *)
(***************************************************************************)
EXTENDS Naturals, Sequences

CONSTANTS
  Person,      \* users of the platform
  Nobody,      \* no user: null
  MaxCalls,  \* bound: calls the tab makes
  InUse      \* the sets of stores a tab may have in use (a store exists from its first use)

Guarded == {"projects", "models"}

Cleared == Guarded \union {"explorations"}

Pages == {"environments", "testAccounts", "runners", "businessTerminals", "executionBindings"}

Store == Cleared \union Pages

ASSUME ConsoleAssumption ==
  /\ Nobody \notin Person
  /\ MaxCalls \in Nat
  /\ InUse \subseteq SUBSET Store

ApiCall == 1..MaxCalls

VARIABLES
  token,        \* accessToken
  me,           \* currentUser
  initialized,
  restoring,    \* restoreSession waits for the refresh
  view,         \* the page the router shows
  refreshing,   \* refreshPromise is set
  calls,        \* the calls of the API, in the order they were made
  made,         \* how many there are
  cache,        \* what each store in use keeps
  strayed       \* history: /me of another session was accepted after the last clearing

consoleVars == <<token, me, initialized, restoring, view, refreshing, calls, made, cache, strayed>>

Someone == Person \union {Nobody}

Used == DOMAIN cache

Op == {"login", "logout", "password", "me", "list", "detail", "create", "save", "test",
       "default", "reload", "side"}

\* user: whose token the call carries; as: who a login is for; fresh: the generation of the
\* cache is still the one the call began in; req: its request id among the reads of its kind.
CallRow == [op : Op, store : Store \union {"session"}, as : Someone,
            phase : {"sent", "waiting", "done"}, user : Someone, retried : BOOLEAN,
            fresh : BOOLEAN, req : Nat]

\* results: what a store keeps beside its rows (connectionResults, issuedEnrollment and
\* issuedToken, strategies and revisions, policies, slots and preflight).  lists, details:
\* listRequestId and detailRequestId.  listed, detailed: the reads that filled items and
\* current (0: none).
Cache == [items : SUBSET Person, results : SUBSET Person, current : Someone, busy : BOOLEAN,
          lists : Nat, details : Nat, listed : Nat, detailed : Nat]

\* A call that is over: nothing refers to it any more.
Over == [op |-> "me", store |-> "session", as |-> Nobody, phase |-> "done", user |-> Nobody,
         retried |-> FALSE, fresh |-> FALSE, req |-> 0]

EmptyCache == [items |-> {}, results |-> {}, current |-> Nobody, busy |-> FALSE,
               lists |-> 0, details |-> 0, listed |-> 0, detailed |-> 0]

ConsoleTypeOK ==
  /\ token \in Someone /\ me \in Someone
  /\ initialized \in BOOLEAN /\ refreshing \in BOOLEAN /\ restoring \in BOOLEAN /\ strayed \in BOOLEAN
  /\ view \in {"login", "page"}
  /\ made \in 0..MaxCalls
  /\ calls \in [1..made -> CallRow]
  /\ Used \in InUse /\ cache \in [Used -> Cache]

\* The tab is opened: its router restores the session before it shows anything.
ConsoleInit ==
  /\ token = Nobody /\ me = Nobody
  /\ initialized = FALSE /\ restoring = TRUE
  /\ view = "login"
  /\ refreshing = TRUE
  /\ calls = << >> /\ made = 0
  /\ \E used \in InUse : cache = [s \in used |-> EmptyCache]
  /\ strayed = FALSE

Authenticated == token # Nobody /\ me # Nobody

(***************************************************************************)
(* Clearing                                                                *)
(***************************************************************************)

\* Mutated ClearedCache: the status is left as it is.
KeepsBusy(kept) ==
  [s \in DOMAIN kept |->
     IF s \in Cleared THEN [EmptyCache EXCEPT !.busy = kept[s].busy] ELSE kept[s]]

\* clearProjects, clearConfigurations, clear.  The generation and both request ids move on,
\* so no answer under way passes its checks: the ids can start again from 0.
ClearedCache(kept) == [s \in DOMAIN kept |-> IF s \in Cleared THEN EmptyCache ELSE kept[s]]

\* Mutated Outdated: the generation is not moved on.
KeepsGeneration(old) == old

\* The calls left with a generation that is over.
Outdated(old) == [c \in DOMAIN old |->
                    IF old[c].store \in Guarded /\ old[c].phase # "done"
                      THEN [old[c] EXCEPT !.fresh = FALSE] ELSE old[c]]

(* The operations of a store, and what each does when it is called.  The   *)
(* reads beside the rows (loadSteps, loadStrategies, loadRevisions,        *)
(* loadSlots, loadPolicies) do not make the store busy.                    *)
(***************************************************************************)
Operations(s) ==
  CASE s = "projects" -> {"list", "detail", "create", "save"}
    [] s = "models" -> {"list", "detail", "save", "test", "default"}
    [] s = "explorations" -> {"detail", "create", "save", "side"}
    [] s = "runners" -> {"list", "save", "test"}
    [] s = "businessTerminals" -> {"list", "create", "save", "side", "test"}
    [] s = "executionBindings" -> {"list", "save", "side", "test"}
    [] OTHER -> {"list", "create", "save"}

Begun(s, op) ==
  [cache[s] EXCEPT
     !.lists = IF op = "list" /\ s \in Guarded THEN @ + 1 ELSE @,
     !.details = IF op = "detail" /\ s \in Guarded THEN @ + 1 ELSE @,
     !.busy = @ \/ op # "side",
     !.items = IF s = "projects" /\ op = "list" THEN {} ELSE @,
     !.listed = IF s = "projects" /\ op = "list" THEN 0 ELSE @,
     !.current = IF <<s, op>> \in {<<"projects", "detail">>, <<"explorations", "create">>}
                   THEN Nobody ELSE @,
     !.detailed = IF s = "projects" /\ op = "detail" THEN 0 ELSE @]

(***************************************************************************)
(* What it does with the answer.  Accepts: the checks of a guarded store.  *)
(***************************************************************************)
\* Mutated Accepts: the request ids are not compared.
AcceptsAnyRead(k, c) == c.store \in Guarded => c.fresh

Accepts(k, c) ==
  \/ c.store \notin Guarded
  \/ /\ c.fresh
     /\ c.op \in {"list", "reload"} => c.req = k.lists
     /\ c.op = "detail" => c.req = k.details

\* What the store may show after an answer to c for user u.
ProjectsShown(k, c, u) ==
  CASE c.op = "list" -> {[k EXCEPT !.items = {u}, !.listed = c.req]}
    [] c.op = "detail" -> {[k EXCEPT !.current = u, !.detailed = c.req]}
    [] OTHER -> {[k EXCEPT !.items = @ \union {u}, !.current = u, !.detailed = 0]}

\* The list of configurations was read: the current row goes when the list has it no more.
ModelsRead(k, c, u) ==
  {[k EXCEPT !.items = {u}, !.listed = c.req, !.current = one,
             !.detailed = IF one = Nobody THEN 0 ELSE @] :
     one \in IF k.current = Nobody THEN {Nobody} ELSE {u, Nobody}}

\* A row was written: the current one is replaced when it is the one of the answer, and the
\* result of its connection test is dropped when its version or state is another.
Written(k, u, kept, one) ==
  [k EXCEPT !.items = @ \union {u}, !.results = kept, !.current = one]

ModelsRow(k, u) ==
  {Written(k, u, kept, one) :
     kept \in {{}, k.results}, one \in IF k.current = Nobody THEN {Nobody} ELSE {u, k.current}}

ModelsShown(k, c, u) ==
  CASE c.op \in {"list", "reload"} -> ModelsRead(k, c, u)
    [] c.op = "detail" ->
         {[k EXCEPT !.items = @ \union {u}, !.results = kept, !.current = u,
                    !.detailed = c.req] : kept \in {{}, k.results}}
    [] c.op = "test" -> {[k EXCEPT !.results = @ \union {u}]}
    [] OTHER -> ModelsRow(k, u)

\* replace: the row of the answer takes the place of the one the list has of it, if it has one.
RowShown(k, u) ==
  {[k EXCEPT !.items = shown, !.current = u] : shown \in {k.items, k.items \union {u}}}

\* What is kept beside the rows: of the terminals the login strategies and the access
\* revisions, of the bindings policies, slots and the preflight, of the Runners the enrollment
\* or the token that was issued and is shown once.
BesideShown(k, u) == {[k EXCEPT !.results = @ \union {u}]}

ExplorationsShown(k, c, u) ==
  IF c.op = "side" THEN {[k EXCEPT !.items = {u}]} ELSE {[k EXCEPT !.current = u]}

\* A row that no longer matches the filter leaves the list.
EnvironmentsShown(k, c, u) ==
  IF c.op = "list" THEN {[k EXCEPT !.items = {u}]}
  ELSE {[k EXCEPT !.items = shown, !.current = u] : shown \in {k.items, k.items \union {u}, {}}}

TestAccountsShown(k, c, u) ==
  CASE c.op = "list" -> {[k EXCEPT !.items = {u}]}
    [] c.op = "create" -> {[k EXCEPT !.items = @ \union {u}, !.current = u]}
    [] OTHER -> RowShown(k, u)

RunnersShown(k, c, u) ==
  CASE c.op = "list" -> {[k EXCEPT !.items = {u}]}
    [] c.op = "test" -> BesideShown(k, u)
    [] OTHER -> RowShown(k, u)

TerminalsShown(k, c, u) ==
  CASE c.op = "list" -> {[k EXCEPT !.items = {u}]}
    [] c.op = "create" -> {[k EXCEPT !.current = u]}
    [] c.op \in {"side", "test"} -> BesideShown(k, u)
    [] OTHER -> RowShown(k, u)

BindingsShown(k, c, u) ==
  CASE c.op = "list" -> {[k EXCEPT !.items = {u}]}
    [] c.op \in {"side", "test"} -> BesideShown(k, u)
    [] OTHER -> {[k EXCEPT !.items = @ \union {u}, !.current = u]}

Shown(s, k, c, u) ==
  CASE s = "projects" -> ProjectsShown(k, c, u)
    [] s = "models" -> ModelsShown(k, c, u)
    [] s = "explorations" -> ExplorationsShown(k, c, u)
    [] s = "environments" -> EnvironmentsShown(k, c, u)
    [] s = "testAccounts" -> TestAccountsShown(k, c, u)
    [] s = "runners" -> RunnersShown(k, c, u)
    [] s = "businessTerminals" -> TerminalsShown(k, c, u)
    [] s = "executionBindings" -> BindingsShown(k, c, u)

\* What it may show after an error.
Emptied(s, k, c) ==
  CASE c.op \in {"list", "reload"} ->
         {[k EXCEPT !.items = {}, !.listed = 0,
                    !.current = IF s = "models" THEN Nobody ELSE @,
                    !.detailed = IF s = "models" THEN 0 ELSE @]}
    [] c.op = "detail" /\ s \in Guarded -> {[k EXCEPT !.current = Nobody, !.detailed = 0]}
    [] c.op = "side" /\ s \in Pages -> {[k EXCEPT !.results = kept] : kept \in {{}, k.results}}
    [] OTHER -> {k}

\* The finally block.  That of a change of the default model comes after the reload and asks
\* for the generation only.
Idle(k, c) ==
  [k EXCEPT !.busy = CASE c.op = "side" -> @
                       [] c.op = "reload" -> @ /\ ~c.fresh
                       [] OTHER -> @ /\ ~Accepts(k, c)]

(***************************************************************************)
(* Commands of the user.  A page is shown to a session, and stays until    *)
(* the router replaces it.                                                 *)
(***************************************************************************)
Send(op, s, as, req) ==
  /\ made < MaxCalls
  /\ made' = made + 1
  /\ calls' = Append(calls, [op |-> op, store |-> s, as |-> as, phase |-> "sent",
                             user |-> token, retried |-> FALSE, fresh |-> TRUE, req |-> req])

Operate(s, op) ==
  /\ view = "page"
  /\ op \in Operations(s)
  /\ cache' = [cache EXCEPT ![s] = Begun(s, op)]
  /\ Send(op, s, Nobody, CASE op = "list" -> cache'[s].lists
                         [] op = "detail" -> cache'[s].details
                         [] OTHER -> 0)
  /\ UNCHANGED <<token, me, initialized, restoring, view, refreshing, strayed>>

\* LoginView.submit: Enter in the password field calls it whatever the status, and neither it nor
\* login looks for a login under way; several may be, for different users.
SignIn(u) ==
  /\ view = "login" /\ initialized
  /\ Send("login", "session", u, 0)
  /\ UNCHANGED <<token, me, initialized, restoring, view, refreshing, cache, strayed>>

\* loadCurrentUser, changePassword, logout.
OperateSession(op) ==
  /\ view = "page"
  /\ op \in {"me", "password", "logout"}
  /\ Send(op, "session", Nobody, 0)
  /\ UNCHANGED <<token, me, initialized, restoring, view, refreshing, cache, strayed>>

\* A navigation: the guard of the router sends it where the session may go.
Navigate ==
  /\ initialized
  /\ view' = IF Authenticated THEN "page" ELSE "login"
  /\ view' # view
  /\ UNCHANGED <<token, me, initialized, restoring, refreshing, calls, made, cache, strayed>>

(***************************************************************************)
(* The session                                                             *)
(***************************************************************************)

\* acceptAuthentication: the caches are cleared when another user comes in.
Accept(u) ==
  /\ token' = u /\ me' = u
  /\ strayed' = (strayed /\ me = u)

\* clearSession
SignedOut ==
  /\ token' = Nobody /\ me' = Nobody
  /\ strayed' = FALSE
  /\ initialized' = TRUE

\* A call is over.
Done(c, all) == [all EXCEPT ![c] = Over]

\* onAuthenticationLost, then the error of the calls in `over`: in the stores it has not
\* cleared a list that could not be read is empty (the last one beside the rows, if `bare`),
\* and they are idle.
Failed(kept, over, bare) ==
  [s \in DOMAIN kept |->
     LET ended == {calls[c].op : c \in {d \in over : calls[d].store = s}}
     IN  [kept[s] EXCEPT !.busy = @ /\ ended \subseteq {"side"},
                         !.items = IF "list" \in ended THEN {} ELSE @,
                         !.results = IF s \in Pages /\ "side" \in ended /\ bare THEN {} ELSE @]]

AuthenticationLost(over) ==
  /\ SignedOut
  /\ view' = "login"
  /\ \E bare \in BOOLEAN : cache' = Failed(ClearedCache(cache), over, bare)
  /\ calls' = [c \in DOMAIN calls |->
                 IF c \in over THEN Over ELSE Outdated(calls)[c]]

(***************************************************************************)
(* Answers                                                                 *)
(***************************************************************************)
Sent(c) == c \in DOMAIN calls /\ calls[c].phase = "sent"

CookieOnly == {"login", "logout"}

\* An operation of a store succeeds.
Answer(c) ==
  LET k == cache[calls[c].store]
  IN  /\ Sent(c) /\ calls[c].store # "session" /\ calls[c].user # Nobody
      /\ ~(calls[c].op = "default" /\ calls[c].fresh)
      /\ \E shown \in IF Accepts(k, calls[c])
                        THEN Shown(calls[c].store, k, calls[c], calls[c].user) ELSE {k} :
           cache' = [cache EXCEPT ![calls[c].store] = Idle(shown, calls[c])]
      /\ calls' = Done(c, calls)
      /\ UNCHANGED <<token, me, initialized, restoring, view, refreshing, made, strayed>>

\* setAiExplorationDefault, clearAiExplorationDefault: the list is read again.
AnswerDefault(c) ==
  /\ Sent(c) /\ calls[c].op = "default" /\ calls[c].fresh /\ calls[c].user # Nobody
  /\ cache' = [cache EXCEPT !["models"].lists = @ + 1, !["models"].busy = TRUE]
  /\ calls' = [calls EXCEPT ![c] = [@ EXCEPT !.op = "reload", !.user = token, !.retried = FALSE,
                                             !.req = cache["models"].lists + 1]]
  /\ UNCHANGED <<token, me, initialized, restoring, view, refreshing, made, strayed>>

\* loadCurrentUser: the answer is taken whatever session it is for.
AnswerMe(c) ==
  /\ Sent(c) /\ calls[c].op = "me" /\ calls[c].user # Nobody
  /\ me' = calls[c].user
  /\ strayed' = (strayed \/ token # calls[c].user)
  /\ calls' = Done(c, calls)
  /\ UNCHANGED <<token, initialized, restoring, view, refreshing, made, cache>>

AnswerLogin(c) ==
  /\ Sent(c) /\ calls[c].op = "login"
  /\ Accept(calls[c].as)
  /\ initialized' = TRUE
  /\ cache' = IF me # calls[c].as THEN ClearedCache(cache) ELSE cache
  /\ calls' = Done(c, IF me # calls[c].as THEN Outdated(calls) ELSE calls)
  /\ UNCHANGED <<restoring, view, refreshing, made>>

\* changePassword ends every session of the user, logout this one, whatever its answer is.
AnswerSignOut(c) ==
  /\ Sent(c)
  /\ \/ calls[c].op = "password" /\ calls[c].user # Nobody
     \/ calls[c].op = "logout"
  /\ SignedOut
  /\ view' = "login"
  /\ cache' = ClearedCache(cache)
  /\ calls' = Done(c, Outdated(calls))
  /\ UNCHANGED <<restoring, refreshing, made>>

\* An error that says nothing of the session, or a 401 to a call that carried no token.
AnswerError(c) ==
  /\ Sent(c) /\ calls[c].op # "logout"
  /\ IF calls[c].store = "session" THEN cache' = cache
     ELSE LET k == cache[calls[c].store]
          IN  \E shown \in IF Accepts(k, calls[c])
                              THEN Emptied(calls[c].store, k, calls[c]) ELSE {k} :
                cache' = [cache EXCEPT ![calls[c].store] = Idle(shown, calls[c])]
  /\ calls' = Done(c, calls)
  /\ UNCHANGED <<token, me, initialized, restoring, view, refreshing, made, strayed>>

\* The session of the token is over: one refresh is made for all the calls that learn it.
AnswerExpired(c) ==
  /\ Sent(c) /\ calls[c].user # Nobody
  /\ calls[c].op \notin CookieOnly /\ ~calls[c].retried
  /\ refreshing' = TRUE
  /\ calls' = [calls EXCEPT ![c].phase = "waiting"]
  /\ UNCHANGED <<token, me, initialized, restoring, view, made, cache, strayed>>

\* The retry is refused too, or the 401 is not one a refresh can mend.
AnswerUnauthorized(c) ==
  /\ Sent(c) /\ calls[c].user # Nobody /\ calls[c].op # "logout"
  /\ AuthenticationLost({c})
  /\ UNCHANGED <<restoring, refreshing, made>>

Waiting == {c \in DOMAIN calls : calls[c].phase = "waiting"}

\* The calls that waited are made again, with the token of the moment.
Resumed(all, u) ==
  [c \in DOMAIN all |->
     IF c \in Waiting THEN [all[c] EXCEPT !.phase = "sent", !.user = u, !.retried = TRUE]
     ELSE all[c]]

\* The server answers for the cookie of the refresh.  The cookie is that of the whole browser,
\* where another tab signs in or out between any two steps of this one: it is anybody's.
RefreshSucceeds(u) ==
  /\ refreshing
  /\ Accept(u)
  /\ initialized' = (initialized \/ restoring)
  /\ restoring' = FALSE
  /\ cache' = IF me # u THEN ClearedCache(cache) ELSE cache
  /\ calls' = Resumed(IF me # u THEN Outdated(calls) ELSE calls, u)
  /\ refreshing' = FALSE
  /\ UNCHANGED <<view, made>>

RefreshFails ==
  /\ refreshing
  /\ AuthenticationLost(Waiting)
  /\ restoring' = FALSE
  /\ refreshing' = FALSE
  /\ UNCHANGED <<made>>

ConsoleNext ==
  \/ \E s \in Used : \E op \in Operations(s) : Operate(s, op)
  \/ \E u \in Person : SignIn(u)
  \/ \E op \in {"me", "password", "logout"} : OperateSession(op)
  \/ Navigate
  \/ \E c \in ApiCall :
       \/ Answer(c) \/ AnswerDefault(c) \/ AnswerMe(c) \/ AnswerLogin(c) \/ AnswerSignOut(c)
       \/ AnswerError(c) \/ AnswerExpired(c) \/ AnswerUnauthorized(c)
  \/ \E u \in Person : RefreshSucceeds(u)
  \/ RefreshFails

ConsoleSpec == ConsoleInit /\ [][ConsoleNext]_consoleVars

(***************************************************************************)
(* Properties                                                              *)
(***************************************************************************)

\* What the guarded stores show was brought by calls of the user who is signed in, and
\* nobody's data is left once nobody is, unless the answer to a /me of an earlier session has
\* been taken for one of this session (loadCurrentUser compares nothing).
CachesOfSession ==
  ~strayed =>
    /\ me = token
    /\ \A s \in Used \intersect Guarded :
         /\ cache[s].items \union cache[s].results \subseteq {token} \ {Nobody}
         /\ cache[s].current \in {token, Nobody}

\* An answer to a read of projects or model configurations never covers what a newer read of
\* the same kind has brought.
NewestReadShown ==
  [][\A s \in Used \intersect Guarded :
       /\ cache'[s].listed = 0 \/ cache'[s].listed >= cache[s].listed
       /\ cache'[s].detailed = 0 \/ cache'[s].detailed >= cache[s].detailed]_consoleVars

\* Nothing waits for something that will not come: a store says it is busy only while a call
\* is under way that makes it idle, and a call, or the start of the tab, waits for a refresh
\* only while there is one.
WaitsEnd ==
  /\ \A s \in Used :
       cache[s].busy => \E c \in DOMAIN calls :
                          /\ calls[c].store = s /\ calls[c].phase # "done"
                          /\ ~Idle([cache[s] EXCEPT !.busy = TRUE], calls[c]).busy
  /\ refreshing <=> (restoring \/ Waiting # {})
===============================================================================
