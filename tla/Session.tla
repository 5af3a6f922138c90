-------------------------------- MODULE Session --------------------------------
(***************************************************************************)
(* Logging in and out: the api object of the client library, the auth      *)
(* slice of the store, the effects of the applications that follow its     *)
(* token, and the sessions of the server; on top of the accounts of        *)
(* MailLinks.                                                              *)
(*                                                                         *)
(* A behaviour is about the mail links, or about the application of one    *)
(* device ("web" or "mobile") with the sessions it opens.  A token is the  *)
(* number of its session.                                                  *)
(*                                                                         *)
(* The version request that login's api.init starts and does not wait for  *)
(* is left out: its answer is only kept for the next init, which otherwise *)
(* asks itself.                                                            *)
(***************************************************************************)
EXTENDS MailLinks

CONSTANTS
    Focuses,     \* which of "links", "web", "mobile" to look at
    Home,        \* for each, the users with an account at first and their addresses
    Versions,    \* versions the server may have: <<major, minor, patch>>
    Slots,       \* thunks and effects under way at a time
    MaxVisits    \* logins, logouts, restarts and the like

ASSUME SessionBounds ==
    /\ Focuses \subseteq {"links", "web", "mobile"}
    /\ \A f \in Focuses : Home[f] \in Homes
    /\ Versions \subseteq Nat \X Nat \X Nat
    /\ IsFiniteSet(Slots) /\ MaxVisits \in Nat

VARIABLES
    focus,
    version,     \* the version of the server
    sessions,    \* table session: the user and whether the row is there
    store,       \* the auth slice and whose groups the store has
    saved,       \* the slices whose state is in the persisted storage
    apis,        \* the api objects: accessToken, the client's TOKEN, backendVersion
    cur,         \* the api object the pages use, 0 for none
    tasks,       \* thunks and effects under way
    effects,     \* how often the effect on the token has run
    visits,      \* how many of MaxVisits have happened
    reordered,   \* an effect's answer came after the one of a later effect
    halfway,     \* the last login to end failed after its api.init
    missed       \* the last effect could not fetch groups

clientVars == <<focus, version, sessions, store, saved, apis, cur, tasks, effects, visits, reordered, halfway, missed>>
vars == <<linkVars, clientVars>>

NoTask == [op |-> "none"]
Fresh == [token |-> 0, profile |-> Nobody, groups |-> Nobody]
NewApi(t) == [token |-> t, client |-> t, backend |-> "unknown"]
Logged == store.token # 0
Visit == visits < MaxVisits /\ visits' = visits + 1
Free == {r \in Slots : tasks[r] = NoTask}
Start(ts, t) == [ts EXCEPT ![CHOOSE r \in Slots : ts[r] = NoTask] = t]
End(r) == [tasks EXCEPT ![r] = NoTask]

ClientInit ==
    /\ focus \in Focuses /\ version \in Versions
    /\ sessions = <<>> /\ store = Fresh /\ saved = {}
    /\ apis = IF focus = "web" THEN <<NewApi(0)>> ELSE <<>>
    /\ cur = IF focus = "web" THEN 1 ELSE 0
    /\ tasks = [r \in Slots |-> NoTask]
    /\ effects = 0 /\ visits = 0 /\ reordered = FALSE /\ halfway = FALSE /\ missed = FALSE

-----------------------------------------------------------------------------
(* The server. *)

\* get_user_from_token: the user of a session that is still there.
UserOf(t) == IF t \in DOMAIN sessions /\ sessions[t].live THEN sessions[t].user ELSE Nobody

\* login_user, logout_user, getProfile and listGroups with the token of the request.
login_user(u) == Append(sessions, [user |-> u, live |-> TRUE])
logout_user(t) == IF UserOf(t) = Nobody THEN sessions ELSE [sessions EXCEPT ![t].live = FALSE]

Execute(r) ==
    /\ tasks[r].op # "none" /\ tasks[r].stage = "sent"
    /\ LET t == tasks[r]
           done(token, user) == tasks' = [tasks EXCEPT ![r] = [t EXCEPT !.stage = "answered", !.token = token, !.answer = user]]
       IN  CASE t.op = "login" /\ status[t.user] = "active" ->
                   sessions' = login_user(t.user) /\ done(Len(sessions) + 1, Nobody)
             [] t.op = "login" /\ status[t.user] # "active" -> done(0, Nobody) /\ UNCHANGED sessions
             [] t.op = "logout" -> sessions' = logout_user(t.cred) /\ done(0, Nobody)
             [] t.op \in {"profile", "groups"} -> done(t.token, UserOf(t.cred)) /\ UNCHANGED sessions
             [] t.op = "version" -> done(0, Nobody) /\ UNCHANGED sessions
    /\ UNCHANGED <<focus, version, store, saved, apis, cur, effects, visits, reordered, halfway, missed>>

\* Another device of the user ends one of the sessions, or the session list does.
SessionDeleted ==
    /\ Visit
    /\ \E t \in DOMAIN sessions : sessions[t].live /\ sessions' = logout_user(t)
    /\ UNCHANGED <<focus, version, store, saved, apis, cur, tasks, effects, reordered, halfway, missed>>

-----------------------------------------------------------------------------
(* The api object. *)

compareSemVersion(v, w) ==
    IF v = w THEN 0
    ELSE LET i == CHOOSE i \in 1 .. 3 : v[i] # w[i] /\ \A j \in 1 .. (i - 1) : v[j] = w[j]
         IN  IF v[i] > w[i] THEN 1 ELSE -1

MIN_BACKEND_VERSION == <<0, 13, 0>>
MAX_BACKEND_VERSION == <<0, 14, 0>>
isRequiredVersion(v) == compareSemVersion(v, MIN_BACKEND_VERSION) >= 0 /\ compareSemVersion(v, MAX_BACKEND_VERSION) < 0

\* setAccessToken: a new client with the token.
setAccessToken(a, t) == [a EXCEPT !.token = t, !.client = t]

resetAuthState(a) == [a EXCEPT !.token = 0]

\* Mutant of InitApi: a token that is there is kept.
InitApiOnce(a, t) == IF t # 0 /\ a.token = 0 THEN setAccessToken(a, t) ELSE a

\* init, up to the request for the version, if it is not known yet.
InitApi(a, t) == IF t # 0 THEN setAccessToken(a, t) ELSE a

Task(op, a, cred, n, u) ==
    [op |-> op, stage |-> "sent", api |-> a, cred |-> cred, n |-> n, user |-> u, token |-> 0, answer |-> Nobody]

-----------------------------------------------------------------------------
(* The effects of the applications. *)

\* App of the web: init the one api with the token, then fetchGroups; without a
\* token there is nothing to do.
WebApp(ts, as, t) ==
    IF t = 0 THEN tasks' = ts /\ apis' = as /\ UNCHANGED effects
    ELSE /\ apis' = [as EXCEPT ![1] = InitApi(as[1], t)]
         /\ effects' = effects + 1
         /\ tasks' = Start(ts, Task("version", 1, 0, effects + 1, Nobody))

\* App of the mobile application: a new api for every token, also for none.
MobileApp(ts, as, t) ==
    /\ apis' = Append(as, InitApi(NewApi(0), t))
    /\ effects' = effects + 1
    /\ tasks' = Start(ts, Task("version", Len(as) + 1, 0, effects + 1, Nobody))

\* The token in the store has changed: every App has an effect on it.
TokenChanged(ts, as, t) ==
    \/ focus = "web" /\ WebApp(ts, as, t)
    \/ focus = "mobile" /\ MobileApp(ts, as, t)

\* Mutant of FetchGroups: groups that are there already are not fetched again.
FetchGroupsOnce(a, n) == IF store.groups = Nobody THEN Task("groups", a, apis[a].client, n, Nobody) ELSE NoTask

FetchGroups(a, n) == Task("groups", a, apis[a].client, n, Nobody)

\* checkBackendVersion: a request that fails is ignored, a version out of range
\* throws.  fetchGroups then uses the client of that moment.
VersionChecked(r) ==
    /\ tasks[r].op = "version" /\ tasks[r].stage \in {"sent", "answered"}
    /\ LET a == tasks[r].api
           known == tasks[r].stage = "answered" \/ apis[a].backend = "known"
       IN  /\ tasks[r].stage = "sent" => known \/ visits < MaxVisits
           /\ visits' = IF known THEN visits ELSE visits + 1
           /\ apis' = IF known THEN [apis EXCEPT ![a].backend = "known"] ELSE apis
           /\ tasks' = IF known /\ ~isRequiredVersion(version) THEN End(r) ELSE [tasks EXCEPT ![r] = FetchGroups(a, tasks[r].n)]
           /\ missed' = (missed \/ (tasks[r].n = effects /\ known /\ ~isRequiredVersion(version)))
    /\ UNCHANGED <<focus, version, sessions, store, saved, cur, effects, reordered, halfway>>

\* fetchGroups.fulfilled, or rejected without an effect; setApi on the mobile
\* application in both cases.
GroupsFetched(r) ==
    /\ tasks[r].op = "groups" /\ tasks[r].stage = "answered"
    /\ IF tasks[r].answer = Nobody THEN UNCHANGED <<store, saved>>
       ELSE store' = [store EXCEPT !.groups = tasks[r].answer] /\ saved' = saved \cup {"groups"}
    /\ missed' = IF tasks[r].n = effects THEN tasks[r].answer = Nobody ELSE missed
    /\ cur' = IF focus = "mobile" THEN tasks[r].api ELSE cur
    /\ reordered' = (reordered \/ \E s \in Slots : s # r /\ tasks[s].op \in {"version", "groups"} /\ tasks[s].n < tasks[r].n)
    /\ tasks' = End(r)
    /\ UNCHANGED <<focus, version, sessions, apis, effects, visits, halfway>>

-----------------------------------------------------------------------------
(* login and logout. *)

\* The login form is there while the store has no token; it is disabled while
\* its request is under way, but the page can be left and opened again.
LoginForm(u) ==
    /\ Visit /\ ~Logged /\ Cardinality(Free) > 1
    /\ UNCHANGED <<focus, version, sessions, store, saved, effects, reordered, halfway, missed>>

LoginPage(u) ==
    /\ focus = "web" /\ LoginForm(u)
    /\ tasks' = Start(tasks, Task("login", 1, apis[1].client, 0, u))
    /\ UNCHANGED <<apis, cur>>

\* initApi: the pages use the new api from now on.
LoginScreen(u) ==
    /\ focus = "mobile" /\ LoginForm(u)
    /\ apis' = Append(apis, NewApi(0)) /\ cur' = Len(apis) + 1
    /\ tasks' = Start(tasks, Task("login", Len(apis) + 1, 0, 0, u))

\* Register on the mobile application makes an api as well.
RegisterScreen ==
    /\ focus = "mobile" /\ Visit /\ ~Logged
    /\ apis' = Append(apis, NewApi(0)) /\ cur' = Len(apis) + 1
    /\ UNCHANGED <<focus, version, sessions, store, saved, tasks, effects, reordered, halfway, missed>>

\* login: api.init with the token of the answer, and getProfile at once with the
\* client it has made.
LoginAnswered(r) ==
    /\ tasks[r].op = "login" /\ tasks[r].stage = "answered"
    /\ LET t == tasks[r].token
           as == [apis EXCEPT ![tasks[r].api] = InitApi(@, t)]
       IN  IF t = 0 THEN tasks' = End(r) /\ UNCHANGED apis
           ELSE /\ apis' = as
                /\ tasks' = [tasks EXCEPT ![r] = [Task("profile", tasks[r].api, as[tasks[r].api].client, 0, Nobody)
                                                    EXCEPT !.token = t]]
    /\ UNCHANGED <<focus, version, sessions, store, saved, cur, effects, visits, reordered, halfway, missed>>

\* login.fulfilled
LoggedIn(t, u) == [store EXCEPT !.token = t, !.profile = u]

LoginFulfilled(r) ==
    /\ tasks[r].op = "profile" /\ tasks[r].stage = "answered"
    /\ IF tasks[r].answer = Nobody
       THEN tasks' = End(r) /\ UNCHANGED <<store, saved, apis, effects>>
       ELSE /\ store' = LoggedIn(tasks[r].token, tasks[r].answer)
            /\ saved' = saved \cup {"auth"}
            /\ TokenChanged(End(r), apis, tasks[r].token)
    /\ halfway' = (tasks[r].answer = Nobody)
    /\ UNCHANGED <<focus, version, sessions, cur, visits, reordered, missed>>

\* The Logout page, or the button of the preferences: the request goes out with
\* the client of the api in use.
LogoutRequest ==
    /\ Visit /\ Logged /\ cur # 0 /\ Free # {}
    /\ ~\E r \in Slots : tasks[r].op = "logout"
    /\ tasks' = Start(tasks, Task("logout", cur, apis[cur].client, 0, Nobody))
    /\ UNCHANGED <<focus, version, sessions, store, saved, apis, cur, effects, reordered, halfway, missed>>

Logout == focus = "web" /\ LogoutRequest
PreferencesLogout == focus = "mobile" /\ LogoutRequest

\* logout.fulfilled
LoggedOut == [store EXCEPT !.token = 0, !.profile = Nobody]

\* logout goes on whatever became of the request: resetAuthState, PURGE (the
\* storage is emptied, the state in memory stays), logout.fulfilled.
LogoutFulfilled(r) ==
    /\ tasks[r].op = "logout" /\ tasks[r].stage = "answered"
    /\ store' = LoggedOut /\ saved' = {"auth"}
    /\ IF Logged THEN TokenChanged(End(r), [apis EXCEPT ![tasks[r].api] = resetAuthState(@)], 0)
       ELSE tasks' = End(r) /\ apis' = [apis EXCEPT ![tasks[r].api] = resetAuthState(@)] /\ UNCHANGED effects
    /\ UNCHANGED <<focus, version, sessions, cur, visits, reordered, halfway, missed>>

\* A request of a thunk fails on its way.
Lost(r) ==
    /\ Visit
    /\ tasks[r].op \in {"login", "profile", "groups", "logout"} /\ tasks[r].stage \in {"sent", "answered"}
    /\ tasks' = [tasks EXCEPT ![r].stage = "answered", ![r].answer = Nobody,
                              ![r].token = IF tasks[r].op = "login" THEN 0 ELSE @]
    /\ UNCHANGED <<focus, version, sessions, store, saved, apis, cur, effects, reordered, halfway, missed>>

-----------------------------------------------------------------------------
(* Restarts and the cache. *)

\* The store comes up with what the storage has; App runs its effect.
Restored(from) == [token |-> IF "auth" \in from THEN store.token ELSE 0,
                   profile |-> IF "auth" \in from THEN store.profile ELSE Nobody,
                   groups |-> IF "groups" \in from THEN store.groups ELSE Nobody]

RestartFrom(from) ==
    /\ store' = Restored(from) /\ saved' = from
    /\ LET none == [r \in Slots |-> NoTask]
           t == Restored(from).token
       IN  IF t = 0
           THEN /\ apis' = IF focus = "web" THEN <<NewApi(0)>> ELSE <<>>
                /\ tasks' = none /\ UNCHANGED effects
           ELSE /\ apis' = <<InitApi(NewApi(0), t)>> /\ effects' = effects + 1
                /\ tasks' = Start(none, Task("version", 1, 0, effects + 1, Nobody))
    /\ cur' = IF focus = "web" THEN 1 ELSE 0
    /\ halfway' = FALSE
    /\ UNCHANGED <<focus, version, sessions, reordered, missed>>

Restart == Visit /\ RestartFrom(saved)

\* Settings of the web: purge the storage, then reload the page.
SettingsClearCache == focus = "web" /\ Visit /\ Logged /\ RestartFrom({})

\* clearCache of the mobile application: PURGE only.
PreferencesClearCache ==
    /\ focus = "mobile" /\ Visit /\ Logged
    /\ saved' = {}
    /\ UNCHANGED <<focus, version, sessions, store, apis, cur, tasks, effects, reordered, halfway, missed>>

ClientNext ==
    \/ \E r \in Slots : \/ Execute(r) \/ Lost(r)
                        \/ LoginAnswered(r) \/ LoginFulfilled(r) \/ LogoutFulfilled(r)
                        \/ VersionChecked(r) \/ GroupsFetched(r)
    \/ \E u \in Users : LoginPage(u) \/ LoginScreen(u)
    \/ RegisterScreen
    \/ Logout \/ PreferencesLogout
    \/ SettingsClearCache \/ PreferencesClearCache
    \/ Restart \/ SessionDeleted

Init == ClientInit /\ LinksInit(Home[focus])
Next ==
    \/ focus = "links" /\ LinksNext /\ UNCHANGED clientVars
    \/ focus # "links" /\ ClientNext /\ UNCHANGED linkVars

Spec == Init /\ [][Next]_vars /\ WF_vars(MailerStep /\ UNCHANGED clientVars)

-----------------------------------------------------------------------------
(* Properties. *)

Quiet == \A r \in Slots : tasks[r] = NoTask

TypeOK ==
    /\ LinksTypeOK
    /\ \A t \in DOMAIN sessions : sessions[t] \in [user : Users, live : BOOLEAN]
    /\ store \in [token : 0 .. Len(sessions), profile : Users \cup {Nobody}, groups : Users \cup {Nobody}]
    /\ store.token # 0 => store.profile = sessions[store.token].user
    /\ saved \subseteq {"auth", "groups"} /\ cur \in 0 .. Len(apis)

\* When nothing is under way, the api the pages use has the token of the store,
\* and so has its client: also after logins and logouts that overlap, unless the
\* effects of two tokens ended in the other order, or a second login failed
\* between its api.init and its profile (login, logout, App).  The mobile
\* application has the api of the last form if the version is out of range.
ApiSpeaksForStore ==
    Quiet /\ Logged /\ cur # 0 /\ ~reordered /\ ~halfway /\ (focus = "mobile" => isRequiredVersion(version)) => apis[cur].token = store.token /\ apis[cur].client = store.token

\* When nothing is under way and the last effect could fetch groups, those in
\* the store are those of the user who is logged in, although a logout leaves
\* the groups of the last user there (fetchGroups.fulfilled, logout).
ShowsOwnGroups ==
    Quiet /\ Logged /\ ~missed /\ ~reordered /\ ~halfway => store.groups = store.profile
================================================================================
