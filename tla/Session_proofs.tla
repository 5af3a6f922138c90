----------------------------- MODULE Session_proofs -----------------------------
(***************************************************************************)
(* Theorems about the specification of Session: what the mail links do to  *)
(* accounts (the invariant of MailLinks_proofs), that the client never     *)
(* takes the profile of one session for the one of another, and whose      *)
(* token and groups it has when the effects on the token are done.         *)
(***************************************************************************)
EXTENDS Session, MailLinks_proofs

-----------------------------------------------------------------------------
(* The invariant.                                                          *)

Sess == [user : Users, live : BOOLEAN]
Api(n) == [token : 0..n, client : 0..n, backend : {"unknown", "known"}]
Ops == {"login", "profile", "groups", "version", "logout"}

\* A thunk or an effect under way, with n sessions and m api objects
ATask(n, m) ==
    [op : Ops, stage : {"sent", "answered"}, api : 1..m, cred : 0..n, n : Nat, user : Users \cup {Nobody},
     token : 0..n, answer : Users \cup {Nobody}]

\* The profile a login asks for is asked for with its own token.
TaskOK(p, ss, m) ==
    /\ p \in ATask(Len(ss), m)
    /\ p.op = "login" => p.user \in Users
    /\ p.op = "profile" =>
         /\ p.token # 0 /\ p.cred = p.token
         /\ p.answer # Nobody => p.answer = ss[p.token].user

SessionsOK == sessions \in Seq(Sess)
ApisOK(as, n) == as \in Seq(Api(n))
StoreOK(st, ss) ==
    /\ st \in [token : 0..Len(ss), profile : Users \cup {Nobody}, groups : Users \cup {Nobody}]
    /\ st.token # 0 => st.profile = ss[st.token].user
TasksOK(ts, ss, m) == DOMAIN ts = Slots /\ \A r \in Slots : ts[r] # NoTask => TaskOK(ts[r], ss, m)

ClientInv ==
    /\ SessionsOK
    /\ ApisOK(apis, Len(sessions))
    /\ StoreOK(store, sessions)
    /\ TasksOK(tasks, sessions, Len(apis))
    /\ saved \subseteq {"auth", "groups"} /\ cur \in 0..Len(apis)
    /\ focus \in {"links", "web", "mobile"}
    /\ focus = "web" => Len(apis) # 0
    /\ effects \in Nat

IInv == LinksInv /\ ClientInv

-----------------------------------------------------------------------------
(* What grows keeps what is there.                                         *)

\* Sessions are added, and those that are there keep their user
Grows(ss, tt) ==
    /\ ss \in Seq(Sess) /\ tt \in Seq(Sess) /\ Len(ss) <= Len(tt)
    /\ \A t \in 1..Len(ss) : tt[t].user = ss[t].user

\* Tasks survive new sessions and new api objects
LEMMA TaskGrows ==
    ASSUME NEW ss, NEW tt, Grows(ss, tt), NEW m \in Nat, NEW n \in Nat, m <= n, NEW p, TaskOK(p, ss, m)
    PROVE  TaskOK(p, tt, n)
<1>1. Len(ss) \in Nat /\ Len(tt) \in Nat /\ Len(ss) <= Len(tt)
  BY LenProperties DEF Grows
<1>2. p \in ATask(Len(ss), m)
  BY DEF TaskOK
<1>3. p \in ATask(Len(tt), n)
  BY <1>1, <1>2 DEF ATask
<1>4. p.token \in 0..Len(ss)
  BY <1>2 DEF ATask
<1> QED
  BY <1>1, <1>3, <1>4 DEF TaskOK, Grows

\* so do the api objects
LEMMA ApisGrow ==
    ASSUME NEW n \in Nat, NEW m \in Nat, n <= m, NEW as, ApisOK(as, n)
    PROVE  ApisOK(as, m)
<1>1. \A a \in Api(n) : a \in Api(m)
  BY DEF Api
<1>2. as \in [1..Len(as) -> Api(m)] /\ Len(as) \in Nat
  BY <1>1, LenProperties DEF ApisOK
<1> QED
  BY <1>2, SeqDef DEF ApisOK

\* and the store
LEMMA StoreGrows ==
    ASSUME NEW ss, NEW tt, Grows(ss, tt), NEW st, StoreOK(st, ss)
    PROVE  StoreOK(st, tt)
<1>1. Len(ss) \in Nat /\ Len(tt) \in Nat /\ Len(ss) <= Len(tt)
  BY LenProperties DEF Grows
<1>2. st \in [token : 0..Len(ss), profile : Users \cup {Nobody}, groups : Users \cup {Nobody}]
  BY DEF StoreOK
<1> QED
  BY <1>1, <1>2 DEF StoreOK, Grows

\* Nothing changes for the sessions
LEMMA SameSessions ==
    ASSUME NEW ss \in Seq(Sess)
    PROVE  Grows(ss, ss)
  BY LenProperties DEF Grows

\* A new session
LEMMA LoginGrows ==
    ASSUME SessionsOK, NEW u \in Users
    PROVE  Grows(sessions, login_user(u)) /\ Len(login_user(u)) = Len(sessions) + 1
<1>1. [user |-> u, live |-> TRUE] \in Sess
  BY DEF Sess
<1> QED
  BY <1>1, AppendProperties, LenProperties DEF SessionsOK, Grows, login_user

\* A session ends
LEMMA LogoutGrows ==
    ASSUME SessionsOK, NEW t
    PROVE  Grows(sessions, logout_user(t)) /\ Len(logout_user(t)) = Len(sessions)
<1>1. CASE UserOf(t) = Nobody
  BY <1>1, SameSessions DEF SessionsOK, logout_user
<1>2. CASE UserOf(t) # Nobody
  <2>1. t \in DOMAIN sessions /\ logout_user(t) = [sessions EXCEPT ![t].live = FALSE]
    BY <1>2 DEF UserOf, logout_user
  <2>2. t \in 1..Len(sessions) /\ sessions[t] \in Sess /\ sessions \in [1..Len(sessions) -> Sess] /\ Len(sessions) \in Nat
    BY <2>1, LenProperties DEF SessionsOK
  <2> DEFINE e == [sessions[t] EXCEPT !.live = FALSE]
  <2>3. e \in Sess /\ e.user = sessions[t].user
    BY <2>2 DEF Sess
  <2>4. logout_user(t) = [sessions EXCEPT ![t] = e]
    BY <2>1
  <2> HIDE DEF e
  <2>5. [sessions EXCEPT ![t] = e] \in Seq(Sess) /\ Len([sessions EXCEPT ![t] = e]) = Len(sessions)
    BY <2>2, <2>3, ExceptSeq DEF SessionsOK
  <2>6. \A i \in 1..Len(sessions) : [sessions EXCEPT ![t] = e][i].user = sessions[i].user
    BY <2>2, <2>3
  <2> QED
    BY <2>2, <2>4, <2>5, <2>6 DEF Grows, SessionsOK
<1> QED
  BY <1>1, <1>2

\* The user of a session is a user
LEMMA UserOfType ==
    ASSUME SessionsOK, NEW t \in 0..Len(sessions)
    PROVE  UserOf(t) \in Users \cup {Nobody} /\ (UserOf(t) # Nobody => t # 0 /\ UserOf(t) = sessions[t].user)
<1>1. DOMAIN sessions = 1..Len(sessions) /\ \A i \in 1..Len(sessions) : sessions[i] \in Sess
  BY LenProperties DEF SessionsOK
<1> QED
  BY <1>1 DEF UserOf, Sess

\* A task is started, or there is no room for it
LEMMA StartTasks ==
    ASSUME NEW ss, NEW m, NEW ts, TasksOK(ts, ss, m), NEW t, TaskOK(t, ss, m)
    PROVE  TasksOK(Start(ts, t), ss, m)
<1>1. DOMAIN Start(ts, t) = Slots /\ \A r \in Slots : Start(ts, t)[r] \in {t, ts[r]}
  BY DEF Start, TasksOK
<1> QED
  BY <1>1 DEF TasksOK

\* A task ends, or goes on as another
LEMMA OneTask ==
    ASSUME NEW ss, NEW m, TasksOK(tasks, ss, m), NEW r \in Slots, NEW t, t = NoTask \/ TaskOK(t, ss, m)
    PROVE  TasksOK([tasks EXCEPT ![r] = t], ss, m)
  BY DEF TasksOK

\* A slot is freed
LEMMA EndTask ==
    ASSUME NEW ss, NEW m, TasksOK(tasks, ss, m), NEW r \in Slots
    PROVE  TasksOK(End(r), ss, m)
  BY OneTask DEF End

\* All tasks survive new sessions and api objects
LEMMA TasksGrow ==
    ASSUME NEW ss, NEW tt, Grows(ss, tt), NEW m \in Nat, NEW n \in Nat, m <= n, NEW ts, TasksOK(ts, ss, m)
    PROVE  TasksOK(ts, tt, n)
<1>1. ASSUME NEW r \in Slots, ts[r] # NoTask
      PROVE  TaskOK(ts[r], tt, n)
  <2>1. TaskOK(ts[r], ss, m)
    BY <1>1 DEF TasksOK
  <2> QED
    BY <2>1, TaskGrows
<1> QED
  BY <1>1 DEF TasksOK

\* What is started is a task
LEMMA NewTask ==
    ASSUME NEW ss, NEW m, NEW op \in Ops \ {"profile"}, NEW a \in 1..m, NEW cred \in 0..Len(ss), NEW n \in Nat,
           NEW u \in Users \cup {Nobody}, op = "login" => u \in Users, Len(ss) \in Nat
    PROVE  TaskOK(Task(op, a, cred, n, u), ss, m)
<1>1. Task(op, a, cred, n, u) \in ATask(Len(ss), m)
  <2>1. 0 \in 0..Len(ss) /\ Nobody \in Users \cup {Nobody} /\ "sent" \in {"sent", "answered"}
    OBVIOUS
  <2> QED
    BY <2>1 DEF ATask, Task
<1> QED
  BY <1>1 DEF TaskOK, Task

\* An api object after init
LEMMA InitApiType ==
    ASSUME NEW n \in Nat, NEW a \in Api(n), NEW t \in 0..n
    PROVE  InitApi(a, t) \in Api(n) /\ (t # 0 => InitApi(a, t).client = t)
  BY DEF InitApi, setAccessToken, Api

\* and a new one
LEMMA NewApiType ==
    ASSUME NEW n \in Nat
    PROVE  NewApi(0) \in Api(n) /\ \A t \in 0..n : InitApi(NewApi(0), t) \in Api(n)
<1>1. NewApi(0) \in Api(n)
  BY DEF NewApi, Api
<1> QED
  BY <1>1, InitApiType

\* One element of a sequence changes
LEMMA PutInSeq ==
    ASSUME NEW S, NEW s \in Seq(S), NEW e \in S, NEW i \in 1..Len(s)
    PROVE  [s EXCEPT ![i] = e] \in Seq(S) /\ Len([s EXCEPT ![i] = e]) = Len(s)
<1>1. [s EXCEPT ![i] = e] \in Seq(S)
  BY ExceptSeq
<1>2. Len([s EXCEPT ![i] = e]) = Len(s)
  BY ExceptSeq
<1> QED
  BY <1>1, <1>2

\* One api object changes
LEMMA PutApi ==
    ASSUME NEW n, NEW as, ApisOK(as, n), NEW a \in Api(n), NEW i \in 1..Len(as)
    PROVE  ApisOK([as EXCEPT ![i] = a], n) /\ Len([as EXCEPT ![i] = a]) = Len(as)
<1>1. as \in Seq(Api(n))
  BY DEF ApisOK
<1>2. [as EXCEPT ![i] = a] \in Seq(Api(n)) /\ Len([as EXCEPT ![i] = a]) = Len(as)
  BY <1>1, PutInSeq
<1> QED
  BY <1>2 DEF ApisOK

\* Another api object is made
LEMMA AddApi ==
    ASSUME NEW n, NEW as, ApisOK(as, n), NEW a \in Api(n), NEW bs, bs = Append(as, a)
    PROVE  ApisOK(bs, n) /\ Len(bs) = Len(as) + 1
<1>1. as \in Seq(Api(n))
  BY DEF ApisOK
<1>2. bs \in Seq(Api(n)) /\ Len(bs) = Len(as) + 1
  BY <1>1, AppendProperties
<1> QED
  BY <1>2 DEF ApisOK

\* There is only one
LEMMA OneApi ==
    ASSUME NEW n, NEW a \in Api(n)
    PROVE  ApisOK(<<a>>, n) /\ Len(<<a>>) = 1
  BY DEF ApisOK

\* The parts of the invariant in a state
LEMMA Parts ==
    ASSUME ClientInv
    PROVE  /\ sessions \in Seq(Sess) /\ Len(sessions) \in Nat /\ SessionsOK
           /\ ApisOK(apis, Len(sessions)) /\ Len(apis) \in Nat /\ \A i \in 1..Len(apis) : apis[i] \in Api(Len(sessions))
           /\ StoreOK(store, sessions) /\ store.token \in 0..Len(sessions)
           /\ TasksOK(tasks, sessions, Len(apis))
           /\ \A r \in Slots : tasks[r].op # "none" => tasks[r] # NoTask /\ TaskOK(tasks[r], sessions, Len(apis))
                                                       /\ tasks[r] \in ATask(Len(sessions), Len(apis))
<1>1. /\ sessions \in Seq(Sess) /\ apis \in Seq(Api(Len(sessions))) /\ StoreOK(store, sessions)
      /\ TasksOK(tasks, sessions, Len(apis))
  BY DEF ClientInv, SessionsOK, ApisOK
<1>2. Len(sessions) \in Nat /\ Len(apis) \in Nat /\ \A i \in 1..Len(apis) : apis[i] \in Api(Len(sessions))
  BY <1>1, LenProperties, ElementOfSeq
<1>3. \A r \in Slots : tasks[r].op # "none" => tasks[r] # NoTask
  BY DEF NoTask
<1>4. \A r \in Slots : tasks[r] # NoTask => TaskOK(tasks[r], sessions, Len(apis)) /\ tasks[r] \in ATask(Len(sessions), Len(apis))
  BY <1>1 DEF TasksOK, TaskOK
<1>5. store.token \in 0..Len(sessions)
  BY <1>1 DEF StoreOK
<1> QED
  BY <1>1, <1>2, <1>3, <1>4, <1>5 DEF SessionsOK, ApisOK

\* The client starts with nothing
LEMMA ClientInitOK == ClientInit => ClientInv
<1>1. SUFFICES ASSUME ClientInit PROVE ClientInv
  OBVIOUS
<1>2. sessions = <<>> /\ Len(sessions) = 0 /\ sessions \in Seq(Sess)
  BY <1>1, EmptySeq DEF ClientInit
<1>3. apis = <<NewApi(0)>> \/ apis = <<>>
  BY <1>1 DEF ClientInit
<1>4. ApisOK(apis, 0) /\ (focus = "web" => Len(apis) = 1) /\ Len(apis) \in Nat
  <2>1. NewApi(0) \in Api(0)
    BY NewApiType
  <2>2. ApisOK(<<NewApi(0)>>, 0) /\ ApisOK(<<>>, 0)
    BY <2>1 DEF ApisOK
  <2> QED
    BY <2>2, <1>1, <1>3 DEF ClientInit
<1>5. StoreOK(store, sessions)
  BY <1>1, <1>2 DEF ClientInit, StoreOK, Fresh
<1>6. TasksOK(tasks, sessions, Len(apis))
  BY <1>1 DEF ClientInit, TasksOK
<1>7. cur \in 0..Len(apis) /\ focus \in {"links", "web", "mobile"}
  BY <1>1, <1>4, SessionBounds DEF ClientInit
<1> QED
  BY <1>1, <1>2, <1>4, <1>5, <1>6, <1>7 DEF ClientInit, ClientInv, SessionsOK

-----------------------------------------------------------------------------
(* The steps.                                                              *)

\* What a step has to show
LEMMA Kept ==
    ASSUME ClientInv, sessions' \in Seq(Sess), ApisOK(apis', Len(sessions')), StoreOK(store', sessions'),
           TasksOK(tasks', sessions', Len(apis')), saved' \subseteq {"auth", "groups"}, cur' \in 0..Len(apis'),
           focus' = focus, effects' \in Nat, focus = "web" => Len(apis') # 0
    PROVE  ClientInv'
  BY DEF ClientInv, SessionsOK

\* The effects on a new token
LEMMA TokenChangedOK ==
    ASSUME ClientInv, NEW ts, TasksOK(ts, sessions, Len(apis)), NEW as, ApisOK(as, Len(sessions)), Len(as) = Len(apis),
           NEW t \in 0..Len(sessions), TokenChanged(ts, as, t)
    PROVE  /\ ApisOK(apis', Len(sessions)) /\ Len(apis') \in Nat /\ Len(apis) <= Len(apis')
           /\ TasksOK(tasks', sessions, Len(apis')) /\ effects' \in Nat
<1>1. Len(sessions) \in Nat /\ Len(apis) \in Nat /\ ApisOK(apis, Len(sessions)) /\ effects \in Nat /\ sessions \in Seq(Sess)
      /\ \A i \in 1..Len(as) : as[i] \in Api(Len(sessions))
  BY Parts, LenProperties, ElementOfSeq DEF ClientInv, ApisOK
<1>2. CASE focus = "web" /\ WebApp(ts, as, t)
  <2>1. CASE t = 0
    <3>1. tasks' = ts /\ apis' = as /\ effects' = effects
      BY <2>1, <1>2 DEF WebApp
    <3>2. Len(apis') = Len(apis) /\ ApisOK(apis', Len(sessions)) /\ effects' \in Nat
      BY <3>1, <1>1
    <3>3. TasksOK(tasks', sessions, Len(apis))
      BY <3>1
    <3> QED
      BY <3>2, <3>3, <1>1
  <2>2. CASE t # 0
    <3>1. /\ apis' = [as EXCEPT ![1] = InitApi(as[1], t)] /\ effects' = effects + 1
          /\ tasks' = Start(ts, Task("version", 1, 0, effects + 1, Nobody))
      BY <2>2, <1>2 DEF WebApp
    <3>2. 1 \in 1..Len(as)
      BY <1>1, <1>2 DEF ClientInv
    <3>3. InitApi(as[1], t) \in Api(Len(sessions))
      BY <3>2, <1>1, InitApiType
    <3>4. ApisOK(apis', Len(sessions)) /\ Len(apis') = Len(apis)
      <4> DEFINE a == InitApi(as[1], t)
                 n == Len(sessions)
                 first == 1
      <4>1. apis' = [as EXCEPT ![first] = a] /\ a \in Api(n) /\ ApisOK(as, n) /\ first \in 1..Len(as)
        BY <3>1, <3>2, <3>3, <1>1
      <4> HIDE DEF a, n, first
      <4>2. ApisOK([as EXCEPT ![first] = a], n) /\ Len([as EXCEPT ![first] = a]) = Len(as)
        BY <4>1, PutApi
      <4>3. ApisOK(apis', n) /\ Len(apis') = Len(apis)
        BY <4>1, <4>2
      <4> QED
        BY <4>3 DEF n
    <3>5. TaskOK(Task("version", 1, 0, effects + 1, Nobody), sessions, Len(apis))
      BY <3>2, <1>1, NewTask DEF Ops
    <3>6. TasksOK(tasks', sessions, Len(apis))
      BY <3>1, <3>5, StartTasks
    <3>7. effects' \in Nat
      BY <3>1, <1>1
    <3>8. Len(apis') = Len(apis)
      BY <3>4
    <3> QED
      BY <3>4, <3>6, <3>7, <3>8, <1>1
  <2> QED
    BY <2>1, <2>2
<1>3. CASE focus = "mobile" /\ MobileApp(ts, as, t)
  <2>1. /\ apis' = Append(as, InitApi(NewApi(0), t)) /\ effects' = effects + 1
        /\ tasks' = Start(ts, Task("version", Len(as) + 1, 0, effects + 1, Nobody))
    BY <1>3 DEF MobileApp
  <2>2. InitApi(NewApi(0), t) \in Api(Len(sessions))
    BY <1>1, NewApiType
  <2>3. ApisOK(apis', Len(sessions)) /\ Len(apis') = Len(apis) + 1
    <3> DEFINE a == InitApi(NewApi(0), t)
               n == Len(sessions)
    <3>1. apis' = Append(as, a) /\ a \in Api(n) /\ ApisOK(as, n)
      BY <2>1, <2>2
    <3> HIDE DEF a, n
    <3>2. ApisOK(apis', n) /\ Len(apis') = Len(as) + 1
      BY <3>1, AddApi
    <3> QED
      BY <3>2 DEF n
  <2>4. TasksOK(ts, sessions, Len(apis'))
    <3>1. Grows(sessions, sessions)
      BY <1>1, SameSessions
    <3>2. Len(apis') \in Nat /\ Len(apis) <= Len(apis')
      BY <2>3, <1>1
    <3> QED
      BY <3>1, <3>2, <1>1, TasksGrow
  <2>5. TaskOK(Task("version", Len(as) + 1, 0, effects + 1, Nobody), sessions, Len(apis'))
    <3>1. Len(as) + 1 \in 1..Len(apis') /\ 0 \in 0..Len(sessions) /\ effects + 1 \in Nat
      BY <2>3, <1>1
    <3> QED
      BY <3>1, <1>1, NewTask DEF Ops
  <2>6. TasksOK(tasks', sessions, Len(apis'))
    BY <2>1, <2>4, <2>5, StartTasks
  <2>7. effects' \in Nat
    BY <2>1, <1>1
  <2>8. Len(apis') \in Nat /\ Len(apis) <= Len(apis')
    BY <2>3, <1>1
  <2> QED
    BY <2>3, <2>6, <2>7, <2>8
<1> QED
  BY <1>2, <1>3 DEF TokenChanged

\* The server answers a request
LEMMA ExecuteOK ==
    ASSUME ClientInv, NEW r \in Slots, Execute(r)
    PROVE  ClientInv'
<1> DEFINE n == Len(sessions)
           t == tasks[r]
           answered(token, user) == [t EXCEPT !.stage = "answered", !.token = token, !.answer = user]
           done(token, user) == tasks' = [tasks EXCEPT ![r] = answered(token, user)]
<1>1. /\ t.op # "none" /\ t.stage = "sent"
      /\ UNCHANGED <<focus, version, store, saved, apis, cur, effects, visits, reordered, halfway, missed>>
  BY DEF Execute
<1>2. /\ sessions \in Seq(Sess) /\ Len(sessions) \in Nat /\ SessionsOK /\ Len(apis) \in Nat /\ ApisOK(apis, Len(sessions))
      /\ StoreOK(store, sessions) /\ TasksOK(tasks, sessions, Len(apis))
      /\ TaskOK(t, sessions, Len(apis)) /\ t \in ATask(Len(sessions), Len(apis))
  BY <1>1, Parts
<1>3. t.op \in Ops /\ t.user \in Users \cup {Nobody} /\ t.cred \in 0..Len(sessions) /\ t.token \in 0..Len(sessions)
  BY <1>2 DEF ATask
<1>4. t.op = "login" => t.user \in Users
  BY <1>2 DEF TaskOK
<1>5. \/ t.op = "login" /\ sessions' = login_user(t.user) /\ done(n + 1, Nobody)
      \/ t.op # "profile" /\ UNCHANGED sessions /\ done(0, Nobody)
      \/ t.op = "logout" /\ sessions' = logout_user(t.cred) /\ done(0, Nobody)
      \/ t.op \in {"profile", "groups"} /\ UNCHANGED sessions /\ done(t.token, UserOf(t.cred))
  BY <1>3 DEF Execute, Ops
<1>6. Grows(sessions, sessions') /\ Len(sessions') \in Nat /\ Len(sessions) <= Len(sessions')
  <2>1. Grows(sessions, sessions')
    BY <1>2, <1>4, <1>5, LoginGrows, LogoutGrows, SameSessions
  <2> QED
    BY <2>1, LenProperties DEF Grows
<1>7. ASSUME NEW token \in 0..Len(sessions'), NEW user \in Users \cup {Nobody},
             t.op = "profile" => token = t.token /\ (user # Nobody => user = sessions'[token].user)
      PROVE  TaskOK(answered(token, user), sessions', Len(apis))
  <2>1. TaskOK(t, sessions', Len(apis))
    BY <1>2, <1>6, TaskGrows
  <2>2. t \in ATask(Len(sessions'), Len(apis))
    BY <2>1 DEF TaskOK
  <2>3. /\ answered(token, user) \in ATask(Len(sessions'), Len(apis)) /\ answered(token, user).op = t.op
        /\ answered(token, user).user = t.user /\ answered(token, user).cred = t.cred
        /\ answered(token, user).token = token /\ answered(token, user).answer = user
    BY <2>2 DEF ATask
  <2> HIDE DEF answered, t
  <2> QED
    BY <2>1, <2>3, <1>7 DEF TaskOK
<1>8. TasksOK(tasks, sessions', Len(apis))
  BY <1>2, <1>6, TasksGrow
<1>9. TasksOK(tasks', sessions', Len(apis))
  <2>1. ASSUME NEW token, NEW user, TaskOK(answered(token, user), sessions', Len(apis)), done(token, user)
        PROVE  TasksOK(tasks', sessions', Len(apis))
    BY <2>1, <1>8 DEF TasksOK
  <2>2. CASE t.op = "login" /\ sessions' = login_user(t.user) /\ done(n + 1, Nobody)
    <3>1. Len(sessions) + 1 \in 0..Len(sessions')
      BY <2>2, <1>2, <1>4, LoginGrows
    <3>2. TaskOK(answered(n + 1, Nobody), sessions', Len(apis))
      BY <2>2, <3>1, <1>7
    <3> QED
      BY <2>1, <2>2, <3>2
  <2>3. CASE t.op # "profile" /\ done(0, Nobody)
    <3>1. 0 \in 0..Len(sessions')
      BY <1>6
    <3>2. TaskOK(answered(0, Nobody), sessions', Len(apis))
      BY <2>3, <3>1, <1>7
    <3> QED
      BY <2>1, <2>3, <3>2
  <2>4. CASE t.op \in {"profile", "groups"} /\ UNCHANGED sessions /\ done(t.token, UserOf(t.cred))
    <3>1. UserOf(t.cred) \in Users \cup {Nobody} /\ (UserOf(t.cred) # Nobody => UserOf(t.cred) = sessions[t.cred].user)
      BY <1>2, <1>3, UserOfType
    <3>2. t.op = "profile" => t.cred = t.token
      BY <1>2 DEF TaskOK
    <3>3. t.token \in 0..Len(sessions')
      BY <2>4, <1>3
    <3>4. TaskOK(answered(t.token, UserOf(t.cred)), sessions', Len(apis))
      BY <2>4, <3>1, <3>2, <3>3, <1>7
    <3> QED
      BY <2>1, <2>4, <3>4
  <2> QED
    BY <2>2, <2>3, <2>4, <1>5
<1>10. ApisOK(apis', Len(sessions')) /\ StoreOK(store', sessions')
  BY <1>1, <1>2, <1>6, ApisGrow, StoreGrows
<1> QED
  BY <1>1, <1>6, <1>9, <1>10, Kept DEF ClientInv, Grows

\* A session ends from elsewhere
LEMMA SessionDeletedOK ==
    ASSUME ClientInv, SessionDeleted
    PROVE  ClientInv'
<1>1. UNCHANGED <<focus, version, store, saved, apis, cur, tasks, effects, reordered, halfway, missed>>
  BY DEF SessionDeleted
<1>2. PICK t : sessions' = logout_user(t)
  BY DEF SessionDeleted
<1>3. /\ sessions \in Seq(Sess) /\ Len(sessions) \in Nat /\ SessionsOK /\ Len(apis) \in Nat /\ ApisOK(apis, Len(sessions))
      /\ StoreOK(store, sessions) /\ TasksOK(tasks, sessions, Len(apis))
  BY Parts
<1>4. Grows(sessions, sessions') /\ Len(sessions') = Len(sessions)
  BY <1>2, <1>3, LogoutGrows
<1>5. ApisOK(apis', Len(sessions')) /\ StoreOK(store', sessions') /\ TasksOK(tasks', sessions', Len(apis'))
  BY <1>1, <1>3, <1>4, StoreGrows, TasksGrow
<1> QED
  BY <1>1, <1>4, <1>5, Kept DEF ClientInv, Grows

\* The version is checked; groups are asked for with the client there is now
LEMMA VersionCheckedOK ==
    ASSUME ClientInv, NEW r \in Slots, VersionChecked(r)
    PROVE  ClientInv'
<1> DEFINE p == tasks[r]
           n == Len(sessions)
           e == [apis[p.api] EXCEPT !.backend = "known"]
           new == FetchGroups(p.api, p.n)
<1>1. /\ p.op = "version"
      /\ apis' = [apis EXCEPT ![p.api] = e] \/ apis' = apis
      /\ tasks' = End(r) \/ tasks' = [tasks EXCEPT ![r] = new]
      /\ UNCHANGED <<focus, version, sessions, store, saved, cur, effects, reordered, halfway>>
  BY DEF VersionChecked
<1>2. /\ sessions \in Seq(Sess) /\ n \in Nat /\ Len(apis) \in Nat /\ ApisOK(apis, n)
      /\ StoreOK(store, sessions) /\ TasksOK(tasks, sessions, Len(apis)) /\ \A i \in 1..Len(apis) : apis[i] \in Api(n)
      /\ p \in ATask(n, Len(apis))
  BY <1>1, Parts
<1>3. p.api \in 1..Len(apis) /\ p.n \in Nat
  BY <1>2 DEF ATask
<1>4. e \in Api(n) /\ apis[p.api].client \in 0..n
  <2>1. apis[p.api] \in Api(n)
    BY <1>2, <1>3
  <2> QED
    BY <2>1 DEF Api
<1>5. TaskOK(new, sessions, Len(apis))
  <2>1. "groups" \in Ops \ {"profile"} /\ Nobody \in Users \cup {Nobody} /\ "groups" # "login"
    BY DEF Ops
  <2>2. TaskOK(Task("groups", p.api, apis[p.api].client, p.n, Nobody), sessions, Len(apis))
    BY <2>1, <1>2, <1>3, <1>4, NewTask
  <2> QED
    BY <2>2 DEF FetchGroups
<1> HIDE DEF p, n, e, new
<1>6. ApisOK(apis', n) /\ Len(apis') = Len(apis)
  <2>1. ApisOK([apis EXCEPT ![p.api] = e], n) /\ Len([apis EXCEPT ![p.api] = e]) = Len(apis)
    BY <1>2, <1>3, <1>4, PutApi
  <2> QED
    BY <2>1, <1>1, <1>2
<1>7. TasksOK(tasks', sessions, Len(apis))
  <2>1. TasksOK([tasks EXCEPT ![r] = new], sessions, Len(apis))
    BY <1>2, <1>5 DEF TasksOK
  <2> QED
    BY <2>1, <1>1, <1>2, EndTask
<1> QED
  BY <1>1, <1>2, <1>6, <1>7, Kept DEF ClientInv, n

\* The groups of a user arrive
LEMMA GroupsFetchedOK ==
    ASSUME ClientInv, NEW r \in Slots, GroupsFetched(r)
    PROVE  ClientInv'
<1> DEFINE p == tasks[r]
<1>1. /\ p.op = "groups"
      /\ \/ UNCHANGED <<store, saved>>
         \/ store' = [store EXCEPT !.groups = p.answer] /\ saved' = saved \cup {"groups"}
      /\ cur' \in {p.api, cur} /\ tasks' = End(r)
      /\ UNCHANGED <<focus, version, sessions, apis, effects, visits, halfway>>
  BY DEF GroupsFetched
<1>2. /\ sessions \in Seq(Sess) /\ Len(apis) \in Nat /\ ApisOK(apis, Len(sessions))
      /\ StoreOK(store, sessions) /\ TasksOK(tasks, sessions, Len(apis)) /\ p \in ATask(Len(sessions), Len(apis))
  BY <1>1, Parts
<1>3. p.api \in 1..Len(apis) /\ p.answer \in Users \cup {Nobody}
  BY <1>2 DEF ATask
<1> HIDE DEF p
<1>4. StoreOK(store', sessions)
  BY <1>1, <1>2, <1>3 DEF StoreOK
<1>5. TasksOK(tasks', sessions, Len(apis))
  BY <1>1, <1>2, EndTask
<1>6. cur' \in 0..Len(apis) /\ saved' \subseteq {"auth", "groups"}
  BY <1>1, <1>2, <1>3 DEF ClientInv
<1> QED
  BY <1>1, <1>2, <1>4, <1>5, <1>6, Kept DEF ClientInv

\* A new api object, with the tasks there are
LEMMA MoreApis ==
    ASSUME ClientInv, apis' = Append(apis, NewApi(0))
    PROVE  /\ ApisOK(apis', Len(sessions)) /\ Len(apis') = Len(apis) + 1
           /\ TasksOK(tasks, sessions, Len(apis')) /\ Len(apis) + 1 \in 1..Len(apis')
<1>1. Len(sessions) \in Nat /\ Len(apis) \in Nat /\ ApisOK(apis, Len(sessions)) /\ sessions \in Seq(Sess)
      /\ TasksOK(tasks, sessions, Len(apis))
  BY Parts
<1>2. NewApi(0) \in Api(Len(sessions))
  BY <1>1, NewApiType
<1>3. ApisOK(apis', Len(sessions)) /\ Len(apis') = Len(apis) + 1
  BY <1>1, <1>2, AddApi
<1>4. Len(apis') \in Nat /\ Len(apis) <= Len(apis') /\ Grows(sessions, sessions)
  BY <1>1, <1>3, SameSessions
<1> QED
  BY <1>1, <1>3, <1>4, TasksGrow

\* The forms of the applications
LEMMA FormsOK ==
    ASSUME ClientInv, RegisterScreen \/ \E u \in Users : LoginPage(u) \/ LoginScreen(u)
    PROVE  ClientInv'
<1>1. /\ sessions \in Seq(Sess) /\ Len(sessions) \in Nat /\ Len(apis) \in Nat /\ ApisOK(apis, Len(sessions))
      /\ StoreOK(store, sessions) /\ TasksOK(tasks, sessions, Len(apis))
      /\ \A i \in 1..Len(apis) : apis[i] \in Api(Len(sessions))
  BY Parts
<1>2. 0 \in Nat /\ 0 \in 0..Len(sessions) /\ "login" \in Ops \ {"profile"}
  BY <1>1 DEF Ops
<1>3. CASE RegisterScreen
  <2>1. /\ apis' = Append(apis, NewApi(0)) /\ cur' = Len(apis) + 1
        /\ UNCHANGED <<focus, version, sessions, store, saved, tasks, effects, reordered, halfway, missed>>
    BY <1>3 DEF RegisterScreen
  <2>2. ApisOK(apis', Len(sessions)) /\ Len(apis') = Len(apis) + 1 /\ TasksOK(tasks, sessions, Len(apis'))
    BY <2>1, MoreApis
  <2>3. cur' \in 0..Len(apis') /\ Len(apis') # 0
    BY <2>1, <2>2, <1>1
  <2> QED
    BY <2>1, <2>2, <2>3, <1>1, Kept DEF ClientInv
<1>4. ASSUME NEW u \in Users, LoginPage(u)
      PROVE  ClientInv'
  <2>1. /\ focus = "web" /\ tasks' = Start(tasks, Task("login", 1, apis[1].client, 0, u)) /\ UNCHANGED <<apis, cur>>
        /\ UNCHANGED <<focus, version, sessions, store, saved, effects, reordered, halfway, missed>>
    BY <1>4 DEF LoginPage, LoginForm
  <2>2. 1 \in 1..Len(apis)
    BY <2>1, <1>1 DEF ClientInv
  <2>3. apis[1].client \in 0..Len(sessions)
    <3>1. apis[1] \in Api(Len(sessions))
      BY <2>2, <1>1
    <3> QED
      BY <3>1 DEF Api
  <2>4. TaskOK(Task("login", 1, apis[1].client, 0, u), sessions, Len(apis))
    BY <2>2, <2>3, <1>1, <1>2, NewTask
  <2>5. TasksOK(tasks', sessions, Len(apis))
    BY <2>1, <2>4, <1>1, StartTasks
  <2> QED
    BY <2>1, <2>5, <1>1, Kept DEF ClientInv
<1>5. ASSUME NEW u \in Users, LoginScreen(u)
      PROVE  ClientInv'
  <2>1. /\ apis' = Append(apis, NewApi(0)) /\ cur' = Len(apis) + 1
        /\ tasks' = Start(tasks, Task("login", Len(apis) + 1, 0, 0, u))
        /\ UNCHANGED <<focus, version, sessions, store, saved, effects, reordered, halfway, missed>>
    BY <1>5 DEF LoginScreen, LoginForm
  <2>2. ApisOK(apis', Len(sessions)) /\ Len(apis') = Len(apis) + 1 /\ TasksOK(tasks, sessions, Len(apis'))
        /\ Len(apis) + 1 \in 1..Len(apis')
    BY <2>1, MoreApis
  <2>3. TaskOK(Task("login", Len(apis) + 1, 0, 0, u), sessions, Len(apis'))
    BY <2>2, <1>1, <1>2, NewTask
  <2>4. TasksOK(tasks', sessions, Len(apis'))
    BY <2>1, <2>2, <2>3, StartTasks
  <2>5. cur' \in 0..Len(apis') /\ Len(apis') # 0
    BY <2>1, <2>2, <1>1
  <2> QED
    BY <2>1, <2>2, <2>4, <2>5, <1>1, Kept DEF ClientInv
<1> QED
  BY <1>3, <1>4, <1>5

\* login goes on to ask for the profile, with the token it got
LEMMA LoginAnsweredOK ==
    ASSUME ClientInv, NEW r \in Slots, LoginAnswered(r)
    PROVE  ClientInv'
<1> DEFINE p == tasks[r]
           n == Len(sessions)
           t == p.token
           e == InitApi(apis[p.api], t)
           new == [Task("profile", p.api, e.client, 0, Nobody) EXCEPT !.token = t]
<1>1. /\ p.op = "login"
      /\ UNCHANGED <<focus, version, sessions, store, saved, cur, effects, visits, reordered, halfway, missed>>
  BY DEF LoginAnswered
<1>2. /\ sessions \in Seq(Sess) /\ n \in Nat /\ Len(apis) \in Nat /\ ApisOK(apis, n)
      /\ StoreOK(store, sessions) /\ TasksOK(tasks, sessions, Len(apis)) /\ \A i \in 1..Len(apis) : apis[i] \in Api(n)
      /\ p \in ATask(n, Len(apis)) /\ apis \in Seq(Api(n))
  BY <1>1, Parts DEF ApisOK
<1>3. p.api \in 1..Len(apis) /\ t \in 0..n /\ p.api \in DOMAIN apis
  <2>1. p.api \in 1..Len(apis) /\ t \in 0..n
    BY <1>2 DEF ATask
  <2> QED
    BY <2>1, <1>2, LenProperties
<1>4. CASE t = 0
  <2>1. tasks' = End(r) /\ UNCHANGED apis
    BY <1>4 DEF LoginAnswered
  <2>2. TasksOK(tasks', sessions, Len(apis))
    BY <2>1, <1>2, EndTask
  <2> QED
    BY <2>1, <2>2, <1>1, <1>2, Kept DEF ClientInv
<1>5. CASE t # 0
  <2>1. apis' = [apis EXCEPT ![p.api] = e] /\ tasks' = [tasks EXCEPT ![r] = new]
    <3>1. [apis EXCEPT ![p.api] = InitApi(@, t)][p.api] = e
      BY <1>3
    <3> QED
      BY <3>1, <1>5 DEF LoginAnswered
  <2>2. e \in Api(n) /\ e.client = t
    <3>1. apis[p.api] \in Api(n)
      BY <1>2, <1>3
    <3> DEFINE a == apis[p.api]
    <3>2. a \in Api(n) /\ n \in Nat /\ t \in 0..n /\ t # 0 /\ e = InitApi(a, t)
      BY <3>1, <1>2, <1>3, <1>5
    <3> HIDE DEF a, e, t, n
    <3> QED
      BY <3>2, InitApiType
  <2>3. Task("profile", p.api, t, 0, Nobody) \in ATask(n, Len(apis)) /\ Task("profile", p.api, t, 0, Nobody).op = "profile"
        /\ Task("profile", p.api, t, 0, Nobody).cred = t /\ Task("profile", p.api, t, 0, Nobody).answer = Nobody
    <3>1. 0 \in 0..n /\ Nobody \in Users \cup {Nobody} /\ "profile" \in Ops /\ "sent" \in {"sent", "answered"}
      BY <1>2 DEF Ops
    <3> QED
      BY <3>1, <1>3 DEF Task, ATask
  <2>4. new \in ATask(n, Len(apis)) /\ new.op = "profile" /\ new.cred = t /\ new.token = t /\ new.answer = Nobody
    <3>1. new = [Task("profile", p.api, t, 0, Nobody) EXCEPT !.token = t]
      BY <2>2
    <3> QED
      BY <3>1, <2>3, <1>3 DEF ATask
  <2> HIDE DEF p, n, e, t, new
  <2>5. TaskOK(new, sessions, Len(apis))
    BY <2>4, <1>5 DEF TaskOK, n
  <2>6. ApisOK([apis EXCEPT ![p.api] = e], n) /\ Len([apis EXCEPT ![p.api] = e]) = Len(apis)
    BY <2>2, <1>2, <1>3, PutApi
  <2>7. TasksOK([tasks EXCEPT ![r] = new], sessions, Len(apis))
    BY <2>5, <1>2 DEF TasksOK
  <2> QED
    BY <2>1, <2>6, <2>7, <1>1, <1>2, Kept DEF ClientInv, n
<1> QED
  BY <1>4, <1>5

\* login.fulfilled: the profile in the store is the one of the token
LEMMA LoginFulfilledOK ==
    ASSUME ClientInv, NEW r \in Slots, LoginFulfilled(r)
    PROVE  ClientInv'
<1> DEFINE p == tasks[r]
<1>1. p.op = "profile" /\ UNCHANGED <<focus, version, sessions, cur, visits, reordered, missed>>
  BY DEF LoginFulfilled
<1>2. /\ sessions \in Seq(Sess) /\ Len(sessions) \in Nat /\ Len(apis) \in Nat /\ ApisOK(apis, Len(sessions))
      /\ StoreOK(store, sessions) /\ TasksOK(tasks, sessions, Len(apis))
      /\ TaskOK(p, sessions, Len(apis)) /\ p \in ATask(Len(sessions), Len(apis))
  BY <1>1, Parts
<1>3. p.token \in 0..Len(sessions) /\ p.answer \in Users \cup {Nobody}
  BY <1>2 DEF ATask
<1>4. p.answer # Nobody => p.answer = sessions[p.token].user
  BY <1>1, <1>2 DEF TaskOK
<1>5. TasksOK(End(r), sessions, Len(apis))
  BY <1>2, EndTask
<1>6. CASE p.answer = Nobody
  <2>1. tasks' = End(r) /\ UNCHANGED <<store, saved, apis, effects>>
    BY <1>6 DEF LoginFulfilled
  <2> QED
    BY <2>1, <1>1, <1>2, <1>5, Kept DEF ClientInv
<1>7. CASE p.answer # Nobody
  <2>1. /\ store' = LoggedIn(p.token, p.answer) /\ saved' = saved \cup {"auth"} /\ TokenChanged(End(r), apis, p.token)
    BY <1>7 DEF LoginFulfilled
  <2> HIDE DEF p
  <2>2. StoreOK(store', sessions)
    BY <2>1, <1>2, <1>3, <1>4, <1>7 DEF StoreOK, LoggedIn
  <2>3. /\ ApisOK(apis', Len(sessions)) /\ Len(apis') \in Nat /\ Len(apis) <= Len(apis')
        /\ TasksOK(tasks', sessions, Len(apis')) /\ effects' \in Nat
    BY <2>1, <1>2, <1>3, <1>5, TokenChangedOK
  <2>4. cur' \in 0..Len(apis') /\ (focus = "web" => Len(apis') # 0) /\ saved' \subseteq {"auth", "groups"}
    BY <2>1, <2>3, <1>1, <1>2 DEF ClientInv
  <2> QED
    BY <2>2, <2>3, <2>4, <1>1, <1>2, Kept
<1> QED
  BY <1>6, <1>7

\* A logout is asked for
LEMMA LogoutRequestOK ==
    ASSUME ClientInv, LogoutRequest
    PROVE  ClientInv'
<1>1. /\ cur # 0 /\ tasks' = Start(tasks, Task("logout", cur, apis[cur].client, 0, Nobody))
      /\ UNCHANGED <<focus, version, sessions, store, saved, apis, cur, effects, reordered, halfway, missed>>
  BY DEF LogoutRequest
<1>2. /\ sessions \in Seq(Sess) /\ Len(sessions) \in Nat /\ Len(apis) \in Nat /\ ApisOK(apis, Len(sessions))
      /\ StoreOK(store, sessions) /\ TasksOK(tasks, sessions, Len(apis))
      /\ \A i \in 1..Len(apis) : apis[i] \in Api(Len(sessions))
  BY Parts
<1>3. cur \in 1..Len(apis)
  BY <1>1, <1>2 DEF ClientInv
<1>4. apis[cur].client \in 0..Len(sessions)
  <2>1. apis[cur] \in Api(Len(sessions))
    BY <1>2, <1>3
  <2> QED
    BY <2>1 DEF Api
<1>5. "logout" \in Ops \ {"profile"} /\ Nobody \in Users \cup {Nobody} /\ "logout" # "login"
  BY DEF Ops
<1>6. TaskOK(Task("logout", cur, apis[cur].client, 0, Nobody), sessions, Len(apis))
  BY <1>2, <1>3, <1>4, <1>5, NewTask
<1>7. TasksOK(tasks', sessions, Len(apis))
  BY <1>1, <1>2, <1>6, StartTasks
<1> QED
  BY <1>1, <1>2, <1>7, Kept DEF ClientInv

\* logout.fulfilled
LEMMA LogoutFulfilledOK ==
    ASSUME ClientInv, NEW r \in Slots, LogoutFulfilled(r)
    PROVE  ClientInv'
<1> DEFINE p == tasks[r]
           n == Len(sessions)
           e == resetAuthState(apis[p.api])
           as == [apis EXCEPT ![p.api] = e]
<1>1. /\ p.op = "logout" /\ store' = LoggedOut /\ saved' = {"auth"}
      /\ UNCHANGED <<focus, version, sessions, cur, visits, reordered, halfway, missed>>
      /\ TokenChanged(End(r), as, 0) \/ (tasks' = End(r) /\ apis' = as /\ UNCHANGED effects)
  BY DEF LogoutFulfilled
<1>2. /\ sessions \in Seq(Sess) /\ n \in Nat /\ Len(apis) \in Nat /\ ApisOK(apis, n)
      /\ StoreOK(store, sessions) /\ TasksOK(tasks, sessions, Len(apis)) /\ \A i \in 1..Len(apis) : apis[i] \in Api(n)
      /\ p \in ATask(n, Len(apis))
  BY <1>1, Parts
<1>3. p.api \in 1..Len(apis)
  BY <1>2 DEF ATask
<1>4. e \in Api(n)
  <2>1. apis[p.api] \in Api(n)
    BY <1>2, <1>3
  <2> QED
    BY <2>1, <1>2 DEF Api, resetAuthState
<1>5. StoreOK(store', sessions)
  <2>1. store' = [store EXCEPT !.token = 0, !.profile = Nobody]
    BY <1>1 DEF LoggedOut
  <2>2. store \in [token : 0..n, profile : Users \cup {Nobody}, groups : Users \cup {Nobody}] /\ 0 \in 0..n
    BY <1>2 DEF StoreOK
  <2> HIDE DEF n
  <2>3. store' \in [token : 0..n, profile : Users \cup {Nobody}, groups : Users \cup {Nobody}] /\ store'.token = 0
    BY <2>1, <2>2
  <2> QED
    BY <2>3 DEF StoreOK, n
<1> HIDE DEF p, e
<1>6. ApisOK(as, n) /\ Len(as) = Len(apis)
  <2> HIDE DEF n
  <2>1. ApisOK([apis EXCEPT ![p.api] = e], n) /\ Len([apis EXCEPT ![p.api] = e]) = Len(apis)
    BY <1>2, <1>3, <1>4, PutApi
  <2> QED
    BY <2>1
<1> HIDE DEF as
<1>7. TasksOK(End(r), sessions, Len(apis))
  BY <1>2, EndTask
<1>8. /\ ApisOK(apis', Len(sessions)) /\ Len(apis') \in Nat /\ Len(apis) <= Len(apis')
      /\ TasksOK(tasks', sessions, Len(apis')) /\ effects' \in Nat
  <2>1. CASE TokenChanged(End(r), as, 0)
    <3>1. 0 \in 0..Len(sessions)
      BY <1>2
    <3> QED
      BY <2>1, <3>1, <1>6, <1>7, TokenChangedOK
  <2>2. CASE tasks' = End(r) /\ apis' = as /\ UNCHANGED effects
    BY <2>2, <1>2, <1>6, <1>7 DEF ClientInv
  <2> QED
    BY <2>1, <2>2, <1>1
<1>9. cur' \in 0..Len(apis') /\ (focus = "web" => Len(apis') # 0) /\ saved' \subseteq {"auth", "groups"}
  BY <1>1, <1>2, <1>8 DEF ClientInv
<1> QED
  BY <1>1, <1>2, <1>5, <1>8, <1>9, Kept

\* A request fails
LEMMA LostOK ==
    ASSUME ClientInv, NEW r \in Slots, Lost(r)
    PROVE  ClientInv'
<1> DEFINE p == tasks[r]
           new == [p EXCEPT !.stage = "answered", !.answer = Nobody, !.token = IF p.op = "login" THEN 0 ELSE @]
<1>1. /\ p.op \in {"login", "profile", "groups", "logout"}
      /\ UNCHANGED <<focus, version, sessions, store, saved, apis, cur, effects, reordered, halfway, missed>>
  BY DEF Lost
<1>2. /\ sessions \in Seq(Sess) /\ Len(sessions) \in Nat /\ Len(apis) \in Nat /\ ApisOK(apis, Len(sessions))
      /\ StoreOK(store, sessions) /\ TasksOK(tasks, sessions, Len(apis))
      /\ TaskOK(p, sessions, Len(apis)) /\ p \in ATask(Len(sessions), Len(apis))
  BY <1>1, Parts
<1>3. tasks' = [tasks EXCEPT ![r] = new]
  <2>1. r \in DOMAIN tasks
    BY <1>2 DEF TasksOK
  <2> QED
    BY <2>1 DEF Lost
<1>4. /\ new \in ATask(Len(sessions), Len(apis)) /\ new.op = p.op /\ new.user = p.user /\ new.cred = p.cred
      /\ new.answer = Nobody /\ (p.op # "login" => new.token = p.token)
  <2> DEFINE t == IF p.op = "login" THEN 0 ELSE p.token
  <2>1. t \in 0..Len(sessions) /\ new = [p EXCEPT !.stage = "answered", !.answer = Nobody, !.token = t]
    BY <1>2 DEF ATask
  <2>2. p.op # "login" => t = p.token
    OBVIOUS
  <2> HIDE DEF t, p, new
  <2> QED
    BY <2>1, <2>2, <1>2 DEF ATask
<1> HIDE DEF p, new
<1>5. TaskOK(new, sessions, Len(apis))
  BY <1>2, <1>4 DEF TaskOK
<1>6. TasksOK(tasks', sessions, Len(apis))
  BY <1>2, <1>3, <1>5 DEF TasksOK
<1> QED
  BY <1>1, <1>2, <1>6, Kept DEF ClientInv

\* The application restarts with what the storage has
LEMMA RestartOK ==
    ASSUME ClientInv, NEW from \in SUBSET {"auth", "groups"}, RestartFrom(from)
    PROVE  ClientInv'
<1> DEFINE n == Len(sessions)
           t == Restored(from).token
           none == [r \in Slots |-> NoTask]
<1>1. /\ store' = Restored(from) /\ saved' = from
      /\ cur' = (IF focus = "web" THEN 1 ELSE 0)
      /\ UNCHANGED <<focus, version, sessions, reordered, missed>>
      /\ \/ /\ t = 0 /\ apis' = (IF focus = "web" THEN <<NewApi(0)>> ELSE <<>>)
            /\ tasks' = none /\ UNCHANGED effects
         \/ /\ t # 0 /\ apis' = <<InitApi(NewApi(0), t)>> /\ effects' = effects + 1
            /\ tasks' = Start(none, Task("version", 1, 0, effects + 1, Nobody))
  BY DEF RestartFrom
<1>2. sessions \in Seq(Sess) /\ n \in Nat /\ StoreOK(store, sessions) /\ store.token \in 0..n /\ effects \in Nat
  BY Parts DEF ClientInv
<1>3. t \in 0..n /\ (t # 0 => t = store.token)
  BY <1>2 DEF Restored
<1>4. StoreOK(store', sessions)
  <2>1. t # 0 => Restored(from).profile = store.profile
    BY <1>3 DEF Restored
  <2>2. Restored(from) \in [token : 0..n, profile : Users \cup {Nobody}, groups : Users \cup {Nobody}]
    BY <1>2 DEF Restored, StoreOK
  <2> QED
    BY <2>1, <2>2, <1>1, <1>2, <1>3 DEF StoreOK
<1> HIDE DEF t, n
<1>5. TasksOK(none, sessions, 1) /\ TasksOK(none, sessions, 0)
  BY DEF TasksOK
<1>6. NewApi(0) \in Api(n) /\ \A x \in 0..n : InitApi(NewApi(0), x) \in Api(n)
  BY <1>2, NewApiType
<1>7. CASE t = 0
  <2>1. tasks' = none /\ effects' = effects /\ apis' = IF focus = "web" THEN <<NewApi(0)>> ELSE <<>>
    BY <1>1, <1>7
  <2>2. ApisOK(<<NewApi(0)>>, n) /\ Len(<<NewApi(0)>>) = 1
    BY <1>6, OneApi
  <2>3. ApisOK(<<>>, n) /\ Len(<<>>) = 0
    BY EmptySeq DEF ApisOK
  <2>4. ApisOK(apis', n) /\ (focus = "web" => Len(apis') = 1) /\ (focus # "web" => Len(apis') = 0)
    BY <2>1, <2>2, <2>3
  <2>5. TasksOK(tasks', sessions, Len(apis'))
    BY <2>1, <2>4, <1>5
  <2>6. cur' \in 0..Len(apis')
    BY <2>4, <1>1
  <2> QED
    BY <2>1, <2>4, <2>5, <2>6, <1>1, <1>2, <1>4, Kept DEF n
<1>8. CASE t # 0
  <2>1. /\ apis' = <<InitApi(NewApi(0), t)>> /\ effects' = effects + 1
        /\ tasks' = Start(none, Task("version", 1, 0, effects + 1, Nobody))
    BY <1>1, <1>8
  <2>2. ApisOK(apis', n) /\ Len(apis') = 1
    BY <2>1, <1>3, <1>6, OneApi
  <2>3. TaskOK(Task("version", 1, 0, effects + 1, Nobody), sessions, 1)
    <3>1. 1 \in 1..1 /\ 0 \in 0..Len(sessions) /\ effects + 1 \in Nat /\ "version" \in Ops \ {"profile"} /\ "version" # "login"
      BY <1>2 DEF n, Ops
    <3> QED
      BY <3>1, <1>2, NewTask DEF n
  <2>4. TasksOK(tasks', sessions, 1)
    BY <2>1, <2>3, <1>5, StartTasks
  <2>5. cur' \in 0..Len(apis') /\ effects' \in Nat
    BY <2>1, <2>2, <1>1, <1>2
  <2> QED
    BY <2>2, <2>4, <2>5, <1>1, <1>2, <1>4, Kept DEF n
<1> QED
  BY <1>7, <1>8

\* The invariant is kept by every step of the client and of the sessions
LEMMA ClientNextOK ==
    ASSUME ClientInv, ClientNext
    PROVE  ClientInv'
<1>1. CASE Restart \/ SettingsClearCache
  <2>1. saved \in SUBSET {"auth", "groups"} /\ {} \in SUBSET {"auth", "groups"}
    BY DEF ClientInv
  <2> QED
    BY <2>1, <1>1, RestartOK DEF Restart, SettingsClearCache
<1>2. CASE PreferencesClearCache
  <2>1. saved' = {} /\ UNCHANGED <<focus, version, sessions, store, apis, cur, tasks, effects, reordered, halfway, missed>>
    BY <1>2 DEF PreferencesClearCache
  <2> QED
    BY <2>1, Parts, Kept DEF ClientInv
<1>3. CASE \E r \in Slots : \/ Execute(r) \/ Lost(r)
                            \/ LoginAnswered(r) \/ LoginFulfilled(r) \/ LogoutFulfilled(r)
                            \/ VersionChecked(r) \/ GroupsFetched(r)
  BY <1>3, ExecuteOK, LostOK, LoginAnsweredOK, LoginFulfilledOK, LogoutFulfilledOK, VersionCheckedOK, GroupsFetchedOK
<1>4. CASE RegisterScreen \/ \E u \in Users : LoginPage(u) \/ LoginScreen(u)
  BY <1>4, FormsOK
<1>5. CASE Logout \/ PreferencesLogout
  BY <1>5, LogoutRequestOK DEF Logout, PreferencesLogout
<1>6. CASE SessionDeleted
  BY <1>6, SessionDeletedOK
<1> QED
  BY <1>1, <1>2, <1>3, <1>4, <1>5, <1>6 DEF ClientNext

\* A step that is not about the client
LEMMA ClientStutter ==
    ASSUME ClientInv, UNCHANGED clientVars
    PROVE  ClientInv'
  BY Parts, Kept DEF ClientInv, clientVars

-----------------------------------------------------------------------------
(* The theorems.                                                           *)

\* The invariant holds in every behaviour, whatever the users, the addresses,
\* the pages, the requests under way and the bounds.
THEOREM Invariance == Spec => []IInv
<1>1. Init => IInv
  <2>1. SUFFICES ASSUME Init PROVE IInv
    OBVIOUS
  <2>2. ClientInit /\ LinksInit(Home[focus]) /\ Home[focus] \in Homes
    BY <2>1, SessionBounds DEF Init, ClientInit
  <2> QED
    BY <2>2, LinksInitOK, ClientInitOK DEF IInv
<1>2. IInv /\ [Next]_vars => IInv'
  <2>1. SUFFICES ASSUME IInv, [Next]_vars PROVE IInv'
    OBVIOUS
  <2>2. CASE LinksNext /\ UNCHANGED clientVars
    BY <2>1, <2>2, LinksNextOK, ClientStutter DEF IInv
  <2>3. CASE ClientNext /\ UNCHANGED linkVars
    BY <2>1, <2>3, ClientNextOK, LinksStutter DEF IInv
  <2>4. CASE UNCHANGED vars
    BY <2>1, <2>4, ClientStutter, LinksStutter DEF IInv, vars
  <2> QED
    BY <2>1, <2>2, <2>3, <2>4 DEF Next
<1> QED
  BY <1>1, <1>2, PTL DEF Spec

\* Accounts, links, sessions and what the client has of them are of their types,
\* and the profile in the store is the one of the session whose token it has
\* (login.fulfilled, logout.fulfilled and the restart).
THEOREM TypeCorrect == Spec => []TypeOK
<1>1. IInv => TypeOK
  <2>1. SUFFICES ASSUME IInv PROVE TypeOK
    OBVIOUS
  <2>2. LinksTypeOK
    BY <2>1, LinksInvImplies DEF IInv
  <2>3. \A t \in DOMAIN sessions : sessions[t] \in [user : Users, live : BOOLEAN]
    <3>1. sessions \in Seq(Sess)
      BY <2>1 DEF IInv, ClientInv, SessionsOK
    <3>2. DOMAIN sessions = 1..Len(sessions) /\ \A t \in 1..Len(sessions) : sessions[t] \in Sess
      BY <3>1, LenProperties, ElementOfSeq
    <3> QED
      BY <3>2 DEF Sess
  <2> QED
    BY <2>1, <2>2, <2>3 DEF IInv, ClientInv, TypeOK, StoreOK
<1> QED
  BY <1>1, Invariance, PTL

\* No address belongs to two users, and no address or password came into force
\* by a link that was not mailed to that address, or to an address at all
\* (confirm_*, on_*_notification).
THEOREM ProvenAddresses == Spec => []AddressesAreProven
<1>1. IInv => AddressesAreProven
  BY LinksInvImplies DEF IInv
<1> QED
  BY <1>1, Invariance, PTL

\* A link is mailed at most once more than the mailer has crashed
\* (on_*_notification).
THEOREM MailedOnce == Spec => []MailedOncePerLife
<1>1. IInv => MailedOncePerLife
  BY LinksInvImplies DEF IInv
<1> QED
  BY <1>1, Invariance, PTL

-----------------------------------------------------------------------------
(* The effects on the token.  A second invariant, on top of ClientInv: what  *)
(* the effect of the last token is about to do, or has done.               *)

IsEffect(s) == tasks[s].op \in {"version", "groups"}
Latest(s) == IsEffect(s) /\ tasks[s].n = effects

EffectsOK ==
    /\ \A s \in Slots : IsEffect(s) => tasks[s].n <= effects
    /\ \A r, s \in Slots : IsEffect(r) /\ IsEffect(s) /\ tasks[r].n = tasks[s].n => r = s
    /\ focus = "web" => Len(apis) = 1 /\ cur = 1
    /\ Logged => Slots # {} /\ focus # "links"

\* An api object with the token of the store, which no login will change
Speaks(a) ==
    /\ a \in 1..Len(apis) /\ apis[a].token = store.token /\ apis[a].client = store.token
    /\ focus = "mobile" => \A s \in Slots : tasks[s].op = "login" => tasks[s].api # a

\* A request for the groups of the user in the store
Own(s) ==
    /\ tasks[s].cred # 0 /\ sessions[tasks[s].cred].user = store.profile
    /\ tasks[s].answer \in {Nobody, store.profile}

\* The one api of the web is not in the hands of a login
Settled == focus = "web" => ~halfway /\ \A s \in Slots : tasks[s].op # "profile"

UnderWay == \E s \in Slots : Latest(s) /\ Speaks(tasks[s].api) /\ (tasks[s].op = "groups" => Own(s))
Over == (\A s \in Slots : ~IsEffect(s)) /\ (missed \/ store.groups = store.profile) /\ Speaks(cur)
GivenUp == missed /\ ~isRequiredVersion(version) /\ (\A s \in Slots : ~Latest(s)) /\ (focus = "web" => Speaks(cur))

FollowsToken == Logged /\ ~reordered /\ Settled => UnderWay \/ Over \/ GivenUp

\* The second invariant is stronger than what the run checks
LEMMA FollowingIsEnough ==
    ASSUME ClientInv, EffectsOK, FollowsToken
    PROVE  ApiSpeaksForStore /\ ShowsOwnGroups
<1> SUFFICES ASSUME Quiet, Logged, ~reordered, ~halfway
             PROVE  /\ cur # 0 /\ (focus = "mobile" => isRequiredVersion(version)) =>
                          apis[cur].token = store.token /\ apis[cur].client = store.token
                    /\ ~missed => store.groups = store.profile
  BY DEF ApiSpeaksForStore, ShowsOwnGroups
<1>1. \A s \in Slots : ~IsEffect(s) /\ tasks[s].op # "profile"
  BY DEF Quiet, NoTask, IsEffect
<1>2. Over \/ GivenUp
  BY <1>1 DEF FollowsToken, Settled, UnderWay, Latest
<1>3. focus \in {"web", "mobile"}
  BY DEF ClientInv, EffectsOK
<1> QED
  BY <1>2, <1>3 DEF Over, GivenUp, Speaks

\* A task is started in a free slot
LEMMA StartPlaces ==
    ASSUME NEW ts, NEW t, \E r \in Slots : ts[r] = NoTask
    PROVE  \E r \in Slots : ts[r] = NoTask /\ Start(ts, t) = [ts EXCEPT ![r] = t]
<1> DEFINE r == CHOOSE r \in Slots : ts[r] = NoTask
<1>1. r \in Slots /\ ts[r] = NoTask
  OBVIOUS
<1> QED
  BY <1>1 DEF Start

\* No effect begins
LEMMA NoNewEffect ==
    ASSUME ClientInv, EffectsOK, focus' = focus, effects' = effects, Logged' => Logged,
           \A s \in Slots : IsEffect(s)' => IsEffect(s) /\ tasks'[s].n = tasks[s].n,
           focus = "web" => Len(apis') = Len(apis) /\ cur' = cur
    PROVE  EffectsOK'
  BY DEF EffectsOK

\* An effect begins
LEMMA NewEffect ==
    ASSUME ClientInv, EffectsOK, focus' = focus, effects' = effects + 1, NEW r \in Slots, focus # "links",
           tasks'[r].n = effects', \A s \in Slots : s # r /\ IsEffect(s)' => IsEffect(s) /\ tasks'[s].n = tasks[s].n,
           focus = "web" => Len(apis') = 1 /\ cur' = 1
    PROVE  EffectsOK'
<1>1. effects \in Nat
  BY DEF ClientInv
<1>2. \A s \in Slots : IsEffect(s) => tasks[s].n \in Nat /\ tasks[s].n <= effects
  <2> SUFFICES ASSUME NEW s \in Slots, IsEffect(s) PROVE tasks[s].n \in Nat
    BY DEF EffectsOK
  <2>1. tasks[s] \in ATask(Len(sessions), Len(apis))
    BY Parts DEF IsEffect
  <2> QED
    BY <2>1 DEF ATask
<1>3. \A s \in Slots : IsEffect(s)' => tasks'[s].n <= effects' /\ (s # r => tasks'[s].n # effects')
  BY <1>1, <1>2
<1>4. \A p, s \in Slots : IsEffect(p)' /\ IsEffect(s)' /\ tasks'[p].n = tasks'[s].n => p = s
  <2> SUFFICES ASSUME NEW p \in Slots, NEW s \in Slots, IsEffect(p)', IsEffect(s)', tasks'[p].n = tasks'[s].n
               PROVE  p = s
    OBVIOUS
  <2> QED
    BY <1>3 DEF EffectsOK
<1> QED
  BY <1>3, <1>4 DEF EffectsOK

\* A step in which nothing happens to the effects, nor to the api objects that
\* have the token
LEMMA StillFollows ==
    ASSUME ClientInv, FollowsToken, UNCHANGED <<focus, version, store, effects, missed, cur>>, reordered => reordered',
           Logged' /\ Settled' => Settled /\ \A a : Speaks(a) => Speaks(a)',
           \A s \in Slots : IsEffect(s)' <=> IsEffect(s),
           \A s \in Slots : IsEffect(s) => /\ tasks'[s].n = tasks[s].n /\ tasks'[s].api = tasks[s].api
                                           /\ tasks'[s].op = tasks[s].op
                                           /\ tasks[s].op = "groups" /\ Own(s) => Own(s)'
    PROVE  FollowsToken'
<1> SUFFICES ASSUME Logged', ~reordered', Settled' PROVE UnderWay' \/ Over' \/ GivenUp'
  BY DEF FollowsToken
<1>1. Logged /\ ~reordered /\ Settled /\ \A a : Speaks(a) => Speaks(a)'
  BY DEF Logged
<1>2. CASE UnderWay
  <2>1. PICK s \in Slots : Latest(s) /\ Speaks(tasks[s].api) /\ (tasks[s].op = "groups" => Own(s))
    BY <1>2 DEF UnderWay
  <2>2. Latest(s)' /\ (tasks[s].op = "groups" => Own(s))'
    BY <1>1, <2>1 DEF Latest
  <2>3. Speaks(tasks[s].api)'
    BY <1>1, <2>1 DEF Latest
  <2> QED
    BY <2>2, <2>3 DEF UnderWay
<1>3. CASE Over
  BY <1>1, <1>3 DEF Over
<1>4. CASE GivenUp
  BY <1>1, <1>4 DEF GivenUp, Latest
<1> QED
  BY <1>1, <1>2, <1>3, <1>4 DEF FollowsToken

Follows == EffectsOK /\ FollowsToken

\* An api object that the step leaves alone still speaks for the store
LEMMA StillSpeaks ==
    ASSUME ClientInv, UNCHANGED <<focus, store, apis>>,
           \A s \in Slots : (tasks[s].op = "login")' => tasks[s].op = "login" /\ tasks'[s].api = tasks[s].api
    PROVE  \A a : Speaks(a) => Speaks(a)'
  BY DEF Speaks

\* A request of a task is made, answered or lost, or a session ends
LEMMA RequestFollows ==
    ASSUME ClientInv, Follows, UNCHANGED <<focus, version, store, apis, cur, effects, missed, reordered, halfway>>,
           Grows(sessions, sessions'),
           \A s \in Slots :
             \/ tasks'[s] = tasks[s]
             \/ /\ tasks[s].op # "none" /\ tasks'[s].op = tasks[s].op /\ tasks'[s].api = tasks[s].api
                /\ tasks'[s].n = tasks[s].n /\ tasks'[s].cred = tasks[s].cred
                /\ tasks[s].op = "groups" => tasks'[s].answer = Nobody \/ tasks'[s].answer = sessions[tasks[s].cred].user
             \/ tasks[s].op = "none" /\ tasks'[s].op = "logout"
    PROVE  Follows'
<1>1. \A s \in Slots : (IsEffect(s)' <=> IsEffect(s)) /\ (IsEffect(s) => tasks'[s].n = tasks[s].n /\ tasks'[s].api = tasks[s].api
                                                                        /\ tasks'[s].op = tasks[s].op)
  BY DEF IsEffect
<1>2. EffectsOK'
  <2>1. Logged' => Logged
    BY DEF Logged
  <2> QED
    BY <1>1, <2>1, NoNewEffect DEF Follows
<1>3. \A a : Speaks(a) => Speaks(a)'
  BY StillSpeaks
<1>4. Settled' => Settled
  BY DEF Settled
<1>5. ASSUME NEW s \in Slots, IsEffect(s), tasks[s].op = "groups", Own(s) PROVE Own(s)'
  <2>1. tasks[s] \in ATask(Len(sessions), Len(apis)) /\ sessions \in Seq(Sess) /\ Len(sessions) \in Nat
    BY <1>5, Parts DEF IsEffect
  <2>2. tasks[s].cred \in 0..Len(sessions)
    BY <2>1 DEF ATask
  <2>3. tasks[s].cred \in 1..Len(sessions)
    BY <1>5, <2>1, <2>2 DEF Own
  <2>4. sessions'[tasks[s].cred].user = sessions[tasks[s].cred].user
    BY <2>3 DEF Grows
  <2>5. tasks'[s].cred = tasks[s].cred
    BY <1>5 DEF IsEffect
  <2>6. tasks'[s].answer \in {Nobody, store.profile}
    BY <1>5 DEF Own
  <2> QED
    BY <1>5, <2>4, <2>5, <2>6 DEF Own
<1> QED
  BY <1>1, <1>2, <1>3, <1>4, <1>5, StillFollows DEF Follows

\* Nothing is to be shown for a store without a token
LEMMA NotLogged ==
    ASSUME ~Logged', EffectsOK'
    PROVE  Follows'
  BY DEF Follows, FollowsToken

\* The server executes a request
LEMMA ExecuteFollows ==
    ASSUME ClientInv, Follows, NEW r \in Slots, Execute(r)
    PROVE  Follows'
<1> DEFINE p == tasks[r]
<1>1. /\ p.op # "none" /\ UNCHANGED <<focus, version, store, saved, apis, cur, effects, visits, reordered, halfway, missed>>
      /\ sessions' = sessions \/ (\E u \in Users : sessions' = login_user(u)) \/ (\E t : sessions' = logout_user(t))
  <2>1. p \in ATask(Len(sessions), Len(apis)) /\ TaskOK(p, sessions, Len(apis))
    BY Parts DEF Execute
  <2> HIDE DEF p
  <2>2. p.op \in Ops /\ (p.op = "login" => p.user \in Users)
    BY <2>1 DEF ATask, TaskOK
  <2> QED
    BY <2>2 DEF Execute, p, Ops
<1>2. Grows(sessions, sessions')
  BY <1>1, SameSessions, LoginGrows, LogoutGrows, Parts
<1>3. p \in ATask(Len(sessions), Len(apis)) /\ DOMAIN tasks = Slots
  BY <1>1, Parts DEF TasksOK
<1>4. \E token, user : /\ tasks' = [tasks EXCEPT ![r] = [p EXCEPT !.stage = "answered", !.token = token, !.answer = user]]
                       /\ p.op = "groups" => user = UserOf(p.cred)
  <2>1. p.op \in Ops
    BY <1>3 DEF ATask
  <2> QED
    BY <2>1 DEF Execute, Ops
<1>5. PICK token, user : /\ tasks' = [tasks EXCEPT ![r] = [p EXCEPT !.stage = "answered", !.token = token, !.answer = user]]
                         /\ p.op = "groups" => user = UserOf(p.cred)
  BY <1>4
<1>6. p.op = "groups" => user = Nobody \/ user = sessions[p.cred].user
  <2>1. p.cred \in 0..Len(sessions) /\ SessionsOK
    BY <1>3, Parts DEF ATask
  <2> QED
    BY <1>5, <2>1, UserOfType
<1>7. /\ tasks'[r].op = p.op /\ tasks'[r].api = p.api /\ tasks'[r].n = p.n /\ tasks'[r].cred = p.cred /\ tasks'[r].answer = user
      /\ \A s \in Slots : s # r => tasks'[s] = tasks[s]
  BY <1>3, <1>5 DEF ATask
<1> QED
  BY <1>1, <1>2, <1>6, <1>7, RequestFollows

\* A request fails
LEMMA LostFollows ==
    ASSUME ClientInv, Follows, NEW r \in Slots, Lost(r)
    PROVE  Follows'
<1> DEFINE p == tasks[r]
<1>1. /\ p.op \in {"login", "profile", "groups", "logout"}
      /\ tasks' = [tasks EXCEPT ![r].stage = "answered", ![r].answer = Nobody,
                                ![r].token = IF tasks[r].op = "login" THEN 0 ELSE @]
      /\ UNCHANGED <<focus, version, sessions, store, saved, apis, cur, effects, reordered, halfway, missed>>
  BY DEF Lost
<1>2. p \in ATask(Len(sessions), Len(apis)) /\ DOMAIN tasks = Slots /\ sessions \in Seq(Sess)
  BY <1>1, Parts DEF TasksOK
<1>3. /\ tasks'[r].op = p.op /\ tasks'[r].api = p.api /\ tasks'[r].n = p.n /\ tasks'[r].cred = p.cred /\ tasks'[r].answer = Nobody
      /\ \A s \in Slots : s # r => tasks'[s] = tasks[s]
  BY <1>1, <1>2 DEF ATask
<1>4. Grows(sessions, sessions')
  BY <1>1, <1>2, SameSessions
<1> QED
  BY <1>1, <1>3, <1>4, RequestFollows

\* A logout is asked for
LEMMA LogoutRequestFollows ==
    ASSUME ClientInv, Follows, LogoutRequest
    PROVE  Follows'
<1> DEFINE new == Task("logout", cur, apis[cur].client, 0, Nobody)
<1>1. /\ Free # {} /\ tasks' = Start(tasks, new)
      /\ UNCHANGED <<focus, version, sessions, store, saved, apis, cur, effects, reordered, halfway, missed>>
  BY DEF LogoutRequest
<1>2. new.op = "logout"
  BY DEF Task
<1> HIDE DEF new
<1>3. \E r \in Slots : tasks[r] = NoTask
  BY <1>1 DEF Free
<1>4. PICK r \in Slots : tasks[r] = NoTask /\ tasks' = [tasks EXCEPT ![r] = new]
  BY <1>1, <1>3, StartPlaces
<1>5. DOMAIN tasks = Slots /\ sessions \in Seq(Sess)
  BY Parts DEF TasksOK
<1>6. tasks[r].op = "none" /\ tasks'[r].op = "logout" /\ \A s \in Slots : s # r => tasks'[s] = tasks[s]
  BY <1>2, <1>4, <1>5 DEF NoTask
<1>7. Grows(sessions, sessions')
  BY <1>1, <1>5, SameSessions
<1> QED
  BY <1>1, <1>6, <1>7, RequestFollows

\* A session ends elsewhere, or a cache is emptied
LEMMA OtherFollows ==
    ASSUME ClientInv, Follows, SessionDeleted \/ PreferencesClearCache \/ UNCHANGED clientVars
    PROVE  Follows'
<1>1. UNCHANGED <<focus, version, store, apis, cur, tasks, effects, reordered, halfway, missed>>
  BY DEF SessionDeleted, PreferencesClearCache, clientVars
<1>2. sessions' = sessions \/ \E t : sessions' = logout_user(t)
  BY DEF SessionDeleted, PreferencesClearCache, clientVars
<1>3. Grows(sessions, sessions')
  BY <1>2, SameSessions, LogoutGrows, Parts
<1> QED
  BY <1>1, <1>3, RequestFollows

\* The forms are there only while nobody is logged in
LEMMA FormsFollow ==
    ASSUME ClientInv, Follows, RegisterScreen \/ \E u \in Users : LoginPage(u) \/ LoginScreen(u)
    PROVE  Follows'
<1>1. ~Logged' /\ focus' = focus /\ effects' = effects
  BY DEF RegisterScreen, LoginPage, LoginScreen, LoginForm, Logged
<1>2. focus = "web" => apis' = apis /\ cur' = cur
  BY DEF RegisterScreen, LoginPage, LoginScreen
<1>3. \/ tasks' = tasks
      \/ \E a, c, u : Cardinality(Free) > 1 /\ tasks' = Start(tasks, Task("login", a, c, 0, u))
  BY DEF RegisterScreen, LoginPage, LoginScreen, LoginForm
<1>4. ASSUME NEW s \in Slots, IsEffect(s)' PROVE IsEffect(s) /\ tasks'[s].n = tasks[s].n
  <2>1. DOMAIN tasks = Slots
    BY Parts DEF TasksOK
  <2>2. CASE tasks' = tasks
    BY <1>4, <2>2 DEF IsEffect
  <2>3. ASSUME NEW a, NEW c, NEW u, tasks' = Start(tasks, Task("login", a, c, 0, u))
        PROVE  tasks'[s] = tasks[s]
    <3> DEFINE new == Task("login", a, c, 0, u)
    <3>1. new.op = "login"
      BY DEF Task
    <3> HIDE DEF new
    <3>2. tasks'[s] = new \/ tasks'[s] = tasks[s]
      BY <2>1, <2>3 DEF Start, new
    <3> QED
      BY <1>4, <3>1, <3>2 DEF IsEffect
  <2> QED
    BY <1>3, <1>4, <2>2, <2>3 DEF IsEffect
<1>5. EffectsOK'
  BY <1>1, <1>2, <1>4, NoNewEffect DEF Follows
<1> QED
  BY <1>1, <1>5, NotLogged

\* api.init of a login: the api object is not one that speaks for the store, or
\* the application is not settled
LEMMA LoginAnsweredFollows ==
    ASSUME ClientInv, Follows, NEW r \in Slots, LoginAnswered(r)
    PROVE  Follows'
<1> DEFINE p == tasks[r]
           q == tasks'[r]
<1>1. /\ p.op = "login"
      /\ UNCHANGED <<focus, version, sessions, store, saved, cur, effects, visits, reordered, halfway, missed>>
  BY DEF LoginAnswered
<1>2. p \in ATask(Len(sessions), Len(apis)) /\ DOMAIN tasks = Slots /\ apis \in Seq(Api(Len(sessions))) /\ Len(apis) \in Nat
  BY <1>1, Parts DEF TasksOK, ApisOK
<1>3. p.api \in 1..Len(apis) /\ DOMAIN apis = 1..Len(apis)
  BY <1>2, LenProperties DEF ATask
<1>4. /\ (q.op = "none" /\ apis' = apis) \/ (q.op = "profile" /\ apis' = [apis EXCEPT ![p.api] = InitApi(@, p.token)])
      /\ \A s \in Slots : s # r => tasks'[s] = tasks[s]
  <2>1. CASE p.token = 0
    BY <1>2, <2>1 DEF LoginAnswered, End, NoTask
  <2>2. CASE p.token # 0
    <3> DEFINE as == [apis EXCEPT ![p.api] = InitApi(@, p.token)]
               new == [Task("profile", p.api, as[p.api].client, 0, Nobody) EXCEPT !.token = p.token]
    <3>1. apis' = as /\ tasks' = [tasks EXCEPT ![r] = new]
      BY <2>2 DEF LoginAnswered
    <3>2. new.op = "profile"
      BY DEF Task
    <3> HIDE DEF new
    <3> QED
      BY <1>2, <3>1, <3>2
  <2> QED
    BY <2>1, <2>2
<1>5. Len(apis') = Len(apis) /\ \A a \in 1..Len(apis) : a # p.api => apis'[a] = apis[a]
  BY <1>2, <1>3, <1>4
<1>6. \A s \in Slots : (IsEffect(s)' <=> IsEffect(s)) /\ (IsEffect(s) => tasks'[s] = tasks[s])
  BY <1>1, <1>4 DEF IsEffect
<1>7. EffectsOK'
  BY <1>1, <1>5, <1>6, NoNewEffect DEF Follows, Logged
<1>8. ASSUME Logged', Settled' PROVE Settled /\ \A a : Speaks(a) => Speaks(a)'
  <2>1. Settled
    BY <1>1, <1>4, <1>8 DEF Settled
  <2>2. CASE focus = "web"
    <3>1. apis' = apis
      BY <1>1, <1>4, <1>8, <2>2 DEF Settled
    <3> QED
      BY <1>1, <2>1, <2>2, <3>1 DEF Speaks
  <2>3. CASE focus # "web"
    <3> SUFFICES ASSUME NEW a, Speaks(a) PROVE Speaks(a)'
      BY <2>1
    <3>1. focus = "mobile"
      BY <1>1, <1>8, <2>3 DEF Follows, EffectsOK, ClientInv, Logged
    <3>2. a # p.api
      BY <1>1, <3>1 DEF Speaks
    <3>3. apis'[a] = apis[a] /\ a \in 1..Len(apis')
      BY <1>5, <3>2 DEF Speaks
    <3>4. \A s \in Slots : tasks'[s].op = "login" => tasks'[s].api # a
      BY <1>1, <1>4, <3>1 DEF Speaks
    <3> QED
      BY <1>1, <3>3, <3>4 DEF Speaks
  <2> QED
    BY <2>1, <2>2, <2>3
<1> QED
  BY <1>1, <1>6, <1>7, <1>8, StillFollows DEF Follows, Own

\* What Tasks that are left over from before have
LEMMA OldTasks ==
    ASSUME ClientInv, NEW r \in Slots, tasks[r].op # "none"
    PROVE  tasks[r].api \in 1..Len(apis) /\ tasks[r].n \in Nat
<1>1. tasks[r] \in ATask(Len(sessions), Len(apis))
  BY Parts
<1> QED
  BY <1>1 DEF ATask

\* The effect on a new token begins, with an api object that has the token
LEMMA EffectBegins ==
    ASSUME ClientInv, EffectsOK, NEW r \in Slots, NEW as, ApisOK(as, Len(sessions)), Len(as) = Len(apis),
           NEW t \in 0..Len(sessions), TokenChanged(End(r), as, t), UNCHANGED <<focus, version, cur>>
    PROVE  EffectsOK' /\ (t # 0 /\ store'.token = t => UnderWay')
<1> DEFINE ts == End(r)
<1>1. DOMAIN tasks = Slots /\ Len(apis) \in Nat /\ as \in Seq(Api(Len(sessions))) /\ effects \in Nat
  BY Parts DEF TasksOK, ApisOK, ClientInv
<1>2. ts[r] = NoTask /\ DOMAIN ts = Slots /\ \A s \in Slots : s # r => ts[s] = tasks[s]
  BY <1>1 DEF End
<1>3. \A s \in Slots : ts[s].op # "none" => ts[s] = tasks[s]
  BY <1>2 DEF NoTask
<1>4. focus \in {"web", "mobile"} /\ TokenChanged(ts, as, t)
  BY DEF TokenChanged
<1> HIDE DEF ts
<1>5. ASSUME focus = "web", t = 0 PROVE EffectsOK' /\ (t # 0 /\ store'.token = t => UnderWay')
  <2>1. tasks' = ts /\ apis' = as /\ effects' = effects
    BY <1>4, <1>5 DEF TokenChanged, WebApp
  <2>2. \A s \in Slots : IsEffect(s)' => IsEffect(s) /\ tasks'[s].n = tasks[s].n
    BY <1>3, <2>1 DEF IsEffect
  <2> QED
    BY <1>5, <2>1, <2>2 DEF EffectsOK
<1>6. ASSUME NEW a, a \in 1..Len(apis'), effects' = effects + 1, tasks' = Start(ts, Task("version", a, 0, effects + 1, Nobody)),
             focus = "web" => Len(apis') = 1,
             focus = "mobile" => a \notin 1..Len(apis),
             t # 0 => apis'[a].token = t /\ apis'[a].client = t
      PROVE  EffectsOK' /\ (t # 0 /\ store'.token = t => UnderWay')
  <2> DEFINE new == Task("version", a, 0, effects + 1, Nobody)
  <2>1. new.op = "version" /\ new.n = effects' /\ new.api = a
    BY <1>6 DEF Task
  <2> HIDE DEF new
  <2>2. PICK f \in Slots : ts[f] = NoTask /\ tasks' = [ts EXCEPT ![f] = new]
    BY <1>2, <1>6, StartPlaces DEF new
  <2>3. tasks'[f] = new /\ \A s \in Slots : s # f /\ tasks'[s].op # "none" => tasks'[s] = tasks[s]
    BY <1>2, <1>3, <2>2
  <2>4. \A s \in Slots : s # f /\ IsEffect(s)' => IsEffect(s) /\ tasks'[s].n = tasks[s].n
    BY <2>3 DEF IsEffect
  <2>5. EffectsOK'
    <3>1. focus = "web" => cur' = 1
      BY DEF EffectsOK
    <3>2. tasks'[f].n = effects' /\ focus # "links"
      BY <2>1, <2>3, <1>4
    <3> QED
      BY <1>6, <2>4, <3>1, <3>2, NewEffect
  <2>6. ASSUME t # 0, store'.token = t PROVE UnderWay'
    <3>1. \A s \in Slots : focus = "mobile" /\ tasks'[s].op = "login" => tasks'[s].api # a
      <4> SUFFICES ASSUME NEW s \in Slots, focus = "mobile", tasks'[s].op = "login" PROVE tasks'[s].api # a
        OBVIOUS
      <4>1. tasks'[s] = tasks[s]
        BY <2>1, <2>3
      <4>2. tasks[s].api \in 1..Len(apis)
        BY <4>1, OldTasks
      <4> QED
        BY <1>6, <4>1, <4>2
    <3>2. Speaks(a)'
      BY <1>6, <2>6, <3>1 DEF Speaks
    <3>3. tasks'[f].api = a /\ tasks'[f].op = "version" /\ tasks'[f].n = effects'
      BY <2>1, <2>3
    <3>4. Latest(f)' /\ Speaks(tasks[f].api)'
      BY <3>2, <3>3 DEF Latest, IsEffect
    <3> QED
      BY <3>3, <3>4 DEF UnderWay
  <2> QED
    BY <2>5, <2>6
<1>7. CASE focus = "web" /\ t # 0
  <2>1. PICK a \in 1..1 : a = 1
    OBVIOUS
  <2> DEFINE e == InitApi(as[a], t)
  <2>2. /\ apis' = [as EXCEPT ![a] = e] /\ effects' = effects + 1
        /\ tasks' = Start(ts, Task("version", a, 0, effects + 1, Nobody))
    BY <1>4, <1>7, <2>1 DEF TokenChanged, WebApp
  <2>3. Len(as) = 1 /\ a \in 1..Len(as) /\ a \in DOMAIN as /\ as[a] \in Api(Len(sessions))
    <3>1. Len(as) = 1 /\ a \in 1..Len(as)
      BY <1>7, <2>1 DEF EffectsOK
    <3>2. DOMAIN as = 1..Len(as) /\ as[a] \in Api(Len(sessions))
      BY <1>1, <3>1, LenProperties, ElementOfSeq
    <3> QED
      BY <3>1, <3>2
  <2>4. e.token = t /\ e.client = t /\ e \in Api(Len(sessions))
    <3>1. Len(sessions) \in Nat
      BY Parts
    <3> QED
      BY <1>7, <2>3, <3>1 DEF InitApi, setAccessToken, Api
  <2> HIDE DEF e
  <2>5. Len(apis') = 1 /\ apis'[a] = e
    <3>1. Len([as EXCEPT ![a] = e]) = Len(as)
      BY <1>1, <2>3, <2>4, PutInSeq
    <3> QED
      BY <2>2, <2>3, <3>1
  <2>6. a \in 1..Len(apis')
    BY <2>5
  <2> QED
    BY <1>6, <1>7, <2>2, <2>4, <2>5, <2>6
<1>8. CASE focus = "mobile"
  <2> DEFINE new == InitApi(NewApi(0), t)
  <2>1. PICK a \in Nat : a = Len(as) + 1
    BY <1>1
  <2>2. /\ apis' = Append(as, new) /\ effects' = effects + 1
        /\ tasks' = Start(ts, Task("version", a, 0, effects + 1, Nobody))
    BY <1>4, <1>8, <2>1 DEF TokenChanged, MobileApp
  <2>3. new \in Api(Len(sessions)) /\ (t # 0 => new.token = t /\ new.client = t)
    <3>1. Len(sessions) \in Nat
      BY Parts
    <3> QED
      BY <3>1, NewApiType DEF InitApi, NewApi, setAccessToken
  <2> HIDE DEF new
  <2>4. Len(apis') = a /\ apis'[a] = new
    BY <1>1, <2>1, <2>2, <2>3, AppendProperties
  <2>5. a \in 1..Len(apis') /\ a \notin 1..Len(apis)
    BY <1>1, <2>1, <2>4
  <2> QED
    BY <1>6, <1>8, <2>2, <2>3, <2>4, <2>5
<1> QED
  BY <1>4, <1>5, <1>7, <1>8

\* login ends: its token is in the store and its effect begins, or it has
\* failed halfway
LEMMA LoginFulfilledFollows ==
    ASSUME ClientInv, Follows, NEW r \in Slots, LoginFulfilled(r)
    PROVE  Follows'
<1> DEFINE p == tasks[r]
<1>1. /\ p.op = "profile" /\ halfway' = (p.answer = Nobody)
      /\ UNCHANGED <<focus, version, sessions, cur, visits, reordered, missed>>
  BY DEF LoginFulfilled
<1>2. /\ TaskOK(p, sessions, Len(apis)) /\ p \in ATask(Len(sessions), Len(apis)) /\ DOMAIN tasks = Slots
      /\ ApisOK(apis, Len(sessions))
  BY <1>1, Parts DEF TasksOK
<1>3. p.token \in 0..Len(sessions) /\ p.token # 0
  BY <1>1, <1>2 DEF ATask, TaskOK
<1>4. CASE p.answer = Nobody
  <2>1. tasks' = End(r) /\ UNCHANGED <<store, saved, apis, effects>>
    BY <1>4 DEF LoginFulfilled
  <2>2. tasks'[r].op = "none" /\ \A s \in Slots : s # r => tasks'[s] = tasks[s]
    BY <1>2, <2>1 DEF End, NoTask
  <2>3. \A s \in Slots : (IsEffect(s)' <=> IsEffect(s)) /\ (IsEffect(s) => tasks'[s] = tasks[s])
    BY <1>1, <2>2 DEF IsEffect
  <2>4. EffectsOK'
    BY <1>1, <2>1, <2>3, NoNewEffect DEF Follows, Logged
  <2>5. \A a : Speaks(a) => Speaks(a)'
    <3>1. \A s \in Slots : (tasks[s].op = "login")' => tasks[s].op = "login" /\ tasks'[s].api = tasks[s].api
      BY <2>2
    <3> QED
      BY <1>1, <2>1, <3>1, StillSpeaks
  <2>6. Settled' => Settled
    BY <1>1, <1>4 DEF Settled
  <2> QED
    BY <1>1, <2>1, <2>3, <2>4, <2>5, <2>6, StillFollows DEF Follows, Own
<1>5. CASE p.answer # Nobody
  <2>1. store' = LoggedIn(p.token, p.answer) /\ TokenChanged(End(r), apis, p.token)
    BY <1>5 DEF LoginFulfilled
  <2>2. store'.token = p.token
    <3>1. store \in [token : 0..Len(sessions), profile : Users \cup {Nobody}, groups : Users \cup {Nobody}]
      BY Parts DEF StoreOK
    <3> QED
      BY <2>1, <3>1 DEF LoggedIn
  <2> HIDE DEF p
  <2>3. EffectsOK' /\ (p.token # 0 /\ store'.token = p.token => UnderWay')
    BY <1>1, <1>2, <1>3, <2>1, EffectBegins DEF Follows
  <2> QED
    BY <1>3, <2>2, <2>3 DEF Follows, FollowsToken
<1> QED
  BY <1>4, <1>5

\* logout ends: the store has no token any more
LEMMA LogoutFulfilledFollows ==
    ASSUME ClientInv, Follows, NEW r \in Slots, LogoutFulfilled(r)
    PROVE  Follows'
<1> DEFINE p == tasks[r]
           e == resetAuthState(apis[p.api])
           as == [apis EXCEPT ![p.api] = e]
<1>1. /\ p.op = "logout" /\ store' = LoggedOut
      /\ UNCHANGED <<focus, version, sessions, cur, visits, reordered, halfway, missed>>
      /\ TokenChanged(End(r), as, 0) \/ (tasks' = End(r) /\ apis' = as /\ UNCHANGED effects)
  BY DEF LogoutFulfilled
<1>2. /\ Len(sessions) \in Nat /\ Len(apis) \in Nat /\ ApisOK(apis, Len(sessions)) /\ DOMAIN tasks = Slots
      /\ \A i \in 1..Len(apis) : apis[i] \in Api(Len(sessions))
      /\ p \in ATask(Len(sessions), Len(apis))
  BY <1>1, Parts DEF TasksOK
<1>3. p.api \in 1..Len(apis)
  BY <1>2 DEF ATask
<1>4. e \in Api(Len(sessions))
  <2>1. apis[p.api] \in Api(Len(sessions))
    BY <1>2, <1>3
  <2> QED
    BY <2>1, <1>2 DEF Api, resetAuthState
<1>5. ~Logged'
  <2>1. store \in [token : 0..Len(sessions), profile : Users \cup {Nobody}, groups : Users \cup {Nobody}]
    BY Parts DEF StoreOK
  <2> QED
    BY <1>1, <2>1 DEF LoggedOut, Logged
<1> HIDE DEF p, e
<1>6. ApisOK(as, Len(sessions)) /\ Len(as) = Len(apis)
  BY <1>2, <1>3, <1>4, PutApi
<1> HIDE DEF as
<1>7. EffectsOK'
  <2>1. CASE TokenChanged(End(r), as, 0)
    <3>1. 0 \in 0..Len(sessions)
      BY <1>2
    <3> QED
      BY <1>1, <1>6, <2>1, <3>1, EffectBegins DEF Follows
  <2>2. CASE tasks' = End(r) /\ apis' = as /\ UNCHANGED effects
    <3>1. \A s \in Slots : IsEffect(s)' => IsEffect(s) /\ tasks'[s].n = tasks[s].n
      BY <1>2, <2>2 DEF IsEffect, End, NoTask
    <3> QED
      BY <1>1, <1>5, <1>6, <2>2, <3>1, NoNewEffect DEF Follows
  <2> QED
    BY <1>1, <2>1, <2>2
<1> QED
  BY <1>5, <1>7, NotLogged

\* The effect of the last token goes on, or gives up
LEMMA VersionCheckedFollows ==
    ASSUME ClientInv, Follows, NEW r \in Slots, VersionChecked(r)
    PROVE  Follows'
<1> DEFINE p == tasks[r]
           next == FetchGroups(p.api, p.n)
<1>1. p.op = "version" /\ UNCHANGED <<focus, version, sessions, store, saved, cur, effects, reordered, halfway>>
  BY DEF VersionChecked
<1>2. /\ p \in ATask(Len(sessions), Len(apis)) /\ DOMAIN tasks = Slots /\ StoreOK(store, sessions)
      /\ apis \in Seq(Api(Len(sessions))) /\ Len(apis) \in Nat
  BY <1>1, Parts DEF TasksOK, ApisOK
<1>3. p.api \in 1..Len(apis) /\ p.n \in Nat /\ DOMAIN apis = 1..Len(apis)
  BY <1>2, LenProperties DEF ATask
<1>4. /\ apis' = apis \/ apis' = [apis EXCEPT ![p.api].backend = "known"]
      /\ \/ tasks' = End(r) /\ ~isRequiredVersion(version) /\ (missed' <=> missed \/ p.n = effects)
         \/ tasks' = [tasks EXCEPT ![r] = next] /\ (missed' <=> missed)
  <2> DEFINE known == p.stage = "answered" \/ apis[p.api].backend = "known"
  <2>1. /\ apis' = IF known THEN [apis EXCEPT ![p.api].backend = "known"] ELSE apis
        /\ tasks' = IF known /\ ~isRequiredVersion(version) THEN End(r) ELSE [tasks EXCEPT ![r] = next]
        /\ missed' <=> (missed \/ (p.n = effects /\ known /\ ~isRequiredVersion(version)))
    BY DEF VersionChecked
  <2> HIDE DEF known, next
  <2> QED
    BY <2>1
<1>5. Len(apis') = Len(apis) /\ \A a \in 1..Len(apis) : apis'[a].token = apis[a].token /\ apis'[a].client = apis[a].client
  <2> DEFINE e == [apis[p.api] EXCEPT !.backend = "known"]
  <2>1. apis[p.api] \in Api(Len(sessions))
    BY <1>2, <1>3, ElementOfSeq
  <2>2. e \in Api(Len(sessions)) /\ e.token = apis[p.api].token /\ e.client = apis[p.api].client
    BY <2>1 DEF Api
  <2>3. apis' = apis \/ apis' = [apis EXCEPT ![p.api] = e]
    BY <1>4
  <2> HIDE DEF e, p
  <2>4. Len([apis EXCEPT ![p.api] = e]) = Len(apis)
    BY <1>2, <1>3, <2>2, PutInSeq
  <2>5. Len(apis') = Len(apis)
    BY <2>3, <2>4
  <2> QED
    BY <1>3, <2>2, <2>3, <2>5
<1>6. next.op = "groups" /\ next.n = p.n /\ next.api = p.api /\ next.cred = apis[p.api].client /\ next.answer = Nobody
  BY DEF FetchGroups, Task
<1> HIDE DEF next
<1>7. /\ tasks'[r].op = "none" \/ tasks'[r] = next
      /\ \A s \in Slots : s # r => tasks'[s] = tasks[s]
  BY <1>2, <1>4 DEF End, NoTask
<1>8. EffectsOK'
  <2>1. \A s \in Slots : IsEffect(s)' => IsEffect(s) /\ tasks'[s].n = tasks[s].n
    BY <1>1, <1>6, <1>7 DEF IsEffect
  <2> QED
    BY <1>1, <1>5, <2>1, NoNewEffect DEF Follows, Logged
<1>9. \A a : Speaks(a) => Speaks(a)'
  <2> SUFFICES ASSUME NEW a, Speaks(a) PROVE Speaks(a)'
    OBVIOUS
  <2>1. \A s \in Slots : tasks'[s].op = "login" => tasks[s].op = "login" /\ tasks'[s].api = tasks[s].api
    BY <1>6, <1>7
  <2> QED
    BY <1>1, <1>5, <2>1 DEF Speaks
<1>10. SUFFICES ASSUME Logged', ~reordered', Settled' PROVE UnderWay' \/ Over' \/ GivenUp'
  BY <1>8 DEF Follows, FollowsToken
<1>11. Settled
  BY <1>1, <1>6, <1>7, <1>10 DEF Settled
<1>12. UnderWay \/ GivenUp
  BY <1>1, <1>10, <1>11 DEF Follows, FollowsToken, Logged, Over, IsEffect
<1>13. CASE p.n # effects
  <2>1. CASE UnderWay
    <3>1. PICK s \in Slots : Latest(s) /\ Speaks(tasks[s].api) /\ (tasks[s].op = "groups" => Own(s))
      BY <2>1 DEF UnderWay
    <3>2. tasks'[s] = tasks[s]
      BY <1>7, <1>13, <3>1 DEF Latest
    <3>3. Latest(s)' /\ Speaks(tasks[s].api)' /\ (tasks[s].op = "groups" => Own(s))'
      BY <1>1, <1>9, <3>1, <3>2 DEF Latest, IsEffect, Own
    <3> QED
      BY <3>3 DEF UnderWay
  <2>2. CASE GivenUp
    <3>1. \A s \in Slots : Latest(s)' => Latest(s)
      BY <1>1, <1>6, <1>7, <1>13 DEF Latest, IsEffect
    <3>2. missed'
      BY <1>4, <2>2 DEF GivenUp
    <3>3. focus' = "web" => Speaks(cur)'
      BY <1>1, <1>9, <2>2 DEF GivenUp
    <3> QED
      BY <1>1, <2>2, <3>1, <3>2, <3>3 DEF GivenUp
  <2> QED
    BY <1>12, <2>1, <2>2
<1>14. CASE p.n = effects
  <2>1. Latest(r)
    BY <1>1, <1>14 DEF Latest, IsEffect
  <2>2. Speaks(p.api)
    <3>1. UnderWay
      BY <1>12, <2>1 DEF GivenUp
    <3> QED
      BY <2>1, <3>1 DEF UnderWay, Latest, Follows, EffectsOK
  <2>3. CASE tasks'[r].op = "none"
    <3>1. \A s \in Slots : ~Latest(s)'
      <4> SUFFICES ASSUME NEW s \in Slots, Latest(s)' PROVE FALSE
        OBVIOUS
      <4>1. s # r /\ Latest(s)
        BY <1>1, <1>7, <2>3 DEF Latest, IsEffect
      <4> QED
        BY <2>1, <4>1 DEF Latest, Follows, EffectsOK
    <3>2. missed' /\ ~isRequiredVersion(version)
      BY <1>2, <1>4, <1>6, <1>14, <2>3
    <3>3. focus' = "web" => Speaks(cur)'
      <4>1. focus = "web" => p.api = cur
        BY <1>3 DEF Follows, EffectsOK
      <4> QED
        BY <1>1, <1>9, <2>2, <4>1
    <3> QED
      BY <1>1, <3>1, <3>2, <3>3 DEF GivenUp
  <2>4. CASE tasks'[r] = next
    <3>1. Latest(r)'
      BY <1>1, <1>6, <1>14, <2>4 DEF Latest, IsEffect
    <3>2. Speaks(tasks[r].api)'
      <4>1. tasks'[r].api = p.api
        BY <1>6, <2>4
      <4> QED
        BY <1>9, <2>2, <4>1
    <3>3. Own(r)'
      <4>1. next.cred = store.token /\ store.token # 0
        BY <1>1, <1>6, <1>10, <2>2 DEF Speaks, Logged
      <4>2. store.profile = sessions[store.token].user
        BY <1>2, <4>1 DEF StoreOK
      <4> QED
        BY <1>1, <1>6, <2>4, <4>1, <4>2 DEF Own
    <3> QED
      BY <3>1, <3>2, <3>3 DEF UnderWay
  <2> QED
    BY <1>7, <2>3, <2>4
<1> QED
  BY <1>13, <1>14

\* The groups of the effect of the last token come last, or the effects have
\* been reordered
LEMMA GroupsFetchedFollows ==
    ASSUME ClientInv, Follows, NEW r \in Slots, GroupsFetched(r)
    PROVE  Follows'
<1> DEFINE p == tasks[r]
<1>1. /\ p.op = "groups" /\ tasks' = End(r)
      /\ UNCHANGED <<focus, version, sessions, apis, effects, visits, halfway>>
      /\ cur' = IF focus = "mobile" THEN p.api ELSE cur
      /\ reordered' <=> (reordered \/ \E s \in Slots : s # r /\ IsEffect(s) /\ tasks[s].n < p.n)
  BY DEF GroupsFetched, IsEffect
<1>2. /\ p \in ATask(Len(sessions), Len(apis)) /\ DOMAIN tasks = Slots
      /\ store \in [token : 0..Len(sessions), profile : Users \cup {Nobody}, groups : Users \cup {Nobody}]
  BY <1>1, Parts DEF TasksOK, StoreOK
<1>3. p.api \in 1..Len(apis) /\ p.n \in Nat
  BY <1>2 DEF ATask
<1>4. /\ store'.token = store.token /\ store'.profile = store.profile
      /\ p.answer # Nobody => store'.groups = p.answer
  BY <1>2 DEF GroupsFetched
<1>5. tasks'[r].op = "none" /\ \A s \in Slots : s # r => tasks'[s] = tasks[s]
  BY <1>1, <1>2 DEF End, NoTask
<1>6. EffectsOK'
  <2>1. \A s \in Slots : IsEffect(s)' => IsEffect(s) /\ tasks'[s].n = tasks[s].n
    BY <1>5 DEF IsEffect
  <2>2. focus = "web" => Len(apis') = Len(apis) /\ cur' = cur
    BY <1>1
  <2>3. Logged' => Logged
    BY <1>4 DEF Logged
  <2> QED
    BY <1>1, <2>1, <2>2, <2>3, NoNewEffect DEF Follows
<1>7. \A a : Speaks(a) => Speaks(a)'
  <2> SUFFICES ASSUME NEW a, Speaks(a) PROVE Speaks(a)'
    OBVIOUS
  <2>1. \A s \in Slots : tasks'[s].op = "login" => tasks[s].op = "login" /\ tasks'[s].api = tasks[s].api
    BY <1>5
  <2> QED
    BY <1>1, <1>4, <2>1 DEF Speaks
<1>8. SUFFICES ASSUME Logged', ~reordered', Settled' PROVE UnderWay' \/ Over' \/ GivenUp'
  BY <1>6 DEF Follows, FollowsToken
<1>9. UnderWay \/ GivenUp
  <2>1. Settled
    BY <1>1, <1>5, <1>8 DEF Settled
  <2>2. Logged /\ ~reordered /\ ~Over
    BY <1>1, <1>4, <1>8 DEF Logged, Over, IsEffect
  <2> QED
    BY <2>1, <2>2 DEF Follows, FollowsToken
<1>10. CASE p.n # effects
  <2>1. missed' = missed
    BY <1>10 DEF GroupsFetched
  <2>2. CASE UnderWay
    <3>1. PICK s \in Slots : Latest(s) /\ Speaks(tasks[s].api) /\ (tasks[s].op = "groups" => Own(s))
      BY <2>2 DEF UnderWay
    <3>2. tasks'[s] = tasks[s]
      BY <1>5, <1>10, <3>1 DEF Latest
    <3>3. Latest(s)' /\ Speaks(tasks[s].api)' /\ (tasks[s].op = "groups" => Own(s))'
      BY <1>1, <1>4, <1>7, <3>1, <3>2 DEF Latest, IsEffect, Own
    <3> QED
      BY <3>3 DEF UnderWay
  <2>3. CASE GivenUp
    <3>1. \A s \in Slots : Latest(s)' => Latest(s)
      BY <1>1, <1>5 DEF Latest, IsEffect
    <3>2. focus' = "web" => Speaks(cur)'
      <4>1. focus = "web" => cur' = cur /\ Speaks(cur)
        BY <1>1, <2>3 DEF GivenUp
      <4> QED
        BY <1>1, <1>7, <4>1
    <3> QED
      BY <1>1, <2>1, <2>3, <3>1, <3>2 DEF GivenUp
  <2> QED
    BY <1>9, <2>2, <2>3
<1>11. CASE p.n = effects
  <2>1. Latest(r)
    BY <1>1, <1>11 DEF Latest, IsEffect
  <2>2. Speaks(p.api) /\ Own(r)
    <3>1. UnderWay
      BY <1>9, <2>1 DEF GivenUp
    <3> QED
      BY <1>1, <2>1, <3>1 DEF UnderWay, Latest, Follows, EffectsOK
  <2>3. \A s \in Slots : ~IsEffect(s)'
    <3> SUFFICES ASSUME NEW s \in Slots, IsEffect(s)' PROVE FALSE
      OBVIOUS
    <3>1. s # r /\ IsEffect(s)
      BY <1>5 DEF IsEffect
    <3>2. tasks[s].n \in Nat /\ tasks[s].n <= effects /\ tasks[s].n # p.n
      <4>1. tasks[s].n \in Nat
        BY <3>1, OldTasks DEF IsEffect
      <4> QED
        BY <2>1, <3>1, <4>1 DEF Latest, Follows, EffectsOK
    <3>3. tasks[s].n < p.n
      BY <1>3, <1>11, <3>2
    <3> QED
      BY <1>1, <1>8, <3>1, <3>3
  <2>4. missed' \/ store'.groups = store'.profile
    <3>1. p.answer = Nobody \/ p.answer = store.profile
      BY <2>2 DEF Own
    <3>2. p.answer = Nobody => missed'
      BY <1>11 DEF GroupsFetched
    <3> QED
      BY <1>4, <3>1, <3>2
  <2>5. Speaks(cur)'
    <3>1. focus \in {"web", "mobile"}
      BY <1>4, <1>8 DEF Follows, EffectsOK, ClientInv, Logged
    <3>2. focus = "web" => cur = 1 /\ p.api = 1
      BY <1>3 DEF Follows, EffectsOK
    <3>3. cur' = p.api
      BY <1>1, <3>1, <3>2
    <3> QED
      BY <1>7, <2>2, <3>3
  <2> QED
    BY <2>3, <2>4, <2>5 DEF Over
<1> QED
  BY <1>10, <1>11

\* The application restarts: with a token its effect begins
LEMMA RestartFollows ==
    ASSUME ClientInv, Follows, NEW from \in SUBSET {"auth", "groups"}, RestartFrom(from)
    PROVE  Follows'
<1> DEFINE t == Restored(from).token
           none == [r \in Slots |-> NoTask]
<1>1. /\ store' = Restored(from)
      /\ cur' = (IF focus = "web" THEN 1 ELSE 0)
      /\ UNCHANGED <<focus, version, sessions, reordered, missed>>
      /\ \/ /\ t = 0 /\ apis' = (IF focus = "web" THEN <<NewApi(0)>> ELSE <<>>)
            /\ tasks' = none /\ UNCHANGED effects
         \/ /\ t # 0 /\ apis' = <<InitApi(NewApi(0), t)>> /\ effects' = effects + 1
            /\ tasks' = Start(none, Task("version", 1, 0, effects + 1, Nobody))
  BY DEF RestartFrom
<1>2. t # 0 => Slots # {} /\ focus # "links"
  BY DEF Restored, Follows, EffectsOK, Logged
<1>3. store'.token = t
  BY <1>1
<1> HIDE DEF t
<1>4. CASE t = 0
  <2>1. ~Logged'
    BY <1>3, <1>4 DEF Logged
  <2>2. \A s \in Slots : ~IsEffect(s)'
    BY <1>1, <1>4 DEF IsEffect, NoTask
  <2>3. focus = "web" => Len(apis') = 1 /\ cur' = 1
    BY <1>1, <1>4
  <2>4. EffectsOK'
    BY <1>1, <2>1, <2>2, <2>3 DEF EffectsOK
  <2> QED
    BY <2>1, <2>4, NotLogged
<1>5. CASE t # 0
  <2> DEFINE new == Task("version", 1, 0, effects + 1, Nobody)
             e == InitApi(NewApi(0), t)
  <2>1. new.op = "version" /\ new.n = effects + 1 /\ new.api = 1 /\ e.token = t /\ e.client = t
    BY <1>5 DEF Task, InitApi, setAccessToken, NewApi
  <2>2. apis' = <<e>> /\ effects' = effects + 1 /\ tasks' = Start(none, new)
    BY <1>1, <1>5
  <2> HIDE DEF new, e
  <2>3. PICK f \in Slots : tasks' = [none EXCEPT ![f] = new]
    <3>1. \E s \in Slots : none[s] = NoTask
      BY <1>2, <1>5
    <3> HIDE DEF none
    <3> QED
      BY <2>2, <3>1, StartPlaces
  <2>4. tasks'[f] = new /\ \A s \in Slots : s # f => tasks'[s].op = "none"
    BY <2>3 DEF NoTask
  <2>5. Len(apis') = 1 /\ apis'[1] = e
    BY <2>2
  <2>6. EffectsOK'
    <3>1. \A s \in Slots : s # f => ~IsEffect(s)'
      BY <2>4 DEF IsEffect
    <3>2. focus = "web" => cur' = 1
      BY <1>1
    <3> QED
      BY <1>1, <1>2, <1>5, <2>1, <2>2, <2>4, <2>5, <3>1, <3>2, NewEffect DEF Follows
  <2>7. UnderWay'
    <3>1. Latest(f)' /\ tasks'[f].op = "version"
      BY <2>1, <2>2, <2>4 DEF Latest, IsEffect
    <3>2. \A s \in Slots : tasks'[s].op # "login"
      BY <2>1, <2>4
    <3>3. PICK a \in 1..1 : a = 1
      OBVIOUS
    <3>4. Speaks(a)'
      BY <1>3, <2>1, <2>5, <3>2, <3>3 DEF Speaks
    <3>5. tasks'[f].api = a
      BY <2>1, <2>4, <3>3
    <3>6. Speaks(tasks[f].api)'
      BY <3>4, <3>5
    <3> QED
      BY <3>1, <3>6 DEF UnderWay
  <2> QED
    BY <2>6, <2>7 DEF Follows, FollowsToken
<1> QED
  BY <1>4, <1>5

\* Every step of the client and of the sessions keeps the second invariant
LEMMA ClientNextFollows ==
    ASSUME ClientInv, Follows, ClientNext
    PROVE  Follows'
<1>1. CASE Restart \/ SettingsClearCache
  <2>1. saved \in SUBSET {"auth", "groups"} /\ {} \in SUBSET {"auth", "groups"}
    BY DEF ClientInv
  <2> QED
    BY <2>1, <1>1, RestartFollows DEF Restart, SettingsClearCache
<1>2. CASE PreferencesClearCache \/ SessionDeleted
  BY <1>2, OtherFollows
<1>3. CASE \E r \in Slots : \/ Execute(r) \/ Lost(r)
                            \/ LoginAnswered(r) \/ LoginFulfilled(r) \/ LogoutFulfilled(r)
                            \/ VersionChecked(r) \/ GroupsFetched(r)
  BY <1>3, ExecuteFollows, LostFollows, LoginAnsweredFollows, LoginFulfilledFollows, LogoutFulfilledFollows,
     VersionCheckedFollows, GroupsFetchedFollows
<1>4. CASE RegisterScreen \/ \E u \in Users : LoginPage(u) \/ LoginScreen(u)
  BY <1>4, FormsFollow
<1>5. CASE Logout \/ PreferencesLogout
  BY <1>5, LogoutRequestFollows DEF Logout, PreferencesLogout
<1> QED
  BY <1>1, <1>2, <1>3, <1>4, <1>5 DEF ClientNext

\* The second invariant holds in every behaviour
LEMMA Following == Spec => [](ClientInv /\ Follows)
<1>1. Init => Follows
  <2> SUFFICES ASSUME Init PROVE Follows
    OBVIOUS
  <2>1. ~Logged /\ (focus = "web" => Len(apis) = 1 /\ cur = 1) /\ \A s \in Slots : ~IsEffect(s)
    BY DEF Init, ClientInit, Fresh, Logged, IsEffect, NoTask
  <2> QED
    BY <2>1 DEF Follows, EffectsOK, FollowsToken
<1>2. ClientInv /\ Follows /\ [Next]_vars => Follows'
  <2> SUFFICES ASSUME ClientInv, Follows, [Next]_vars PROVE Follows'
    OBVIOUS
  <2>1. CASE ClientNext
    BY <2>1, ClientNextFollows
  <2>2. CASE UNCHANGED clientVars
    BY <2>2, OtherFollows
  <2> QED
    BY <2>1, <2>2 DEF Next, vars
<1>3. IInv => ClientInv
  BY DEF IInv
<1> QED
  BY <1>1, <1>2, <1>3, Invariance, PTL DEF Spec

\* When nothing is under way, the api object the pages use has the token of the
\* store, after whatever logins, logouts and restarts that overlap, unless the
\* property names why not (api.init, App, setApi).
THEOREM SpeaksForStore == Spec => []ApiSpeaksForStore
<1>1. ClientInv /\ Follows => ApiSpeaksForStore
  BY FollowingIsEnough DEF Follows
<1> QED
  BY <1>1, Following, PTL

\* When nothing is under way, the groups in the store are those of the user who is
\* logged in, unless the last effect could not fetch them (fetchGroups, App).
THEOREM OwnGroupsShown == Spec => []ShowsOwnGroups
<1>1. ClientInv /\ Follows => ShowsOwnGroups
  BY FollowingIsEnough DEF Follows
<1> QED
  BY <1>1, Following, PTL
=============================================================================
