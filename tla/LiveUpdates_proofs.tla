--------------------------- MODULE LiveUpdates_proofs ---------------------------
(***************************************************************************)
(* Proofs about LiveUpdates, for any pages, number of requests and bound:  *)
(* types, the tables of the notification manager, what leavers hear, that  *)
(* it implements LaggingView, and the subscriptions of open pages.         *)
(***************************************************************************)
EXTENDS LiveUpdates, SequenceTheorems, TLAPS

-----------------------------------------------------------------------------
(* The inductive invariant, by the actors that keep its parts. *)

Notification == [topic : Topics, conns : SUBSET (1..lastConn)]

DatabaseOK ==
    /\ version \in [Topics -> Nat] /\ leftAt \in Nat
    /\ rows \subseteq 1..lastConn /\ subs \subseteq rows \X Topics
    /\ channel \in Seq(Notification)

\* While the server is down nobody is served; the rows wait for forwarder_boot.
ServerOK ==
    /\ up \in BOOLEAN
    /\ handler \in [DOMAIN handler -> {"accepted", "serving", "closing"}]
    /\ DOMAIN handler \subseteq 1..lastConn
    /\ up => rows = {c \in DOMAIN handler : handler[c] # "accepted"}
    /\ ~up => DOMAIN handler = {}

WireOK ==
    /\ socket \in 0..lastConn /\ lastConn \in Nat
    /\ outbox \in Seq(Message) /\ msgQueue \in Seq(Message) /\ inbox \in Seq(Topics)

PagesOK ==
    /\ mounted \subseteq Topics /\ believed \subseteq Topics
    /\ shown \in [Topics -> Nat \cup {-1}]
    /\ focus \in Focuses /\ refetch \in BOOLEAN /\ listed \in BOOLEAN /\ info \in BOOLEAN
    /\ owed \subseteq Topics

\* A read answers with a version from between its question and now.
ReadOK(q, v) ==
    q.op = "read" =>
        /\ q.since <= v[q.topic]
        /\ q.stage = "answered" => q.since <= q.val /\ q.val <= v[q.topic]

RequestsOK ==
    /\ requests \in [Slots -> Request \cup {Idle}]
    /\ \A r \in Slots : requests[r] # Idle => ReadOK(requests[r], version)

EventsOK == events \in 0..MaxEvents

IInv == DatabaseOK /\ ServerOK /\ WireOK /\ PagesOK /\ RequestsOK /\ EventsOK

\* The invariant is stronger than the two that the run checks
LEMMA InvariantsFollow == IInv => TypeOK /\ RowsAreServed
  BY DEF IInv, DatabaseOK, ServerOK, WireOK, PagesOK, RequestsOK, EventsOK, TypeOK, RowsAreServed, Notification

\* What a step does to an observer of the pages, and of a leaver's connection
ViewStep == [View!Next]_(View!viewVars)

LeaverStep ==
    \A i \in 1..Len(channel') : channel'[i].topic \in GroupTopics /\ i > Len(channel) => leftAt = 0

Good == IInv' /\ ViewStep /\ LeaverStep

-----------------------------------------------------------------------------
(* What a step leaves alone stays as it is. *)

\* The tables, when they and the number of connections are left alone
LEMMA DatabaseKeeps ==
    ASSUME IInv, UNCHANGED <<database, lastConn>>
    PROVE  DatabaseOK' /\ LeaverStep
<1>1. DatabaseOK'
  BY DEF IInv, DatabaseOK, database, Notification
<1>2. channel' = channel /\ Len(channel) \in Nat
  BY DEF IInv, DatabaseOK, database
<1> QED
  BY <1>1, <1>2 DEF LeaverStep

\* The server, when it and its tables are left alone
LEMMA ServerKeeps ==
    ASSUME IInv, UNCHANGED <<server, rows, lastConn>>
    PROVE  ServerOK'
  BY DEF IInv, ServerOK, server

\* The socket and its messages
LEMMA WireKeeps ==
    ASSUME IInv, UNCHANGED wire
    PROVE  WireOK'
  BY DEF IInv, WireOK, wire

\* The pages and the store
LEMMA PagesKeep ==
    ASSUME IInv, UNCHANGED <<pages, store, owed>>
    PROVE  PagesOK'
  BY DEF IInv, PagesOK, pages, store

\* The requests, when no version changes; an observer sees nothing
LEMMA RequestsKeep ==
    ASSUME IInv, UNCHANGED <<version, requests>>
    PROVE  RequestsOK'
  BY DEF IInv, RequestsOK, ReadOK

\* An observer sees nothing when neither versions, requests nor pages change
LEMMA ViewKeeps ==
    ASSUME UNCHANGED <<version, requests, shown>>
    PROVE  ViewStep
  BY DEF ViewStep, View!viewVars

\* A bounded event
LEMMA Counted ==
    ASSUME IInv, Count
    PROVE  EventsOK'
<1>1. MaxEvents \in Nat
  BY UpdateBounds
<1> QED
  BY <1>1 DEF IInv, EventsOK, Count

-----------------------------------------------------------------------------
(* Requests and changes. *)

Ops == {"read", "change", "rename", "join", "leave", "delete"}

\* No request is taken for a free slot
LEMMA RequestIsNotIdle ==
    ASSUME NEW q \in Request
    PROVE  q # Idle
<1>1. q.topic # "none"
  BY DEF Request, Topics, GroupTopics
<1> QED
  BY <1>1 DEF Idle

\* What an observer sees of a request
LEMMA AskedOfRequest ==
    ASSUME NEW q \in Request
    PROVE  Asked(q) = IF q.op = "read" THEN [topic |-> q.topic, since |-> q.since] ELSE Idle
  BY RequestIsNotIdle DEF Asked

\* A question of LaggingView is not taken for a free reader
LEMMA QuestionIsNotIdle ==
    ASSUME NEW q \in Request, q.op = "read"
    PROVE  /\ Asked(q) # View!NotAsking
           /\ Asked(q).topic = q.topic /\ Asked(q).since = q.since
<1>1. q.topic # "none"
  BY DEF Request, Topics, GroupTopics
<1> QED
  BY <1>1, AskedOfRequest DEF View!NotAsking

\* A request that goes out is a question of LaggingView if it reads, and nothing else
LEMMA SendStep ==
    ASSUME IInv, NEW op \in Ops, NEW t \in Topics, Send(op, t), UNCHANGED <<version, shown>>
    PROVE  RequestsOK' /\ ViewStep
<1> DEFINE free == CHOOSE r \in Slots : requests[r] = Idle
           new == [op |-> op, topic |-> t, stage |-> "sent", since |-> IF op = "read" THEN version[t] ELSE 0, val |-> 0]
<1>1. free \in Slots /\ requests[free] = Idle
  BY DEF Send
<1>2. requests' = [requests EXCEPT ![free] = new]
  BY DEF Send
<1>3. /\ version \in [Topics -> Nat]
      /\ requests \in [Slots -> Request \cup {Idle}]
      /\ \A r \in Slots : requests[r] # Idle => ReadOK(requests[r], version)
  BY DEF IInv, DatabaseOK, RequestsOK
<1>4. new \in Request
  BY <1>3 DEF Ops, Request
<1>5. ReadOK(new, version)
  BY <1>3 DEF ReadOK
<1>6. new.op = op /\ new.topic = t /\ new.since = IF op = "read" THEN version[t] ELSE 0
  OBVIOUS
<1> HIDE DEF free, new
<1>7. RequestsOK'
  <2>1. requests' \in [Slots -> Request \cup {Idle}]
    BY <1>2, <1>3, <1>4
  <2>2. ASSUME NEW r \in Slots, requests'[r] # Idle
        PROVE  ReadOK(requests'[r], version')
    <3>1. CASE r = free
      BY <3>1, <1>2, <1>3, <1>5
    <3>2. CASE r # free
      BY <2>2, <3>2, <1>2, <1>3 DEF ReadOK
    <3> QED
      BY <3>1, <3>2
  <2> QED
    BY <2>1, <2>2 DEF RequestsOK
<1>8. ViewStep
  <2>1. Asked(new) = IF op = "read" THEN [topic |-> t, since |-> version[t]] ELSE Idle
    BY <1>4, <1>6, AskedOfRequest
  <2>2. [r \in Slots |-> Asked(requests'[r])] = [[r \in Slots |-> Asked(requests[r])] EXCEPT ![free] = Asked(new)]
    BY <1>2, <1>3
  <2>3. Asked(requests[free]) = Idle
    BY <1>1 DEF Asked
  <2>4. CASE op = "read"
    <3>1. View!Ask(free, t)
      BY <2>1, <2>2, <2>3, <2>4, <1>1 DEF View!Ask, View!NotAsking, Idle
    <3> QED
      BY <3>1, <1>1 DEF ViewStep, View!Next
  <2>5. CASE op # "read"
    <3>1. [r \in Slots |-> Asked(requests'[r])] = [r \in Slots |-> Asked(requests[r])]
      BY <2>1, <2>2, <2>3, <2>5, <1>1
    <3> QED
      BY <3>1 DEF ViewStep, View!viewVars
  <2> QED
    BY <2>4, <2>5
<1> QED
  BY <1>7, <1>8

\* The connections that are told of a topic
LEMMA AudienceType ==
    ASSUME IInv, NEW t \in Topics
    PROVE  /\ Audience(t) \subseteq 1..lastConn
           /\ Audience(t) # {} => t = "group" \/ leftAt = 0
  BY DEF IInv, DatabaseOK, Audience

\* What is announced goes to the end of the channel, and never to a leaver
LEMMA AnnounceStep ==
    ASSUME IInv, NEW t \in Topics, Announce(t), UNCHANGED lastConn
    PROVE  channel' \in Seq(Notification)' /\ owed' \subseteq Topics /\ LeaverStep
<1> DEFINE n == [topic |-> t, conns |-> Audience(t)]
<1>1. channel \in Seq(Notification) /\ owed \subseteq Topics
  BY DEF IInv, DatabaseOK, PagesOK
<1>2. Notification' = Notification
  BY DEF Notification
<1>3. n \in Notification
  BY AudienceType DEF Notification
<1>4. channel' = channel \/ (channel' = Append(channel, n) /\ Audience(t) # {})
  BY DEF Announce
<1>5. n.topic = t
  OBVIOUS
<1> HIDE DEF n
<1>6. channel' \in Seq(Notification)'
  BY <1>1, <1>2, <1>3, <1>4, AppendProperties
<1>7. LeaverStep
  <2>1. SUFFICES ASSUME NEW i \in 1..Len(channel'), channel'[i].topic \in GroupTopics, i > Len(channel)
                 PROVE  leftAt = 0
    BY DEF LeaverStep
  <2>2. channel' = Append(channel, n) /\ Audience(t) # {}
    BY <1>1, <1>4, <2>1
  <2>3. Len(channel') = Len(channel) + 1 /\ channel'[Len(channel) + 1] = n /\ Len(channel) \in Nat
    BY <1>1, <1>3, <2>2, AppendProperties
  <2>4. channel'[i] = n
    BY <2>1, <2>3
  <2>5. t # "group"
    BY <2>1, <2>4, <1>5 DEF GroupTopics
  <2> QED
    BY <2>2, <2>5, AudienceType
<1>8. owed' \subseteq Topics
  BY <1>1 DEF Announce
<1> QED
  BY <1>6, <1>7, <1>8

\* A change only ever adds to the versions
LEMMA BumpStep ==
    ASSUME IInv, NEW T \in SUBSET Topics, Bump(T)
    PROVE  version' \in [Topics -> Nat] /\ \A u \in Topics : version'[u] >= version[u]
<1>1. version \in [Topics -> Nat]
  BY DEF IInv, DatabaseOK
<1> QED
  BY <1>1 DEF Bump

\* What every committed change does
LEMMA CommitStep ==
    ASSUME IInv, NEW op \in Ops \ {"read"}, NEW t \in Topics, Commit(op, t), UNCHANGED <<rows, subs, lastConn>>
    PROVE  /\ DatabaseOK' /\ LeaverStep /\ owed' \subseteq Topics
           /\ \A u \in Topics : version'[u] >= version[u]
<1>1. leftAt \in Nat /\ version["group"] \in Nat /\ channel \in Seq(Notification) /\ owed \subseteq Topics
  BY DEF IInv, DatabaseOK, PagesOK, Topics
<1>2. "group" \in Topics /\ {"group", "group_member"} \in SUBSET Topics /\ {"group"} \in SUBSET Topics
  BY DEF Topics, GroupTopics
<1>3. rows' \subseteq 1..lastConn' /\ subs' \subseteq rows' \X Topics
  BY DEF IInv, DatabaseOK
<1>4. UNCHANGED channel => channel' \in Seq(Notification)' /\ LeaverStep
  BY <1>1 DEF LeaverStep, Notification
<1>5. CASE op = "change"
  <2>1. Bump({t}) /\ leftAt' = leftAt /\ Announce(t)
    BY <1>5 DEF Commit
  <2> QED
    BY <2>1, <1>1, <1>3, AnnounceStep, BumpStep DEF DatabaseOK
<1>6. CASE op = "join"
  <2>1. Bump({"group"}) /\ leftAt' = leftAt /\ Announce("group")
    BY <1>6 DEF Commit
  <2> QED
    BY <2>1, <1>1, <1>2, <1>3, AnnounceStep, BumpStep DEF DatabaseOK
<1>7. CASE op = "rename"
  <2>1. Bump({"group"}) /\ leftAt' = leftAt /\ channel' = channel /\ owed' = owed
    BY <1>7 DEF Commit
  <2> QED
    BY <2>1, <1>1, <1>2, <1>3, <1>4, BumpStep DEF DatabaseOK
<1>8. CASE op = "leave"
  <2>1. Bump({"group", "group_member"}) /\ leftAt' = version["group"] + 1 /\ channel' = channel /\ owed' = owed
    BY <1>8 DEF Commit, EndMembership
  <2> QED
    BY <2>1, <1>1, <1>2, <1>3, <1>4, BumpStep DEF DatabaseOK
<1>9. CASE op = "delete"
  <2>1. Bump({"group", "group_member"}) /\ leftAt' = version["group"] + 1 /\ Announce("group")
    BY <1>9 DEF Commit, EndMembership
  <2> QED
    BY <2>1, <1>1, <1>2, <1>3, AnnounceStep, BumpStep DEF DatabaseOK
<1> QED
  BY <1>5, <1>6, <1>7, <1>8, <1>9 DEF Ops

-----------------------------------------------------------------------------
(* The steps of the pages. *)

\* A fetch
LEMMA FetchStep ==
    ASSUME IInv, NEW t \in Topics, Fetch(t), UNCHANGED <<version, shown>>
    PROVE  RequestsOK' /\ ViewStep /\ owed' \subseteq Topics /\ info' \in BOOLEAN
<1>1. RequestsOK' /\ ViewStep
  BY SendStep DEF Fetch, Ops
<1>2. owed' \subseteq Topics /\ info' \in BOOLEAN
  BY DEF Fetch, IInv, PagesOK
<1> QED
  BY <1>1, <1>2

\* No message or one
LEMMA OneMessage ==
    ASSUME NEW x \in Message
    PROVE  <<x>> \in Seq(Message) /\ <<>> \in Seq(Message)
  OBVIOUS

\* Messages go out or wait for the socket
LEMMA EmitStep ==
    ASSUME IInv, NEW m \in Seq(Message), Emit(m), UNCHANGED <<socket, inbox, lastConn>>
    PROVE  WireOK'
<1>1. outbox \in Seq(Message) /\ msgQueue \in Seq(Message)
  BY DEF IInv, WireOK
<1>2. outbox \o m \in Seq(Message) /\ msgQueue \o m \in Seq(Message)
  BY <1>1, ConcatProperties
<1> QED
  BY <1>1, <1>2 DEF Emit, IInv, WireOK

\* A page that opens subscribes and fetches
LEMMA MountStep ==
    ASSUME IInv, NEW t \in Topics, Mount(t), EventsOK'
    PROVE  Good
<1> DEFINE m == IF t \in believed \/ ~focus.live THEN <<>> ELSE <<[op |-> "subscribe", topic |-> t]>>
<1>1. m \in Seq(Message)
  <2>1. [op |-> "subscribe", topic |-> t] \in Message
    BY DEF Message
  <2> QED
    BY <2>1, OneMessage
<1>2. WireOK'
  BY <1>1, EmitStep DEF Mount, Subscribe
<1>3. UNCHANGED <<database, server, lastConn, version, shown, rows>>
  BY DEF Mount, database
<1>4. RequestsOK' /\ ViewStep /\ owed' \subseteq Topics /\ info' \in BOOLEAN
  BY <1>3, FetchStep DEF Mount
<1>5. PagesOK'
  BY <1>4 DEF IInv, PagesOK, Mount, Subscribe
<1>6. DatabaseOK' /\ LeaverStep /\ ServerOK'
  BY <1>3, DatabaseKeeps, ServerKeeps
<1> QED
  BY <1>2, <1>4, <1>5, <1>6 DEF Good, IInv

\* A page that closes unsubscribes
LEMMA UnmountStep ==
    ASSUME IInv, NEW t \in Topics, Unmount(t), EventsOK'
    PROVE  Good
<1> DEFINE m == IF t \in believed THEN <<[op |-> "unsubscribe", topic |-> t]>> ELSE <<>>
<1>1. m \in Seq(Message)
  <2>1. [op |-> "unsubscribe", topic |-> t] \in Message
    BY DEF Message
  <2> QED
    BY <2>1, OneMessage
<1>2. WireOK'
  BY <1>1, EmitStep DEF Unmount, Unsubscribe
<1>3. UNCHANGED <<database, server, lastConn, version, shown, requests, rows>>
  BY DEF Unmount, database
<1>4. PagesOK'
  BY DEF IInv, PagesOK, Unmount, Unsubscribe
<1>5. DatabaseOK' /\ LeaverStep /\ ServerOK' /\ RequestsOK' /\ ViewStep
  BY <1>3, DatabaseKeeps, ServerKeeps, RequestsKeep, ViewKeeps
<1> QED
  BY <1>2, <1>4, <1>5 DEF Good, IInv

\* The user asks the server for a change
LEMMA DoStep ==
    ASSUME IInv, NEW op \in Ops, NEW t \in Topics, Do(op, t)
    PROVE  Good
<1>1. UNCHANGED <<database, server, wire, pages, store, owed>> /\ Count /\ Send(op, t)
  BY DEF Do
<1>2. UNCHANGED <<version, shown, lastConn, rows>>
  BY <1>1 DEF database, store, wire
<1> QED
  BY <1>1, <1>2, SendStep, Counted, DatabaseKeeps, ServerKeeps, WireKeeps, PagesKeep DEF Good, IInv

\* The topics there are
LEMMA TopicsType ==
    ASSUME IInv
    PROVE  /\ "group" \in Topics /\ "group_member" \in Topics /\ "group_invite" \in Topics /\ "group_log" \in Topics
           /\ focus.tab \in Topics
<1>1. focus \in Focuses
  BY DEF IInv, PagesOK
<1>2. focus.tab \in {"group_invite", "group_log"}
  BY <1>1, UpdateBounds
<1> QED
  BY <1>2 DEF Topics, GroupTopics

\* Every page of the web application
LEMMA WebStep ==
    ASSUME IInv, WebPages
    PROVE  Good
<1>1. EventsOK /\ (UNCHANGED events => EventsOK')
  BY DEF IInv, EventsOK
<1>2. CASE OpenGroup
  BY <1>2, TopicsType, MountStep, Counted DEF OpenGroup
<1>3. CASE CloseGroup
  BY <1>3, TopicsType, UnmountStep, Counted DEF CloseGroup
<1>4. CASE GroupGone
  <2>1. PICK t \in GroupTopics : Unmount(t)
    BY <1>4 DEF GroupGone
  <2> QED
    BY <2>1, <1>1, <1>4, UnmountStep DEF GroupGone, Topics
<1>5. CASE GroupMemberList
  BY <1>5, TopicsType, DoStep DEF GroupMemberList, Ops
<1>6. CASE GroupLog
  BY <1>6, TopicsType, MountStep, UnmountStep, DoStep, Counted DEF GroupLog, OpenTab, CloseTab, Ops
<1>7. CASE GroupInvites
  BY <1>7, TopicsType, MountStep, UnmountStep, DoStep, Counted DEF GroupInvites, InviteLinkCreate, OpenTab, CloseTab, Ops
<1>8. CASE GroupSettings
  BY <1>8, TopicsType, DoStep DEF GroupSettings, Ops
<1>9. CASE GroupList
  BY <1>9, TopicsType, DoStep DEF GroupList, GroupCreateModal, GroupDeleteModal, Ops
<1>10. CASE GroupInvite
  BY <1>10, TopicsType, DoStep DEF GroupInvite, Ops
<1> QED
  BY <1>2, <1>3, <1>4, <1>5, <1>6, <1>7, <1>8, <1>9, <1>10 DEF WebPages

\* Every screen of the mobile application
LEMMA MobileStep ==
    ASSUME IInv, MobileScreens
    PROVE  Good
<1>1. CASE RootNavigator
  BY <1>1, TopicsType, MountStep, Counted DEF RootNavigator
<1>2. CASE DrawerContent
  BY <1>2, TopicsType, MountStep, UnmountStep, Counted DEF DrawerContent
<1>3. CASE Refetch
  <2>1. UNCHANGED <<database, server, wire, version, shown, lastConn, rows, events>> /\ Fetch("group_member")
    BY <1>3 DEF Refetch, database, wire
  <2>2. RequestsOK' /\ ViewStep /\ owed' \subseteq Topics /\ info' \in BOOLEAN
    BY <2>1, TopicsType, FetchStep
  <2>3. PagesOK'
    BY <1>3, <2>2 DEF IInv, PagesOK, Refetch
  <2>4. EventsOK'
    BY <2>1 DEF IInv, EventsOK
  <2> QED
    BY <2>1, <2>2, <2>3, <2>4, DatabaseKeeps, ServerKeeps, WireKeeps DEF Good, IInv
<1>4. CASE MobileGroupList
  <2>1. UNCHANGED <<database, server, wire, version, shown, lastConn, rows>> /\ Fetch("group") /\ Count
    BY <1>4 DEF MobileGroupList, database, wire
  <2>2. RequestsOK' /\ ViewStep /\ owed' \subseteq Topics /\ info' \in BOOLEAN
    BY <2>1, TopicsType, FetchStep
  <2>3. PagesOK'
    BY <1>4, <2>2 DEF IInv, PagesOK, MobileGroupList, pages
  <2> QED
    BY <2>1, <2>2, <2>3, Counted, DatabaseKeeps, ServerKeeps, WireKeeps DEF Good, IInv
<1>5. CASE AddGroup
  BY <1>5, TopicsType, DoStep DEF AddGroup, Ops
<1> QED
  BY <1>1, <1>2, <1>3, <1>4, <1>5 DEF MobileScreens

-----------------------------------------------------------------------------
(* Answers. *)

\* An observer may take every failed request for a question that was given up
LEMMA FailStep ==
    ASSUME IInv, NEW r \in Slots, Fail(r)
    PROVE  Good
<1>1. /\ requests[r] # Idle /\ requests' = [requests EXCEPT ![r] = Idle]
      /\ UNCHANGED <<database, server, wire, pages, store, events, owed>>
  BY DEF Fail
<1>2. UNCHANGED <<version, shown, lastConn, rows>>
  BY <1>1 DEF database, store, wire
<1>3. requests \in [Slots -> Request \cup {Idle}] /\ \A s \in Slots : requests[s] # Idle => ReadOK(requests[s], version)
  BY DEF IInv, RequestsOK
<1>4. RequestsOK'
  BY <1>1, <1>2, <1>3 DEF RequestsOK
<1>5. [s \in Slots |-> Asked(requests'[s])] = [[s \in Slots |-> Asked(requests[s])] EXCEPT ![r] = Asked(Idle)]
  BY <1>1, <1>3
<1>6. Asked(Idle) = Idle
  BY DEF Asked
<1>7. View!GiveUp(r)
  BY <1>2, <1>5, <1>6 DEF View!GiveUp, View!NotAsking, Idle
<1>8. ViewStep
  BY <1>7 DEF ViewStep, View!Next
<1>9. EventsOK'
  BY <1>1 DEF IInv, EventsOK
<1>10. DatabaseOK' /\ LeaverStep /\ ServerOK' /\ WireOK' /\ PagesOK'
  BY <1>1, <1>2, DatabaseKeeps, ServerKeeps, WireKeeps, PagesKeep
<1> QED
  BY <1>4, <1>8, <1>9, <1>10 DEF Good, IInv

\* An answer to a read shows a version from between its question and now, or
\* is given up; the others concern no observer
LEMMA AnswerStep ==
    ASSUME IInv, NEW r \in Slots, Answer(r)
    PROVE  Good
<1> DEFINE q == requests[r]
<1>1. /\ q # Idle /\ q.stage = "answered"
      /\ requests' = [requests EXCEPT ![r] = Idle]
      /\ IF q.op = "read" THEN AnswerRead(q) ELSE AnswerChange(q)
      /\ UNCHANGED <<database, server, wire, focus, mounted, believed, events, owed>>
  BY DEF Answer
<1>2. UNCHANGED <<version, lastConn, rows>>
  BY <1>1 DEF database, wire
<1>3. requests \in [Slots -> Request \cup {Idle}] /\ \A s \in Slots : requests[s] # Idle => ReadOK(requests[s], version)
  BY DEF IInv, RequestsOK
<1>4. q \in Request /\ ReadOK(q, version)
  BY <1>1, <1>3
<1>5. q.topic \in Topics /\ q.val \in Nat
  BY <1>4 DEF Request
<1>6. shown \in [Topics -> Nat \cup {-1}] /\ refetch \in BOOLEAN /\ listed \in BOOLEAN /\ info \in BOOLEAN
  BY DEF IInv, PagesOK
<1>7. [s \in Slots |-> Asked(requests'[s])] = [[s \in Slots |-> Asked(requests[s])] EXCEPT ![r] = Idle]
  <2>1. Asked(Idle) = Idle
    BY DEF Asked
  <2> QED
    BY <1>1, <1>3, <2>1
<1> HIDE DEF q
<1>8. RequestsOK'
  BY <1>1, <1>2, <1>3 DEF RequestsOK
<1>9. /\ shown' = shown \/ (q.op = "read" /\ shown' = [shown EXCEPT ![q.topic] = q.val])
      /\ refetch' \in BOOLEAN /\ listed' \in BOOLEAN /\ info' \in BOOLEAN
  <2>1. CASE q.op = "read"
    BY <1>1, <1>6, <2>1 DEF AnswerRead, Cell, Listed
  <2>2. CASE q.op # "read"
    BY <1>1, <1>6, <2>2 DEF AnswerChange
  <2> QED
    BY <2>1, <2>2
<1>10. PagesOK'
  <2>1. shown' \in [Topics -> Nat \cup {-1}]
    BY <1>5, <1>6, <1>9
  <2> QED
    BY <1>1, <1>9, <2>1 DEF IInv, PagesOK
<1>11. ViewStep
  <2>1. CASE shown' = shown
    <3>1. View!GiveUp(r)
      BY <1>2, <1>7, <2>1 DEF View!GiveUp, View!NotAsking, Idle
    <3> QED
      BY <3>1 DEF ViewStep, View!Next
  <2>2. CASE q.op = "read" /\ shown' = [shown EXCEPT ![q.topic] = q.val]
    <3>1. Asked(q) # View!NotAsking /\ Asked(q).topic = q.topic /\ Asked(q).since = q.since
      BY <1>4, <2>2, QuestionIsNotIdle
    <3>2. [s \in Slots |-> Asked(requests[s])][r] = Asked(q)
      BY DEF q
    <3>3. version[q.topic] \in Nat /\ q.since \in Nat /\ q.since <= q.val /\ q.val <= version[q.topic]
      BY <1>1, <1>4, <1>5, <2>2 DEF IInv, DatabaseOK, ReadOK, Request
    <3>4. q.val \in Asked(q).since .. version[Asked(q).topic]
      BY <1>5, <3>1, <3>3
    <3>5. View!Show(r)
      BY <1>2, <1>7, <2>2, <3>1, <3>2, <3>4 DEF View!Show, View!NotAsking, Idle
    <3> QED
      BY <3>5 DEF ViewStep, View!Next
  <2> QED
    BY <1>9, <2>1, <2>2
<1>12. EventsOK'
  BY <1>1 DEF IInv, EventsOK
<1>13. DatabaseOK' /\ LeaverStep /\ ServerOK' /\ WireOK'
  BY <1>1, <1>2, DatabaseKeeps, ServerKeeps, WireKeeps
<1> QED
  BY <1>8, <1>10, <1>11, <1>12, <1>13 DEF Good, IInv

\* A request is executed: a read answers with the version of now, a change
\* changes versions and no question
LEMMA ExecuteStep ==
    ASSUME IInv, NEW r \in Slots, Execute(r)
    PROVE  Good
<1> DEFINE q == requests[r]
           v == IF q.op = "read" THEN version[q.topic] ELSE 0
           new == [q EXCEPT !.stage = "answered", !.val = v]
<1>1. /\ q # Idle
      /\ requests' = [requests EXCEPT ![r] = new]
      /\ IF q.op = "read" THEN UNCHANGED <<version, leftAt, channel, owed>> ELSE Commit(q.op, q.topic)
      /\ UNCHANGED <<rows, subs, server, wire, pages, store, events>>
  BY DEF Execute
<1>2. /\ requests \in [Slots -> Request \cup {Idle}]
      /\ \A s \in Slots : requests[s] # Idle => ReadOK(requests[s], version)
      /\ version \in [Topics -> Nat]
  BY DEF IInv, RequestsOK, DatabaseOK
<1>3. q \in Request /\ ReadOK(q, version)
  BY <1>1, <1>2
<1>4. q.topic \in Topics /\ q.op \in Ops
  BY <1>3 DEF Request, Ops
<1>5. new \in Request /\ new.op = q.op /\ new.topic = q.topic /\ new.since = q.since /\ new.val = v
  BY <1>2, <1>3 DEF Request
<1>6. UNCHANGED <<shown, lastConn>>
  BY <1>1 DEF store, wire
<1> HIDE DEF q, v, new
<1>7. /\ DatabaseOK' /\ LeaverStep /\ owed' \subseteq Topics
      /\ \A u \in Topics : version'[u] >= version[u]
  <2>1. CASE q.op = "read"
    <3>1. UNCHANGED <<database, lastConn>> /\ owed' = owed
      BY <1>1, <1>6, <2>1 DEF database
    <3> QED
      BY <1>2, <2>1, <3>1, DatabaseKeeps DEF IInv, PagesOK, database
  <2>2. CASE q.op # "read"
    BY <1>1, <1>4, <1>6, <2>2, CommitStep
  <2> QED
    BY <2>1, <2>2
<1>8. version' \in [Topics -> Nat]
  BY <1>7 DEF DatabaseOK
<1>9. RequestsOK'
  <2>1. requests' \in [Slots -> Request \cup {Idle}]
    BY <1>1, <1>2, <1>5
  <2>2. ASSUME NEW s \in Slots, requests'[s] # Idle
        PROVE  ReadOK(requests'[s], version')
    <3>1. CASE s = r
      <4>1. requests'[s] = new
        BY <1>1, <1>2, <3>1
      <4>2. q.op = "read" => v = version[q.topic] /\ version' = version
        BY <1>1 DEF v
      <4>3. q.op = "read" => q.since <= version[q.topic]
        BY <1>3 DEF ReadOK
      <4>4. version[q.topic] \in Nat
        BY <1>2, <1>4
      <4> QED
        BY <1>5, <4>1, <4>2, <4>3, <4>4 DEF ReadOK
    <3>2. CASE s # r
      <4>1. requests'[s] = requests[s] /\ requests[s] \in Request /\ ReadOK(requests[s], version)
        BY <1>1, <1>2, <2>2, <3>2
      <4>2. requests[s].topic \in Topics /\ requests[s].since \in Nat /\ requests[s].val \in Nat
        BY <4>1 DEF Request
      <4>3. version'[requests[s].topic] >= version[requests[s].topic]
            /\ version'[requests[s].topic] \in Nat /\ version[requests[s].topic] \in Nat
        BY <1>2, <1>7, <1>8, <4>2
      <4> QED
        BY <4>1, <4>2, <4>3 DEF ReadOK
    <3> QED
      BY <3>1, <3>2
  <2> QED
    BY <2>1, <2>2 DEF RequestsOK
<1>10. ViewStep
  <2>1. Asked(new) = Asked(q)
    BY <1>3, <1>5, AskedOfRequest
  <2>2. [s \in Slots |-> Asked(requests'[s])] = [s \in Slots |-> Asked(requests[s])]
    BY <1>1, <1>2, <2>1 DEF q
  <2>3. View!Change
    BY <1>6, <1>7, <1>8, <2>2 DEF View!Change
  <2> QED
    BY <2>3 DEF ViewStep, View!Next
<1>11. PagesOK'
  BY <1>1, <1>7 DEF IInv, PagesOK, pages, store
<1>12. EventsOK'
  BY <1>1 DEF IInv, EventsOK
<1>13. ServerOK' /\ WireOK'
  BY <1>1, <1>6, ServerKeeps, WireKeeps
<1> QED
  BY <1>7, <1>9, <1>10, <1>11, <1>12, <1>13 DEF Good, IInv

\* Somebody else changes the group
LEMMA ElsewhereStep ==
    ASSUME IInv, Elsewhere
    PROVE  Good
<1>1. Count /\ UNCHANGED <<rows, subs, server, wire, pages, store, requests>>
  BY DEF Elsewhere
<1>2. PICK op \in Ops \ {"read"}, t \in Topics : Commit(op, t)
  BY TopicsType DEF Elsewhere, Ops
<1>3. UNCHANGED <<shown, lastConn>>
  BY <1>1 DEF store, wire
<1>4. /\ DatabaseOK' /\ LeaverStep /\ owed' \subseteq Topics
      /\ \A u \in Topics : version'[u] >= version[u]
  BY <1>1, <1>2, <1>3, CommitStep
<1>5. version' \in [Topics -> Nat] /\ version \in [Topics -> Nat]
  BY <1>4 DEF IInv, DatabaseOK
<1>6. RequestsOK'
  <2>1. requests \in [Slots -> Request \cup {Idle}] /\ requests' = requests
    BY <1>1 DEF IInv, RequestsOK
  <2>2. ASSUME NEW s \in Slots, requests[s] # Idle
        PROVE  ReadOK(requests[s], version')
    <3>1. requests[s] \in Request /\ ReadOK(requests[s], version)
      BY <2>1, <2>2 DEF IInv, RequestsOK
    <3>2. requests[s].topic \in Topics /\ requests[s].since \in Nat /\ requests[s].val \in Nat
      BY <3>1 DEF Request
    <3>3. version'[requests[s].topic] >= version[requests[s].topic]
          /\ version'[requests[s].topic] \in Nat /\ version[requests[s].topic] \in Nat
      BY <1>4, <1>5, <3>2
    <3> QED
      BY <3>1, <3>2, <3>3 DEF ReadOK
  <2> QED
    BY <2>1, <2>2 DEF RequestsOK
<1>7. View!Change
  BY <1>1, <1>3, <1>4, <1>5 DEF View!Change
<1>8. ViewStep
  BY <1>7 DEF ViewStep, View!Next
<1>9. PagesOK'
  BY <1>1, <1>4 DEF IInv, PagesOK, pages, store
<1>10. ServerOK' /\ WireOK' /\ EventsOK'
  BY <1>1, <1>3, ServerKeeps, WireKeeps, Counted
<1> QED
  BY <1>4, <1>6, <1>8, <1>9, <1>10 DEF Good, IInv

-----------------------------------------------------------------------------
(* The web socket and the server. *)

\* Turning a queue around makes a queue
LEMMA BackToFrontType ==
    ASSUME NEW S, NEW s \in Seq(S)
    PROVE  BackToFront(s) \in Seq(S)
<1>1. Len(s) \in Nat /\ s \in [1..Len(s) -> S]
  BY LenProperties
<1>2. \A i \in 1..Len(s) : s[Len(s) - i + 1] \in S
  BY <1>1
<1>3. BackToFront(s) \in [1..Len(s) -> S]
  BY <1>2 DEF BackToFront
<1> QED
  BY <1>1, <1>3, SeqDef

\* The application opens its socket; the server has not registered it yet
LEMMA ConnectStep ==
    ASSUME IInv, Connect
    PROVE  Good
<1>1. /\ up /\ lastConn' = lastConn + 1 /\ socket' = lastConn'
      /\ handler' = [c \in DOMAIN handler \cup {lastConn'} |-> IF c = lastConn' THEN "accepted" ELSE handler[c]]
      /\ outbox' = BackToFront(msgQueue) /\ msgQueue' = <<>>
      /\ UNCHANGED <<database, up, inbox, pages, store, requests, events, owed>>
  BY DEF Connect
<1>2. lastConn \in Nat /\ msgQueue \in Seq(Message) /\ inbox \in Seq(Topics)
  BY DEF IInv, WireOK
<1>3. UNCHANGED <<version, leftAt, rows, subs, channel, shown>>
  BY <1>1 DEF database, store
<1>4. 1..lastConn \subseteq 1..lastConn'
  BY <1>1, <1>2
<1>5. WireOK'
  BY <1>1, <1>2, BackToFrontType, EmptySeq DEF WireOK
<1>6. DatabaseOK' /\ LeaverStep
  <2>1. Notification \subseteq Notification'
    BY <1>4 DEF Notification
  <2>2. channel \in Seq(Notification)
    BY DEF IInv, DatabaseOK
  <2>3. channel' \in Seq(Notification')
    BY <1>3, <2>1, <2>2, SeqMonotonic
  <2>4. Len(channel) \in Nat
    BY <2>2, LenProperties
  <2>5. LeaverStep
    BY <1>3, <2>4 DEF LeaverStep
  <2>6. rows' \subseteq 1..lastConn'
    BY <1>3, <1>4 DEF IInv, DatabaseOK
  <2> QED
    BY <1>3, <2>3, <2>5, <2>6 DEF IInv, DatabaseOK
<1>7. ServerOK'
  <2>1. DOMAIN handler' = DOMAIN handler \cup {lastConn'} /\ lastConn' \notin DOMAIN handler
    BY <1>1, <1>2 DEF IInv, ServerOK
  <2>2. rows' = {c \in DOMAIN handler' : handler'[c] # "accepted"}
    BY <1>1, <1>3, <2>1 DEF IInv, ServerOK
  <2>3. DOMAIN handler' \subseteq 1..lastConn'
    BY <1>1, <1>2, <1>4, <2>1 DEF IInv, ServerOK
  <2>4. handler' \in [DOMAIN handler' -> {"accepted", "serving", "closing"}]
    BY <1>1, <2>1 DEF IInv, ServerOK
  <2> QED
    BY <1>1, <2>2, <2>3, <2>4 DEF IInv, ServerOK
<1>8. PagesOK' /\ RequestsOK' /\ ViewStep /\ EventsOK'
  BY <1>1, <1>3, PagesKeep, RequestsKeep, ViewKeeps DEF IInv, EventsOK
<1> QED
  BY <1>5, <1>6, <1>7, <1>8 DEF Good, IInv

\* The connection is lost
LEMMA DropStep ==
    ASSUME IInv, Drop
    PROVE  Good
<1>1. /\ socket' = 0 /\ outbox' = <<>> /\ inbox' = <<>> /\ owed' = {}
      /\ UNCHANGED <<msgQueue, lastConn, database, server, pages, store, requests>> /\ Count
  BY DEF Drop, Disconnected
<1>2. WireOK'
  BY <1>1 DEF IInv, WireOK
<1>3. PagesOK'
  BY <1>1 DEF IInv, PagesOK, pages, store
<1>4. UNCHANGED <<version, shown, rows>>
  BY <1>1 DEF database, store
<1>5. DatabaseOK' /\ LeaverStep /\ ServerOK' /\ RequestsOK' /\ ViewStep /\ EventsOK'
  BY <1>1, <1>4, DatabaseKeeps, ServerKeeps, RequestsKeep, ViewKeeps, Counted
<1> QED
  BY <1>2, <1>3, <1>5 DEF Good, IInv

\* A notification makes the application fetch
LEMMA HearStep ==
    ASSUME IInv, Hear
    PROVE  Good
<1>1. /\ inbox # <<>> /\ inbox' = Tail(inbox) /\ Fetch(Head(inbox))
      /\ UNCHANGED <<database, server, socket, outbox, msgQueue, lastConn, pages, believed, shown, listed, events>>
  BY DEF Hear
<1>2. inbox \in Seq(Topics)
  BY DEF IInv, WireOK
<1>3. Head(inbox) \in Topics /\ inbox' \in Seq(Topics)
  BY <1>1, <1>2, HeadTailProperties
<1>4. UNCHANGED <<version, rows>>
  BY <1>1 DEF database
<1>5. RequestsOK' /\ ViewStep /\ owed' \subseteq Topics /\ info' \in BOOLEAN
  BY <1>1, <1>3, <1>4, FetchStep
<1>6. WireOK'
  BY <1>1, <1>3 DEF IInv, WireOK
<1>7. PagesOK'
  BY <1>1, <1>5 DEF IInv, PagesOK, pages
<1>8. EventsOK'
  BY <1>1 DEF IInv, EventsOK
<1>9. DatabaseOK' /\ LeaverStep /\ ServerOK'
  BY <1>1, <1>4, DatabaseKeeps, ServerKeeps
<1> QED
  BY <1>5, <1>6, <1>7, <1>8, <1>9 DEF Good, IInv

\* A step of a handler of the server: the pages and the socket see nothing
LEMMA HandlerFrame ==
    ASSUME IInv, DatabaseOK', ServerOK', UNCHANGED <<version, channel, wire, pages, store, requests, events, owed>>
    PROVE  Good
<1>1. UNCHANGED shown
  BY DEF store
<1>2. channel' = channel /\ Len(channel) \in Nat
  BY DEF IInv, DatabaseOK
<1>3. LeaverStep
  BY <1>2 DEF LeaverStep
<1>4. WireOK' /\ PagesOK' /\ RequestsOK' /\ ViewStep
  BY <1>1, WireKeeps, PagesKeep, RequestsKeep, ViewKeeps
<1>5. EventsOK'
  BY DEF IInv, EventsOK
<1> QED
  BY <1>3, <1>4, <1>5 DEF Good, IInv

\* client_connected
LEMMA RegisterStep ==
    ASSUME IInv, NEW c \in DOMAIN handler, Register(c)
    PROVE  Good
<1>1. /\ rows' = rows \cup {c} /\ handler' = [handler EXCEPT ![c] = "serving"]
      /\ UNCHANGED <<version, leftAt, subs, channel, up, wire, pages, store, requests, events, owed>>
  BY DEF Register
<1>2. lastConn' = lastConn /\ c \in 1..lastConn
  BY <1>1 DEF wire, IInv, ServerOK
<1>3. up /\ rows = {x \in DOMAIN handler : handler[x] # "accepted"}
  BY DEF IInv, ServerOK
<1>4. DOMAIN handler' = DOMAIN handler /\ handler' \in [DOMAIN handler -> {"accepted", "serving", "closing"}]
  BY <1>1 DEF IInv, ServerOK
<1>5. rows' = {x \in DOMAIN handler' : handler'[x] # "accepted"}
  BY <1>1, <1>3, <1>4
<1>6. ServerOK'
  BY <1>1, <1>2, <1>4, <1>5 DEF IInv, ServerOK
<1>7. DatabaseOK'
  BY <1>1, <1>2 DEF IInv, DatabaseOK, Notification
<1> QED
  BY <1>1, <1>6, <1>7, HandlerFrame

\* The handler notices that its socket is closed
LEMMA NoticeStep ==
    ASSUME IInv, NEW c \in DOMAIN handler, Notice(c)
    PROVE  Good
<1>1. /\ handler[c] = "serving" /\ handler' = [handler EXCEPT ![c] = "closing"]
      /\ UNCHANGED <<database, up, wire, pages, store, requests, events, owed>>
  BY DEF Notice, Serving
<1>2. UNCHANGED <<lastConn, version, channel, rows>>
  BY <1>1 DEF wire, database
<1>3. DOMAIN handler' = DOMAIN handler /\ handler' \in [DOMAIN handler -> {"accepted", "serving", "closing"}]
  BY <1>1 DEF IInv, ServerOK
<1>4. {x \in DOMAIN handler' : handler'[x] # "accepted"} = {x \in DOMAIN handler : handler[x] # "accepted"}
  BY <1>1, <1>3
<1>5. ServerOK'
  BY <1>1, <1>2, <1>3, <1>4 DEF IInv, ServerOK
<1>6. DatabaseOK'
  BY <1>1, <1>2, DatabaseKeeps
<1> QED
  BY <1>1, <1>2, <1>5, <1>6, HandlerFrame

\* client_disconnected, with the subscriptions of the connection
LEMMA UnregisterStep ==
    ASSUME IInv, NEW c \in DOMAIN handler, Unregister(c)
    PROVE  Good
<1>1. /\ rows' = rows \ {c} /\ subs' = subs \ SubsOf(c) /\ handler' = Without(handler, c)
      /\ UNCHANGED <<version, leftAt, channel, up, wire, pages, store, requests, events, owed>>
  BY DEF Unregister
<1>2. lastConn' = lastConn
  BY <1>1 DEF wire
<1>3. up /\ rows = {x \in DOMAIN handler : handler[x] # "accepted"}
  BY DEF IInv, ServerOK
<1>4. /\ DOMAIN handler' = DOMAIN handler \ {c} /\ \A x \in DOMAIN handler' : handler'[x] = handler[x]
      /\ handler' \in [DOMAIN handler' -> {"accepted", "serving", "closing"}]
  BY <1>1 DEF Without, IInv, ServerOK
<1>5. rows' = {x \in DOMAIN handler' : handler'[x] # "accepted"}
  BY <1>1, <1>3, <1>4
<1>6. ServerOK'
  BY <1>1, <1>2, <1>3, <1>4, <1>5 DEF IInv, ServerOK
<1>7. subs' \subseteq rows' \X Topics
  BY <1>1 DEF SubsOf, IInv, DatabaseOK
<1>8. DatabaseOK'
  BY <1>1, <1>2, <1>7 DEF IInv, DatabaseOK, Notification
<1> QED
  BY <1>1, <1>6, <1>8, HandlerFrame

\* The messages of the application reach the tables
LEMMA ReceiveStep ==
    ASSUME IInv, Receive
    PROVE  Good
<1> DEFINE m == Head(outbox)
<1>1. /\ Serving(socket) /\ outbox # <<>> /\ outbox' = Tail(outbox)
      /\ subs' \subseteq subs \cup {<<socket, m.topic>>}
      /\ UNCHANGED <<version, leftAt, rows, channel, server, socket, inbox, msgQueue, lastConn,
                     pages, store, requests, events, owed>>
  BY DEF Receive
<1>2. outbox \in Seq(Message)
  BY DEF IInv, WireOK
<1>3. m \in Message /\ outbox' \in Seq(Message)
  BY <1>1, <1>2, HeadTailProperties
<1>4. m.topic \in Topics
  BY <1>3 DEF Message
<1>5. up /\ socket \in rows
  BY <1>1 DEF IInv, ServerOK, Serving
<1>6. subs \subseteq rows \X Topics
  BY DEF IInv, DatabaseOK
<1> HIDE DEF m
<1>7. subs' \subseteq rows \X Topics
  BY <1>1, <1>4, <1>5, <1>6
<1>8. DatabaseOK'
  BY <1>1, <1>7 DEF IInv, DatabaseOK, Notification
<1>9. WireOK'
  BY <1>1, <1>3 DEF IInv, WireOK
<1>10. channel' = channel /\ Len(channel) \in Nat
  BY <1>1 DEF IInv, DatabaseOK
<1>11. LeaverStep
  BY <1>10 DEF LeaverStep
<1>12. UNCHANGED <<shown, version>> /\ EventsOK'
  BY <1>1 DEF store, IInv, EventsOK
<1>13. ServerOK' /\ PagesOK' /\ RequestsOK' /\ ViewStep
  BY <1>1, <1>12, ServerKeeps, PagesKeep, RequestsKeep, ViewKeeps
<1> QED
  BY <1>8, <1>9, <1>11, <1>12, <1>13 DEF Good, IInv

\* A notification is sent to the connections, or to some of them
LEMMA DeliverStep ==
    ASSUME IInv, Deliver
    PROVE  Good
<1> DEFINE n == Head(channel)
<1>1. /\ channel # <<>> /\ channel' = Tail(channel)
      /\ inbox' = inbox \/ inbox' = Append(inbox, n.topic)
      /\ owed' = owed \/ owed' = owed \ {n.topic}
      /\ UNCHANGED <<version, leftAt, rows, subs, server, socket, outbox, msgQueue, lastConn,
                     pages, store, requests, events>>
  BY DEF Deliver
<1>2. channel \in Seq(Notification)
  BY DEF IInv, DatabaseOK
<1>3. n \in Notification /\ channel' \in Seq(Notification) /\ Len(channel') = Len(channel) - 1 /\ Len(channel) \in Nat
  BY <1>1, <1>2, HeadTailProperties, LenProperties
<1>4. n.topic \in Topics
  BY <1>3 DEF Notification
<1> HIDE DEF n
<1>5. WireOK'
  <2>1. inbox \in Seq(Topics)
    BY DEF IInv, WireOK
  <2>2. inbox' \in Seq(Topics)
    BY <1>1, <1>4, <2>1, AppendProperties
  <2> QED
    BY <1>1, <2>2 DEF IInv, WireOK
<1>6. DatabaseOK'
  BY <1>1, <1>3 DEF IInv, DatabaseOK, Notification
<1>7. LeaverStep
  BY <1>3 DEF LeaverStep
<1>8. PagesOK'
  BY <1>1 DEF IInv, PagesOK, pages, store
<1>9. UNCHANGED <<shown, version>> /\ EventsOK'
  BY <1>1 DEF store, IInv, EventsOK
<1>10. ServerOK' /\ RequestsOK' /\ ViewStep
  BY <1>1, <1>9, ServerKeeps, RequestsKeep, ViewKeeps
<1> QED
  BY <1>5, <1>6, <1>7, <1>8, <1>9, <1>10 DEF Good, IInv

\* The server crashes, or is shut down
LEMMA StopStep ==
    ASSUME IInv, Crash \/ Shutdown
    PROVE  Good
<1>1. /\ up' = FALSE /\ handler' = [c \in {} |-> "accepted"] /\ channel' = <<>> /\ Count
      /\ socket' = 0 /\ outbox' = <<>> /\ inbox' = <<>> /\ owed' = {} /\ UNCHANGED <<msgQueue, lastConn>>
      /\ UNCHANGED <<version, leftAt, pages, store, requests>>
  BY DEF Crash, Shutdown, Stopped, Disconnected
<1>2. (rows' = rows /\ subs' = subs) \/ (rows' = {} /\ subs' = {})
  BY DEF Crash, Shutdown
<1>3. DatabaseOK'
  <2>1. rows' \subseteq 1..lastConn' /\ subs' \subseteq rows' \X Topics
    BY <1>1, <1>2 DEF IInv, DatabaseOK
  <2>2. channel' \in Seq(Notification')
    BY <1>1, EmptySeq
  <2> QED
    BY <1>1, <2>1, <2>2 DEF IInv, DatabaseOK
<1>4. ServerOK'
  BY <1>1 DEF ServerOK
<1>5. WireOK'
  BY <1>1 DEF IInv, WireOK
<1>6. PagesOK'
  BY <1>1 DEF IInv, PagesOK, pages, store
<1>7. Len(channel') = 0 /\ Len(channel) \in Nat
  BY <1>1 DEF IInv, DatabaseOK
<1>8. LeaverStep
  BY <1>7 DEF LeaverStep
<1>9. UNCHANGED shown
  BY <1>1 DEF store
<1>10. RequestsOK' /\ ViewStep /\ EventsOK'
  BY <1>1, <1>9, RequestsKeep, ViewKeeps, Counted
<1> QED
  BY <1>3, <1>4, <1>5, <1>6, <1>8, <1>10 DEF Good, IInv

\* forwarder_boot
LEMMA BootStep ==
    ASSUME IInv, Boot
    PROVE  Good
<1>1. /\ ~up /\ up' = TRUE /\ rows' = {} /\ subs' = {}
      /\ UNCHANGED <<version, leftAt, channel, handler, wire, pages, store, requests, events, owed>>
  BY DEF Boot
<1>2. lastConn' = lastConn /\ DOMAIN handler = {}
  BY <1>1 DEF wire, IInv, ServerOK
<1>3. DatabaseOK'
  BY <1>1, <1>2 DEF IInv, DatabaseOK, Notification
<1>4. ServerOK'
  BY <1>1, <1>2 DEF IInv, ServerOK
<1> QED
  BY <1>1, <1>3, <1>4, HandlerFrame

-----------------------------------------------------------------------------
(* The theorems. *)

\* The invariant holds at first
LEMMA InitOK == Init => IInv
<1>1. SUFFICES ASSUME Init PROVE IInv
  OBVIOUS
<1>2. DatabaseOK /\ ServerOK /\ WireOK
  BY <1>1 DEF Init, DatabaseOK, ServerOK, WireOK
<1>3. PagesOK
  BY <1>1 DEF Init, PagesOK
<1>4. RequestsOK
  BY <1>1 DEF Init, RequestsOK
<1>5. EventsOK
  BY <1>1, UpdateBounds DEF Init, EventsOK
<1> QED
  BY <1>2, <1>3, <1>4, <1>5 DEF IInv

\* Nothing happens
LEMMA StutterStep ==
    ASSUME IInv, UNCHANGED vars
    PROVE  Good
<1>1. UNCHANGED <<database, server, wire, pages, store, requests, events, owed>>
  BY DEF vars
<1>2. UNCHANGED <<version, rows, lastConn, shown>>
  BY <1>1 DEF database, wire, store
<1>3. EventsOK'
  BY <1>1 DEF IInv, EventsOK
<1>4. DatabaseOK' /\ LeaverStep /\ ServerOK' /\ WireOK' /\ PagesOK' /\ RequestsOK' /\ ViewStep
  BY <1>1, <1>2, DatabaseKeeps, ServerKeeps, WireKeeps, PagesKeep, RequestsKeep, ViewKeeps
<1> QED
  BY <1>3, <1>4 DEF Good, IInv

\* Every step keeps the invariant, is one of LaggingView and tells leavers nothing
LEMMA EveryStep ==
    ASSUME IInv, [Next]_vars
    PROVE  Good
<1>1. CASE Application
  <2>1. CASE App
    <3>1. EventsOK'
      BY <2>1 DEF App, IInv, EventsOK
    <3> QED
      BY <2>1, <3>1, TopicsType, MountStep DEF App
  <2>2. CASE WebPages
    BY <2>2, WebStep
  <2>3. CASE MobileScreens
    BY <2>3, MobileStep
  <2>4. CASE \E r \in Slots : Answer(r) \/ Fail(r)
    BY <2>4, AnswerStep, FailStep
  <2>5. CASE Connect \/ Drop \/ Hear
    BY <2>5, ConnectStep, DropStep, HearStep
  <2> QED
    BY <1>1, <2>1, <2>2, <2>3, <2>4, <2>5 DEF Application
<1>2. CASE Server
  BY <1>2, ExecuteStep, RegisterStep, NoticeStep, UnregisterStep, ReceiveStep, DeliverStep, StopStep, BootStep DEF Server
<1>3. CASE Elsewhere
  BY <1>3, ElsewhereStep
<1>4. CASE UNCHANGED vars
  BY <1>4, StutterStep
<1> QED
  BY <1>1, <1>2, <1>3, <1>4 DEF Next

\* IInv is an invariant of LiveUpdates
LEMMA Inductive == Spec => []IInv
<1>1. IInv /\ [Next]_vars => IInv'
  BY EveryStep DEF Good
<1> QED
  BY <1>1, InitOK, PTL DEF Spec

\* The variables of the application, the wire, the server and its tables have
\* their types, whatever crashes, closes and reconnects
THEOREM TypeCorrect == Spec => []TypeOK
  BY Inductive, InvariantsFollow, PTL

\* A server that is up has a row for exactly the connections it serves: what a
\* crash or a lost connection has left is gone before anybody is notified
\* (client_connected, client_disconnected, forwarder_boot, forwarder_stop)
THEOREM RowsServed == Spec => []RowsAreServed
  BY Inductive, InvariantsFollow, PTL

\* Nothing is announced of a group to a connection of a user who has left it,
\* although its subscriptions stay (notify_group)
THEOREM NothingForLeavers == Spec => LeaversHearNothing
<1>1. IInv /\ [Next]_vars => LeaverStep
  BY EveryStep DEF Good
<1>2. LeaverStep => (\A i \in 1..Len(channel') :
                       channel'[i].topic \in GroupTopics /\ i > Len(channel) => leftAt = 0)
  BY DEF LeaverStep
<1> QED
  BY <1>1, <1>2, Inductive, PTL DEF Spec, LeaversHearNothing

\* The first state is one of LaggingView
LEMMA ViewInit == Init => View!Init
<1>1. Asked(Idle) = Idle
  BY DEF Asked
<1> QED
  BY <1>1 DEF Init, View!Init, View!NotAsking, Idle

\* The application, its socket and the server implement LaggingView: a page shows
\* a version that was current at some time since the page asked, whatever
\* messages are lost on the way
THEOREM ImplementsLaggingView == Spec => ShowsALaggingView
<1>1. IInv /\ [Next]_vars => [View!Next]_(View!viewVars)
  BY EveryStep DEF Good, ViewStep
<1> QED
  BY <1>1, ViewInit, Inductive, PTL DEF Spec, ShowsALaggingView, View!Spec

-----------------------------------------------------------------------------
(* Subscriptions.  A second invariant, on top of IInv: what is in the queue *)
(* and on the wire about every topic.                                       *)

About(s, t) == {i \in 1..Len(s) : s[i].topic = t}
FirstAsks(s, t) == \E i \in About(s, t) : s[i].op = "subscribe" /\ \A j \in About(s, t) : i <= j
LastAsks(s, t) == \E i \in About(s, t) : s[i].op = "subscribe" /\ \A j \in About(s, t) : j <= i

\* Before the first connection nothing but a subscription comes first in the
\* queue, so that it comes last once onopen has turned the queue around.
QueueOK == \A t \in Topics : (t \notin mounted /\ About(msgQueue, t) = {}) \/ FirstAsks(msgQueue, t)

OutboxOK ==
    \A t \in mounted : leftAt > 0 \/ (About(outbox, t) = {} /\ <<1, t>> \in subs) \/ LastAsks(outbox, t)

SocketOK == socket # 0 => socket = lastConn /\ socket \in DOMAIN handler /\ handler[socket] # "closing"

SubscriptionsOK ==
    /\ focus.live => believed = mounted
    /\ lastConn > 0 => focus.live
    /\ SocketOK
    /\ lastConn = 0 /\ focus.live => QueueOK
    /\ socket = 1 => OutboxOK

\* The invariant says what the run checks
LEMMA SubscriptionsFollow == IInv /\ SubscriptionsOK => OpenPagesAreSubscribed
<1> SUFFICES ASSUME IInv, SubscriptionsOK, lastConn = 1, Serving(socket), outbox = <<>>, NEW t \in mounted
             PROVE  <<socket, t>> \in subs \/ leftAt > 0
  BY DEF OpenPagesAreSubscribed
<1>1. About(outbox, t) = {}
  BY DEF About
<1>2. CASE socket = 1
  BY <1>1, <1>2 DEF SubscriptionsOK, OutboxOK, LastAsks
<1>3. socket # 0
  BY DEF Serving, IInv, ServerOK
<1> QED
  BY <1>2, <1>3 DEF SubscriptionsOK, SocketOK

\* A message at the end of a queue
LEMMA AppendedMessage ==
    ASSUME NEW s \in Seq(Message), NEW m \in Message, NEW t
    PROVE  /\ m.topic # t => About(s \o <<m>>, t) = About(s, t)
           /\ m.topic # t /\ LastAsks(s, t) => LastAsks(s \o <<m>>, t)
           /\ FirstAsks(s, t) => FirstAsks(s \o <<m>>, t)
           /\ m.topic = t /\ m.op = "subscribe" => LastAsks(s \o <<m>>, t)
           /\ m.topic = t /\ m.op = "subscribe" /\ About(s, t) = {} => FirstAsks(s \o <<m>>, t)
<1> DEFINE L == Len(s)
           z == s \o <<m>>
<1>1. L \in Nat /\ Len(z) = L + 1 /\ z[L + 1] = m /\ \A i \in 1..L : z[i] = s[i]
  OBVIOUS
<1> HIDE DEF L, z
<1>2. About(s, t) = {i \in 1..L : s[i].topic = t} /\ About(z, t) = {i \in 1..L + 1 : z[i].topic = t}
  BY <1>1 DEF About, L
<1>3. About(z, t) = IF m.topic = t THEN About(s, t) \cup {L + 1} ELSE About(s, t)
  BY <1>1, <1>2
<1>4. \A i \in About(s, t) : i \in 1..L /\ z[i] = s[i]
  BY <1>1, <1>2
<1>5. L + 1 \in About(z, t) <=> m.topic = t
  BY <1>1, <1>2
<1>6. m.topic # t /\ LastAsks(s, t) => LastAsks(z, t)
  BY <1>3, <1>4 DEF LastAsks
<1>7. FirstAsks(s, t) => FirstAsks(z, t)
  BY <1>1, <1>3, <1>4 DEF FirstAsks
<1>8. m.topic = t /\ m.op = "subscribe" => LastAsks(z, t)
  BY <1>1, <1>2, <1>5 DEF LastAsks
<1>9. m.topic = t /\ m.op = "subscribe" /\ About(s, t) = {} => FirstAsks(z, t)
  BY <1>1, <1>3, <1>5 DEF FirstAsks
<1> QED
  BY <1>3, <1>6, <1>7, <1>8, <1>9 DEF z

\* The queue turned around
LEMMA TurnedAround ==
    ASSUME NEW s \in Seq(Message), NEW t
    PROVE  /\ About(s, t) = {} => About(BackToFront(s), t) = {}
           /\ FirstAsks(s, t) => LastAsks(BackToFront(s), t)
<1> DEFINE L == Len(s)
           z == BackToFront(s)
<1>1. L \in Nat /\ Len(z) = L /\ \A i \in 1..L : z[i] = s[L - i + 1]
  BY BackToFrontType, LenProperties DEF BackToFront
<1> HIDE DEF L, z
<1>2. About(s, t) = {i \in 1..L : s[i].topic = t} /\ About(z, t) = {i \in 1..L : z[i].topic = t}
  BY <1>1 DEF About, L
<1>3. ASSUME NEW i \in About(z, t) PROVE L - i + 1 \in About(s, t) /\ i \in 1..L
  BY <1>1, <1>2
<1>4. ASSUME NEW i \in About(s, t) PROVE L - i + 1 \in About(z, t) /\ z[L - i + 1] = s[i] /\ i \in 1..L
  <2>1. i \in 1..L /\ L - i + 1 \in 1..L /\ L - (L - i + 1) + 1 = i
    BY <1>1, <1>2
  <2> QED
    BY <1>1, <1>2, <2>1
<1>5. About(s, t) = {} => About(z, t) = {}
  BY <1>3
<1>6. ASSUME FirstAsks(s, t) PROVE LastAsks(z, t)
  <2>1. PICK i \in About(s, t) : s[i].op = "subscribe" /\ \A j \in About(s, t) : i <= j
    BY <1>6 DEF FirstAsks
  <2>2. L - i + 1 \in About(z, t) /\ z[L - i + 1].op = "subscribe"
    BY <1>4, <2>1
  <2>3. ASSUME NEW j \in About(z, t) PROVE j <= L - i + 1
    <3>1. i <= L - j + 1 /\ j \in 1..L /\ i \in 1..L
      BY <1>3, <1>4, <2>1
    <3> QED
      BY <3>1, <1>1
  <2> QED
    BY <2>2, <2>3 DEF LastAsks
<1> QED
  BY <1>5, <1>6 DEF z

\* The first message of the wire arrives
LEMMA Arrived ==
    ASSUME NEW s \in Seq(Message), s # <<>>, NEW t
    PROVE  /\ About(s, t) = {} => About(Tail(s), t) = {} /\ Head(s).topic # t
           /\ LastAsks(s, t) => \/ LastAsks(Tail(s), t)
                                \/ About(Tail(s), t) = {} /\ Head(s).op = "subscribe" /\ Head(s).topic = t
<1> DEFINE L == Len(s)
           z == Tail(s)
<1>1. /\ L \in Nat /\ L > 0 /\ Len(z) = L - 1 /\ Head(s) = s[1]
      /\ \A i \in 1..L - 1 : z[i] = s[i + 1]
  BY HeadTailProperties, EmptySeq
<1> HIDE DEF L, z
<1>2. About(s, t) = {i \in 1..L : s[i].topic = t} /\ About(z, t) = {i \in 1..L - 1 : z[i].topic = t}
  BY <1>1 DEF About, L
<1>3. ASSUME NEW i \in About(z, t) PROVE i + 1 \in About(s, t) /\ i \in Nat /\ i > 0
  BY <1>1, <1>2
<1>4. About(s, t) = {} => About(z, t) = {} /\ Head(s).topic # t
  BY <1>1, <1>2, <1>3
<1>5. ASSUME LastAsks(s, t)
      PROVE  LastAsks(z, t) \/ (About(z, t) = {} /\ Head(s).op = "subscribe" /\ Head(s).topic = t)
  <2>1. PICK i \in About(s, t) : s[i].op = "subscribe" /\ \A j \in About(s, t) : j <= i
    BY <1>5 DEF LastAsks
  <2>2. i \in 1..L /\ s[i].topic = t
    BY <1>2, <2>1
  <2>3. CASE i = 1
    <3>1. ASSUME NEW j \in About(z, t) PROVE FALSE
      <4>1. j + 1 \in About(s, t) /\ j \in Nat /\ j > 0
        BY <1>3
      <4>2. j + 1 <= 1
        BY <2>1, <2>3, <4>1
      <4> QED
        BY <4>1, <4>2
    <3> QED
      BY <1>1, <2>1, <2>2, <2>3, <3>1
  <2>4. CASE i # 1
    <3>1. i - 1 \in 1..L - 1 /\ z[i - 1] = s[(i - 1) + 1] /\ (i - 1) + 1 = i
      BY <1>1, <2>2, <2>4
    <3>2. i - 1 \in About(z, t) /\ z[i - 1].op = "subscribe"
      BY <1>2, <2>1, <2>2, <3>1
    <3>3. \A j \in About(z, t) : j <= i - 1
      BY <1>3, <2>1, <2>2
    <3> QED
      BY <3>2, <3>3 DEF LastAsks
  <2> QED
    BY <2>3, <2>4
<1> QED
  BY <1>4, <1>5 DEF z

Quiet == UNCHANGED <<focus, believed, mounted, lastConn, socket, msgQueue>>

\* A step that touches neither the subscriptions nor the wire
LEMMA SubscriptionsKeep ==
    ASSUME IInv, SubscriptionsOK, Quiet, UNCHANGED <<outbox, subs>>, leftAt > 0 => leftAt' > 0, SocketOK'
    PROVE  SubscriptionsOK'
<1>1. focus.live' => believed' = mounted'
  BY DEF Quiet, SubscriptionsOK
<1>2. lastConn' > 0 => focus.live'
  BY DEF Quiet, SubscriptionsOK
<1>3. lastConn' = 0 /\ focus.live' => QueueOK'
  BY DEF Quiet, SubscriptionsOK, QueueOK, FirstAsks, About
<1>4. socket' = 1 => OutboxOK'
  BY DEF Quiet, SubscriptionsOK, OutboxOK, LastAsks, About
<1> QED
  BY <1>1, <1>2, <1>3, <1>4 DEF SubscriptionsOK

\* A step that leaves the socket and the handlers alone
LEMMA PagesOnly ==
    ASSUME IInv, SubscriptionsOK, UNCHANGED <<focus, believed, mounted, wire, handler, subs>>,
           leftAt > 0 => leftAt' > 0
    PROVE  SubscriptionsOK'
<1>1. Quiet /\ UNCHANGED <<outbox, subs>>
  BY DEF wire, Quiet
<1>2. SocketOK'
  BY <1>1 DEF SubscriptionsOK, SocketOK, Quiet
<1> QED
  BY <1>1, <1>2, SubscriptionsKeep

\* The queue and the wire when one more message is emitted
LEMMA Emitted ==
    ASSUME IInv, SubscriptionsOK, focus.live, NEW m \in Message, Emit(<<m>>),
           UNCHANGED <<focus, socket, lastConn, subs, leftAt>>,
           mounted' \subseteq Topics, \A u \in Topics : u # m.topic => (u \in mounted' <=> u \in mounted),
           m.op = "subscribe" \/ (m.topic \in mounted /\ m.topic \notin mounted')
    PROVE  /\ lastConn' = 0 /\ focus'.live => QueueOK'
           /\ socket' = 1 => OutboxOK'
<1>1. outbox \in Seq(Message) /\ msgQueue \in Seq(Message) /\ socket \in 0..lastConn
  BY DEF IInv, WireOK
<1>2. ASSUME lastConn = 0, NEW u \in Topics
      PROVE  (u \notin mounted' /\ About(msgQueue', u) = {}) \/ FirstAsks(msgQueue', u)
  <2>1. msgQueue' = msgQueue \o <<m>>
    BY <1>1, <1>2 DEF Emit
  <2>2. (u \notin mounted /\ About(msgQueue, u) = {}) \/ FirstAsks(msgQueue, u)
    BY <1>2 DEF SubscriptionsOK, QueueOK
  <2>3. CASE u = m.topic
    <3>1. FirstAsks(msgQueue, u) => FirstAsks(msgQueue', u)
      BY <1>1, <2>1, AppendedMessage
    <3>2. m.op = "subscribe" /\ About(msgQueue, u) = {} => FirstAsks(msgQueue', u)
      BY <1>1, <2>1, <2>3, AppendedMessage
    <3> QED
      BY <2>2, <2>3, <3>1, <3>2
  <2>4. CASE u # m.topic
    <3>1. About(msgQueue', u) = About(msgQueue, u) /\ (FirstAsks(msgQueue, u) => FirstAsks(msgQueue', u))
      BY <1>1, <2>1, <2>4, AppendedMessage
    <3> QED
      BY <2>2, <2>4, <3>1
  <2> QED
    BY <2>3, <2>4
<1>3. ASSUME socket = 1, NEW u \in mounted', u \in Topics
      PROVE  leftAt' > 0 \/ (About(outbox', u) = {} /\ <<1, u>> \in subs') \/ LastAsks(outbox', u)
  <2>1. outbox' = outbox \o <<m>>
    BY <1>3 DEF Emit
  <2>2. CASE u = m.topic
    <3>1. m.op = "subscribe"
      BY <1>3, <2>2
    <3> QED
      BY <1>1, <2>1, <2>2, <3>1, AppendedMessage
  <2>3. CASE u # m.topic
    <3>1. leftAt > 0 \/ (About(outbox, u) = {} /\ <<1, u>> \in subs) \/ LastAsks(outbox, u)
      BY <1>3, <2>3 DEF SubscriptionsOK, OutboxOK
    <3>2. About(outbox', u) = About(outbox, u) /\ (LastAsks(outbox, u) => LastAsks(outbox', u))
      BY <1>1, <2>1, <2>3, AppendedMessage
    <3> QED
      BY <3>1, <3>2
  <2> QED
    BY <2>2, <2>3
<1> QED
  BY <1>2, <1>3 DEF QueueOK, OutboxOK

\* Without a web socket nothing is emitted and nothing is claimed
LEMMA NotLive ==
    ASSUME IInv, SubscriptionsOK, ~focus.live, UNCHANGED <<focus, socket, lastConn>>
    PROVE  SubscriptionsOK'
<1>1. lastConn = 0 /\ socket = 0
  BY DEF IInv, WireOK, SubscriptionsOK
<1> QED
  BY <1>1 DEF SubscriptionsOK, SocketOK

\* A page that opens: its subscription is the last message about its topic
LEMMA MountSubscribes ==
    ASSUME IInv, SubscriptionsOK, NEW t \in Topics, Mount(t)
    PROVE  SubscriptionsOK'
<1> DEFINE m == [op |-> "subscribe", topic |-> t]
<1>1. m \in Message /\ m.topic = t /\ m.op = "subscribe"
  BY DEF Message
<1>2. /\ t \notin mounted /\ mounted' = mounted \cup {t}
      /\ UNCHANGED <<focus, socket, lastConn, subs, leftAt, handler>>
  BY DEF Mount, database, server
<1>3. CASE focus.live
  <2>1. believed = mounted
    BY <1>3 DEF SubscriptionsOK
  <2>2. Emit(<<m>>) /\ believed' = mounted'
    BY <1>2, <1>3, <2>1 DEF Mount, Subscribe
  <2> HIDE DEF m
  <2>3. mounted' \subseteq Topics
    BY <1>2 DEF IInv, PagesOK
  <2>4. (lastConn' = 0 /\ focus'.live => QueueOK') /\ (socket' = 1 => OutboxOK')
    BY <1>1, <1>2, <1>3, <2>2, <2>3, Emitted
  <2> QED
    BY <1>2, <1>3, <2>2, <2>4 DEF SubscriptionsOK, SocketOK
<1>4. CASE ~focus.live
  BY <1>2, <1>4, NotLive
<1> QED
  BY <1>3, <1>4

\* A page that closes was subscribed to, so that its message goes out
LEMMA UnmountUnsubscribes ==
    ASSUME IInv, SubscriptionsOK, NEW t \in Topics, Unmount(t)
    PROVE  SubscriptionsOK'
<1> DEFINE m == [op |-> "unsubscribe", topic |-> t]
<1>1. m \in Message /\ m.topic = t
  BY DEF Message
<1>2. /\ t \in mounted /\ mounted' = mounted \ {t}
      /\ UNCHANGED <<focus, socket, lastConn, subs, leftAt, handler>>
  BY DEF Unmount, database, server
<1>3. CASE focus.live
  <2>1. believed = mounted
    BY <1>3 DEF SubscriptionsOK
  <2>2. Emit(<<m>>) /\ believed' = mounted'
    BY <1>2, <1>3, <2>1 DEF Unmount, Unsubscribe
  <2> HIDE DEF m
  <2>3. mounted' \subseteq Topics
    BY <1>2 DEF IInv, PagesOK
  <2>4. (lastConn' = 0 /\ focus'.live => QueueOK') /\ (socket' = 1 => OutboxOK')
    BY <1>1, <1>2, <1>3, <2>2, <2>3, Emitted
  <2> QED
    BY <1>2, <1>3, <2>2, <2>4 DEF SubscriptionsOK, SocketOK
<1>4. CASE ~focus.live
  BY <1>2, <1>4, NotLive
<1> QED
  BY <1>3, <1>4

\* onopen sends the queue from its end
LEMMA ConnectSends ==
    ASSUME IInv, SubscriptionsOK, Connect
    PROVE  SubscriptionsOK'
<1>1. /\ focus.live /\ socket = 0 /\ lastConn' = lastConn + 1 /\ socket' = lastConn'
      /\ handler' = [c \in DOMAIN handler \cup {lastConn'} |-> IF c = lastConn' THEN "accepted" ELSE handler[c]]
      /\ outbox' = BackToFront(msgQueue)
      /\ UNCHANGED <<focus, mounted, believed, leftAt, subs>>
  BY DEF Connect, pages, store, database
<1>2. lastConn \in Nat /\ msgQueue \in Seq(Message) /\ mounted \subseteq Topics
  BY DEF IInv, WireOK, PagesOK
<1>3. SocketOK'
  BY <1>1 DEF SocketOK
<1>4. ASSUME socket' = 1, NEW u \in mounted PROVE LastAsks(outbox', u)
  <2>1. lastConn = 0 /\ u \in Topics
    BY <1>1, <1>2, <1>4
  <2>2. FirstAsks(msgQueue, u)
    BY <1>1, <2>1 DEF SubscriptionsOK, QueueOK
  <2> QED
    BY <1>1, <1>2, <2>2, TurnedAround
<1>5. socket' = 1 => OutboxOK'
  BY <1>1, <1>4 DEF OutboxOK
<1>6. lastConn' # 0
  BY <1>1, <1>2
<1> QED
  BY <1>1, <1>3, <1>5, <1>6 DEF SubscriptionsOK

\* The messages of the first connection arrive in the order they were sent
LEMMA ReceiveSubscribes ==
    ASSUME IInv, SubscriptionsOK, Receive
    PROVE  SubscriptionsOK'
<1> DEFINE m == Head(outbox)
<1>1. /\ outbox # <<>> /\ outbox' = Tail(outbox)
      /\ subs' = IF m.op = "unsubscribe" THEN subs \ {<<socket, m.topic>>}
                 ELSE IF m.topic = "group" \/ leftAt = 0 THEN subs \cup {<<socket, m.topic>>} ELSE subs
      /\ UNCHANGED <<leftAt, handler, socket, msgQueue, lastConn, focus, mounted, believed>>
  BY DEF Receive, server, pages, store
<1>2. outbox \in Seq(Message) /\ leftAt \in Nat
  BY DEF IInv, WireOK, DatabaseOK
<1> HIDE DEF m
<1>3. ASSUME socket = 1, NEW u \in mounted, leftAt = 0
      PROVE  (About(outbox', u) = {} /\ <<1, u>> \in subs') \/ LastAsks(outbox', u)
  <2>1. (About(outbox, u) = {} /\ <<1, u>> \in subs) \/ LastAsks(outbox, u)
    BY <1>3 DEF SubscriptionsOK, OutboxOK
  <2>2. CASE About(outbox, u) = {} /\ <<1, u>> \in subs
    <3>1. About(outbox', u) = {} /\ m.topic # u
      BY <1>1, <1>2, <2>2, Arrived DEF m
    <3> QED
      BY <1>1, <1>3, <2>2, <3>1
  <2>3. CASE LastAsks(outbox, u)
    <3>1. LastAsks(outbox', u) \/ (About(outbox', u) = {} /\ m.op = "subscribe" /\ m.topic = u)
      BY <1>1, <1>2, <2>3, Arrived DEF m
    <3> QED
      BY <1>1, <1>3, <3>1
  <2> QED
    BY <2>1, <2>2, <2>3
<1>4. socket' = 1 => OutboxOK'
  <2>1. socket' = socket /\ mounted' = mounted /\ leftAt' = leftAt /\ (leftAt = 0 \/ leftAt > 0)
    BY <1>1, <1>2
  <2> QED
    BY <2>1, <1>3 DEF OutboxOK
<1>5. lastConn' = 0 /\ focus'.live => QueueOK'
  BY <1>1 DEF SubscriptionsOK, QueueOK, FirstAsks, About
<1> QED
  BY <1>1, <1>4, <1>5 DEF SubscriptionsOK, SocketOK

\* A handler that ends deletes only its own subscriptions
LEMMA UnregisterSubscribes ==
    ASSUME IInv, SubscriptionsOK, NEW c \in DOMAIN handler, Unregister(c)
    PROVE  SubscriptionsOK'
<1>1. /\ handler[c] = "closing" /\ subs' = subs \ SubsOf(c) /\ handler' = Without(handler, c)
      /\ UNCHANGED <<leftAt, wire, focus, mounted, believed>>
  BY DEF Unregister, pages, store
<1>2. Quiet /\ UNCHANGED outbox
  BY <1>1 DEF wire, Quiet
<1>3. SocketOK'
  BY <1>1, <1>2 DEF SubscriptionsOK, SocketOK, Without, Quiet
<1>4. ASSUME socket = 1, NEW u \in mounted, <<1, u>> \in subs PROVE <<1, u>> \in subs'
  <2>1. c # 1
    BY <1>1, <1>4 DEF SubscriptionsOK, SocketOK
  <2> QED
    BY <1>1, <1>4, <2>1 DEF SubsOf
<1>5. socket' = 1 => OutboxOK'
  BY <1>1, <1>2, <1>4 DEF Quiet, SubscriptionsOK, OutboxOK, LastAsks, About
<1>6. lastConn' = 0 /\ focus'.live => QueueOK'
  BY <1>2 DEF Quiet, SubscriptionsOK, QueueOK, FirstAsks, About
<1> QED
  BY <1>2, <1>3, <1>5, <1>6 DEF SubscriptionsOK, Quiet

\* A handler that begins or notices that its socket is closed
LEMMA HandlerSubscribes ==
    ASSUME IInv, SubscriptionsOK, NEW c \in DOMAIN handler, Register(c) \/ Notice(c)
    PROVE  SubscriptionsOK'
<1>1. UNCHANGED <<leftAt, subs, wire, focus, mounted, believed>>
  BY DEF Register, Notice, database, pages, store
<1>2. Quiet /\ UNCHANGED <<outbox, subs>>
  BY <1>1 DEF wire, Quiet
<1>3. \/ handler' = [handler EXCEPT ![c] = "serving"]
      \/ c # socket /\ handler' = [handler EXCEPT ![c] = "closing"]
  BY DEF Register, Notice
<1>4. DOMAIN handler' = DOMAIN handler /\ (socket \in DOMAIN handler /\ handler[socket] # "closing" => handler'[socket] # "closing")
  BY <1>3 DEF IInv, ServerOK
<1>5. SocketOK'
  BY <1>2, <1>4 DEF SubscriptionsOK, SocketOK, Quiet
<1> QED
  BY <1>1, <1>2, <1>5, SubscriptionsKeep

\* The socket is closed, by a lost connection or with the server
LEMMA ClosedSubscribes ==
    ASSUME IInv, SubscriptionsOK, socket' = 0, UNCHANGED <<focus, mounted, believed, msgQueue, lastConn>>
    PROVE  SubscriptionsOK'
<1>1. lastConn' = 0 /\ focus'.live => QueueOK'
  BY DEF SubscriptionsOK, QueueOK, FirstAsks, About
<1> QED
  BY <1>1 DEF SubscriptionsOK, SocketOK

\* Whoever has left does not come back
LEMMA LeftForGood ==
    ASSUME IInv, NEW op \in Ops \ {"read"}, NEW t, Commit(op, t)
    PROVE  leftAt > 0 => leftAt' > 0
<1>1. leftAt' = leftAt \/ leftAt = 0
  BY DEF Ops, Commit, EndMembership
<1> QED
  BY <1>1 DEF IInv, DatabaseOK

\* Every step of the application keeps the invariant of the subscriptions
LEMMA ApplicationSubscribes ==
    ASSUME IInv, SubscriptionsOK, Application
    PROVE  SubscriptionsOK'
<1>1. CASE App
  BY <1>1, TopicsType, MountSubscribes DEF App
<1>2. ASSUME NEW op, NEW t, Do(op, t) PROVE SubscriptionsOK'
  <2>1. UNCHANGED <<focus, believed, mounted, wire, handler, subs, leftAt>>
    BY <1>2 DEF Do, database, server, pages, store
  <2> QED
    BY <2>1, PagesOnly
<1>3. CASE WebPages
  <2>1. CASE OpenGroup \/ CloseGroup
    BY <2>1, TopicsType, MountSubscribes, UnmountUnsubscribes DEF OpenGroup, CloseGroup
  <2>2. CASE GroupGone
    <3>1. PICK t \in GroupTopics : Unmount(t)
      BY <2>2 DEF GroupGone
    <3> QED
      BY <3>1, UnmountUnsubscribes DEF Topics
  <2>3. CASE GroupMemberList \/ GroupSettings \/ GroupList \/ GroupInvite
    BY <1>2, <2>3 DEF GroupMemberList, GroupSettings, GroupList, GroupInvite, GroupCreateModal, GroupDeleteModal
  <2>4. CASE GroupLog \/ GroupInvites
    BY <1>2, <2>4, TopicsType, MountSubscribes, UnmountUnsubscribes
       DEF GroupLog, GroupInvites, InviteLinkCreate, OpenTab, CloseTab
  <2> QED
    BY <1>3, <2>1, <2>2, <2>3, <2>4 DEF WebPages
<1>4. CASE MobileScreens
  <2>1. CASE RootNavigator \/ DrawerContent
    BY <2>1, TopicsType, MountSubscribes, UnmountUnsubscribes DEF RootNavigator, DrawerContent
  <2>2. CASE AddGroup
    BY <1>2, <2>2 DEF AddGroup
  <2>3. CASE Refetch \/ MobileGroupList
    <3>1. UNCHANGED <<focus, believed, mounted, wire, handler, subs, leftAt>>
      BY <2>3 DEF Refetch, MobileGroupList, database, server, pages
    <3> QED
      BY <3>1, PagesOnly
  <2> QED
    BY <1>4, <2>1, <2>2, <2>3 DEF MobileScreens
<1>5. CASE \E r \in Slots : Answer(r) \/ Fail(r)
  <2>1. UNCHANGED <<focus, believed, mounted, wire, handler, subs, leftAt>>
    BY <1>5 DEF Answer, Fail, database, server, pages, store
  <2> QED
    BY <2>1, PagesOnly
<1>6. CASE Connect
  BY <1>6, ConnectSends
<1>7. CASE Drop
  BY <1>7, ClosedSubscribes DEF Drop, Disconnected, pages, store
<1>8. CASE Hear
  <2>1. Quiet /\ UNCHANGED <<outbox, subs, leftAt, handler>>
    BY <1>8 DEF Hear, Quiet, database, server, pages
  <2>2. SocketOK'
    BY <2>1 DEF Quiet, SubscriptionsOK, SocketOK
  <2> QED
    BY <2>1, <2>2, SubscriptionsKeep
<1> QED
  BY <1>1, <1>3, <1>4, <1>5, <1>6, <1>7, <1>8 DEF Application

\* Every step of the server keeps it
LEMMA ServerSubscribes ==
    ASSUME IInv, SubscriptionsOK, Server
    PROVE  SubscriptionsOK'
<1>1. CASE \E r \in Slots : Execute(r)
  <2>1. PICK r \in Slots : Execute(r)
    BY <1>1
  <2>2. requests[r] \in Request
    BY <2>1 DEF Execute, IInv, RequestsOK
  <2>3. requests[r].op \in Ops
    BY <2>2 DEF Request, Ops
  <2>4. UNCHANGED <<focus, believed, mounted, wire, handler, subs>>
    BY <2>1 DEF Execute, server, pages, store
  <2>5. leftAt > 0 => leftAt' > 0
    BY <2>1, <2>3, LeftForGood DEF Execute
  <2> QED
    BY <2>4, <2>5, PagesOnly
<1>2. CASE \E c \in DOMAIN handler : Register(c) \/ Notice(c) \/ Unregister(c)
  BY <1>2, HandlerSubscribes, UnregisterSubscribes
<1>3. CASE Receive
  BY <1>3, ReceiveSubscribes
<1>4. CASE Deliver
  <2>1. Quiet /\ UNCHANGED <<outbox, subs, leftAt, handler>>
    BY <1>4 DEF Deliver, Quiet, server, pages, store
  <2>2. SocketOK'
    BY <2>1 DEF Quiet, SubscriptionsOK, SocketOK
  <2> QED
    BY <2>1, <2>2, SubscriptionsKeep
<1>5. CASE Crash \/ Shutdown
  BY <1>5, ClosedSubscribes DEF Crash, Shutdown, Stopped, Disconnected, pages, store
<1>6. CASE Boot
  <2>1. UNCHANGED <<focus, believed, mounted, lastConn, socket, msgQueue>> /\ DOMAIN handler = {} /\ handler' = handler
    BY <1>6 DEF Boot, wire, pages, store, IInv, ServerOK
  <2>2. socket = 0
    BY <2>1 DEF SubscriptionsOK, SocketOK
  <2> QED
    BY <2>1, <2>2, ClosedSubscribes
<1> QED
  BY <1>1, <1>2, <1>3, <1>4, <1>5, <1>6 DEF Server

\* Whatever the other users and devices do leaves the subscriptions alone
LEMMA OthersSubscribe ==
    ASSUME IInv, SubscriptionsOK, Elsewhere \/ UNCHANGED vars
    PROVE  SubscriptionsOK'
<1>1. UNCHANGED <<focus, believed, mounted, wire, handler, subs>>
  BY DEF Elsewhere, vars, database, server, pages, store
<1>2. leftAt > 0 => leftAt' > 0
  <2>1. CASE Elsewhere
    <3>1. PICK op \in Ops \ {"read"}, t \in Topics : Commit(op, t)
      BY <2>1, TopicsType DEF Elsewhere, Ops
    <3> QED
      BY <3>1, LeftForGood
  <2>2. CASE UNCHANGED vars
    BY <2>2 DEF vars, database
  <2> QED
    BY <2>1, <2>2
<1> QED
  BY <1>1, <1>2, PagesOnly

\* As long as its first connection lives, an open page is subscribed once its
\* messages have arrived, in whatever order pages were opened and closed before
\* (subscribe, unsubscribe, onopen, ws_message)
THEOREM OpenPagesSubscribed == Spec => []OpenPagesAreSubscribed
<1>1. Init => SubscriptionsOK
  <2> SUFFICES ASSUME Init PROVE SubscriptionsOK
    OBVIOUS
  <2>1. QueueOK
    BY DEF Init, QueueOK, About
  <2> QED
    BY <2>1 DEF Init, SubscriptionsOK, SocketOK
<1>2. IInv /\ SubscriptionsOK /\ [Next]_vars => SubscriptionsOK'
  BY ApplicationSubscribes, ServerSubscribes, OthersSubscribe DEF Next
<1>3. Spec => []SubscriptionsOK
  BY <1>1, <1>2, Inductive, PTL DEF Spec
<1> QED
  BY <1>3, Inductive, SubscriptionsFollow, PTL
=============================================================================
