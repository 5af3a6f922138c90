------------------------------ MODULE LiveUpdates ------------------------------
(***************************************************************************)
(* How a page learns that what it shows has changed: the pages of one      *)
(* application, its web socket, the notification manager of the server,    *)
(* and the tables forwarder, connection and subscription of the database   *)
(* with the triggers that notify the connections.                          *)
(*                                                                         *)
(* A topic is a type of subscription together with its element: "group" is *)
(* the list of the groups of the user, the others belong to one group.     *)
(* Left out: other users' connections, other groups, the text of messages. *)
(*                                                                         *)
(* The library opens its web socket in setUrl.  Neither application calls  *)
(* it at this commit, so that subscribe always fails in send: the          *)
(* behaviours that are not "live" show this, the live ones what the        *)
(* library and the server do once an application opens the socket.         *)
(***************************************************************************)
EXTENDS Integers, Sequences, FiniteSets

CONSTANTS
    Focuses,    \* an application, a tab of the group's page, and whether the
                \* application has opened its web socket (live)
    Slots,      \* requests of the application under way at a time
    MaxEvents   \* changes, visits of pages, lost connections and restarts

ASSUME UpdateBounds ==
    /\ Focuses \subseteq [app : {"web", "mobile"}, tab : {"group_invite", "group_log"}, live : BOOLEAN]
    /\ IsFiniteSet(Slots)
    /\ MaxEvents \in Nat

GroupTopics == {"group_member", "group_invite", "group_log"}
Topics == {"group"} \cup GroupTopics

VARIABLES
    focus,        \* [app, tab, live]: what this behaviour is about
    \* the database
    version,      \* committed changes of every topic
    leftAt,       \* the version of "group" at which the user left the group, or 0
    rows,         \* table connection
    subs,         \* table subscription: <<connection, topic>>
    channel,      \* notifications on their way to the listening forwarder
    \* the server
    up,           \* the process runs and listens
    handler,      \* the coroutines of the web sockets, by connection
    \* the application
    socket,       \* the connection of the open web socket, 0 while connecting
    outbox,       \* messages under way to the server
    inbox,        \* notifications under way to the application
    msgQueue,     \* messages that wait for an open socket
    mounted,      \* the topics of the pages that are open
    refetch,      \* an effect of RootNavigator is to fetch the members again
    believed,     \* subscriptions.subscriptions
    requests,     \* requests to the REST api
    shown,        \* the version of every topic in the store
    listed,       \* the group is in groups.byId
    info,         \* the group is in byGroupId
    \* bounds and history
    lastConn,     \* connections there have been
    events,       \* how many of MaxEvents have happened
    owed          \* topics announced to the open connection and not read since

database == <<version, leftAt, rows, subs, channel>>
server == <<up, handler>>
wire == <<socket, outbox, inbox, msgQueue, lastConn>>
pages == <<focus, mounted, refetch>>
store == <<believed, shown, listed, info>>
vars == <<database, server, wire, pages, store, requests, events, owed>>

Idle == [topic |-> "none"]
Serving(c) == c \in DOMAIN handler /\ handler[c] = "serving"
SubsOf(c) == {s \in subs : s[1] = c}
Without(f, c) == [x \in DOMAIN f \ {c} |-> f[x]]

Init ==
    /\ focus \in Focuses
    /\ version = [t \in Topics |-> 0] /\ leftAt = 0
    /\ rows = {} /\ subs = {} /\ channel = <<>>
    /\ up = TRUE /\ handler = [c \in {} |-> "accepted"]
    /\ socket = 0 /\ outbox = <<>> /\ inbox = <<>> /\ msgQueue = <<>>
    /\ mounted = {} /\ refetch = FALSE /\ believed = {}
    /\ requests = [r \in Slots |-> Idle]
    /\ shown = [t \in Topics |-> -1] /\ listed = FALSE /\ info = FALSE
    /\ lastConn = 0 /\ events = 0
    /\ owed = {}

Count == events < MaxEvents /\ events' = events + 1

-----------------------------------------------------------------------------
(* Changes, and the triggers of the database. *)

\* Mutant of Audience: notify_group does not look at the members.
Subscribers(t) == {s[1] : s \in {u \in subs : u[2] = t}}

\* notify_user for the list of groups; notify_group tells the members only.
Audience(t) == IF t = "group" \/ leftAt = 0 THEN {s[1] : s \in {u \in subs : u[2] = t}} ELSE {}

\* pg_notify: without a listener the notification is gone.
Announce(t) ==
    /\ channel' = IF up /\ Audience(t) # {} THEN Append(channel, [topic |-> t, conns |-> Audience(t)]) ELSE channel
    /\ owed' = IF up /\ socket \in Audience(t) THEN owed \cup {t} ELSE owed

Bump(changed) == version' = [t \in Topics |-> IF t \in changed THEN version[t] + 1 ELSE version[t]]

\* The membership of the user ends: the list of groups and the members change.
EndMembership ==
    /\ leftAt = 0
    /\ leftAt' = version["group"] + 1
    /\ Bump({"group", "group_member"})

\* What a transaction changes and whom its triggers tell.  group_updated asks for
\* subscriptions to "group" with the id of the group, but they have the id of
\* the user; leaving a group tells those who stay, deleting it tells the user.
Commit(op, t) ==
    CASE op = "change" -> Bump({t}) /\ UNCHANGED leftAt /\ Announce(t)
      [] op = "join" -> Bump({"group"}) /\ UNCHANGED leftAt /\ Announce("group")
      [] op = "rename" -> leftAt = 0 /\ Bump({"group"}) /\ UNCHANGED <<leftAt, channel, owed>>
      [] op = "leave" -> EndMembership /\ UNCHANGED <<channel, owed>>
      [] op = "delete" -> EndMembership /\ Announce("group")

\* Somebody else changes the group, or the user does it on another device.
Elsewhere ==
    /\ Count
    /\ \/ \E t \in {"group_member", focus.tab} : Commit("change", t)
       \/ \E op \in {"join", "rename", "leave", "delete"} : Commit(op, "group")
    /\ UNCHANGED <<rows, subs, server, wire, pages, store, requests>>

-----------------------------------------------------------------------------
(* Requests to the REST api. *)

Send(op, t) ==
    /\ \E r \in Slots : requests[r] = Idle
    /\ requests' = [requests EXCEPT ![CHOOSE r \in Slots : requests[r] = Idle] =
                      [op |-> op, topic |-> t, stage |-> "sent", since |-> IF op = "read" THEN version[t] ELSE 0, val |-> 0]]

\* fetchGroups, fetchGroupMembers, ...; fetchGroupMembers.pending makes the
\* entry of the group.
Fetch(t) ==
    /\ Send("read", t)
    /\ owed' = owed \ {t}
    /\ info' = (info \/ t = "group_member")

\* Of a group only its members read or change anything.
Allowed(q) == leftAt = 0 \/ q.op = "join" \/ (q.op = "read" /\ q.topic = "group")

Execute(r) ==
    LET q == requests[r]
    IN /\ up
       /\ q # Idle /\ q.stage = "sent" /\ Allowed(q)
       /\ requests' = [requests EXCEPT ![r].stage = "answered",
                                       ![r].val = IF q.op = "read" THEN version[q.topic] ELSE 0]
       /\ IF q.op = "read" THEN UNCHANGED <<version, leftAt, channel, owed>> ELSE Commit(q.op, q.topic)
       /\ UNCHANGED <<rows, subs, server, wire, pages, store, events>>

\* The group is among those an answer lists.
Listed(val) == leftAt = 0 \/ val < leftAt

\* Mutant of Cell: fetchGroupInvites.fulfilled writes into groupMembers.
CellOfMembers(t) == IF t = "group" THEN t ELSE "group_member"

\* The part of the store an answer about a topic goes to.
Cell(t) == t

\* fetchGroups.fulfilled, fetchGroupMembers.fulfilled, ...: the reducers of a
\* group fail without its entry.  A new list of groups makes RootNavigator fetch.
AnswerRead(q) ==
    /\ shown' = IF q.topic = "group" \/ info THEN [shown EXCEPT ![Cell(q.topic)] = q.val] ELSE shown
    /\ listed' = IF q.topic = "group" THEN Listed(q.val) ELSE listed
    /\ refetch' = (refetch \/ (q.topic = "group" /\ focus.app = "mobile" /\ "group_member" \in mounted))
    /\ UNCHANGED info

\* leaveGroup.fulfilled drops the group; updateGroup.fulfilled enters it, even
\* when it has been dropped; the others change entries of the lists only.
AnswerChange(q) ==
    /\ listed' = ((listed \/ q.op = "rename") /\ q.op # "leave")
    /\ info' = (info /\ q.op # "leave")
    /\ UNCHANGED <<shown, refetch>>

Answer(r) ==
    LET q == requests[r]
    IN /\ q # Idle /\ q.stage = "answered"
       /\ requests' = [requests EXCEPT ![r] = Idle]
       /\ IF q.op = "read" THEN AnswerRead(q) ELSE AnswerChange(q)
       /\ UNCHANGED <<database, server, wire, focus, mounted, believed, events, owed>>

\* The request is refused, times out, or its answer is lost.
Fail(r) ==
    /\ requests[r] # Idle
    /\ requests' = [requests EXCEPT ![r] = Idle]
    /\ UNCHANGED <<database, server, wire, pages, store, events, owed>>

-----------------------------------------------------------------------------
(* Subscriptions of pages. *)

\* AbrechnungWebSocket.send.
Emit(messages) ==
    /\ outbox' = IF socket = 0 THEN outbox ELSE outbox \o messages
    /\ msgQueue' = IF socket = 0 THEN msgQueue \o messages ELSE msgQueue

\* subscribe, which does nothing for a subscription the store believes in, and
\* is rejected when there is no web socket to ask for its readyState.
Subscribe(t) ==
    /\ believed' = IF focus.live THEN believed \cup {t} ELSE believed
    /\ Emit(IF t \in believed \/ ~focus.live THEN <<>> ELSE <<[op |-> "subscribe", topic |-> t]>>)

\* Mutant of Unsubscribe: unsubscribe.fulfilled does not find the subscription.
UnsubscribeOnly(t) ==
    /\ UNCHANGED believed
    /\ Emit(IF t \in believed THEN <<[op |-> "unsubscribe", topic |-> t]>> ELSE <<>>)

Unsubscribe(t) ==
    /\ believed' = believed \ {t}
    /\ Emit(IF t \in believed THEN <<[op |-> "unsubscribe", topic |-> t]>> ELSE <<>>)

\* The effects of a page that opens: it subscribes and fetches.
Mount(t) ==
    /\ t \notin mounted
    /\ mounted' = mounted \cup {t}
    /\ Subscribe(t)
    /\ Fetch(t)
    /\ UNCHANGED <<focus, refetch, database, server, socket, inbox, lastConn, shown, listed>>

Unmount(t) ==
    /\ t \in mounted
    /\ mounted' = mounted \ {t}
    /\ Unsubscribe(t)
    /\ UNCHANGED <<focus, refetch, database, server, socket, inbox, lastConn, shown, listed, info,
                   requests, owed>>

-----------------------------------------------------------------------------
(* The pages of the web application. *)

Web == focus.app = "web"
Tabs == mounted \ {"group", "group_member"}

\* The user does something on a page.
Do(op, t) ==
    /\ Count
    /\ Send(op, t)
    /\ UNCHANGED <<database, server, wire, pages, store, owed>>

\* The application starts; the user is logged in.
App == Mount("group") /\ UNCHANGED events

OpenGroup == "group" \in mounted /\ listed /\ Count /\ Mount("group_member")

CloseGroup == Tabs = {} /\ Count /\ Unmount("group_member")

\* groupExists has become false: the pages of the group close.
GroupGone ==
    /\ ~listed
    /\ \E t \in GroupTopics : (t = "group_member" => Tabs = {}) /\ Unmount(t)
    /\ UNCHANGED events

\* The page waits for the members; groupMembersStatus is "initialized".
InGroup == "group_member" \in mounted /\ shown["group_member"] >= 0

OpenTab(t) == t = focus.tab /\ InGroup /\ Count /\ Mount(t)
CloseTab(t) == Count /\ Unmount(t)

GroupMemberList == InGroup /\ Do("change", "group_member")
GroupLog ==
    \/ OpenTab("group_log") \/ CloseTab("group_log")
    \/ "group_log" \in mounted /\ Do("change", "group_log")
InviteLinkCreate == Do("change", "group_invite")
GroupInvites ==
    \/ OpenTab("group_invite") \/ CloseTab("group_invite")
    \/ "group_invite" \in mounted /\ (InviteLinkCreate \/ Do("change", "group_invite"))
GroupSettings == InGroup /\ (Do("rename", "group") \/ Do("leave", "group"))

GroupCreateModal == Do("join", "group")
GroupDeleteModal == listed /\ Do("delete", "group")
GroupList == "group" \in mounted /\ (GroupCreateModal \/ GroupDeleteModal)
GroupInvite == "group" \in mounted /\ Do("join", "group")

WebPages ==
    \/ OpenGroup \/ CloseGroup \/ GroupGone
    \/ GroupMemberList \/ GroupLog \/ GroupInvites \/ GroupSettings \/ GroupList \/ GroupInvite

-----------------------------------------------------------------------------
(* The screens of the mobile application. *)

\* As long as no group was active, the first of the list becomes the active one.
RootNavigator == "group" \in mounted /\ listed /\ ~info /\ Count /\ Mount("group_member")

\* The user makes another group the active one, or this one again.
DrawerContent ==
    /\ "group" \in mounted
    /\ Count
    /\ Unmount("group_member") \/ (listed /\ Mount("group_member"))

\* The list of groups is new.
Refetch ==
    /\ refetch
    /\ refetch' = FALSE
    /\ Fetch("group_member")
    /\ UNCHANGED <<database, server, wire, focus, mounted, believed, shown, listed, events>>

\* The user pulls the list of groups down.
MobileGroupList ==
    /\ "group" \in mounted
    /\ Count
    /\ Fetch("group")
    /\ UNCHANGED <<database, server, wire, pages, believed, shown, listed>>

AddGroup == "group" \in mounted /\ Do("join", "group")

MobileScreens == RootNavigator \/ DrawerContent \/ Refetch \/ MobileGroupList \/ AddGroup

-----------------------------------------------------------------------------
(* The web socket. *)

BackToFront(s) == [i \in 1..Len(s) |-> s[Len(s) - i + 1]]

\* websocket.accept, and onopen, which pops the queue from its end.
Connect ==
    /\ focus.live /\ up /\ socket = 0
    /\ lastConn' = lastConn + 1
    /\ socket' = lastConn'
    /\ handler' = [c \in DOMAIN handler \cup {lastConn'} |-> IF c = lastConn' THEN "accepted" ELSE handler[c]]
    /\ outbox' = BackToFront(msgQueue) /\ msgQueue' = <<>>
    /\ UNCHANGED <<database, up, inbox, pages, store, requests, events, owed>>

\* Nothing is under way to or from a socket that is closed.
Disconnected ==
    /\ socket' = 0 /\ outbox' = <<>> /\ inbox' = <<>>
    /\ owed' = {}
    /\ UNCHANGED <<msgQueue, lastConn>>

Drop ==
    /\ socket # 0
    /\ Count
    /\ Disconnected
    /\ UNCHANGED <<database, server, pages, store, requests>>

\* client_connected, and then active_connections.
Register(c) ==
    /\ handler[c] = "accepted"
    /\ rows' = rows \cup {c}
    /\ handler' = [handler EXCEPT ![c] = "serving"]
    /\ UNCHANGED <<version, leftAt, subs, channel, up, wire, pages, store, requests, events, owed>>

\* ws_message: subscribe refuses who is not a member of the group.
Receive ==
    /\ Serving(socket) /\ outbox # <<>>
    /\ outbox' = Tail(outbox)
    /\ subs' = IF Head(outbox).op = "unsubscribe" THEN subs \ {<<socket, Head(outbox).topic>>}
               ELSE IF Head(outbox).topic = "group" \/ leftAt = 0 THEN subs \cup {<<socket, Head(outbox).topic>>} ELSE subs
    /\ UNCHANGED <<version, leftAt, rows, channel, server, socket, inbox, msgQueue, lastConn,
                   pages, store, requests, events, owed>>

\* receive_json finds the socket closed: first active_connections is updated,
\* then client_disconnected deletes the row and with it its subscriptions.
Notice(c) ==
    /\ Serving(c) /\ c # socket
    /\ handler' = [handler EXCEPT ![c] = "closing"]
    /\ UNCHANGED <<database, up, wire, pages, store, requests, events, owed>>

\* Mutant of Unregister: the foreign key without on delete cascade.
UnregisterOnly(c) ==
    /\ handler[c] = "closing"
    /\ rows' = rows \ {c}
    /\ handler' = Without(handler, c)
    /\ UNCHANGED <<version, leftAt, subs, channel, up, wire, pages, store, requests, events, owed>>

\* Mutant of Unregister: without client_disconnected.
ForgetOnly(c) ==
    /\ handler[c] = "closing"
    /\ handler' = Without(handler, c)
    /\ UNCHANGED <<database, up, wire, pages, store, requests, events, owed>>

Unregister(c) ==
    /\ handler[c] = "closing"
    /\ rows' = rows \ {c} /\ subs' = subs \ SubsOf(c)
    /\ handler' = Without(handler, c)
    /\ UNCHANGED <<version, leftAt, channel, up, wire, pages, store, requests, events, owed>>

\* _on_psql_notification sends to one connection after the other; a socket
\* that is closed may make it stop before the others have got theirs.
Deliver ==
    /\ up /\ channel # <<>>
    /\ channel' = Tail(channel)
    /\ LET n == Head(channel)
           open == socket \in n.conns /\ Serving(socket)
           broken == \E c \in n.conns : Serving(c) /\ c # socket
       IN \/ /\ inbox' = IF open THEN Append(inbox, n.topic) ELSE inbox
             /\ UNCHANGED owed
          \/ open /\ broken
             /\ owed' = owed \ {n.topic}
             /\ UNCHANGED inbox
    /\ UNCHANGED <<version, leftAt, rows, subs, server, socket, outbox, msgQueue, lastConn,
                   pages, store, requests, events>>

\* Mutant of Hear: the switch over the types of notifications lacks one.
HearSome ==
    /\ inbox # <<>>
    /\ inbox' = Tail(inbox)
    /\ IF Head(inbox) = "group_member" THEN UNCHANGED <<requests, owed, info>> ELSE Fetch(Head(inbox))
    /\ UNCHANGED <<database, server, socket, outbox, msgQueue, lastConn, pages, believed, shown, listed, events>>

\* onmessage and the handler of AbrechnungUpdateProvider: fetch it again.
Hear ==
    /\ inbox # <<>>
    /\ inbox' = Tail(inbox)
    /\ Fetch(Head(inbox))
    /\ UNCHANGED <<database, server, socket, outbox, msgQueue, lastConn, pages, believed, shown, listed, events>>

-----------------------------------------------------------------------------
(* The process of the server. *)

Stopped ==
    /\ up
    /\ Count
    /\ up' = FALSE
    /\ handler' = [c \in {} |-> "accepted"]
    /\ channel' = <<>>
    /\ Disconnected
    /\ UNCHANGED <<version, leftAt, pages, store, requests>>

Crash == Stopped /\ UNCHANGED <<rows, subs>>

\* teardown: forwarder_stop deletes the connections.
Shutdown == Stopped /\ rows' = {} /\ subs' = {}

\* Mutant of Boot: forwarder_boot trusts that a stop has deleted everything.
BootOnly ==
    /\ ~up
    /\ up' = TRUE
    /\ UNCHANGED <<database, handler, wire, pages, store, requests, events, owed>>

\* forwarder_boot deletes what a crash has left.
Boot ==
    /\ ~up
    /\ up' = TRUE
    /\ rows' = {} /\ subs' = {}
    /\ UNCHANGED <<version, leftAt, channel, handler, wire, pages, store, requests, events, owed>>

-----------------------------------------------------------------------------
Application ==
    \/ App
    \/ Web /\ WebPages
    \/ focus.app = "mobile" /\ MobileScreens
    \/ \E r \in Slots : Answer(r) \/ Fail(r)
    \/ Connect \/ Drop \/ Hear

Server ==
    \/ \E r \in Slots : Execute(r)
    \/ \E c \in DOMAIN handler : Register(c) \/ Notice(c) \/ Unregister(c)
    \/ Receive \/ Deliver \/ Crash \/ Shutdown \/ Boot

Next == Application \/ Server \/ Elsewhere

\* The event loops of the application and of the server go on, and a request is
\* answered or fails.  Nobody has to restart the server or to visit a page.
Fairness ==
    /\ WF_vars(Connect)
    /\ WF_vars(Hear)
    /\ WF_vars(Deliver)
    /\ WF_vars(Receive)
    /\ WF_vars(\E c \in DOMAIN handler : Register(c) \/ Notice(c) \/ Unregister(c))
    /\ WF_vars(\E r \in Slots : Execute(r) \/ Answer(r) \/ Fail(r))

Spec == Init /\ [][Next]_vars /\ Fairness

-----------------------------------------------------------------------------
(* Properties. *)

Message == [op : {"subscribe", "unsubscribe"}, topic : Topics]
Request ==
    [op : {"read", "change", "rename", "join", "leave", "delete"}, topic : Topics, since : Nat,
     stage : {"sent", "answered"}, val : Nat]

TypeOK ==
    /\ version \in [Topics -> Nat] /\ leftAt \in Nat
    /\ rows \subseteq 1..lastConn /\ subs \subseteq rows \X Topics
    /\ channel \in Seq([topic : Topics, conns : SUBSET (1..lastConn)])
    /\ up \in BOOLEAN
    /\ handler \in [DOMAIN handler -> {"accepted", "serving", "closing"}]
    /\ DOMAIN handler \subseteq 1..lastConn
    /\ socket \in 0..lastConn /\ lastConn \in Nat
    /\ outbox \in Seq(Message) /\ msgQueue \in Seq(Message) /\ inbox \in Seq(Topics)
    /\ mounted \subseteq Topics /\ believed \subseteq Topics
    /\ requests \in [Slots -> Request \cup {Idle}]
    /\ shown \in [Topics -> Nat \cup {-1}]
    /\ focus \in Focuses /\ {refetch, listed, info} \subseteq BOOLEAN
    /\ events \in 0..MaxEvents
    /\ owed \subseteq Topics

\* The tables know exactly the connections the running server serves: a crash
\* or a lost connection leaves no row that is notified for ever, and no
\* connection is served that nobody can notify.
RowsAreServed ==
    up => rows = {c \in DOMAIN handler : handler[c] # "accepted"}

\* As long as its first connection lives, an open page is subscribed once its
\* messages have arrived, in whatever order pages are opened and closed while
\* the socket is still connecting (the queue is sent last in first out).
\* After a reconnect the store does not subscribe again.
OpenPagesAreSubscribed ==
    (lastConn = 1 /\ Serving(socket) /\ outbox = <<>>) =>
        \A t \in mounted : <<socket, t>> \in subs \/ leftAt > 0

\* After the user has left a group the database tells its connections nothing
\* more about the group, although their subscriptions stay.
LeaversHearNothing ==
    [][\A i \in 1..Len(channel') :
         channel'[i].topic \in GroupTopics /\ i > Len(channel) => leftAt = 0]_vars

\* What is announced to an open connection is read after that, unless the
\* connection is lost or a broken one is notified together with it.
AnnouncementsAreFetched == (owed # {}) ~> (owed = {})

\* When no more connections are lost, the rows of those that were are deleted,
\* unless the server has stopped.
ClosedConnectionsVanish == <>[](up => rows \subseteq {socket})

Asked(q) == IF q # Idle /\ q.op = "read" THEN [topic |-> q.topic, since |-> q.since] ELSE Idle

View == INSTANCE LaggingView
    WITH Readers <- Slots, asked <- [r \in Slots |-> Asked(requests[r])]

\* The pages show what LaggingView promises, whatever is lost on the way.
ShowsALaggingView == View!Spec
=============================================================================
