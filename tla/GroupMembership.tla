--------------------------- MODULE GroupMembership ---------------------------
(***************************************************************************)
(* Groups, memberships and invites of the backend                          *)
(* (abrechnung/application/groups.py over the tables grp, group_membership *)
(* and group_invite), for one group.                                       *)
(*                                                                         *)
(* Every service method runs in ONE database transaction at PostgreSQL's   *)
(* default isolation level, READ COMMITTED: each statement sees what is    *)
(* committed when it starts, writes stay invisible until the commit, and a *)
(* statement that needs a row another open transaction has written waits   *)
(* and then looks at the row again.  So a request here is a small state    *)
(* machine: a step that reads and checks, one step per blocking statement, *)
(* and Commit, which publishes the rows the request has written so far     *)
(* (its after-images).  Abort stands for every way to end without a        *)
(* commit: an exception of the handler, a constraint violation, a deadlock *)
(* victim, a lost connection.  A request whose first check fails changes   *)
(* nothing and is no step at all.                                          *)
(*                                                                         *)
(* Left out: the group's own columns, the group log (writing either        *)
(* matters here for the lock it takes on the group's row), notifications,  *)
(* and the account create_group and join_group may add for the new member: *)
(* its rows are new, in tables no request of this module reads.            *)
(***************************************************************************)
EXTENDS Naturals, FiniteSets

CONSTANTS Users,     \* registered users
          Guests,    \* those of them with is_guest_user
          Invites,   \* ids an invite of the group can get
          Requests,  \* database connections a request can run on
          None       \* no user, no invite

ASSUME GuestsAreUsers == Guests \subseteq Users
ASSUME FinitelyManyUsers == IsFiniteSet(Users)
ASSUME NoneIsNobody == None \notin Users \cup Invites

VARIABLES
    grp,       \* the group: "none" yet, "live" or "deleted"
    member,    \* committed rows of group_membership, per user
    invite,    \* committed rows of group_invite, per id
    req,       \* the open request of each connection
    redeemed   \* history: who has joined with each single-use invite

vars == <<grp, member, invite, req, redeemed>>

-----------------------------------------------------------------------------
(* Rows, requests and their types *)

Role(o, w) == [in |-> TRUE, owner |-> o, write |-> w]
Absent == [in |-> FALSE, owner |-> FALSE, write |-> FALSE]
MemberRow == [in : BOOLEAN, owner : BOOLEAN, write : BOOLEAN]

\* "unused" is an id not handed out yet; an expired invite keeps its row
InviteRow == [state : {"unused", "live", "expired", "deleted"},
              single : BOOLEAN, editor : BOOLEAN]
NoInvite == [state |-> "unused", single |-> FALSE, editor |-> FALSE]

PartialFunctions(S, T) == UNION {[D -> T] : D \in SUBSET S}
Nothing == [x \in {} |-> Absent]

\* The committed table f after the after-images w
Overlay(f, w) == [x \in DOMAIN f |-> IF x \in DOMAIN w THEN w[x] ELSE f[x]]

Statements == {"member", "count", "insert", "consume", "log", "write", "delinv", "updgrp",
               "delgrp", "cascade", "ready"}
Operations == {"create_invite", "delete_invite", "join_group", "update_group",
               "update_member_permissions", "delete_group", "leave_group"}

Request == [op : Operations \cup {"none"},
            pc : Statements \cup {"idle"},        \* the statement it runs next
            user : Users \cup {None},
            target : Users \cup {None},    \* member whose row it writes
            row : MemberRow,               \*   and what it writes there
            invite : Invites \cup {None},
            share : BOOLEAN,               \* holds FOR KEY SHARE on the group row
            grp : {"keep", "update", "delete"},          \* its write to the group row
            mem : PartialFunctions(Users, MemberRow),    \* its membership after-images
            inv : PartialFunctions(Invites, InviteRow),  \* its invite after-images
            stale : BOOLEAN]  \* history: somebody has committed since it first read

\* Mutant of Opened: the user of the session is lost on the way to the service
OpenedAnonymous(op, pc, u) ==
    [op |-> op, pc |-> pc, user |-> None, target |-> None, row |-> Absent,
     invite |-> None, share |-> FALSE, grp |-> "keep",
     mem |-> Nothing, inv |-> Nothing, stale |-> FALSE]

\* A request that has passed its first checks and is about to run statement pc
Opened(op, pc, u) ==
    [op |-> op, pc |-> pc, user |-> u, target |-> None, row |-> Absent,
     invite |-> None, share |-> FALSE, grp |-> "keep",
     mem |-> Nothing, inv |-> Nothing, stale |-> FALSE]
Idle == Opened("none", "idle", None)
Active(r) == req[r].pc # "idle"
Others(r) == {q \in Requests \ {r} : Active(q)}

TypeOK ==
    /\ grp \in {"none", "live", "deleted"}
    /\ member \in [Users -> MemberRow]
    /\ invite \in [Invites -> InviteRow]
    /\ req \in [Requests -> Request]
    /\ \A r \in Requests : Active(r) => req[r].user \in Users
    /\ redeemed \in [Invites -> SUBSET Users]

Init ==
    /\ grp = "none"
    /\ member = [u \in Users |-> Absent]
    /\ invite = [i \in Invites |-> NoInvite]
    /\ req = [r \in Requests |-> Idle]
    /\ redeemed = [i \in Invites |-> {}]

Members == {u \in Users : member[u].in}
HasRow(i) == invite[i].state \in {"live", "expired"}

committed == <<grp, member, invite, redeemed>>

-----------------------------------------------------------------------------
(* Locks, as far as other requests' uncommitted writes and shares hold them *)

\* Inserting a row that references the group takes FOR KEY SHARE on its row,
\* which only a pending delete of that row excludes
CanShareGroup(r) == \A q \in Others(r) : req[q].grp # "delete"
\* update grp takes FOR NO KEY UPDATE: it waits for other writers, not for shares
CanUpdateGroup(r) == \A q \in Others(r) : req[q].grp = "keep"
\* delete from grp takes FOR UPDATE: it waits for every other holder
CanDeleteGroup(r) == \A q \in Others(r) : req[q].grp = "keep" /\ ~req[q].share
CanWriteMember(r, u) == \A q \in Others(r) : u \notin DOMAIN req[q].mem
CanWriteInvite(r, i) == \A q \in Others(r) : i \notin DOMAIN req[q].inv

\* check_group_permissions: the caller must be a member, with the rights asked for
MayRead(u) == member[u].in
\* Mutant of MayWrite: the permission check without can_write=True
MayWriteIfMember(u) == member[u].in
MayWrite(u) == member[u].in /\ (member[u].owner \/ member[u].write)
IsOwner(u) == member[u].in /\ member[u].owner

Open(r, request) ==
    /\ ~Active(r)
    /\ req' = [req EXCEPT ![r] = request]
    /\ UNCHANGED committed

\* Request r has run a statement and goes on as request, publishing nothing
Proceed(r, request) ==
    /\ req' = [req EXCEPT ![r] = request]
    /\ UNCHANGED committed

-----------------------------------------------------------------------------
(* The first step of each request: its first read and what is checked of   *)
(* it.  join_group reads three rows here, one after the other; whatever    *)
(* could change in between is caught by the constraints when it inserts.   *)

\* create_group inserts rows nobody else can see or wait for, and commits
CreateGroup(u) ==
    /\ grp = "none"
    /\ u \notin Guests
    /\ grp' = "live"
    /\ member' = [member EXCEPT ![u] = Role(TRUE, TRUE)]
    /\ UNCHANGED <<invite, req, redeemed>>

CreateInvite(r, u, i) ==
    /\ u \notin Guests
    /\ MayWrite(u)
    /\ invite[i].state = "unused"
    /\ \A q \in Requests : ~(req[q].op = "create_invite" /\ req[q].invite = i)
    /\ \E single, editor \in BOOLEAN :
          Open(r, [Opened("create_invite", "log", u) EXCEPT
                     !.invite = i,
                     !.inv = [x \in {i} |-> [state |-> "live", single |-> single,
                                              editor |-> editor]]])

DeleteInvite(r, u, i) ==
    /\ MayWrite(u)
    /\ Open(r, [Opened("delete_invite", "delinv", u) EXCEPT !.invite = i])

JoinGroup(r, u, i) ==
    /\ invite[i].state = "live"
    /\ ~member[u].in
    /\ Open(r, [Opened("join_group", "insert", u) EXCEPT
                  !.invite = i,
                  !.target = u, !.row = Role(FALSE, invite[i].editor)])

UpdateGroup(r, u) ==
    /\ IsOwner(u)
    /\ Open(r, Opened("update_group", "updgrp", u))

\* Mutant of WithWrite: can_write taken as the caller sent it
WithWriteAsSent(o, w) == w
\* "not possible to have an owner without can_write"
WithWrite(o, w) == w \/ o

UpdateMemberPermissions(r, u, t, o, w) ==
    /\ u # t
    /\ MayWrite(u)
    /\ o => member[u].owner
    /\ Open(r, [Opened("update_member_permissions", "member", u) EXCEPT
                  !.target = t, !.row = Role(o, WithWrite(o, w))])

DeleteGroup(r, u) ==
    /\ IsOwner(u)
    /\ Open(r, Opened("delete_group", "count", u))

LeaveGroup(r, u) ==
    /\ MayRead(u)
    /\ Open(r, [Opened("leave_group", "count", u) EXCEPT
                  !.target = u, !.row = Absent])

-----------------------------------------------------------------------------
(* The statements that follow *)

\* Mutant of ReadMember: without the check that the member is not an owner yet
ReadAnyMember(r) ==
    /\ req[r].pc = "member"
    /\ member[req[r].target].in
    /\ member[req[r].target] # req[r].row
    /\ Proceed(r, [req[r] EXCEPT !.pc = "log"])

\* update_member_permissions reads the row it is about to change: it must be
\* there, differ from what was asked for, and not belong to an owner
ReadMember(r) ==
    /\ req[r].pc = "member"
    /\ member[req[r].target].in
    /\ member[req[r].target] # req[r].row
    /\ ~member[req[r].target].owner
    /\ Proceed(r, [req[r] EXCEPT !.pc = "log"])

\* Mutant: delete_group does not look at the number of members
CountMembersOnLeave(r) ==
    /\ req[r].pc = "count"
    /\ Proceed(r,
         [req[r] EXCEPT !.pc = IF Cardinality(Members) = 1 \/ req[r].op = "delete_group"
                               THEN "delgrp" ELSE "write"])

\* Mutant: leave_group does not look at the number of members
CountMembersOnDelete(r) ==
    /\ req[r].pc = "count"
    /\ req[r].op = "delete_group" => Cardinality(Members) = 1
    /\ Proceed(r,
         [req[r] EXCEPT !.pc = IF req[r].op = "delete_group" THEN "delgrp" ELSE "write"])

\* select count(user_id): delete_group refuses unless it is 1, leave_group
\* deletes the group when it is 1
CountMembers(r) ==
    /\ req[r].pc = "count"
    /\ req[r].op = "delete_group" => Cardinality(Members) = 1
    /\ Proceed(r,
         [req[r] EXCEPT !.pc = IF Cardinality(Members) = 1 THEN "delgrp" ELSE "write"])

\* insert into group_membership: primary key (user, group), foreign key to grp
InsertMembership(r) ==
    LET i == req[r].invite IN
    /\ req[r].pc = "insert"
    /\ CanWriteMember(r, req[r].target) /\ ~member[req[r].target].in
    /\ CanShareGroup(r) /\ grp = "live"
    /\ Proceed(r,
         [req[r] EXCEPT !.pc = IF invite[i].single THEN "consume" ELSE "ready",
                        !.share = TRUE,
                        !.mem = [x \in {req[r].target} |-> req[r].row]])

\* The row after-image of deleting invite i, if there is still a row
DeletedInvite(i) ==
    IF HasRow(i) THEN [x \in {i} |-> [invite[i] EXCEPT !.state = "deleted"]]
    ELSE Nothing

\* Mutant: join_group leaves the invite
KeepInvite(r) ==
    /\ req[r].pc = "consume"
    /\ Proceed(r, [req[r] EXCEPT !.pc = "ready"])

\* delete from group_invite at the end of join_group: nobody looks at how many
\* rows it deleted
ConsumeInvite(r) ==
    /\ req[r].pc = "consume"
    /\ CanWriteInvite(r, req[r].invite)
    /\ Proceed(r,
         [req[r] EXCEPT !.pc = "ready", !.inv = DeletedInvite(req[r].invite)])

\* delete from group_invite ... returning id: no row, no deletion
RemoveInvite(r) ==
    /\ req[r].pc = "delinv"
    /\ CanWriteInvite(r, req[r].invite) /\ HasRow(req[r].invite)
    /\ Proceed(r,
         [req[r] EXCEPT !.pc = "log", !.inv = DeletedInvite(req[r].invite)])

\* insert into group_log, a foreign key to grp.  create_invite inserts the
\* invite itself right after, under the lock it now holds
WriteLog(r) ==
    /\ req[r].pc = "log"
    /\ CanShareGroup(r) /\ grp = "live"
    /\ Proceed(r,
         [req[r] EXCEPT !.share = TRUE,
                        !.pc = IF req[r].op = "update_member_permissions"
                               THEN "write" ELSE "ready"])

\* update or delete of one group_membership row: no row, nothing happens
WriteMembership(r) ==
    LET t == req[r].target IN
    /\ req[r].pc = "write"
    /\ CanWriteMember(r, t)
    /\ Proceed(r,
         [req[r] EXCEPT !.pc = "ready",
                        !.mem = IF member[t].in THEN [x \in {t} |-> req[r].row]
                                ELSE Nothing])

\* update grp, and the log entry under the stronger lock this takes
UpdateGroupRow(r) ==
    /\ req[r].pc = "updgrp"
    /\ CanUpdateGroup(r) /\ grp = "live"
    /\ Proceed(r,
         [req[r] EXCEPT !.pc = "ready", !.grp = "update"])

\* Mutant: the foreign keys to grp without on delete cascade
DeleteGroupRowOnly(r) ==
    /\ req[r].pc = "delgrp"
    /\ CanDeleteGroup(r)
    /\ Proceed(r,
         [req[r] EXCEPT !.pc = "ready", !.grp = IF grp = "live" THEN "delete" ELSE "keep"])

\* delete from grp: no row any more, nothing happens
DeleteGroupRow(r) ==
    /\ req[r].pc = "delgrp"
    /\ CanDeleteGroup(r)
    /\ Proceed(r,
         IF grp = "live"
         THEN [req[r] EXCEPT !.pc = "cascade", !.grp = "delete"]
         ELSE [req[r] EXCEPT !.pc = "ready"])

\* on delete cascade: the memberships and invites there are by now
CascadeDelete(r) ==
    /\ req[r].pc = "cascade"
    /\ \A u \in Members : CanWriteMember(r, u)
    /\ \A i \in Invites : HasRow(i) => CanWriteInvite(r, i)
    /\ Proceed(r,
         [req[r] EXCEPT
            !.pc = "ready",
            !.mem = [u \in Members |-> Absent],
            !.inv = [i \in {j \in Invites : HasRow(j)} |->
                       [invite[i] EXCEPT !.state = "deleted"]]])

-----------------------------------------------------------------------------
(* The end of a request *)

Joins(r) == req[r].op = "join_group"

\* Everybody else with an open request may have read what has changed now
Published(r) ==
    [q \in Requests |->
       IF q = r THEN Idle
       ELSE IF Active(q) THEN [req[q] EXCEPT !.stale = TRUE] ELSE req[q]]

Commit(r) ==
    /\ req[r].pc = "ready"
    /\ member' = Overlay(member, req[r].mem)
    /\ invite' = Overlay(invite, req[r].inv)
    /\ grp' = IF req[r].grp = "delete" THEN "deleted" ELSE grp
    /\ redeemed' = [i \in Invites |->
                       IF Joins(r) /\ req[r].invite = i /\ invite[i].single
                       THEN redeemed[i] \cup {req[r].user} ELSE redeemed[i]]
    /\ req' = Published(r)

Abort(r) ==
    /\ Active(r)
    /\ req' = [req EXCEPT ![r] = Idle]
    /\ UNCHANGED committed

\* valid_until passes: join_group no longer finds the invite, its row stays
ExpireInvite(i) ==
    /\ invite[i].state = "live"
    /\ invite' = [invite EXCEPT ![i].state = "expired"]
    /\ UNCHANGED <<grp, member, req, redeemed>>

Start(r) ==
    \E u \in Users :
       \/ \E i \in Invites : CreateInvite(r, u, i)
       \/ \E i \in Invites : DeleteInvite(r, u, i)
       \/ \E i \in Invites : JoinGroup(r, u, i)
       \/ UpdateGroup(r, u)
       \/ \E t \in Users, o, w \in BOOLEAN : UpdateMemberPermissions(r, u, t, o, w)
       \/ DeleteGroup(r, u)
       \/ LeaveGroup(r, u)

Continue(r) ==
    \/ ReadMember(r)
    \/ CountMembers(r)
    \/ InsertMembership(r)
    \/ ConsumeInvite(r)
    \/ RemoveInvite(r)
    \/ WriteLog(r)
    \/ WriteMembership(r)
    \/ UpdateGroupRow(r)
    \/ DeleteGroupRow(r)
    \/ CascadeDelete(r)
    \/ Commit(r)
    \/ Abort(r)

Next ==
    \/ \E u \in Users : CreateGroup(u)
    \/ \E i \in Invites : ExpireInvite(i)
    \/ \E r \in Requests : Start(r)
    \/ \E r \in Requests : Continue(r)

Spec == Init /\ [][Next]_vars

-----------------------------------------------------------------------------
(* Properties.  READ COMMITTED does not make a request repeat its checks   *)
(* when it writes, so what the checks promise holds for a request that     *)
(* nobody overtook ("fresh": no other commit between its first read and    *)
(* its own commit), and for any request only where a constraint or a row   *)
(* lock repeats the check.                                                 *)

Finishes(r) == req[r].pc = "ready" /\ req'[r] = Idle
Overtaken == \E r \in Requests : Finishes(r) /\ req[r].stale

\* "not possible to have an owner without can_write" (groups.py:252), however
\* promotions, demotions and joins interleave
OwnerCanWrite == \A u \in Users : member[u].owner => member[u].in /\ member[u].write

\* A group that does not exist has no members and no invites: a join or an
\* invite that races with the deletion of the group leaves nothing behind
NothingOutlivesTheGroup ==
    grp # "live" => Members = {} /\ ~\E i \in Invites : HasRow(i)

\* Once somebody has joined with a single-use invite no later request finds it,
\* whichever requests deleted or used the invite at the same time
RedeemedInviteIsGone ==
    \A i \in Invites : HasRow(i) /\ invite[i].single => redeemed[i] = {}

\* "group owners cannot be demoted by other group members" (groups.py:273): a
\* member stops being an owner only by leaving, unless the request that demotes
\* the owner was overtaken by the one that promoted it
FreshRequestsDemoteNoOwner ==
    [][\A u \in Users :
         member[u].owner /\ member'[u].in /\ ~member'[u].owner => Overtaken]_vars

\* "Can only delete a group when you are the last member" (groups.py:335): a
\* request nobody overtook deletes the group of its own user only
FreshRequestsDeleteOwnGroup ==
    [][grp = "live" /\ grp' = "deleted" =>
         \/ Overtaken
         \/ \E r \in Requests : Finishes(r) /\ Members = {req[r].user}]_vars

\* The last member who leaves takes the group along (groups.py:347): without
\* overtaking, a group that has members never loses the last one and stays
FreshRequestsEmptyNoGroup ==
    [][Members # {} /\ grp' = "live" /\ (\A u \in Users : ~member'[u].in)
         => Overtaken]_vars

\* The rights of a member are changed by another member who may write at that
\* moment, and ownership is given by one who is an owner at that moment
FreshRequestsHaveAuthority ==
    [][\A u \in Users :
         member[u].in /\ member'[u].in /\ member'[u] # member[u] =>
           \/ Overtaken
           \/ \E r \in Requests :
                /\ Finishes(r)
                /\ req[r].user # u
                /\ member[req[r].user].in /\ member[req[r].user].write
                /\ member'[u].owner => member[req[r].user].owner]_vars

\* "if true, the token is auto-deleted when it's used to join the group"
\* (0001_initial_schema.sql:147): at most one user joins with it
SingleUseInviteUsedOnce ==
    \A i \in Invites : Cardinality(redeemed[i]) <= 1
=============================================================================
