------------------------ MODULE GroupMembership_proofs ------------------------
(***************************************************************************)
(* Proofs about GroupMembership, for any users, invites and number of      *)
(* connections: types and rows first, then the requests that work on them. *)
(***************************************************************************)
EXTENDS GroupMembership, FiniteSetTheorems, TLAPS

-----------------------------------------------------------------------------
(* After-images and tables *)

\* A request that has written nothing to a table stages the empty function
LEMMA NothingType ==
    ASSUME NEW S, NEW T
    PROVE  Nothing \in PartialFunctions(S, T)
<1>1. Nothing \in [{} -> T]
  BY DEF Nothing
<1>2. {} \in SUBSET S
  OBVIOUS
<1> QED
  BY <1>1, <1>2 DEF PartialFunctions

\* A function on a part of S is a partial function on S
LEMMA PartialFunctionType ==
    ASSUME NEW S, NEW T, NEW D \in SUBSET S, NEW f \in [D -> T]
    PROVE  f \in PartialFunctions(S, T)
  BY DEF PartialFunctions

\* ... such as one row
LEMMA SingletonType ==
    ASSUME NEW S, NEW T, NEW a \in S, NEW v \in T
    PROVE  [x \in {a} |-> v] \in PartialFunctions(S, T)
<1>1. [x \in {a} |-> v] \in [{a} -> T]
  OBVIOUS
<1>2. {a} \in SUBSET S
  OBVIOUS
<1> QED
  BY <1>1, <1>2 DEF PartialFunctions

\* Overlaying after-images keeps the type of a table
LEMMA OverlayType ==
    ASSUME NEW S, NEW T, NEW f \in [S -> T], NEW w \in PartialFunctions(S, T)
    PROVE  Overlay(f, w) \in [S -> T]
<1>1. PICK D \in SUBSET S : w \in [D -> T]
  BY DEF PartialFunctions
<1> QED
  BY <1>1 DEF Overlay

-----------------------------------------------------------------------------
(* The inductive invariant.  RequestOK speaks of one request alone, so only *)
(* the steps of that request can disturb it; Locks relates the requests to *)
(* each other and to the tables.                                           *)

\* An owner may write, in a table and in what is about to be written to it
RowFits(x) == x.owner => x.in /\ x.write
HasInviteRow(x) == x.state \in {"live", "expired"}

\* Which operation is at which statement, and what it carries there
WellFormed(q) ==
    /\ q \in Request
    /\ q.pc = "idle" => q = Idle
    /\ q.pc # "idle" => q.user \in Users
    /\ q.pc \in {"insert", "consume"} => q.op = "join_group"
    /\ q.pc = "member" => q.op = "update_member_permissions"
    /\ q.pc \in {"count", "delgrp", "cascade"} => q.op \in {"delete_group", "leave_group"}
    /\ q.pc = "write" => q.op \in {"update_member_permissions", "leave_group"}
    /\ q.pc = "delinv" => q.op = "delete_invite"
    /\ q.op \in {"join_group", "update_member_permissions", "leave_group"}
         => q.target \in Users
    /\ q.op \in {"create_invite", "delete_invite", "join_group"} => q.invite \in Invites

RowsFit(q) ==
    /\ RowFits(q.row)
    /\ \A u \in DOMAIN q.mem : RowFits(q.mem[u])

\* Nothing that needs the group is written without a lock on the group's row
LocksFirst(q) ==
    /\ \A u \in DOMAIN q.mem : q.mem[u].in => q.share
    /\ q.op = "leave_group" => ~q.row.in
    /\ q.pc = "write" /\ q.op = "update_member_permissions" => q.share
    /\ \A i \in DOMAIN q.inv :
          HasInviteRow(q.inv[i]) => q.share \/ (q.op = "create_invite" /\ q.pc = "log")
    /\ q.grp = "delete" => q.pc \in {"cascade", "ready"}

RequestOK(q) == WellFormed(q) /\ RowsFit(q) /\ LocksFirst(q)

TablesOK ==
    /\ grp \in {"none", "live", "deleted"}
    /\ member \in [Users -> MemberRow]
    /\ invite \in [Invites -> InviteRow]
    /\ redeemed \in [Invites -> SUBSET Users]
    /\ \A u \in Users : RowFits(member[u])

\* Who deletes the group is alone with it, and takes everything along
Deletes(r) ==
    /\ grp = "live"
    /\ \A q \in Requests \ {r} : req[q].grp = "keep" /\ ~req[q].share
    /\ req[r].pc = "ready" =>
         /\ \A u \in Users : member[u].in => u \in DOMAIN req[r].mem
         /\ \A i \in Invites : HasRow(i) => i \in DOMAIN req[r].inv
         /\ \A u \in DOMAIN req[r].mem : ~req[r].mem[u].in
         /\ \A i \in DOMAIN req[r].inv : ~HasInviteRow(req[r].inv[i])

Locks ==
    \A r \in Requests :
       /\ req[r].share => grp = "live"
       /\ req[r].grp = "delete" => Deletes(r)

IInv ==
    /\ TablesOK
    /\ req \in [Requests -> Request]
    /\ \A r \in Requests : RequestOK(req[r])
    /\ Locks
    /\ NothingOutlivesTheGroup

-----------------------------------------------------------------------------
(* A step of one request *)

\* A connection without an open request holds nothing
LEMMA IdleHoldsNothing ==
    ASSUME IInv, NEW q \in Requests, ~Active(q)
    PROVE  req[q].grp = "keep" /\ ~req[q].share
<1>1. req[q] = Idle
  BY DEF IInv, RequestOK, WellFormed, Active
<1> QED
  BY <1>1 DEF Idle, Opened

\* What the step of request r has to show: that what the request becomes is well
\* formed, and how it came by its locks
LEMMA RequestStep ==
    ASSUME IInv, NEW r \in Requests, NEW request, RequestOK(request),
           req' = [req EXCEPT ![r] = request], UNCHANGED committed,
           request.share => req[r].share \/ (CanShareGroup(r) /\ grp = "live"),
           request.grp # "keep" => request.grp = req[r].grp \/ CanUpdateGroup(r),
           request.grp = "delete" =>
             /\ req[r].grp = "delete" \/ (grp = "live" /\ CanDeleteGroup(r))
             /\ request.pc = "ready" =>
                  /\ \A u \in Users : member[u].in => u \in DOMAIN request.mem
                  /\ \A i \in Invites : HasRow(i) => i \in DOMAIN request.inv
                  /\ \A u \in DOMAIN request.mem : ~request.mem[u].in
                  /\ \A i \in DOMAIN request.inv : ~HasInviteRow(request.inv[i])
    PROVE  IInv'
<1>1. TablesOK' /\ NothingOutlivesTheGroup'
  BY DEF IInv, TablesOK, NothingOutlivesTheGroup, Members, HasRow, committed
<1>2. req' \in [Requests -> Request] /\ \A q \in Requests : RequestOK(req'[q])
  BY DEF IInv, RequestOK, WellFormed
<1>3. \A q \in Requests \ {r} : req'[q] = req[q]
  BY DEF IInv
<1>4. req'[r] = request
  BY DEF IInv
<1>5. \A q \in Requests : ~Active(q) => req[q].grp = "keep" /\ ~req[q].share
  BY IdleHoldsNothing
<1>6. request.share => grp = "live"
  BY DEF IInv, Locks
<1>7. ASSUME NEW q \in Requests \ {r}, req[q].grp = "delete" PROVE Deletes(q)'
  <2>1. Deletes(q) /\ Active(q)
    BY <1>5, <1>7 DEF IInv, Locks
  <2>2. ~req[r].share /\ req[r].grp = "keep"
    BY <2>1 DEF Deletes
  <2>3. q \in Others(r)
    BY <2>1 DEF Others
  <2>4. ~request.share /\ request.grp = "keep"
    BY <1>7, <2>2, <2>3 DEF CanShareGroup, CanUpdateGroup, CanDeleteGroup
  <2> QED
    BY <1>3, <1>4, <2>1, <2>4 DEF Deletes, HasRow, committed
<1>8. ASSUME request.grp = "delete" PROVE Deletes(r)'
  <2>1. \A q \in Requests \ {r} : req[q].grp = "keep" /\ ~req[q].share
    BY <1>5, <1>8 DEF IInv, Locks, Deletes, CanDeleteGroup, Others
  <2>2. grp = "live"
    BY <1>8 DEF IInv, Locks, Deletes
  <2> QED
    BY <1>3, <1>4, <1>8, <2>1, <2>2 DEF Deletes, HasRow, committed
<1>9. Locks'
  BY <1>3, <1>4, <1>6, <1>7, <1>8 DEF Locks, IInv, committed
<1> QED
  BY <1>1, <1>2, <1>9 DEF IInv

\* A request that is opened holds no lock yet
LEMMA OpenStep ==
    ASSUME IInv, NEW r \in Requests, NEW request, RequestOK(request),
           ~request.share, request.grp = "keep", Open(r, request)
    PROVE  IInv'
<1>1. req' = [req EXCEPT ![r] = request] /\ UNCHANGED committed
  BY DEF Open
<1>2. request.grp # "delete"
  OBVIOUS
<1> QED
  BY <1>1, <1>2, RequestStep

\* Opened makes requests
LEMMA OpenedType ==
    ASSUME NEW op \in Operations \cup {"none"}, NEW pc \in Statements \cup {"idle"},
           NEW u \in Users \cup {None}
    PROVE  Opened(op, pc, u) \in Request
<1>1. Absent \in MemberRow
  BY DEF Absent, MemberRow
<1>2. /\ Nothing \in PartialFunctions(Users, MemberRow)
      /\ Nothing \in PartialFunctions(Invites, InviteRow)
  BY NothingType
<1> QED
  BY <1>1, <1>2 DEF Opened, Request

\* A connection without an open request satisfies the invariant
LEMMA IdleOK == RequestOK(Idle) /\ ~Idle.share /\ Idle.grp = "keep"
<1>1. Idle \in Request
  BY OpenedType DEF Idle
<1> QED
  BY <1>1 DEF Idle, Opened, Nothing, Absent, RequestOK, WellFormed, RowsFit,
              RowFits, LocksFirst

\* The first step of each operation.  The row create_invite stages is to be
\* inserted after the log entry, with the share that takes
LEMMA CreateInviteStep ==
    ASSUME IInv, NEW r \in Requests, NEW u \in Users, NEW i \in Invites, CreateInvite(r, u, i)
    PROVE  IInv'
<1> DEFINE w(s, e) == [x \in {i} |-> [state |-> "live", single |-> s, editor |-> e]]
           q == Opened("create_invite", "log", u)
<1>1. PICK s, e \in BOOLEAN : Open(r, [q EXCEPT !.invite = i, !.inv = w(s, e)])
  BY DEF CreateInvite
<1>2. w(s, e) \in PartialFunctions(Invites, InviteRow)
  <2>1. [state |-> "live", single |-> s, editor |-> e] \in InviteRow
    BY DEF InviteRow
  <2> QED
    BY <2>1, SingletonType
<1>3. q \in Request
  BY OpenedType DEF Operations, Statements
<1>4. /\ q.op = "create_invite" /\ q.pc = "log" /\ q.user = u
      /\ q.row = Absent /\ q.mem = Nothing /\ ~q.share /\ q.grp = "keep"
  BY DEF Opened
<1> HIDE DEF w, q
<1>5. RequestOK([q EXCEPT !.invite = i, !.inv = w(s, e)])
  <2>1. WellFormed([q EXCEPT !.invite = i, !.inv = w(s, e)])
    BY <1>2, <1>3, <1>4 DEF Request, WellFormed
  <2>2. RowsFit([q EXCEPT !.invite = i, !.inv = w(s, e)])
    BY <1>3, <1>4 DEF Request, RowsFit, RowFits, Absent, Nothing
  <2>3. LocksFirst([q EXCEPT !.invite = i, !.inv = w(s, e)])
    BY <1>3, <1>4 DEF Request, LocksFirst, Nothing
  <2> QED
    BY <2>1, <2>2, <2>3 DEF RequestOK
<1> QED
  BY <1>1, <1>3, <1>4, <1>5, OpenStep DEF Request

\* A request to delete an invite stages nothing yet
LEMMA DeleteInviteStep ==
    ASSUME IInv, NEW r \in Requests, NEW u \in Users, NEW i \in Invites, DeleteInvite(r, u, i)
    PROVE  IInv'
<1> DEFINE q == Opened("delete_invite", "delinv", u)
<1>1. Open(r, [q EXCEPT !.invite = i])
  BY DEF DeleteInvite
<1>2. q \in Request
  BY OpenedType DEF Operations, Statements
<1>3. /\ q.op = "delete_invite" /\ q.pc = "delinv" /\ q.user = u
      /\ q.row = Absent /\ q.mem = Nothing /\ q.inv = Nothing /\ ~q.share /\ q.grp = "keep"
  BY DEF Opened
<1> HIDE DEF q
<1>4. RequestOK([q EXCEPT !.invite = i])
  BY <1>2, <1>3
     DEF Request, RequestOK, WellFormed, RowsFit, RowFits, LocksFirst, Absent, Nothing
<1> QED
  BY <1>1, <1>2, <1>3, <1>4, OpenStep DEF Request

\* The row of a new member fits: no owner
LEMMA JoinGroupStep ==
    ASSUME IInv, NEW r \in Requests, NEW u \in Users, NEW i \in Invites, JoinGroup(r, u, i)
    PROVE  IInv'
<1> DEFINE q == Opened("join_group", "insert", u)
           row == Role(FALSE, invite[i].editor)
<1>1. Open(r, [q EXCEPT !.invite = i, !.target = u, !.row = row])
  BY DEF JoinGroup
<1>2. q \in Request
  BY OpenedType DEF Operations, Statements
<1>3. /\ q.op = "join_group" /\ q.pc = "insert" /\ q.user = u
      /\ q.mem = Nothing /\ q.inv = Nothing /\ ~q.share /\ q.grp = "keep"
  BY DEF Opened
<1>4. row \in MemberRow /\ RowFits(row)
  BY DEF IInv, TablesOK, InviteRow, Role, MemberRow, RowFits
<1> HIDE DEF q, row
<1>5. RequestOK([q EXCEPT !.invite = i, !.target = u, !.row = row])
  BY <1>2, <1>3, <1>4
     DEF Request, RequestOK, WellFormed, RowsFit, LocksFirst, Nothing
<1> QED
  BY <1>1, <1>2, <1>3, <1>5, OpenStep DEF Request

\* WithWrite makes the row fit
LEMMA UpdateMemberPermissionsStep ==
    ASSUME IInv, NEW r \in Requests, NEW u \in Users, NEW t \in Users,
           NEW o \in BOOLEAN, NEW w \in BOOLEAN, UpdateMemberPermissions(r, u, t, o, w)
    PROVE  IInv'
<1> DEFINE q == Opened("update_member_permissions", "member", u)
           row == Role(o, WithWrite(o, w))
<1>1. Open(r, [q EXCEPT !.target = t, !.row = row])
  BY DEF UpdateMemberPermissions
<1>2. q \in Request
  BY OpenedType DEF Operations, Statements
<1>3. /\ q.op = "update_member_permissions" /\ q.pc = "member" /\ q.user = u
      /\ q.mem = Nothing /\ q.inv = Nothing /\ ~q.share /\ q.grp = "keep"
  BY DEF Opened
<1>4. row \in MemberRow /\ RowFits(row)
  BY DEF Role, WithWrite, MemberRow, RowFits
<1> HIDE DEF q, row
<1>5. RequestOK([q EXCEPT !.target = t, !.row = row])
  BY <1>2, <1>3, <1>4
     DEF Request, RequestOK, WellFormed, RowsFit, LocksFirst, Nothing
<1> QED
  BY <1>1, <1>2, <1>3, <1>5, OpenStep DEF Request

\* The row of somebody who left fits
LEMMA LeaveGroupStep ==
    ASSUME IInv, NEW r \in Requests, NEW u \in Users, LeaveGroup(r, u)
    PROVE  IInv'
<1> DEFINE q == Opened("leave_group", "count", u)
<1>1. Open(r, [q EXCEPT !.target = u, !.row = Absent])
  BY DEF LeaveGroup
<1>2. q \in Request
  BY OpenedType DEF Operations, Statements
<1>3. /\ q.op = "leave_group" /\ q.pc = "count" /\ q.user = u
      /\ q.mem = Nothing /\ q.inv = Nothing /\ ~q.share /\ q.grp = "keep"
  BY DEF Opened
<1>4. Absent \in MemberRow /\ RowFits(Absent) /\ ~Absent.in
  BY DEF Absent, MemberRow, RowFits
<1> HIDE DEF q
<1>5. RequestOK([q EXCEPT !.target = u, !.row = Absent])
  BY <1>2, <1>3, <1>4
     DEF Request, RequestOK, WellFormed, RowsFit, LocksFirst, Nothing
<1> QED
  BY <1>1, <1>2, <1>3, <1>5, OpenStep DEF Request

\* update_group and delete_group open a request that names nobody else
LEMMA UpdateOrDeleteGroupStep ==
    ASSUME IInv, NEW r \in Requests, NEW u \in Users, UpdateGroup(r, u) \/ DeleteGroup(r, u)
    PROVE  IInv'
<1>1. PICK op \in {"update_group", "delete_group"}, pc \in {"updgrp", "count"} :
        /\ op = "delete_group" <=> pc = "count"
        /\ Open(r, Opened(op, pc, u))
  BY DEF UpdateGroup, DeleteGroup
<1> DEFINE q == Opened(op, pc, u)
<1>2. q \in Request
  BY OpenedType DEF Operations, Statements
<1>3. /\ q.op = op /\ q.pc = pc /\ q.user = u /\ q.row = Absent
      /\ q.mem = Nothing /\ q.inv = Nothing /\ ~q.share /\ q.grp = "keep"
  BY DEF Opened
<1> HIDE DEF q
<1>4. RequestOK(q)
  BY <1>1, <1>2, <1>3
     DEF RequestOK, WellFormed, RowsFit, RowFits, LocksFirst, Nothing, Absent
<1> QED
  BY <1>1, <1>3, <1>4, OpenStep DEF q

-----------------------------------------------------------------------------
(* The statements that follow.  q is the request before the statement.     *)

\* What the invariant says of a request, and of its hold on the group
LEMMA RequestFacts ==
    ASSUME IInv, NEW r \in Requests
    PROVE  /\ req[r] \in Request
           /\ WellFormed(req[r]) /\ RowsFit(req[r]) /\ LocksFirst(req[r])
           /\ req[r].grp \in {"keep", "update", "delete"}
           /\ req[r].pc \notin {"cascade", "ready"} => req[r].grp \in {"keep", "update"}
<1>1. RequestOK(req[r])
  BY DEF IInv
<1> QED
  BY <1>1 DEF RequestOK, WellFormed, LocksFirst, Request

\* Reading the member writes nothing
LEMMA ReadMemberStep ==
    ASSUME IInv, NEW r \in Requests, ReadMember(r)
    PROVE  IInv'
<1> DEFINE q == req[r]
<1>1. q.pc = "member" /\ Proceed(r, [q EXCEPT !.pc = "log"])
  BY DEF ReadMember
<1>2. /\ q \in Request /\ WellFormed(q) /\ RowsFit(q) /\ LocksFirst(q)
      /\ q.grp \in {"keep", "update"}
  BY <1>1, RequestFacts
<1> HIDE DEF q
<1>3. RequestOK([q EXCEPT !.pc = "log"])
  BY <1>1, <1>2 DEF Request, Statements, RequestOK, WellFormed, RowsFit, LocksFirst
<1>4. [q EXCEPT !.pc = "log"].share = q.share /\ [q EXCEPT !.pc = "log"].grp = q.grp
  BY <1>2 DEF Request
<1> QED
  BY <1>1, <1>2, <1>3, <1>4, RequestStep DEF q, Proceed

\* Counting the members writes nothing
LEMMA CountMembersStep ==
    ASSUME IInv, NEW r \in Requests, CountMembers(r)
    PROVE  IInv'
<1> DEFINE q == req[r]
<1>1. PICK pc \in {"delgrp", "write"} :
        /\ q.pc = "count" /\ Proceed(r, [q EXCEPT !.pc = pc])
        /\ q.op = "delete_group" => pc = "delgrp"
  BY DEF CountMembers
<1>2. /\ q \in Request /\ WellFormed(q) /\ RowsFit(q) /\ LocksFirst(q)
      /\ q.grp \in {"keep", "update"}
  BY <1>1, RequestFacts
<1> HIDE DEF q
<1>3. RequestOK([q EXCEPT !.pc = pc])
  BY <1>1, <1>2 DEF Request, Statements, RequestOK, WellFormed, RowsFit, LocksFirst
<1>4. [q EXCEPT !.pc = pc].share = q.share /\ [q EXCEPT !.pc = pc].grp = q.grp
  BY <1>2 DEF Request
<1> QED
  BY <1>1, <1>2, <1>3, <1>4, RequestStep DEF q, Proceed

\* The membership is staged with a share of the group's row
LEMMA InsertMembershipStep ==
    ASSUME IInv, NEW r \in Requests, InsertMembership(r)
    PROVE  IInv'
<1> DEFINE q == req[r]
           w == [x \in {q.target} |-> q.row]
<1>1. PICK pc \in {"consume", "ready"} :
        /\ q.pc = "insert" /\ CanShareGroup(r) /\ grp = "live"
        /\ Proceed(r, [q EXCEPT !.pc = pc, !.share = TRUE, !.mem = w])
  BY DEF InsertMembership
<1>2. /\ q \in Request /\ WellFormed(q) /\ RowsFit(q) /\ LocksFirst(q)
      /\ q.grp \in {"keep", "update"}
  BY <1>1, RequestFacts
<1>3. w \in PartialFunctions(Users, MemberRow) /\ \A u \in DOMAIN w : w[u] = q.row
  <2>1. q.target \in Users /\ q.row \in MemberRow
    BY <1>1, <1>2 DEF WellFormed, Request
  <2> QED
    BY <2>1, SingletonType
<1> HIDE DEF q, w
<1>4. WellFormed([q EXCEPT !.pc = pc, !.share = TRUE, !.mem = w])
  BY <1>1, <1>2, <1>3 DEF Request, Statements, WellFormed
<1>5. RowsFit([q EXCEPT !.pc = pc, !.share = TRUE, !.mem = w])
  BY <1>2, <1>3 DEF Request, RowsFit
<1>6. LocksFirst([q EXCEPT !.pc = pc, !.share = TRUE, !.mem = w])
  BY <1>1, <1>2, <1>3 DEF Request, LocksFirst, WellFormed
<1>7. [q EXCEPT !.pc = pc, !.share = TRUE, !.mem = w].grp = q.grp
  BY <1>2 DEF Request
<1> QED
  BY <1>1, <1>2, <1>4, <1>5, <1>6, <1>7, RequestStep DEF q, Proceed, RequestOK

\* Deleting an invite stages at most the row of that invite, and as deleted
LEMMA DeletedInviteType ==
    ASSUME IInv, NEW i \in Invites
    PROVE  /\ DeletedInvite(i) \in PartialFunctions(Invites, InviteRow)
           /\ \A j \in DOMAIN DeletedInvite(i) : ~HasInviteRow(DeletedInvite(i)[j])
<1> DEFINE row == [invite[i] EXCEPT !.state = "deleted"]
<1>1. row \in InviteRow /\ ~HasInviteRow(row)
  BY DEF IInv, TablesOK, InviteRow, HasInviteRow
<1> HIDE DEF row
<1>2. [x \in {i} |-> row] \in PartialFunctions(Invites, InviteRow)
  BY <1>1, SingletonType
<1> QED
  BY <1>1, <1>2, NothingType DEF DeletedInvite, Nothing, row

\* join_group and delete_invite delete the row of their invite
LEMMA DeleteInviteRowStep ==
    ASSUME IInv, NEW r \in Requests, ConsumeInvite(r) \/ RemoveInvite(r)
    PROVE  IInv'
<1> DEFINE q == req[r]
           w == DeletedInvite(q.invite)
<1>1. PICK pc \in {"log", "ready"} :
        /\ q.pc \in {"consume", "delinv"}
        /\ q.pc = "consume" <=> pc = "ready"
        /\ Proceed(r, [q EXCEPT !.pc = pc, !.inv = w])
  BY DEF ConsumeInvite, RemoveInvite
<1>2. /\ q \in Request /\ WellFormed(q) /\ RowsFit(q) /\ LocksFirst(q)
      /\ q.grp \in {"keep", "update"}
  BY <1>1, RequestFacts
<1>3. /\ w \in PartialFunctions(Invites, InviteRow)
      /\ \A i \in DOMAIN w : ~HasInviteRow(w[i])
  <2>1. q.invite \in Invites
    BY <1>1, <1>2 DEF WellFormed
  <2> QED
    BY <2>1, DeletedInviteType
<1> HIDE DEF q, w
<1>4. WellFormed([q EXCEPT !.pc = pc, !.inv = w])
  BY <1>1, <1>2, <1>3 DEF Request, Statements, WellFormed
<1>5. RowsFit([q EXCEPT !.pc = pc, !.inv = w])
  BY <1>2 DEF Request, RowsFit
<1>6. LocksFirst([q EXCEPT !.pc = pc, !.inv = w])
  BY <1>1, <1>2, <1>3 DEF Request, LocksFirst
<1>7. /\ [q EXCEPT !.pc = pc, !.inv = w].grp = q.grp
      /\ [q EXCEPT !.pc = pc, !.inv = w].share = q.share
  BY <1>2 DEF Request
<1> QED
  BY <1>1, <1>2, <1>4, <1>5, <1>6, <1>7, RequestStep DEF q, Proceed, RequestOK

\* The log entry brings the share that the rows staged under it need
LEMMA WriteLogStep ==
    ASSUME IInv, NEW r \in Requests, WriteLog(r)
    PROVE  IInv'
<1> DEFINE q == req[r]
<1>1. PICK pc \in {"write", "ready"} :
        /\ q.pc = "log" /\ CanShareGroup(r) /\ grp = "live"
        /\ pc = "write" => q.op = "update_member_permissions"
        /\ Proceed(r, [q EXCEPT !.share = TRUE, !.pc = pc])
  BY DEF WriteLog
<1>2. /\ q \in Request /\ WellFormed(q) /\ RowsFit(q) /\ LocksFirst(q)
      /\ q.grp \in {"keep", "update"}
  BY <1>1, RequestFacts
<1> HIDE DEF q
<1>3. WellFormed([q EXCEPT !.share = TRUE, !.pc = pc])
  BY <1>1, <1>2 DEF Request, Statements, WellFormed
<1>4. RowsFit([q EXCEPT !.share = TRUE, !.pc = pc])
  BY <1>2 DEF Request, RowsFit
<1>5. LocksFirst([q EXCEPT !.share = TRUE, !.pc = pc])
  BY <1>1, <1>2 DEF Request, LocksFirst
<1>6. [q EXCEPT !.share = TRUE, !.pc = pc].grp = q.grp
  BY <1>2 DEF Request
<1> QED
  BY <1>1, <1>2, <1>3, <1>4, <1>5, <1>6, RequestStep DEF q, Proceed, RequestOK

\* The row is written under the share that the log entry took
LEMMA WriteMembershipStep ==
    ASSUME IInv, NEW r \in Requests, WriteMembership(r)
    PROVE  IInv'
<1> DEFINE q == req[r]
           w == IF member[q.target].in THEN [x \in {q.target} |-> q.row] ELSE Nothing
<1>1. q.pc = "write" /\ Proceed(r, [q EXCEPT !.pc = "ready", !.mem = w])
  BY DEF WriteMembership
<1>2. /\ q \in Request /\ WellFormed(q) /\ RowsFit(q) /\ LocksFirst(q)
      /\ q.grp \in {"keep", "update"}
  BY <1>1, RequestFacts
<1>3. w \in PartialFunctions(Users, MemberRow) /\ \A u \in DOMAIN w : w[u] = q.row
  <2>1. q.target \in Users /\ q.row \in MemberRow
    BY <1>1, <1>2 DEF WellFormed, Request
  <2> QED
    BY <2>1, SingletonType, NothingType DEF Nothing
<1> HIDE DEF q, w
<1>4. WellFormed([q EXCEPT !.pc = "ready", !.mem = w])
  BY <1>1, <1>2, <1>3 DEF Request, Statements, WellFormed
<1>5. RowsFit([q EXCEPT !.pc = "ready", !.mem = w])
  BY <1>2, <1>3 DEF Request, RowsFit
<1>6. LocksFirst([q EXCEPT !.pc = "ready", !.mem = w])
  BY <1>1, <1>2, <1>3 DEF Request, LocksFirst, WellFormed
<1>7. /\ [q EXCEPT !.pc = "ready", !.mem = w].grp = q.grp
      /\ [q EXCEPT !.pc = "ready", !.mem = w].share = q.share
  BY <1>2 DEF Request
<1> QED
  BY <1>1, <1>2, <1>4, <1>5, <1>6, <1>7, RequestStep DEF q, Proceed, RequestOK

\* update grp excludes the deletion of the row
LEMMA UpdateGroupRowStep ==
    ASSUME IInv, NEW r \in Requests, UpdateGroupRow(r)
    PROVE  IInv'
<1> DEFINE q == req[r]
<1>1. /\ q.pc = "updgrp" /\ CanUpdateGroup(r)
      /\ Proceed(r, [q EXCEPT !.pc = "ready", !.grp = "update"])
  BY DEF UpdateGroupRow
<1>2. q \in Request /\ WellFormed(q) /\ RowsFit(q) /\ LocksFirst(q)
  BY RequestFacts
<1> HIDE DEF q
<1>3. WellFormed([q EXCEPT !.pc = "ready", !.grp = "update"])
  BY <1>1, <1>2 DEF Request, Statements, WellFormed
<1>4. RowsFit([q EXCEPT !.pc = "ready", !.grp = "update"])
  BY <1>2 DEF Request, RowsFit
<1>5. LocksFirst([q EXCEPT !.pc = "ready", !.grp = "update"])
  BY <1>1, <1>2 DEF Request, LocksFirst
<1>6. /\ [q EXCEPT !.pc = "ready", !.grp = "update"].grp = "update"
      /\ [q EXCEPT !.pc = "ready", !.grp = "update"].share = q.share
  BY <1>2 DEF Request
<1> QED
  BY <1>1, <1>3, <1>4, <1>5, <1>6, RequestStep DEF q, Proceed, RequestOK

\* The lock for the deletion: nobody else holds anything on the group's row
LEMMA DeleteGroupRowStep ==
    ASSUME IInv, NEW r \in Requests, DeleteGroupRow(r)
    PROVE  IInv'
<1> DEFINE q == req[r]
<1>1. /\ q.pc = "delgrp" /\ CanDeleteGroup(r)
      /\ \/ grp = "live" /\ Proceed(r, [q EXCEPT !.pc = "cascade", !.grp = "delete"])
         \/ Proceed(r, [q EXCEPT !.pc = "ready"])
  BY DEF DeleteGroupRow
<1>2. /\ q \in Request /\ WellFormed(q) /\ RowsFit(q) /\ LocksFirst(q)
      /\ q.grp \in {"keep", "update"}
  BY <1>1, RequestFacts
<1> HIDE DEF q
<1>3. CASE grp = "live" /\ Proceed(r, [q EXCEPT !.pc = "cascade", !.grp = "delete"])
  <2> DEFINE request == [q EXCEPT !.pc = "cascade", !.grp = "delete"]
  <2>1. WellFormed(request)
    BY <1>1, <1>2 DEF Request, Statements, WellFormed
  <2>2. RowsFit(request)
    BY <1>2 DEF Request, RowsFit
  <2>3. LocksFirst(request)
    BY <1>1, <1>2 DEF Request, LocksFirst
  <2>4. request.grp = "delete" /\ request.pc = "cascade" /\ request.share = q.share
    BY <1>2 DEF Request
  <2>5. CanUpdateGroup(r)
    BY <1>1 DEF CanUpdateGroup, CanDeleteGroup
  <2>6. Proceed(r, request)
    BY <1>3
  <2> HIDE DEF request
  <2> QED
    BY <1>1, <1>3, <2>1, <2>2, <2>3, <2>4, <2>5, <2>6, RequestStep DEF q, Proceed, RequestOK
<1>4. CASE Proceed(r, [q EXCEPT !.pc = "ready"])
  <2>1. WellFormed([q EXCEPT !.pc = "ready"])
    BY <1>1, <1>2 DEF Request, Statements, WellFormed
  <2>2. RowsFit([q EXCEPT !.pc = "ready"])
    BY <1>2 DEF Request, RowsFit
  <2>3. LocksFirst([q EXCEPT !.pc = "ready"])
    BY <1>1, <1>2 DEF Request, LocksFirst
  <2>4. [q EXCEPT !.pc = "ready"].grp = q.grp /\ [q EXCEPT !.pc = "ready"].share = q.share
    BY <1>2 DEF Request
  <2> QED
    BY <1>2, <1>4, <2>1, <2>2, <2>3, <2>4, RequestStep DEF q, Proceed, RequestOK
<1> QED
  BY <1>1, <1>3, <1>4

\* The cascade takes every membership and every invite there is
LEMMA CascadeDeleteStep ==
    ASSUME IInv, NEW r \in Requests, CascadeDelete(r)
    PROVE  IInv'
<1> DEFINE q == req[r]
           mem == [u \in Members |-> Absent]
           rows == {i \in Invites : HasRow(i)}
           inv == [i \in rows |-> [invite[i] EXCEPT !.state = "deleted"]]
           request == [q EXCEPT !.pc = "ready", !.mem = mem, !.inv = inv]
<1>1. q.pc = "cascade" /\ Proceed(r, request)
  BY DEF CascadeDelete
<1>2. q \in Request /\ WellFormed(q) /\ RowsFit(q) /\ LocksFirst(q)
  BY RequestFacts
<1>3. /\ mem \in PartialFunctions(Users, MemberRow)
      /\ DOMAIN mem = Members
      /\ \A u \in Members : mem[u] = Absent
  <2>1. mem \in [Members -> MemberRow] /\ Members \in SUBSET Users
    BY DEF Members, Absent, MemberRow
  <2> QED
    BY <2>1, PartialFunctionType
<1>4. /\ inv \in PartialFunctions(Invites, InviteRow)
      /\ DOMAIN inv = rows
      /\ \A i \in rows : ~HasInviteRow(inv[i])
  <2>1. \A i \in Invites : /\ [invite[i] EXCEPT !.state = "deleted"] \in InviteRow
                           /\ [invite[i] EXCEPT !.state = "deleted"].state = "deleted"
    BY DEF IInv, TablesOK, InviteRow
  <2>2. inv \in [rows -> InviteRow] /\ rows \in SUBSET Invites
    BY <2>1
  <2> QED
    BY <2>1, <2>2, PartialFunctionType DEF HasInviteRow
<1> HIDE DEF q, mem, inv
<1>5. /\ request.pc = "ready" /\ request.mem = mem /\ request.inv = inv
      /\ request.grp = q.grp /\ request.share = q.share
  BY <1>2 DEF Request
<1>6. ~Absent.in /\ RowFits(Absent)
  BY DEF Absent, RowFits
<1>7. WellFormed(request)
  BY <1>1, <1>2, <1>3, <1>4 DEF Request, Statements, WellFormed
<1>8. RowsFit(request)
  BY <1>2, <1>3, <1>6 DEF Request, RowsFit
<1>9. LocksFirst(request)
  BY <1>1, <1>2, <1>3, <1>4, <1>6 DEF Request, LocksFirst
<1> HIDE DEF request
<1> QED
  BY <1>1, <1>3, <1>4, <1>5, <1>6, <1>7, <1>8, <1>9, RequestStep
     DEF q, Proceed, RequestOK, Members

\* An aborted request lets go of everything
LEMMA AbortStep ==
    ASSUME IInv, NEW r \in Requests, Abort(r)
    PROVE  IInv'
<1>1. req' = [req EXCEPT ![r] = Idle] /\ UNCHANGED committed
  BY DEF Abort
<1> QED
  BY <1>1, IdleOK, RequestStep

-----------------------------------------------------------------------------
(* Commit, and the steps of nobody's request *)

\* A request without a lock on the group publishes no membership and no invite:
\* what it leaves in the tables was there before
LEMMA UnlockedPublishesNothing ==
    ASSUME IInv, NEW r \in Requests, Commit(r), ~req[r].share
    PROVE  /\ \A u \in Users : member'[u].in => member[u].in
           /\ \A i \in Invites : HasRow(i)' => HasRow(i)
<1> DEFINE q == req[r]
<1>1. q.pc = "ready"
  BY DEF Commit
<1>2. LocksFirst(q)
  BY RequestFacts
<1>3. \A u \in Users : member'[u] = IF u \in DOMAIN q.mem THEN q.mem[u] ELSE member[u]
  BY DEF Commit, Overlay, IInv, TablesOK
<1>4. \A i \in Invites : invite'[i] = IF i \in DOMAIN q.inv THEN q.inv[i] ELSE invite[i]
  BY DEF Commit, Overlay, IInv, TablesOK
<1> HIDE DEF q
<1>5. \A u \in DOMAIN q.mem : ~q.mem[u].in
  BY <1>2 DEF LocksFirst, q
<1>6. \A i \in DOMAIN q.inv : ~HasInviteRow(q.inv[i])
  BY <1>1, <1>2 DEF LocksFirst, q
<1> QED
  BY <1>3, <1>4, <1>5, <1>6 DEF HasRow, HasInviteRow

\* After the deletion of the group there are no memberships and no invites
LEMMA DeletionEmptiesTables ==
    ASSUME IInv, NEW r \in Requests, Commit(r), req[r].grp = "delete"
    PROVE  /\ \A u \in Users : ~member'[u].in
           /\ \A i \in Invites : ~HasRow(i)'
<1> DEFINE q == req[r]
<1>1. Deletes(r) /\ q.pc = "ready"
  BY DEF IInv, Locks, Commit
<1>2. \A u \in Users : member'[u] = IF u \in DOMAIN q.mem THEN q.mem[u] ELSE member[u]
  BY DEF Commit, Overlay, IInv, TablesOK
<1>3. \A i \in Invites : invite'[i] = IF i \in DOMAIN q.inv THEN q.inv[i] ELSE invite[i]
  BY DEF Commit, Overlay, IInv, TablesOK
<1> QED
  BY <1>1, <1>2, <1>3 DEF Deletes, HasRow, HasInviteRow

\* A commit leaves tables of the right type in which owners may write
LEMMA CommitTables ==
    ASSUME IInv, NEW r \in Requests, Commit(r)
    PROVE  TablesOK'
<1> DEFINE q == req[r]
<1>1. q \in Request /\ WellFormed(q) /\ RowsFit(q) /\ q.pc = "ready"
  BY RequestFacts DEF Commit
<1>2. /\ q.mem \in PartialFunctions(Users, MemberRow)
      /\ q.inv \in PartialFunctions(Invites, InviteRow)
      /\ q.user \in Users
  BY <1>1 DEF Request, WellFormed
<1>3. member' = Overlay(member, q.mem) /\ invite' = Overlay(invite, q.inv)
  BY DEF Commit
<1>4. /\ member \in [Users -> MemberRow] /\ invite \in [Invites -> InviteRow]
      /\ redeemed \in [Invites -> SUBSET Users] /\ grp \in {"none", "live", "deleted"}
      /\ \A u \in Users : RowFits(member[u])
  BY DEF IInv, TablesOK
<1>5. member' \in [Users -> MemberRow]
  BY <1>2, <1>3, <1>4, OverlayType
<1>6. invite' \in [Invites -> InviteRow]
  BY <1>2, <1>3, <1>4, OverlayType
<1>7. redeemed' \in [Invites -> SUBSET Users]
  BY <1>2, <1>4 DEF Commit
<1>8. grp' \in {"none", "live", "deleted"}
  BY <1>4 DEF Commit
<1>9. \A u \in Users : RowFits(member'[u])
  BY <1>1, <1>3, <1>4 DEF Overlay, RowsFit
<1> QED
  BY <1>5, <1>6, <1>7, <1>8, <1>9 DEF TablesOK

\* A commit publishes what its locks allow, and disturbs nobody else's locks
LEMMA CommitStep ==
    ASSUME IInv, NEW r \in Requests, Commit(r)
    PROVE  IInv'
<1>1. req' = Published(r) /\ grp' = IF req[r].grp = "delete" THEN "deleted" ELSE grp
  BY DEF Commit
<1>2. \A q \in Requests :
         /\ RequestOK(req'[q])
         /\ req'[q].grp \in {req[q].grp, "keep"}
         /\ req'[q].share => req[q].share
  <2> TAKE q \in Requests
  <2>1. CASE q = r
    BY <1>1, <2>1, IdleOK DEF Published
  <2>2. CASE q # r /\ Active(q)
    <3> DEFINE x == req[q]
    <3>1. req'[q] = [x EXCEPT !.stale = TRUE] /\ x.pc # "idle"
      BY <1>1, <2>2 DEF Published, Active
    <3>2. x \in Request /\ WellFormed(x) /\ RowsFit(x) /\ LocksFirst(x)
      BY RequestFacts
    <3> HIDE DEF x
    <3>3. WellFormed([x EXCEPT !.stale = TRUE])
      BY <3>1, <3>2 DEF Request, WellFormed
    <3>4. RowsFit([x EXCEPT !.stale = TRUE]) /\ LocksFirst([x EXCEPT !.stale = TRUE])
      BY <3>2 DEF Request, RowsFit, LocksFirst
    <3> QED
      BY <3>1, <3>2, <3>3, <3>4 DEF RequestOK, Request, x
  <2>3. CASE q # r /\ ~Active(q)
    BY <1>1, <2>3 DEF Published, IInv
  <2> QED
    BY <2>1, <2>2, <2>3
<1>3. req' \in [Requests -> Request]
  BY <1>1, <1>2 DEF Published, RequestOK, WellFormed
<1>4. req'[r].grp = "keep" /\ ~req'[r].share
  BY <1>1, IdleOK DEF Published
<1>5. \A q \in Requests \ {r} : req'[q].share => grp' = "live"
  BY <1>1, <1>2 DEF IInv, Locks, Deletes
<1>6. ASSUME NEW q \in Requests \ {r}, req'[q].grp = "delete" PROVE Deletes(q)'
  <2>1. req[q].grp = "delete" /\ Deletes(q)
    BY <1>2, <1>6 DEF IInv, Locks
  <2>2. ~req[r].share /\ req[r].grp = "keep"
    BY <2>1 DEF Deletes
  <2>3. /\ \A u \in Users : member'[u].in => member[u].in
        /\ \A i \in Invites : HasRow(i)' => HasRow(i)
    BY <2>2, UnlockedPublishesNothing
  <2>4. /\ req'[q].pc = req[q].pc
        /\ req'[q].mem = req[q].mem
        /\ req'[q].inv = req[q].inv
    BY <1>1 DEF Published, IInv, Request
  <2>5. grp' = "live"
    BY <1>1, <2>1, <2>2 DEF Deletes
  <2>6. \A p \in Requests \ {q} : req'[p].grp = "keep" /\ ~req'[p].share
    BY <1>2, <2>1 DEF Deletes
  <2> QED
    BY <2>1, <2>3, <2>4, <2>5, <2>6 DEF Deletes
<1>7. Locks'
  BY <1>4, <1>5, <1>6 DEF Locks
<1>8. NothingOutlivesTheGroup'
  <2>1. CASE req[r].grp = "delete"
    BY <2>1, DeletionEmptiesTables DEF NothingOutlivesTheGroup, Members
  <2>2. CASE req[r].grp # "delete" /\ grp # "live"
    <3>1. ~req[r].share
      BY <2>2 DEF IInv, Locks
    <3> QED
      BY <2>2, <3>1, UnlockedPublishesNothing DEF IInv, NothingOutlivesTheGroup, Members
  <2> QED
    BY <1>1, <2>1, <2>2 DEF NothingOutlivesTheGroup
<1> QED
  BY <1>2, <1>3, <1>7, <1>8, CommitTables DEF IInv

\* While there is no group nobody holds anything on it
LEMMA CreateGroupStep ==
    ASSUME IInv, NEW u \in Users, CreateGroup(u)
    PROVE  IInv'
<1>1. /\ grp = "none" /\ grp' = "live" /\ UNCHANGED <<invite, req, redeemed>>
      /\ member' = [member EXCEPT ![u] = Role(TRUE, TRUE)]
  BY DEF CreateGroup
<1>2. Role(TRUE, TRUE) \in MemberRow /\ RowFits(Role(TRUE, TRUE))
  BY DEF Role, MemberRow, RowFits
<1>3. TablesOK'
  BY <1>1, <1>2 DEF IInv, TablesOK
<1>4. \A r \in Requests : req[r].grp # "delete"
  BY <1>1 DEF IInv, Locks, Deletes
<1> QED
  BY <1>1, <1>3, <1>4 DEF IInv, Locks, NothingOutlivesTheGroup

\* An expired invite keeps its row
LEMMA ExpireInviteStep ==
    ASSUME IInv, NEW i \in Invites, ExpireInvite(i)
    PROVE  IInv'
<1>1. /\ invite[i].state = "live" /\ UNCHANGED <<grp, member, req, redeemed>>
      /\ invite' = [invite EXCEPT ![i].state = "expired"]
  BY DEF ExpireInvite
<1>2. invite' \in [Invites -> InviteRow]
  BY <1>1 DEF IInv, TablesOK, InviteRow
<1>3. TablesOK'
  BY <1>1, <1>2 DEF IInv, TablesOK
<1>4. \A j \in Invites : HasRow(j)' <=> HasRow(j)
  BY <1>1 DEF HasRow, IInv, TablesOK, InviteRow
<1>5. Locks'
  BY <1>1, <1>4 DEF IInv, Locks, Deletes
<1>6. NothingOutlivesTheGroup'
  BY <1>1, <1>4 DEF IInv, NothingOutlivesTheGroup, Members
<1> QED
  BY <1>1, <1>3, <1>5, <1>6 DEF IInv

-----------------------------------------------------------------------------
(* The theorems *)

\* The invariant holds initially
LEMMA InitInvariant == Init => IInv
<1> SUFFICES ASSUME Init PROVE IInv
  OBVIOUS
<1>1. Absent \in MemberRow /\ NoInvite \in InviteRow /\ RowFits(Absent)
      /\ ~Absent.in /\ ~HasInviteRow(NoInvite)
  BY DEF Absent, MemberRow, NoInvite, InviteRow, RowFits, HasInviteRow
<1>2. TablesOK
  BY <1>1 DEF Init, TablesOK
<1>3. req \in [Requests -> Request] /\ \A r \in Requests : RequestOK(req[r])
  BY IdleOK DEF Init, RequestOK, WellFormed
<1>4. Locks
  BY IdleOK DEF Init, Locks
<1>5. NothingOutlivesTheGroup
  BY <1>1 DEF Init, NothingOutlivesTheGroup, Members, HasRow, HasInviteRow
<1> QED
  BY <1>2, <1>3, <1>4, <1>5 DEF IInv

\* ... and every step preserves it
LEMMA NextInvariant == IInv /\ [Next]_vars => IInv'
<1> SUFFICES ASSUME IInv, [Next]_vars PROVE IInv'
  OBVIOUS
<1>1. ASSUME NEW u \in Users, CreateGroup(u) PROVE IInv'
  BY <1>1, CreateGroupStep
<1>2. ASSUME NEW i \in Invites, ExpireInvite(i) PROVE IInv'
  BY <1>2, ExpireInviteStep
<1>3. ASSUME NEW r \in Requests, Start(r) PROVE IInv'
  BY <1>3, CreateInviteStep, DeleteInviteStep, JoinGroupStep, UpdateOrDeleteGroupStep,
     UpdateMemberPermissionsStep, LeaveGroupStep DEF Start
<1>4. ASSUME NEW r \in Requests, Continue(r) PROVE IInv'
  BY <1>4, ReadMemberStep, CountMembersStep, InsertMembershipStep, DeleteInviteRowStep,
     WriteLogStep, WriteMembershipStep, UpdateGroupRowStep, DeleteGroupRowStep,
     CascadeDeleteStep, CommitStep, AbortStep DEF Continue
<1>5. CASE UNCHANGED vars
  BY <1>5 DEF vars, IInv, TablesOK, Locks, Deletes, HasRow, NothingOutlivesTheGroup, Members
<1> QED
  BY <1>1, <1>2, <1>3, <1>4, <1>5 DEF Next

\* The inductive invariant holds throughout: rows fit, what needs the group is
\* written under a lock of its row, and who deletes the group is alone with it
THEOREM Invariant == Spec => []IInv
  BY InitInvariant, NextInvariant, PTL DEF Spec

\* The variables keep their types, and who has an open request is a user
THEOREM TypeCorrect == Spec => []TypeOK
<1>1. IInv => TypeOK
  BY DEF IInv, TablesOK, RequestOK, WellFormed, TypeOK, Active
<1> QED
  BY <1>1, Invariant, PTL

\* Owners may write, whichever requests changed their row in which order
THEOREM OwnersCanWrite == Spec => []OwnerCanWrite
<1>1. IInv => OwnerCanWrite
  BY DEF IInv, TablesOK, RowFits, OwnerCanWrite
<1> QED
  BY <1>1, Invariant, PTL

\* No membership and no invite outlives the group, for any number of joins,
\* invites and permission changes that race with its deletion
THEOREM DeletionIsComplete == Spec => []NothingOutlivesTheGroup
<1>1. IInv => NothingOutlivesTheGroup
  BY DEF IInv
<1> QED
  BY <1>1, Invariant, PTL

-----------------------------------------------------------------------------
(***************************************************************************)
(* What the requests on a group promise.  First: nobody finds a single-use *)
(* invite once somebody has joined with it (that it may have been used     *)
(* twice by then is what the run MCGroupMembershipSingleUse shows).  Then  *)
(* what the handlers' checks promise: a request that nobody overtakes      *)
(* demotes no owner, deletes only its own user's group, leaves no group    *)
(* without members and changes rights with authority.                      *)
(***************************************************************************)

-----------------------------------------------------------------------------
(* The inductive invariant.  An id is used once: until its invite has been *)
(* committed only the request that creates it knows it, and afterwards a   *)
(* row that is gone never comes back.                                      *)

\* What request q knows of the invites of the tables, and does to them
KnowsInvites(q) ==
    /\ q.op = "create_invite" =>
         /\ invite[q.invite].state = "unused"
         /\ DOMAIN q.inv = {q.invite}
    /\ q.op # "create_invite" =>
         \A i \in DOMAIN q.inv : q.inv[i].state = "deleted" /\ invite[i].state # "unused"
    /\ q.op = "join_group" =>
         /\ q.pc \in {"insert", "consume", "ready"}
         /\ invite[q.invite].state # "unused"
         \* who is about to join with a single-use invite takes its row along
         /\ q.pc = "ready" /\ invite[q.invite].single =>
              ~HasRow(q.invite) \/ q.invite \in DOMAIN q.inv

Creates(q, i) == q.op = "create_invite" /\ q.invite = i

OneCreator ==
    \A r, p \in Requests :
       r # p /\ req[r].op = "create_invite" => ~Creates(req[p], req[r].invite)

UnusedIsUnredeemed ==
    \A i \in Invites : invite[i].state = "unused" => redeemed[i] = {}

InvitesInv ==
    /\ UnusedIsUnredeemed
    /\ RedeemedInviteIsGone
    /\ OneCreator
    /\ \A r \in Requests : KnowsInvites(req[r])

-----------------------------------------------------------------------------
(* A step of one request that publishes nothing *)

\* It has to show that the request still knows its invites, and that an id it
\* newly creates is nobody else's
LEMMA InvitesStep ==
    ASSUME IInv, InvitesInv, NEW r \in Requests, NEW request,
           req' = [req EXCEPT ![r] = request], UNCHANGED committed,
           KnowsInvites(request),
           request.op = "create_invite" =>
             \/ Creates(req[r], request.invite)
             \/ \A p \in Requests : ~Creates(req[p], request.invite)
    PROVE  InvitesInv'
<1>1. req'[r] = request /\ \A p \in Requests \ {r} : req'[p] = req[p]
  BY DEF IInv
<1>2. UnusedIsUnredeemed' /\ RedeemedInviteIsGone'
  BY DEF InvitesInv, UnusedIsUnredeemed, RedeemedInviteIsGone, HasRow, committed
<1>3. OneCreator'
  BY <1>1 DEF InvitesInv, OneCreator, Creates
<1>4. \A p \in Requests : KnowsInvites(req[p])'
  BY <1>1 DEF InvitesInv, KnowsInvites, HasRow, committed
<1> QED
  BY <1>2, <1>3, <1>4 DEF InvitesInv

\* Most statements have nothing to do with invites
LEMMA OtherStatement ==
    ASSUME IInv, InvitesInv, NEW r \in Requests, NEW request, Proceed(r, request),
           request.op = req[r].op, request.invite = req[r].invite,
           request.inv = req[r].inv,
           req[r].op # "join_group"
    PROVE  InvitesInv'
<1>1. KnowsInvites(request)
  BY DEF InvitesInv, KnowsInvites
<1> QED
  BY <1>1, InvitesStep DEF Proceed, Creates

\* A request that is opened to do anything but create an invite stages nothing
LEMMA OpenedKnows ==
    ASSUME IInv, InvitesInv, NEW r \in Requests, NEW request, Open(r, request),
           request.op # "create_invite", request.inv = Nothing,
           request.op = "join_group" =>
             request.pc = "insert" /\ invite[request.invite].state # "unused"
    PROVE  InvitesInv'
<1>1. KnowsInvites(request)
  BY DEF KnowsInvites, Nothing
<1> QED
  BY <1>1, InvitesStep DEF Open

\* Ending a request without a commit forgets what it knew
LEMMA IdleKnows == KnowsInvites(Idle) /\ Idle.op # "create_invite"
  BY DEF KnowsInvites, Idle, Opened, Nothing

-----------------------------------------------------------------------------
(* The first steps *)

\* The id of a new invite is unused, and nobody else is about to use it
LEMMA CreateInviteKnows ==
    ASSUME IInv, InvitesInv, NEW r \in Requests, NEW u \in Users, NEW i \in Invites,
           CreateInvite(r, u, i)
    PROVE  InvitesInv'
<1> DEFINE w(s, e) == [x \in {i} |-> [state |-> "live", single |-> s, editor |-> e]]
           q == Opened("create_invite", "log", u)
           request(s, e) == [q EXCEPT !.invite = i, !.inv = w(s, e)]
<1>1. PICK s, e \in BOOLEAN : Open(r, request(s, e))
  BY DEF CreateInvite
<1>2. invite[i].state = "unused" /\ \A p \in Requests : ~Creates(req[p], i)
  BY DEF CreateInvite, Creates
<1>3. /\ request(s, e).op = "create_invite" /\ request(s, e).invite = i
      /\ request(s, e).inv = w(s, e)
  BY DEF Opened
<1>4. DOMAIN w(s, e) = {i}
  OBVIOUS
<1> HIDE DEF w, request
<1>5. KnowsInvites(request(s, e))
  BY <1>2, <1>3, <1>4 DEF KnowsInvites
<1> QED
  BY <1>1, <1>2, <1>3, <1>5, InvitesStep DEF Open

\* The other operations open a request that has staged nothing; join_group has
\* found a live invite
LEMMA OtherOperationKnows ==
    ASSUME IInv, InvitesInv, NEW r \in Requests, NEW u \in Users,
           \/ \E i \in Invites : DeleteInvite(r, u, i) \/ JoinGroup(r, u, i)
           \/ UpdateGroup(r, u) \/ DeleteGroup(r, u) \/ LeaveGroup(r, u)
           \/ \E t \in Users, o, w \in BOOLEAN : UpdateMemberPermissions(r, u, t, o, w)
    PROVE  InvitesInv'
<1>1. ASSUME NEW i \in Invites, DeleteInvite(r, u, i) PROVE InvitesInv'
  <2> DEFINE request == [Opened("delete_invite", "delinv", u) EXCEPT !.invite = i]
  <2>1. Open(r, request)
    BY <1>1 DEF DeleteInvite
  <2>2. request.op = "delete_invite" /\ request.inv = Nothing
    BY DEF Opened
  <2> HIDE DEF request
  <2> QED
    BY <2>1, <2>2, OpenedKnows
<1>2. ASSUME NEW i \in Invites, JoinGroup(r, u, i) PROVE InvitesInv'
  <2> DEFINE request == [Opened("join_group", "insert", u) EXCEPT
                  !.invite = i, !.target = u, !.row = Role(FALSE, invite[i].editor)]
  <2>1. Open(r, request) /\ invite[i].state = "live"
    BY <1>2 DEF JoinGroup
  <2>2. /\ request.op = "join_group" /\ request.pc = "insert" /\ request.invite = i
        /\ request.inv = Nothing
    BY DEF Opened
  <2> HIDE DEF request
  <2> QED
    BY <2>1, <2>2, OpenedKnows
<1>3. CASE UpdateGroup(r, u)
  <2>1. Open(r, Opened("update_group", "updgrp", u))
    BY <1>3 DEF UpdateGroup
  <2>2. /\ Opened("update_group", "updgrp", u).op = "update_group"
        /\ Opened("update_group", "updgrp", u).inv = Nothing
    BY DEF Opened
  <2> QED
    BY <2>1, <2>2, OpenedKnows
<1>4. CASE DeleteGroup(r, u)
  <2>1. Open(r, Opened("delete_group", "count", u))
    BY <1>4 DEF DeleteGroup
  <2>2. /\ Opened("delete_group", "count", u).op = "delete_group"
        /\ Opened("delete_group", "count", u).inv = Nothing
    BY DEF Opened
  <2> QED
    BY <2>1, <2>2, OpenedKnows
<1>5. CASE LeaveGroup(r, u)
  <2> DEFINE request == [Opened("leave_group", "count", u) EXCEPT !.target = u, !.row = Absent]
  <2>1. Open(r, request)
    BY <1>5 DEF LeaveGroup
  <2>2. request.op = "leave_group" /\ request.inv = Nothing
    BY DEF Opened
  <2> HIDE DEF request
  <2> QED
    BY <2>1, <2>2, OpenedKnows
<1>6. ASSUME NEW t \in Users, NEW o \in BOOLEAN, NEW w \in BOOLEAN,
             UpdateMemberPermissions(r, u, t, o, w)
      PROVE  InvitesInv'
  <2> DEFINE request == [Opened("update_member_permissions", "member", u) EXCEPT
                           !.target = t, !.row = Role(o, WithWrite(o, w))]
  <2>1. Open(r, request)
    BY <1>6 DEF UpdateMemberPermissions
  <2>2. request.op = "update_member_permissions" /\ request.inv = Nothing
    BY DEF Opened
  <2> HIDE DEF request
  <2> QED
    BY <2>1, <2>2, OpenedKnows
<1> QED
  BY <1>1, <1>2, <1>3, <1>4, <1>5, <1>6

-----------------------------------------------------------------------------
(* The statements that follow *)

\* Statements that leave the invites of their request alone
LEMMA PlainStatementKnows ==
    ASSUME IInv, InvitesInv, NEW r \in Requests,
           \/ ReadMember(r) \/ CountMembers(r) \/ WriteLog(r) \/ WriteMembership(r)
           \/ UpdateGroupRow(r) \/ DeleteGroupRow(r)
    PROVE  InvitesInv'
<1> DEFINE q == req[r]
<1>1. q \in Request
  BY DEF IInv
<1>2. q.op # "join_group"
  BY DEF InvitesInv, KnowsInvites, ReadMember, CountMembers, WriteLog, WriteMembership,
         UpdateGroupRow, DeleteGroupRow
<1>3. CASE ReadMember(r)
  <2> DEFINE request == [q EXCEPT !.pc = "log"]
  <2>1. Proceed(r, request)
    BY <1>3 DEF ReadMember
  <2>2. request.op = q.op /\ request.invite = q.invite /\ request.inv = q.inv
    BY <1>1 DEF Request
  <2> HIDE DEF request
  <2> QED
    BY <1>2, <2>1, <2>2, OtherStatement
<1>4. CASE CountMembers(r)
  <2> DEFINE request == [q EXCEPT !.pc = IF Cardinality(Members) = 1 THEN "delgrp" ELSE "write"]
  <2>1. Proceed(r, request)
    BY <1>4 DEF CountMembers
  <2>2. request.op = q.op /\ request.invite = q.invite /\ request.inv = q.inv
    BY <1>1 DEF Request
  <2> HIDE DEF request
  <2> QED
    BY <1>2, <2>1, <2>2, OtherStatement
<1>5. CASE WriteLog(r)
  <2> DEFINE request == [q EXCEPT !.share = TRUE,
                                !.pc = IF q.op = "update_member_permissions"
                                       THEN "write" ELSE "ready"]
  <2>1. Proceed(r, request)
    BY <1>5 DEF WriteLog
  <2>2. request.op = q.op /\ request.invite = q.invite /\ request.inv = q.inv
    BY <1>1 DEF Request
  <2> HIDE DEF request
  <2> QED
    BY <1>2, <2>1, <2>2, OtherStatement
<1>6. CASE WriteMembership(r)
  <2> DEFINE request == [q EXCEPT !.pc = "ready",
                                !.mem = IF member[q.target].in
                                        THEN [x \in {q.target} |-> q.row] ELSE Nothing]
  <2>1. Proceed(r, request)
    BY <1>6 DEF WriteMembership
  <2>2. request.op = q.op /\ request.invite = q.invite /\ request.inv = q.inv
    BY <1>1 DEF Request
  <2> HIDE DEF request
  <2> QED
    BY <1>2, <2>1, <2>2, OtherStatement
<1>7. CASE UpdateGroupRow(r)
  <2> DEFINE request == [q EXCEPT !.pc = "ready", !.grp = "update"]
  <2>1. Proceed(r, request)
    BY <1>7 DEF UpdateGroupRow
  <2>2. request.op = q.op /\ request.invite = q.invite /\ request.inv = q.inv
    BY <1>1 DEF Request
  <2> HIDE DEF request
  <2> QED
    BY <1>2, <2>1, <2>2, OtherStatement
<1>8. CASE DeleteGroupRow(r)
  <2> DEFINE request == IF grp = "live" THEN [q EXCEPT !.pc = "cascade", !.grp = "delete"]
                        ELSE [q EXCEPT !.pc = "ready"]
  <2>1. Proceed(r, request)
    BY <1>8 DEF DeleteGroupRow
  <2>2. request.op = q.op /\ request.invite = q.invite /\ request.inv = q.inv
    BY <1>1 DEF Request
  <2> HIDE DEF request
  <2> QED
    BY <1>2, <2>1, <2>2, OtherStatement
<1> QED
  BY <1>3, <1>4, <1>5, <1>6, <1>7, <1>8

\* A joining request is ready at once only if its invite is for many
LEMMA InsertMembershipKnows ==
    ASSUME IInv, InvitesInv, NEW r \in Requests, InsertMembership(r)
    PROVE  InvitesInv'
<1> DEFINE q == req[r]
           i == q.invite
           w == [x \in {q.target} |-> q.row]
           request == [q EXCEPT !.pc = IF invite[i].single THEN "consume" ELSE "ready",
                                !.share = TRUE, !.mem = w]
<1>1. q.pc = "insert" /\ Proceed(r, request)
  BY DEF InsertMembership
<1>2. q \in Request /\ q.op = "join_group" /\ KnowsInvites(q)
  BY <1>1, RequestFacts DEF InvitesInv, WellFormed
<1> HIDE DEF w
<1>3. /\ request.op = q.op /\ request.invite = i /\ request.inv = q.inv
      /\ request.pc = IF invite[i].single THEN "consume" ELSE "ready"
  BY <1>2 DEF Request
<1> HIDE DEF request, q
<1>4. KnowsInvites(request)
  BY <1>2, <1>3 DEF KnowsInvites
<1> QED
  BY <1>1, <1>2, <1>3, <1>4, InvitesStep DEF Proceed

\* ... otherwise it stages the deletion of the row, if there is one left
LEMMA DeleteInviteRowKnows ==
    ASSUME IInv, InvitesInv, NEW r \in Requests, ConsumeInvite(r) \/ RemoveInvite(r)
    PROVE  InvitesInv'
<1> DEFINE q == req[r]
           w == DeletedInvite(q.invite)
<1>1. PICK pc \in {"ready", "log"} :
        /\ Proceed(r, [q EXCEPT !.pc = pc, !.inv = w])
        /\ q.pc \in {"consume", "delinv"}
        /\ q.pc = "consume" => pc = "ready"
  BY DEF ConsumeInvite, RemoveInvite
<1>2. q \in Request /\ q.op \in {"join_group", "delete_invite"} /\ KnowsInvites(q)
      /\ (q.op = "join_group" => q.pc = "consume") /\ q.invite \in Invites
  BY <1>1, RequestFacts DEF InvitesInv, WellFormed, KnowsInvites
<1>3. /\ HasRow(q.invite) => DOMAIN w = {q.invite} /\ w[q.invite].state = "deleted"
      /\ ~HasRow(q.invite) => DOMAIN w = {}
  <2>1. invite[q.invite] \in InviteRow
    BY <1>2 DEF IInv, TablesOK
  <2> QED
    BY <2>1 DEF DeletedInvite, Nothing, InviteRow
<1> HIDE DEF w
<1> DEFINE request == [q EXCEPT !.pc = pc, !.inv = w]
<1>4. request.op = q.op /\ request.invite = q.invite /\ request.inv = w /\ request.pc = pc
  BY <1>2 DEF Request
<1> HIDE DEF q, request
<1>5. KnowsInvites(request)
  BY <1>1, <1>2, <1>3, <1>4 DEF KnowsInvites, HasRow
<1> QED
  BY <1>1, <1>2, <1>4, <1>5, InvitesStep DEF Proceed, request

\* The cascade stages deletions of rows there are
LEMMA CascadeDeleteKnows ==
    ASSUME IInv, InvitesInv, NEW r \in Requests, CascadeDelete(r)
    PROVE  InvitesInv'
<1> DEFINE q == req[r]
           mem == [u \in Members |-> Absent]
           rows == {i \in Invites : HasRow(i)}
           inv == [i \in rows |-> [invite[i] EXCEPT !.state = "deleted"]]
           request == [q EXCEPT !.pc = "ready", !.mem = mem, !.inv = inv]
<1>1. q.pc = "cascade" /\ Proceed(r, request)
  BY DEF CascadeDelete
<1>2. q \in Request /\ q.op \in {"delete_group", "leave_group"}
  BY <1>1, RequestFacts DEF WellFormed
<1>3. \A i \in rows : inv[i].state = "deleted" /\ invite[i].state # "unused"
  BY DEF IInv, TablesOK, InviteRow, HasRow
<1>4. DOMAIN inv = rows
  OBVIOUS
<1> HIDE DEF mem, inv
<1>5. request.op = q.op /\ request.inv = inv
  BY <1>2 DEF Request
<1> HIDE DEF request, rows
<1>6. KnowsInvites(request)
  BY <1>2, <1>3, <1>4, <1>5 DEF KnowsInvites
<1> QED
  BY <1>1, <1>2, <1>5, <1>6, InvitesStep DEF Proceed

\* An aborted request knows nothing any more
LEMMA AbortKnows ==
    ASSUME IInv, InvitesInv, NEW r \in Requests, Abort(r)
    PROVE  InvitesInv'
  BY IdleKnows, InvitesStep DEF Abort

-----------------------------------------------------------------------------
(* Commit, and the steps of nobody's request *)

\* The ids a request speaks of are ids of invites
LEMMA InvitesOfRequest ==
    ASSUME IInv, NEW r \in Requests
    PROVE  /\ DOMAIN req[r].inv \subseteq Invites
           /\ req[r].op \in {"create_invite", "join_group"} => req[r].invite \in Invites
<1>1. WellFormed(req[r]) /\ req[r].inv \in PartialFunctions(Invites, InviteRow)
  BY DEF IInv, RequestOK, WellFormed, Request
<1> QED
  BY <1>1 DEF WellFormed, PartialFunctions

\* A commit either gives out an id that nobody else knows, or takes rows away, of the
\* invite that was redeemed with it among them
LEMMA CommitKnows ==
    ASSUME IInv, InvitesInv, NEW r \in Requests, Commit(r)
    PROVE  InvitesInv'
<1> DEFINE q == req[r]
<1>1. q \in Request /\ q.pc = "ready" /\ KnowsInvites(q)
  BY DEF IInv, InvitesInv, Commit
<1>2. /\ req'[r] = Idle
      /\ \A p \in Requests \ {r} :
           /\ req'[p].op = req[p].op /\ req'[p].invite = req[p].invite
           /\ req'[p].inv = req[p].inv /\ req'[p].pc = req[p].pc
  BY DEF Commit, Published, IInv, Request
<1>3. \A i \in Invites : invite'[i] = IF i \in DOMAIN q.inv THEN q.inv[i] ELSE invite[i]
  BY DEF Commit, Overlay, IInv, TablesOK
<1>4. \A i \in Invites :
         redeemed'[i] = IF Joins(r) /\ q.invite = i /\ invite[i].single
                        THEN redeemed[i] \cup {q.user} ELSE redeemed[i]
  BY DEF Commit
<1>5. OneCreator'
  BY <1>2, IdleKnows DEF InvitesInv, OneCreator, Creates
<1>6. KnowsInvites(req[r])'
  BY <1>2 DEF KnowsInvites, Idle, Opened, Nothing
<1> HIDE DEF q
<1>7. ASSUME q.op = "create_invite"
      PROVE  UnusedIsUnredeemed' /\ RedeemedInviteIsGone'
  <2>1. redeemed'[q.invite] = {} /\ \A i \in Invites : redeemed'[i] = redeemed[i]
    <3>1. q.invite \in Invites
      BY <1>7, InvitesOfRequest DEF q
    <3>2. redeemed[q.invite] = {}
      BY <1>1, <1>7, <3>1 DEF InvitesInv, UnusedIsUnredeemed, KnowsInvites
    <3>3. ~Joins(r)
      BY <1>7 DEF Joins, q
    <3> QED
      BY <1>4, <3>1, <3>2, <3>3
  <2>2. \A i \in Invites : i # q.invite => invite'[i] = invite[i]
    BY <1>1, <1>3, <1>7 DEF KnowsInvites
  <2> QED
    BY <2>1, <2>2
       DEF InvitesInv, UnusedIsUnredeemed, RedeemedInviteIsGone, HasRow
<1>8. ASSUME q.op # "create_invite"
      PROVE  UnusedIsUnredeemed' /\ RedeemedInviteIsGone'
  <2>1. \A i \in Invites :
           \/ invite'[i] = invite[i]
           \/ i \in DOMAIN q.inv /\ invite'[i].state = "deleted" /\ invite[i].state # "unused"
    BY <1>1, <1>3, <1>8 DEF KnowsInvites
  <2>2. ASSUME NEW i \in Invites, redeemed'[i] # redeemed[i]
        PROVE  invite[i].state # "unused" /\ ~HasRow(i)'
    <3>1. q.op = "join_group" /\ q.invite = i /\ invite[i].single
      BY <1>4, <2>2 DEF Joins, q
    <3>2. invite[i].state # "unused" /\ (~HasRow(i) \/ i \in DOMAIN q.inv)
      BY <1>1, <3>1 DEF KnowsInvites
    <3>3. i \in DOMAIN q.inv => invite'[i].state = "deleted"
      BY <1>1, <1>3, <1>8 DEF KnowsInvites
    <3> QED
      BY <2>1, <3>2, <3>3 DEF HasRow
  <2>3. UnusedIsUnredeemed'
    BY <2>1, <2>2 DEF InvitesInv, UnusedIsUnredeemed
  <2>4. RedeemedInviteIsGone'
    BY <2>1, <2>2 DEF InvitesInv, RedeemedInviteIsGone, HasRow
  <2> QED
    BY <2>3, <2>4
<1>9. ASSUME NEW p \in Requests \ {r} PROVE KnowsInvites(req[p])'
  <2>1. KnowsInvites(req[p])
    BY DEF InvitesInv
  <2>2. CASE q.op = "create_invite"
    <3>1. DOMAIN q.inv = {q.invite} /\ invite[q.invite].state = "unused"
      BY <1>1, <2>2 DEF KnowsInvites
    <3>2. req[p].op = "create_invite" => req[p].invite # q.invite
      BY <2>2 DEF InvitesInv, OneCreator, Creates, q
    <3>3. \A i \in Invites : invite[i].state # "unused" => invite'[i] = invite[i]
      BY <1>3, <3>1
    <3>4. req[p].op = "create_invite" => invite'[req[p].invite] = invite[req[p].invite]
      BY <1>3, <3>1, <3>2, InvitesOfRequest
    <3>5. \A i \in DOMAIN req[p].inv : i \in Invites
      BY InvitesOfRequest
    <3>6. req[p].op = "join_group" => req[p].invite \in Invites
      BY InvitesOfRequest
    <3> DEFINE x == req[p]
               y == req'[p]
    <3>7. y.op = x.op /\ y.pc = x.pc /\ y.invite = x.invite /\ y.inv = x.inv
      BY <1>2
    <3>8. KnowsInvites(x)
      BY <2>1
    <3> HIDE DEF x, y
    <3>9. y.op = "create_invite" =>
            invite'[y.invite].state = "unused" /\ DOMAIN y.inv = {y.invite}
      BY <3>4, <3>7, <3>8 DEF KnowsInvites, x
    <3>10. y.op # "create_invite" =>
             \A i \in DOMAIN y.inv : y.inv[i].state = "deleted" /\ invite'[i].state # "unused"
      BY <3>3, <3>5, <3>7, <3>8 DEF KnowsInvites, x
    <3>11. ASSUME y.op = "join_group"
           PROVE  /\ y.pc \in {"insert", "consume", "ready"}
                  /\ invite'[y.invite].state # "unused"
                  /\ y.pc = "ready" /\ invite'[y.invite].single =>
                       ~HasInviteRow(invite'[y.invite]) \/ y.invite \in DOMAIN y.inv
      <4>1. /\ x.op = "join_group" /\ x.invite \in Invites
            /\ invite[x.invite].state # "unused"
        BY <3>6, <3>7, <3>8, <3>11 DEF KnowsInvites, x
      <4>2. invite'[x.invite] = invite[x.invite]
        BY <3>3, <4>1
      <4> QED
        BY <3>7, <3>8, <4>1, <4>2 DEF KnowsInvites, HasRow, HasInviteRow
    <3> QED
      BY <3>9, <3>10, <3>11 DEF KnowsInvites, HasRow, HasInviteRow, y
  <2>3. CASE q.op # "create_invite"
    <3>1. \A i \in Invites :
             \/ invite'[i] = invite[i]
             \/ invite'[i].state = "deleted" /\ invite[i].state # "unused"
      BY <1>1, <1>3, <2>3 DEF KnowsInvites
    <3> QED
      BY <1>2, <2>1, <3>1, InvitesOfRequest DEF KnowsInvites, HasRow
  <2> QED
    BY <2>2, <2>3
<1> QED
  BY <1>2, <1>5, <1>6, <1>7, <1>8, <1>9 DEF InvitesInv

\* An expired invite keeps its row
LEMMA ExpireInviteKnows ==
    ASSUME IInv, InvitesInv, NEW i \in Invites, ExpireInvite(i)
    PROVE  InvitesInv'
<1>1. /\ req' = req /\ redeemed' = redeemed
      /\ invite[i].state = "live" /\ invite'[i].state = "expired"
      /\ invite'[i].single = invite[i].single
      /\ \A j \in Invites : j # i => invite'[j] = invite[j]
  BY DEF ExpireInvite, IInv, TablesOK, InviteRow
<1>2. UnusedIsUnredeemed' /\ RedeemedInviteIsGone'
  BY <1>1 DEF InvitesInv, UnusedIsUnredeemed, RedeemedInviteIsGone, HasRow
<1>3. OneCreator'
  BY <1>1 DEF InvitesInv, OneCreator, Creates
<1>4. ASSUME NEW p \in Requests PROVE KnowsInvites(req[p])'
  BY <1>1, InvitesOfRequest DEF InvitesInv, KnowsInvites, HasRow
<1> QED
  BY <1>2, <1>3, <1>4 DEF InvitesInv

\* Creating the group touches no invite
LEMMA CreateGroupKnows ==
    ASSUME IInv, InvitesInv, NEW u \in Users, CreateGroup(u)
    PROVE  InvitesInv'
  BY DEF CreateGroup, InvitesInv, UnusedIsUnredeemed, RedeemedInviteIsGone, HasRow,
         OneCreator, Creates, KnowsInvites

-----------------------------------------------------------------------------
(* The theorem *)

\* Initially no id is in use
LEMMA InitInvites == Init => InvitesInv
<1> SUFFICES ASSUME Init PROVE InvitesInv
  OBVIOUS
<1>1. /\ UnusedIsUnredeemed /\ RedeemedInviteIsGone
  BY DEF Init, UnusedIsUnredeemed, RedeemedInviteIsGone
<1>2. OneCreator /\ \A r \in Requests : KnowsInvites(req[r])
  BY IdleKnows DEF Init, OneCreator
<1> QED
  BY <1>1, <1>2 DEF InvitesInv

\* Every step preserves the invariant
LEMMA NextInvites == IInv /\ InvitesInv /\ [Next]_vars => InvitesInv'
<1> SUFFICES ASSUME IInv, InvitesInv, [Next]_vars PROVE InvitesInv'
  OBVIOUS
<1>1. ASSUME NEW u \in Users, CreateGroup(u) PROVE InvitesInv'
  BY <1>1, CreateGroupKnows
<1>2. ASSUME NEW i \in Invites, ExpireInvite(i) PROVE InvitesInv'
  BY <1>2, ExpireInviteKnows
<1>3. ASSUME NEW r \in Requests, Start(r) PROVE InvitesInv'
  BY <1>3, CreateInviteKnows, OtherOperationKnows DEF Start
<1>4. ASSUME NEW r \in Requests, Continue(r) PROVE InvitesInv'
  BY <1>4, PlainStatementKnows, InsertMembershipKnows, DeleteInviteRowKnows,
     CascadeDeleteKnows, CommitKnows, AbortKnows DEF Continue
<1>5. CASE UNCHANGED vars
  BY <1>5 DEF vars, InvitesInv, UnusedIsUnredeemed, RedeemedInviteIsGone, HasRow,
              OneCreator, Creates, KnowsInvites
<1> QED
  BY <1>1, <1>2, <1>3, <1>4, <1>5 DEF Next

\* Whoever deletes, uses or expires an invite at the same time: once somebody has
\* joined with a single-use invite its row is gone, and its id never comes back
THEOREM RedeemedInvitesAreGone == Spec => []RedeemedInviteIsGone
<1>1. InvitesInv => RedeemedInviteIsGone
  BY DEF InvitesInv
<1> QED
  BY <1>1, Invariant, InitInvites, NextInvites, PTL DEF Spec
-----------------------------------------------------------------------------
(* The inductive invariant *)

\* What q has staged, whether or not somebody has overtaken it
Stages(q) ==
    /\ q.pc = "cascade" => q.grp = "delete"
    /\ q.op \in {"join_group", "update_member_permissions"} => q.row.in
    /\ q.op = "leave_group" =>
         q.target = q.user /\ q.pc \in {"count", "write", "delgrp", "cascade", "ready"}
    /\ q.op = "update_member_permissions" => q.target # q.user
    /\ \A u \in DOMAIN q.mem : q.mem[u].in =>
          /\ q.op \in {"join_group", "update_member_permissions"}
          /\ u = q.target /\ q.mem[u] = q.row
    /\ q.grp # "delete" =>
          \A u \in DOMAIN q.mem : q.mem[u].in \/ (q.op = "leave_group" /\ u = q.user)

\* What q has read and checked is still so, unless somebody has overtaken it
StillTrue(q) ==
    ~q.stale =>
       /\ q.op = "join_group" => ~member[q.target].in
       /\ q.op = "update_member_permissions" =>
            /\ MayWrite(q.user)
            /\ q.row.owner => IsOwner(q.user)
            /\ q.pc # "member" => ~member[q.target].owner
       /\ q.op \in {"delete_group", "leave_group"} => member[q.user].in
       /\ q.pc \in {"delgrp", "cascade"} \/ q.grp = "delete" => Members = {q.user}
       /\ q.op = "leave_group" /\ q.pc \in {"write", "ready"} /\ q.grp # "delete"
            => Members # {q.user}

\* create_group, the one writer that is no open request, overtakes nobody
NobodyBefore == grp = "none" => \A r \in Requests : ~Active(r)

FreshInv ==
    /\ NobodyBefore
    /\ \A r \in Requests : Stages(req[r]) /\ StillTrue(req[r])

-----------------------------------------------------------------------------
(* A step of one request that publishes nothing *)

\* It has to show the two parts for what its request becomes
LEMMA FreshStep ==
    ASSUME IInv, FreshInv, NEW r \in Requests, NEW request,
           req' = [req EXCEPT ![r] = request], UNCHANGED committed,
           Active(r) \/ grp # "none",
           Stages(request), StillTrue(request)
    PROVE  FreshInv'
<1>1. req'[r] = request /\ \A p \in Requests \ {r} : req'[p] = req[p]
  BY DEF IInv
<1>2. NobodyBefore'
  BY <1>1 DEF FreshInv, NobodyBefore, Active, committed
<1>3. member' = member
  BY DEF committed
<1>4. StillTrue(req[r])'
  BY <1>1, <1>3 DEF StillTrue, MayWrite, IsOwner, Members
<1>5. Stages(req[r])'
  BY <1>1 DEF Stages
<1>6. ASSUME NEW p \in Requests \ {r} PROVE Stages(req[p])' /\ StillTrue(req[p])'
  <2>1. Stages(req[p]) /\ StillTrue(req[p])
    BY DEF FreshInv
  <2> QED
    BY <1>1, <1>3, <2>1 DEF Stages, StillTrue, MayWrite, IsOwner, Members
<1> QED
  BY <1>2, <1>4, <1>5, <1>6 DEF FreshInv

\* Who is a member, or finds an invite, finds the group there
LEMMA GroupIsThere ==
    ASSUME IInv
    PROVE  /\ \A u \in Users : member[u].in => grp = "live"
           /\ \A i \in Invites : invite[i].state = "live" => grp = "live"
  BY DEF IInv, NothingOutlivesTheGroup, Members, HasRow

\* A request that ends without a commit has staged and read nothing
LEMMA IdleIsFresh == Stages(Idle) /\ StillTrue(Idle) /\ Idle.pc = "idle"
  BY DEF Stages, StillTrue, Idle, Opened, Nothing

-----------------------------------------------------------------------------
(* The first steps: what was read is so *)

\* Requests that look at nobody else's membership
LEMMA OpenedIsFresh ==
    ASSUME IInv, FreshInv, NEW r \in Requests, NEW u \in Users,
           \/ \E i \in Invites : CreateInvite(r, u, i) \/ DeleteInvite(r, u, i)
           \/ UpdateGroup(r, u) \/ DeleteGroup(r, u)
    PROVE  FreshInv'
<1>1. grp = "live" /\ member[u].in
  BY GroupIsThere DEF CreateInvite, DeleteInvite, UpdateGroup, DeleteGroup, MayWrite, IsOwner
<1>2. ASSUME NEW i \in Invites, CreateInvite(r, u, i) PROVE FreshInv'
  <2> DEFINE q == Opened("create_invite", "log", u)
             w(s, e) == [x \in {i} |-> [state |-> "live", single |-> s, editor |-> e]]
             request(s, e) == [q EXCEPT !.invite = i, !.inv = w(s, e)]
  <2>1. PICK s, e \in BOOLEAN : Open(r, request(s, e))
    BY <1>2 DEF CreateInvite
  <2> HIDE DEF w
  <2>2. Stages(request(s, e)) /\ StillTrue(request(s, e))
    BY DEF Opened, Stages, StillTrue, Nothing
  <2> QED
    BY <1>1, <2>1, <2>2, FreshStep DEF Open
<1>3. ASSUME NEW i \in Invites, DeleteInvite(r, u, i) PROVE FreshInv'
  <2> DEFINE request == [Opened("delete_invite", "delinv", u) EXCEPT !.invite = i]
  <2>1. Stages(request) /\ StillTrue(request)
    BY DEF Opened, Stages, StillTrue, Nothing
  <2> QED
    BY <1>1, <1>3, <2>1, FreshStep DEF Open, DeleteInvite
<1>4. CASE UpdateGroup(r, u)
  <2> DEFINE request == Opened("update_group", "updgrp", u)
  <2>1. Stages(request) /\ StillTrue(request)
    BY DEF Opened, Stages, StillTrue, Nothing
  <2> QED
    BY <1>1, <1>4, <2>1, FreshStep DEF Open, UpdateGroup
<1>5. CASE DeleteGroup(r, u)
  <2> DEFINE request == Opened("delete_group", "count", u)
  <2>1. Stages(request) /\ StillTrue(request)
    BY <1>1 DEF Opened, Stages, StillTrue, Nothing
  <2> QED
    BY <1>1, <1>5, <2>1, FreshStep DEF Open, DeleteGroup
<1> QED
  BY <1>2, <1>3, <1>4, <1>5

\* join_group has found that its user is no member
LEMMA JoinGroupIsFresh ==
    ASSUME IInv, FreshInv, NEW r \in Requests, NEW u \in Users, NEW i \in Invites,
           JoinGroup(r, u, i)
    PROVE  FreshInv'
<1> DEFINE request == [Opened("join_group", "insert", u) EXCEPT
              !.invite = i, !.target = u, !.row = Role(FALSE, invite[i].editor)]
<1>1. Open(r, request) /\ ~member[u].in /\ grp = "live"
  BY GroupIsThere DEF JoinGroup
<1>2. Stages(request) /\ StillTrue(request)
  BY <1>1 DEF Opened, Stages, StillTrue, Nothing, Role
<1> QED
  BY <1>1, <1>2, FreshStep DEF Open

\* update_member_permissions has found the rights of its user
LEMMA UpdateMemberPermissionsIsFresh ==
    ASSUME IInv, FreshInv, NEW r \in Requests, NEW u \in Users, NEW t \in Users,
           NEW o \in BOOLEAN, NEW w \in BOOLEAN, UpdateMemberPermissions(r, u, t, o, w)
    PROVE  FreshInv'
<1> DEFINE request == [Opened("update_member_permissions", "member", u) EXCEPT
                         !.target = t, !.row = Role(o, WithWrite(o, w))]
<1>1. Open(r, request) /\ u # t /\ MayWrite(u) /\ (o => member[u].owner) /\ grp = "live"
  BY GroupIsThere DEF UpdateMemberPermissions, MayWrite
<1>2. /\ request.op = "update_member_permissions" /\ request.pc = "member"
      /\ request.user = u /\ request.target = t /\ request.row.in /\ request.row.owner = o
      /\ request.mem = Nothing /\ request.grp = "keep"
  BY DEF Opened, Role
<1> HIDE DEF request
<1>3. Stages(request) /\ StillTrue(request)
  BY <1>1, <1>2 DEF Stages, StillTrue, Nothing, MayWrite, IsOwner
<1> QED
  BY <1>1, <1>3, FreshStep DEF Open

\* leave_group has found that its user is a member
LEMMA LeaveGroupIsFresh ==
    ASSUME IInv, FreshInv, NEW r \in Requests, NEW u \in Users, LeaveGroup(r, u)
    PROVE  FreshInv'
<1> DEFINE request == [Opened("leave_group", "count", u) EXCEPT !.target = u, !.row = Absent]
<1>1. Open(r, request) /\ member[u].in /\ grp = "live"
  BY GroupIsThere DEF LeaveGroup, MayRead
<1>2. Stages(request) /\ StillTrue(request)
  BY <1>1 DEF Opened, Stages, StillTrue, Nothing
<1> QED
  BY <1>1, <1>2, FreshStep DEF Open

-----------------------------------------------------------------------------
(* The statements that follow: what they read is so, what was read stays   *)

\* The invariants as facts about the request that runs a statement
LEMMA FreshFacts ==
    ASSUME IInv, FreshInv, NEW r \in Requests
    PROVE  /\ req[r] \in Request /\ WellFormed(req[r]) /\ LocksFirst(req[r])
           /\ Stages(req[r]) /\ StillTrue(req[r])
           /\ req[r].pc \notin {"cascade", "ready"} => req[r].grp \in {"keep", "update"}
  BY RequestFacts DEF FreshInv

\* The member it is about to change is no owner
LEMMA ReadMemberIsFresh ==
    ASSUME IInv, FreshInv, NEW r \in Requests, ReadMember(r)
    PROVE  FreshInv'
<1> DEFINE q == req[r]
           request == [q EXCEPT !.pc = "log"]
<1>1. q.pc = "member" /\ ~member[q.target].owner /\ Proceed(r, request)
  BY DEF ReadMember
<1>2. /\ q \in Request /\ WellFormed(q) /\ Stages(q) /\ StillTrue(q)
      /\ q.grp \in {"keep", "update"}
  BY <1>1, FreshFacts
<1> HIDE DEF q
<1>3. Stages(request)
  BY <1>1, <1>2 DEF Request, WellFormed, Stages
<1>4. StillTrue(request)
  BY <1>1, <1>2 DEF Request, WellFormed, StillTrue
<1> HIDE DEF request
<1> QED
  BY <1>1, <1>3, <1>4, FreshStep DEF Proceed, Active, q

\* The user who leaves or deletes is the only member exactly if it counts one
LEMMA CountMembersIsFresh ==
    ASSUME IInv, FreshInv, NEW r \in Requests, CountMembers(r)
    PROVE  FreshInv'
<1> DEFINE q == req[r]
           pc == IF Cardinality(Members) = 1 THEN "delgrp" ELSE "write"
           request == [q EXCEPT !.pc = pc]
<1>1. /\ q.pc = "count" /\ Proceed(r, request)
      /\ q.op = "delete_group" => Cardinality(Members) = 1
  BY DEF CountMembers
<1>2. /\ q \in Request /\ WellFormed(q) /\ Stages(q) /\ StillTrue(q)
      /\ q.grp \in {"keep", "update"} /\ q.op \in {"delete_group", "leave_group"}
      /\ q.user \in Users
  BY <1>1, FreshFacts DEF WellFormed
<1>3. IsFiniteSet(Members)
  BY FinitelyManyUsers, FS_Subset DEF Members
<1>4. pc = "delgrp" /\ ~q.stale => Members = {q.user}
  <2>1. SUFFICES ASSUME Cardinality(Members) = 1, ~q.stale PROVE Members = {q.user}
    OBVIOUS
  <2>2. PICK x : Members = {x}
    BY <1>3, <2>1, FS_Singleton
  <2>3. q.user \in Members
    BY <1>2, <2>1 DEF StillTrue, Members
  <2> QED
    BY <2>2, <2>3
<1>5. pc = "write" => Members # {q.user}
  BY FS_Singleton
<1>6. pc \in {"delgrp", "write"} /\ (q.op = "delete_group" => pc = "delgrp")
  BY <1>1
<1> HIDE DEF q, pc
<1>7. Stages(request)
  BY <1>1, <1>2, <1>6 DEF Request, Stages
<1>8. StillTrue(request)
  BY <1>2, <1>4, <1>5, <1>6 DEF Request, StillTrue
<1> HIDE DEF request
<1> QED
  BY <1>1, <1>7, <1>8, FreshStep DEF Proceed, Active, q

\* The membership it stages is that of its user
LEMMA InsertMembershipIsFresh ==
    ASSUME IInv, FreshInv, NEW r \in Requests, InsertMembership(r)
    PROVE  FreshInv'
<1> DEFINE q == req[r]
           w == [x \in {q.target} |-> q.row]
           pc == IF invite[q.invite].single THEN "consume" ELSE "ready"
           request == [q EXCEPT !.pc = pc, !.share = TRUE, !.mem = w]
<1>1. q.pc = "insert" /\ Proceed(r, request)
  BY DEF InsertMembership
<1>2. /\ q \in Request /\ WellFormed(q) /\ Stages(q) /\ StillTrue(q)
      /\ q.grp \in {"keep", "update"} /\ q.op = "join_group"
  BY <1>1, FreshFacts DEF WellFormed
<1>3. DOMAIN w = {q.target} /\ w[q.target] = q.row /\ pc \in {"consume", "ready"}
  OBVIOUS
<1> HIDE DEF q, w, pc
<1>4. Stages(request)
  BY <1>2, <1>3 DEF Request, Stages
<1>5. StillTrue(request)
  BY <1>2, <1>3 DEF Request, StillTrue
<1> HIDE DEF request
<1> QED
  BY <1>1, <1>4, <1>5, FreshStep DEF Proceed, Active, q

\* Deleting an invite reads no membership
LEMMA DeleteInviteRowIsFresh ==
    ASSUME IInv, FreshInv, NEW r \in Requests, ConsumeInvite(r) \/ RemoveInvite(r)
    PROVE  FreshInv'
<1> DEFINE q == req[r]
           w == DeletedInvite(q.invite)
<1>1. PICK pc \in {"ready", "log"} :
        /\ Proceed(r, [q EXCEPT !.pc = pc, !.inv = w])
        /\ q.pc \in {"consume", "delinv"}
  BY DEF ConsumeInvite, RemoveInvite
<1> DEFINE request == [q EXCEPT !.pc = pc, !.inv = w]
<1>2. /\ q \in Request /\ WellFormed(q) /\ Stages(q) /\ StillTrue(q)
      /\ q.grp \in {"keep", "update"} /\ q.op \in {"join_group", "delete_invite"}
  BY <1>1, FreshFacts DEF WellFormed
<1> HIDE DEF q, w
<1>3. Stages(request)
  BY <1>2 DEF Request, Stages
<1>4. StillTrue(request)
  BY <1>2 DEF Request, StillTrue
<1>5. Proceed(r, request)
  BY <1>1
<1> HIDE DEF request
<1> QED
  BY <1>1, <1>3, <1>4, <1>5, FreshStep DEF Proceed, Active, q

\* Writing the log reads no membership either
LEMMA WriteLogIsFresh ==
    ASSUME IInv, FreshInv, NEW r \in Requests, WriteLog(r)
    PROVE  FreshInv'
<1> DEFINE q == req[r]
           pc == IF q.op = "update_member_permissions" THEN "write" ELSE "ready"
           request == [q EXCEPT !.share = TRUE, !.pc = pc]
<1>1. q.pc = "log" /\ Proceed(r, request)
  BY DEF WriteLog
<1>2. /\ q \in Request /\ WellFormed(q) /\ Stages(q) /\ StillTrue(q)
      /\ q.grp \in {"keep", "update"} /\ q.op # "leave_group"
  BY <1>1, FreshFacts DEF Stages
<1>3. pc \in {"write", "ready"}
  OBVIOUS
<1> HIDE DEF q, pc
<1>4. Stages(request)
  BY <1>2, <1>3 DEF Request, Stages
<1>5. StillTrue(request)
  BY <1>1, <1>2, <1>3 DEF Request, StillTrue
<1> HIDE DEF request
<1> QED
  BY <1>1, <1>4, <1>5, FreshStep DEF Proceed, Active, q

\* Nor does writing the group's row
LEMMA UpdateGroupRowIsFresh ==
    ASSUME IInv, FreshInv, NEW r \in Requests, UpdateGroupRow(r)
    PROVE  FreshInv'
<1> DEFINE q == req[r]
           request == [q EXCEPT !.pc = "ready", !.grp = "update"]
<1>1. q.pc = "updgrp" /\ Proceed(r, request)
  BY DEF UpdateGroupRow
<1>2. /\ q \in Request /\ WellFormed(q) /\ Stages(q) /\ StillTrue(q)
      /\ q.grp \in {"keep", "update"} /\ q.op # "leave_group"
  BY <1>1, FreshFacts DEF Stages
<1> HIDE DEF q
<1>3. Stages(request)
  BY <1>2 DEF Request, Stages
<1>4. StillTrue(request)
  BY <1>1, <1>2 DEF Request, StillTrue
<1> HIDE DEF request
<1> QED
  BY <1>1, <1>3, <1>4, FreshStep DEF Proceed, Active, q

\* The row it stages is the one it has checked, or that of the user who leaves
LEMMA WriteMembershipIsFresh ==
    ASSUME IInv, FreshInv, NEW r \in Requests, WriteMembership(r)
    PROVE  FreshInv'
<1> DEFINE q == req[r]
           w == IF member[q.target].in THEN [x \in {q.target} |-> q.row] ELSE Nothing
           request == [q EXCEPT !.pc = "ready", !.mem = w]
<1>1. q.pc = "write" /\ Proceed(r, request)
  BY DEF WriteMembership
<1>2. /\ q \in Request /\ WellFormed(q) /\ LocksFirst(q) /\ Stages(q) /\ StillTrue(q)
      /\ q.grp \in {"keep", "update"}
      /\ q.op \in {"update_member_permissions", "leave_group"}
  BY <1>1, FreshFacts DEF WellFormed
<1>3. \A u \in DOMAIN w : u = q.target /\ w[u] = q.row
  BY DEF Nothing
<1> HIDE DEF q, w
<1>4. Stages(request)
  BY <1>2, <1>3 DEF Request, Stages, LocksFirst
<1>5. StillTrue(request)
  BY <1>1, <1>2 DEF Request, StillTrue
<1> HIDE DEF request
<1> QED
  BY <1>1, <1>4, <1>5, FreshStep DEF Proceed, Active, q

\* Who finds the group gone has been overtaken
LEMMA DeleteGroupRowIsFresh ==
    ASSUME IInv, FreshInv, NEW r \in Requests, DeleteGroupRow(r)
    PROVE  FreshInv'
<1> DEFINE q == req[r]
<1>1. /\ q.pc = "delgrp"
      /\ \/ grp = "live" /\ Proceed(r, [q EXCEPT !.pc = "cascade", !.grp = "delete"])
         \/ grp # "live" /\ Proceed(r, [q EXCEPT !.pc = "ready"])
  BY DEF DeleteGroupRow
<1>2. /\ q \in Request /\ WellFormed(q) /\ Stages(q) /\ StillTrue(q)
      /\ q.grp \in {"keep", "update"}
  BY <1>1, FreshFacts
<1>3. ASSUME NEW request, Proceed(r, request), Stages(request), StillTrue(request)
      PROVE  FreshInv'
  BY <1>1, <1>3, FreshStep DEF Proceed, Active
<1> HIDE DEF q
<1>4. CASE grp = "live" /\ Proceed(r, [q EXCEPT !.pc = "cascade", !.grp = "delete"])
  <2> DEFINE request == [q EXCEPT !.pc = "cascade", !.grp = "delete"]
  <2>1. Stages(request)
    BY <1>1, <1>2 DEF Request, Stages
  <2>2. StillTrue(request)
    BY <1>1, <1>2 DEF Request, StillTrue
  <2>3. Proceed(r, request)
    BY <1>4
  <2> HIDE DEF request
  <2> QED
    BY <1>3, <2>1, <2>2, <2>3
<1>5. CASE grp # "live" /\ Proceed(r, [q EXCEPT !.pc = "ready"])
  <2> DEFINE request == [q EXCEPT !.pc = "ready"]
  <2>1. Stages(request)
    BY <1>1, <1>2 DEF Request, Stages
  <2>2. q.stale
    <3>1. Members = {}
      BY <1>5 DEF IInv, NothingOutlivesTheGroup
    <3> QED
      BY <1>1, <1>2, <3>1 DEF StillTrue
  <2>3. StillTrue(request)
    BY <1>2, <2>2 DEF Request, StillTrue
  <2>4. Proceed(r, request)
    BY <1>5
  <2> HIDE DEF request
  <2> QED
    BY <1>3, <2>1, <2>3, <2>4
<1> QED
  BY <1>1, <1>4, <1>5

\* The cascade stages that everybody leaves
LEMMA CascadeDeleteIsFresh ==
    ASSUME IInv, FreshInv, NEW r \in Requests, CascadeDelete(r)
    PROVE  FreshInv'
<1> DEFINE q == req[r]
           mem == [u \in Members |-> Absent]
           inv == [i \in {j \in Invites : HasRow(j)} |->
                     [invite[i] EXCEPT !.state = "deleted"]]
           request == [q EXCEPT !.pc = "ready", !.mem = mem, !.inv = inv]
<1>1. q.pc = "cascade" /\ Proceed(r, request)
  BY DEF CascadeDelete
<1>2. q \in Request /\ WellFormed(q) /\ Stages(q) /\ StillTrue(q) /\ q.grp = "delete"
  BY <1>1, FreshFacts DEF Stages
<1>3. \A u \in DOMAIN mem : ~mem[u].in
  BY DEF Absent
<1> HIDE DEF q, mem, inv
<1>4. Stages(request)
  BY <1>1, <1>2, <1>3 DEF Request, Stages
<1>5. StillTrue(request)
  BY <1>1, <1>2 DEF Request, StillTrue
<1> HIDE DEF request
<1> QED
  BY <1>1, <1>4, <1>5, FreshStep DEF Proceed, Active, q

\* An aborted request has read nothing any more
LEMMA AbortIsFresh ==
    ASSUME IInv, FreshInv, NEW r \in Requests, Abort(r)
    PROVE  FreshInv'
  BY IdleIsFresh, FreshStep DEF Abort

-----------------------------------------------------------------------------
(* Commit, and the steps of nobody's request *)

\* An idle connection has read and staged nothing, now and later
LEMMA IdleStaysFresh ==
    ASSUME IInv, NEW p \in Requests, ~Active(p), req'[p] = req[p]
    PROVE  Stages(req[p])' /\ StillTrue(req[p])'
<1>1. req'[p] = Idle
  BY DEF IInv, RequestOK, WellFormed, Active
<1> QED
  BY <1>1 DEF Stages, StillTrue, Idle, Opened, Nothing

\* A commit overtakes whoever has an open request
LEMMA CommitIsFresh ==
    ASSUME IInv, FreshInv, NEW r \in Requests, Commit(r)
    PROVE  FreshInv'
<1>1. /\ req' = Published(r) /\ req[r].pc = "ready"
      /\ grp' = IF req[r].grp = "delete" THEN "deleted" ELSE grp
  BY DEF Commit
<1>2. grp # "none" /\ NobodyBefore'
  BY <1>1 DEF FreshInv, NobodyBefore, Active
<1>3. Stages(req[r])' /\ StillTrue(req[r])'
  <2>1. req'[r] = Idle
    BY <1>1 DEF Published
  <2> QED
    BY <2>1 DEF Stages, StillTrue, Idle, Opened, Nothing
<1>4. ASSUME NEW p \in Requests \ {r} PROVE Stages(req[p])' /\ StillTrue(req[p])'
  <2>1. CASE Active(p)
    <3> DEFINE x == req[p]
    <3>1. req'[p] = [x EXCEPT !.stale = TRUE]
      BY <1>1, <2>1 DEF Published
    <3>2. x \in Request /\ Stages(x)
      BY DEF IInv, FreshInv
    <3> HIDE DEF x
    <3>3. Stages([x EXCEPT !.stale = TRUE]) /\ [x EXCEPT !.stale = TRUE].stale
      BY <3>2 DEF Request, Stages
    <3> QED
      BY <3>1, <3>3 DEF Stages, StillTrue
  <2>2. CASE ~Active(p)
    BY <1>1, <2>2, IdleStaysFresh DEF Published
  <2> QED
    BY <2>1, <2>2
<1> QED
  BY <1>2, <1>3, <1>4 DEF FreshInv

\* Before the group is created there is nobody to overtake
LEMMA CreateGroupIsFresh ==
    ASSUME IInv, FreshInv, NEW u \in Users, CreateGroup(u)
    PROVE  FreshInv'
<1>1. grp = "none" /\ grp' = "live" /\ req' = req
  BY DEF CreateGroup
<1>2. \A p \in Requests : Stages(req[p])' /\ StillTrue(req[p])'
  BY <1>1, IdleStaysFresh DEF FreshInv, NobodyBefore
<1> QED
  BY <1>1, <1>2 DEF FreshInv, NobodyBefore

\* An invite that expires changes nothing a handler has checked of members
LEMMA ExpireInviteIsFresh ==
    ASSUME FreshInv, NEW i \in Invites, ExpireInvite(i)
    PROVE  FreshInv'
  BY DEF ExpireInvite, FreshInv, NobodyBefore, Active, Stages, StillTrue, MayWrite,
         IsOwner, Members

\* Initially nobody has an open request
LEMMA InitFresh == Init => FreshInv
  BY IdleIsFresh DEF Init, FreshInv, NobodyBefore, Active

\* Every step preserves the invariant
LEMMA NextFresh == IInv /\ FreshInv /\ [Next]_vars => FreshInv'
<1> SUFFICES ASSUME IInv, FreshInv, [Next]_vars PROVE FreshInv'
  OBVIOUS
<1>1. ASSUME NEW u \in Users, CreateGroup(u) PROVE FreshInv'
  BY <1>1, CreateGroupIsFresh
<1>2. ASSUME NEW i \in Invites, ExpireInvite(i) PROVE FreshInv'
  BY <1>2, ExpireInviteIsFresh
<1>3. ASSUME NEW r \in Requests, Start(r) PROVE FreshInv'
  BY <1>3, OpenedIsFresh, JoinGroupIsFresh, UpdateMemberPermissionsIsFresh, LeaveGroupIsFresh
     DEF Start
<1>4. ASSUME NEW r \in Requests, Continue(r) PROVE FreshInv'
  BY <1>4, ReadMemberIsFresh, CountMembersIsFresh, InsertMembershipIsFresh,
     DeleteInviteRowIsFresh, WriteLogIsFresh, UpdateGroupRowIsFresh, WriteMembershipIsFresh,
     DeleteGroupRowIsFresh, CascadeDeleteIsFresh, CommitIsFresh, AbortIsFresh DEF Continue
<1>5. CASE UNCHANGED vars
  BY <1>5 DEF vars, FreshInv, NobodyBefore, Active, Stages, StillTrue, MayWrite, IsOwner, Members
<1> QED
  BY <1>1, <1>2, <1>3, <1>4, <1>5 DEF Next

-----------------------------------------------------------------------------
(* The theorems *)

\* The committed tables change by a commit, by create_group, or for an invite only
LEMMA WhoChangesTheTables ==
    ASSUME [Next]_vars
    PROVE  \/ member' = member /\ grp' = grp
           \/ \E u \in Users : CreateGroup(u)
           \/ \E r \in Requests : Commit(r)
<1>1. ASSUME NEW i \in Invites, ExpireInvite(i) PROVE member' = member /\ grp' = grp
  BY <1>1 DEF ExpireInvite
<1>2. ASSUME NEW r \in Requests, Start(r) PROVE member' = member /\ grp' = grp
  <2>1. PICK request : Open(r, request)
    BY <1>2 DEF Start, CreateInvite, DeleteInvite, JoinGroup, UpdateGroup,
                UpdateMemberPermissions, DeleteGroup, LeaveGroup
  <2> QED
    BY <2>1 DEF Open, committed
<1>3. ASSUME NEW r \in Requests, Continue(r), ~Commit(r)
      PROVE  member' = member /\ grp' = grp
  <2>1. CASE Abort(r)
    BY <2>1 DEF Abort, committed
  <2>2. CASE ~Abort(r)
    <3>1. PICK request : Proceed(r, request)
      BY <1>3, <2>2
         DEF Continue, ReadMember, CountMembers, InsertMembership, ConsumeInvite, RemoveInvite,
             WriteLog, WriteMembership, UpdateGroupRow, DeleteGroupRow, CascadeDelete
    <3> QED
      BY <3>1 DEF Proceed, committed
  <2> QED
    BY <2>1, <2>2
<1>4. CASE UNCHANGED vars
  BY <1>4 DEF vars
<1> QED
  BY <1>1, <1>2, <1>3, <1>4 DEF Next

\* What a commit nobody overtook publishes of the memberships
LEMMA FreshCommit ==
    ASSUME IInv, FreshInv, NEW r \in Requests, Commit(r), ~Overtaken
    PROVE  /\ Finishes(r) /\ ~req[r].stale
           /\ WellFormed(req[r]) /\ Stages(req[r]) /\ StillTrue(req[r])
           /\ \A u \in Users : member'[u] = IF u \in DOMAIN req[r].mem THEN req[r].mem[u]
                                            ELSE member[u]
           /\ grp' = IF req[r].grp = "delete" THEN "deleted" ELSE grp
<1>1. Finishes(r)
  BY DEF Finishes, Commit, Published
<1>2. ~req[r].stale
  BY <1>1 DEF Overtaken
<1>3. \A u \in Users : member'[u] = IF u \in DOMAIN req[r].mem THEN req[r].mem[u]
                                    ELSE member[u]
  BY DEF Commit, Overlay, IInv, TablesOK
<1> QED
  BY <1>1, <1>2, <1>3, FreshFacts DEF Commit

\* A change of the rights of a member that stays is the one that an
\* update_member_permissions has checked
LEMMA FreshChange ==
    ASSUME IInv, FreshInv, NEW r \in Requests, Commit(r), ~Overtaken,
           NEW u \in Users, member[u].in, member'[u].in, member'[u] # member[u]
    PROVE  /\ Finishes(r) /\ req[r].pc = "ready"
           /\ req[r].user \in Users /\ req[r].user # u
           /\ MayWrite(req[r].user) /\ ~member[u].owner
           /\ member'[u].owner => IsOwner(req[r].user)
<1> DEFINE q == req[r]
<1>1. /\ Finishes(r) /\ ~q.stale /\ WellFormed(q) /\ Stages(q) /\ StillTrue(q)
      /\ member'[u] = IF u \in DOMAIN q.mem THEN q.mem[u] ELSE member[u]
      /\ q.pc = "ready"
  BY FreshCommit DEF Commit
<1> HIDE DEF q
<1>2. u \in DOMAIN q.mem /\ member'[u] = q.mem[u] /\ q.mem[u].in
  BY <1>1
<1>3. /\ q.op \in {"join_group", "update_member_permissions"}
      /\ u = q.target /\ member'[u] = q.row
  BY <1>1, <1>2 DEF Stages
<1>4. q.op = "update_member_permissions"
  BY <1>1, <1>3 DEF StillTrue
<1>5. /\ q.user # u /\ MayWrite(q.user) /\ ~member[u].owner
      /\ member'[u].owner => IsOwner(q.user)
  BY <1>1, <1>3, <1>4 DEF Stages, StillTrue
<1>6. q.user \in Users
  BY <1>1 DEF WellFormed
<1> QED
  BY <1>1, <1>5, <1>6 DEF q

\* Both invariants hold throughout
LEMMA FreshInvariant == Spec => [](IInv /\ FreshInv)
  BY InitInvariant, NextInvariant, InitFresh, NextFresh, PTL DEF Spec

\* Nobody has been a member before create_group
LEMMA NobodyIsMember ==
    ASSUME IInv, NEW u \in Users, CreateGroup(u)
    PROVE  Members = {} /\ grp = "none" /\ member' = [member EXCEPT ![u] = Role(TRUE, TRUE)]
           /\ grp' = "live"
  BY DEF CreateGroup, IInv, NothingOutlivesTheGroup

\* An owner is demoted by nobody, unless the request that does it was overtaken
THEOREM NobodyDemotesOwners == Spec => FreshRequestsDemoteNoOwner
<1>1. ASSUME IInv, FreshInv, [Next]_vars,
             NEW u \in Users, member[u].owner, member'[u].in, ~member'[u].owner
      PROVE  Overtaken
  <2>1. member[u].in
    BY <1>1 DEF IInv, TablesOK, RowFits
  <2>2. ASSUME NEW r \in Requests, Commit(r) PROVE Overtaken
    BY <1>1, <2>1, <2>2, FreshChange
  <2>3. ~\E v \in Users : CreateGroup(v)
    BY <2>1, <1>1, NobodyIsMember DEF Members
  <2> QED
    BY <1>1, <2>2, <2>3, WhoChangesTheTables
<1>2. IInv /\ FreshInv /\ [Next]_vars =>
        [\A u \in Users : member[u].owner /\ member'[u].in /\ ~member'[u].owner
           => Overtaken]_vars
  BY <1>1
<1> QED
  BY <1>2, FreshInvariant, PTL DEF Spec, FreshRequestsDemoteNoOwner

\* A group goes with its only member, by that member's own request
THEOREM OnlyTheLastMemberDeletes == Spec => FreshRequestsDeleteOwnGroup
<1>1. ASSUME IInv, FreshInv, [Next]_vars, grp = "live", grp' = "deleted", ~Overtaken
      PROVE  \E r \in Requests : Finishes(r) /\ Members = {req[r].user}
  <2>1. PICK r \in Requests : Commit(r)
    BY <1>1, NobodyIsMember, WhoChangesTheTables
  <2>2. req[r].grp = "delete" /\ Finishes(r) /\ ~req[r].stale /\ StillTrue(req[r])
    BY <1>1, <2>1, FreshCommit
  <2> QED
    BY <2>2 DEF StillTrue
<1>2. IInv /\ FreshInv /\ [Next]_vars =>
        [grp = "live" /\ grp' = "deleted" =>
           \/ Overtaken
           \/ \E r \in Requests : Finishes(r) /\ Members = {req[r].user}]_vars
  BY <1>1
<1> QED
  BY <1>2, FreshInvariant, PTL DEF Spec, FreshRequestsDeleteOwnGroup

\* The last member who leaves does not leave the group behind
THEOREM LastMemberTakesTheGroup == Spec => FreshRequestsEmptyNoGroup
<1>1. ASSUME IInv, FreshInv, [Next]_vars,
             Members # {}, grp' = "live", \A u \in Users : ~member'[u].in
      PROVE  Overtaken
  <2>1. PICK v \in Users : member[v].in
    BY <1>1 DEF Members
  <2>2. PICK r \in Requests : Commit(r)
    BY <1>1, <2>1, NobodyIsMember, WhoChangesTheTables
  <2>3. SUFFICES ASSUME ~Overtaken PROVE FALSE
    OBVIOUS
  <2> DEFINE q == req[r]
  <2>4. /\ ~q.stale /\ WellFormed(q) /\ Stages(q) /\ StillTrue(q) /\ q.pc = "ready"
        /\ \A u \in Users : member'[u] = IF u \in DOMAIN q.mem THEN q.mem[u] ELSE member[u]
        /\ q.grp # "delete"
    BY <1>1, <2>2, <2>3, FreshCommit DEF Commit
  <2> HIDE DEF q
  <2>5. \A u \in Members : q.op = "leave_group" /\ u = q.user
    BY <1>1, <2>4 DEF Stages, Members
  <2>6. Members = {q.user} /\ q.op = "leave_group"
    BY <1>1, <2>5
  <2> QED
    BY <2>4, <2>6 DEF StillTrue
<1>2. IInv /\ FreshInv /\ [Next]_vars =>
        [Members # {} /\ grp' = "live" /\ (\A u \in Users : ~member'[u].in)
           => Overtaken]_vars
  BY <1>1
<1> QED
  BY <1>2, FreshInvariant, PTL DEF Spec, FreshRequestsEmptyNoGroup

\* Rights change only by somebody who has the right to change them
THEOREM ChangesHaveAuthority == Spec => FreshRequestsHaveAuthority
<1> DEFINE Authority(u) ==
             \/ Overtaken
             \/ \E r \in Requests :
                  /\ Finishes(r)
                  /\ req[r].user # u
                  /\ member[req[r].user].in /\ member[req[r].user].write
                  /\ member'[u].owner => member[req[r].user].owner
<1>1. ASSUME IInv, FreshInv, [Next]_vars,
             NEW u \in Users, member[u].in, member'[u].in, member'[u] # member[u]
      PROVE  Authority(u)
  <2>1. SUFFICES ASSUME ~Overtaken
                 PROVE  \E r \in Requests :
                          /\ Finishes(r)
                          /\ req[r].user # u
                          /\ member[req[r].user].in /\ member[req[r].user].write
                          /\ member'[u].owner => member[req[r].user].owner
    OBVIOUS
  <2>2. PICK r \in Requests : Commit(r)
    BY <1>1, NobodyIsMember, WhoChangesTheTables DEF Members
  <2>3. /\ Finishes(r) /\ req[r].user \in Users /\ req[r].user # u
        /\ MayWrite(req[r].user)
        /\ member'[u].owner => IsOwner(req[r].user)
    BY <1>1, <2>1, <2>2, FreshChange
  <2>4. RowFits(member[req[r].user])
    BY <1>1, <2>3 DEF IInv, TablesOK
  <2> QED
    BY <2>3, <2>4 DEF MayWrite, IsOwner, RowFits
<1>2. IInv /\ FreshInv /\ [Next]_vars =>
        [\A u \in Users :
           member[u].in /\ member'[u].in /\ member'[u] # member[u] => Authority(u)]_vars
  BY <1>1
<1> QED
  BY <1>2, FreshInvariant, PTL DEF Spec, FreshRequestsHaveAuthority
=============================================================================
