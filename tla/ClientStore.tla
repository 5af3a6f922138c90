------------------------------ MODULE ClientStore ------------------------------
(***************************************************************************)
(* The store the web and the mobile application keep of one group: the     *)
(* items they know from the server, the drafts the user works on, and the  *)
(* requests in flight between the two.  The slices of the store for        *)
(* transactions and for accounts have the same shape; a behaviour follows  *)
(* one of them, in one of the two applications ("focus").                  *)
(*                                                                         *)
(* An item is a transaction or an account.  Its fields stand for all the   *)
(* scalar values and shares a draft overwrites together; its parts are the *)
(* positions of a purchase or its files, which the store edits and sends   *)
(* one by one.  A value is the number of the edit it stems from: positive  *)
(* for the edits of this user, negative for those of other clients.        *)
(*                                                                         *)
(* Left out: formatting, validation of forms, tags, search and sorting.    *)
(***************************************************************************)
EXTENDS Integers, Sequences, FiniteSets

CONSTANTS
    Focuses,      \* an application, a slice of its store (the files of transactions
                  \* apart from the rest), and whether notifications reach it (live)
    Slots,        \* requests of the application in flight at a time
    MaxEvents     \* what this user does (edits, saves, refreshes, restarts, ...)
                  \* and changes by other clients, taken together

ASSUME StoreBounds ==
    /\ Focuses \subseteq [app : {"web", "mobile"}, slice : {"positions", "files", "accounts"}, live : BOOLEAN]
    /\ MaxEvents \in Nat
    /\ IsFiniteSet(Slots)

VARIABLES
    focus,        \* [app, slice, live]: what this behaviour is about
    published,    \* revisions of every item on the server, oldest first
    bornFrom,     \* the local id an item was created from, 0 for none
    news,         \* items with a notification on its way to the application
    group,        \* [present, status]: the entry of the group in byGroupId
    known,        \* transactions.byId, each with the revision it came from
    knownIds,     \* transactions.ids
    knownEffect,  \* transactions.balanceEffects
    draft,        \* wipTransactions.byId
    draftIds,     \* wipTransactions.ids
    draftEffect,  \* wipTransactions.balanceEffects
    next,         \* [item, part]: the next local ids, counting down
    requests,     \* the requests of the application
    page,         \* the pages of the group are open and have subscribed
    events,       \* how many of MaxEvents have happened
    member,       \* the user is a member of the group
    gap,          \* an answer to a read was lost or overtaken by a newer one
    risky         \* two saves of one item overlapped, or an answer was lost

server == <<published, bornFrom, member>>
store == <<group, known, knownIds, knownEffect, draft, draftIds, draftEffect, next>>
vars == <<focus, server, news, store, requests, page, events, gap, risky>>

Items == 1..(1 + MaxEvents)
NoParts == [p \in {} |-> 0]
Idle == [stage |-> "idle"]

With(f, k, v) == [x \in DOMAIN f \cup {k} |-> IF x = k THEN v ELSE f[x]]
Without(f, k) == [x \in DOMAIN f \ {k} |-> f[x]]

-----------------------------------------------------------------------------
(* What the server stores and what the store makes of it. *)

Existing == {t \in Items : published[t] # <<>>}
Latest(t) == published[t][Len(published[t])]

\* backendTransactionToTransaction: nothing is changed or only local.
FromServer(t, n) ==
    LET c == published[t][n]
    IN [rev |-> n, fields |-> c.fields, deleted |-> c.deleted,
        parts |-> [p \in DOMAIN c.parts |->
                     [val |-> c.parts[p].val, deleted |-> c.parts[p].deleted, state |-> "backend"]]]

\* computeTransactionBalanceEffect reads the shares and the live positions.
Effect(c) ==
    [fields |-> c.fields,
     parts |-> IF focus.slice = "positions"
               THEN {<<p, c.parts[p].val>> : p \in {q \in DOMAIN c.parts : ~c.parts[q].deleted}}
               ELSE {}]

\* A draft starts as a copy of what is known (moveTransactionToWip).
Base(t) ==
    IF t \in DOMAIN draft THEN draft[t]
    ELSE [fields |-> known[t].fields, deleted |-> known[t].deleted, parts |-> known[t].parts]

Shown(t) == IF t \in DOMAIN draft THEN draft[t] ELSE known[t]
Visible == {t \in DOMAIN known \cup DOMAIN draft : ~Shown(t).deleted}

\* The elements of a sequence that are in a set, in their order.
Filtered(s, S) ==
    LET at == {i \in DOMAIN s : s[i] \in S}
    IN [k \in 1..Cardinality(at) |-> s[CHOOSE i \in at : Cardinality({j \in at : j <= i}) = k]]

\* addEntity and removeEntity on the list of ids next to a map.
AddId(ids, map, id) == IF id \in DOMAIN map THEN ids ELSE Append(ids, id)
DropId(ids, map, id) == IF id \in DOMAIN map THEN Filtered(ids, Int \ {id}) ELSE ids

-----------------------------------------------------------------------------
Init ==
    /\ focus \in Focuses
    /\ published = [t \in Items |->
         IF t # 1 THEN <<>>
         ELSE <<[fields |-> 0, deleted |-> FALSE,
                 parts |-> IF focus.slice = "accounts" THEN NoParts
                           ELSE [p \in {1} |-> [val |-> 0, deleted |-> FALSE]]]>>]
    /\ bornFrom = [t \in Items |-> 0]
    /\ member = TRUE
    /\ news = {}
    /\ group = [present |-> FALSE, status |-> "none"]
    /\ known = NoParts /\ knownIds = <<>> /\ knownEffect = NoParts
    /\ draft = NoParts /\ draftIds = <<>> /\ draftEffect = NoParts
    /\ next = [item |-> -1, part |-> -1]
    /\ requests = [r \in Slots |-> Idle]
    /\ page = FALSE
    /\ events = 0
    /\ gap = FALSE /\ risky = FALSE

\* The pages of a group wait until the lists are there, or have failed.
Ready == page /\ member /\ group.present /\ group.status # "loading"

Count == events < MaxEvents /\ events' = events + 1
Stamp == events + 1

Edit ==
    /\ Ready
    /\ Count
    /\ UNCHANGED <<focus, server, news, group, knownIds, knownEffect, requests, page, gap, risky>>

-----------------------------------------------------------------------------
(* The user's work on drafts. *)

\* Mutant of NextLocal: counts towards the ids of the server.
NextLocalUp(id) == id + 1

NextLocal(id) == id - 1

\* Mutant of NewDraft: without advanceNextLocalTransactionId.
NewDraftOldId(c) ==
    /\ draft' = With(draft, next.item, c)
    /\ draftIds' = AddId(draftIds, draft, next.item)
    /\ draftEffect' = With(draftEffect, next.item, Effect(c))
    /\ UNCHANGED <<known, next>>

\* createTransaction, createAccount; copyAccount when there is one to copy.
NewDraft(c) ==
    /\ draft' = With(draft, next.item, c)
    /\ draftIds' = AddId(draftIds, draft, next.item)
    /\ draftEffect' = With(draftEffect, next.item, Effect(c))
    /\ next' = [next EXCEPT !.item = NextLocal(@)]
    /\ UNCHANGED known

Create ==
    /\ Edit
    /\ NewDraft([fields |-> Stamp, deleted |-> FALSE, parts |-> NoParts])

CopyAccount(t) ==
    /\ Edit
    /\ t \in Visible
    /\ NewDraft([fields |-> Stamp, deleted |-> FALSE, parts |-> NoParts])

\* transactionEditStarted, accountEditStarted.
StartEdit(t) ==
    /\ Ready
    /\ events < MaxEvents
    /\ t \in Visible \ DOMAIN draft
    /\ draft' = With(draft, t, Base(t))
    /\ draftIds' = Append(draftIds, t)
    /\ UNCHANGED <<focus, server, news, group, known, knownIds, knownEffect, draftEffect, next,
                   requests, page, events, gap, risky>>

\* wipTransactionUpdated, wipAccountUpdated: pushes the id, and then calls
\* moveTransactionToWip, which pushes it again.
UpdateDraft(t, fields) ==
    /\ draft' = With(draft, t, [Base(t) EXCEPT !.fields = fields])
    /\ draftIds' = IF t \in DOMAIN draft THEN draftIds ELSE draftIds \o <<t, t>>
    /\ draftEffect' = With(draftEffect, t, Effect(draft'[t]))

EditFields(t) ==
    /\ Edit
    /\ t \in Visible
    /\ UpdateDraft(t, Stamp)
    /\ UNCHANGED <<known, next>>

\* A part of a draft changes.  A draft that starts in the same reducer shares
\* its parts with the item it was copied from, and both change.
ChangeParts(t, parts) ==
    /\ draft' = With(draft, t, [Base(t) EXCEPT !.parts = parts])
    /\ draftIds' = AddId(draftIds, draft, t)
    /\ known' = IF t \in DOMAIN draft THEN known ELSE [known EXCEPT ![t].parts = parts]
    /\ draftEffect' = IF focus.slice = "positions"
                      THEN With(draftEffect, t, Effect(draft'[t])) ELSE draftEffect

\* wipPositionAdded, wipFileAdded, and wipPositionUpdated on the blank last row.
AddPart(t) ==
    /\ Edit
    /\ t \in Visible
    /\ ChangeParts(t, With(Base(t).parts, next.part, [val |-> Stamp, deleted |-> FALSE, state |-> "new"]))
    /\ next' = [next EXCEPT !.part = NextLocal(@)]

LivePart(t, p) == p \in DOMAIN Base(t).parts /\ ~Base(t).parts[p].deleted

\* Mutant of Marked: is_changed stays as it was.
Unmarked(state) == state

\* What the server has never seen stays new, everything else is to be sent.
Marked(state) == IF state = "new" THEN "new" ELSE "updated"

\* wipPositionUpdated on a row that is there.
EditPart(t, p) ==
    /\ Edit
    /\ t \in Visible /\ LivePart(t, p)
    /\ ChangeParts(t, [Base(t).parts EXCEPT
         ![p] = [val |-> Stamp, deleted |-> FALSE, state |-> Marked(@.state)]])
    /\ UNCHANGED next

\* positionDeleted, wipFileDeleted: what the server has never seen is gone.
DeletePart(t, p) ==
    /\ Edit
    /\ t \in Visible /\ LivePart(t, p)
    /\ ChangeParts(t, IF Base(t).parts[p].state = "new" THEN Without(Base(t).parts, p)
                      ELSE [Base(t).parts EXCEPT ![p] = [val |-> Stamp, deleted |-> TRUE, state |-> Marked(@.state)]])
    /\ UNCHANGED next

\* Mutant of RemoveDraft: the balance effect of the draft is kept.
RemoveDraftOnly(t) ==
    /\ draft' = Without(draft, t)
    /\ draftIds' = DropId(draftIds, draft, t)
    /\ UNCHANGED draftEffect

RemoveDraft(t) ==
    /\ draft' = Without(draft, t)
    /\ draftIds' = DropId(draftIds, draft, t)
    /\ draftEffect' = Without(draftEffect, t)

\* discardTransactionChange, discardAccountChange.
Discard(t) ==
    /\ Ready
    /\ Count
    /\ t \in DOMAIN draft
    /\ RemoveDraft(t)
    /\ UNCHANGED <<focus, server, news, group, known, knownIds, knownEffect, next,
                   requests, page, gap, risky>>

-----------------------------------------------------------------------------
(* Requests.  A request is sent, executed by the server or refused, and    *)
(* answered; the connection may fail at any time before the answer.        *)

Send(request) ==
    /\ \E r \in Slots : requests[r] = Idle
    /\ requests' = [requests EXCEPT ![CHOOSE r \in Slots : requests[r] = Idle] = request]

Request(kind, t) == [stage |-> "sent", kind |-> kind, item |-> t]

\* Mutant of ChangedParts: without the filter on is_changed.
AllParts(c) == DOMAIN c.parts

\* Of the parts only what is_changed, or a file that is new or updated, is sent.
ChangedParts(c) == {p \in DOMAIN c.parts : c.parts[p].state # "backend"}

Stamps(c) == {c.fields} \cup {c.parts[p].val : p \in DOMAIN c.parts}

\* had, for the properties only: the changes of the user that are in the draft
SaveRequest(t, c) ==
    [stage |-> "sent", kind |-> "save", item |-> t, had |-> {s \in Stamps(c) : s > 0},
     body |-> [fields |-> c.fields, parts |-> [p \in ChangedParts(c) |-> c.parts[p]]]]

InFlight(kind, t) == \E r \in Slots : requests[r] # Idle /\ requests[r].kind = kind /\ requests[r].item = t

SendSave(t) ==
    /\ Ready
    /\ Count
    /\ Send(SaveRequest(t, draft'[t]))
    /\ risky' = (risky \/ InFlight("save", t))
    /\ UNCHANGED <<focus, server, news, group, known, knownIds, knownEffect, next, page, gap>>

\* saveTransaction, saveAccount: what is sent is the draft at the click.
Save(t) ==
    /\ t \in DOMAIN draft
    /\ UNCHANGED <<draft, draftIds, draftEffect>>
    /\ SendSave(t)

\* onSubmit of the mobile screens: the form is written into the draft first.
SubmitForm(t) ==
    /\ t \in Visible
    /\ UpdateDraft(t, Base(t).fields)
    /\ SendSave(t)

\* deleteTransaction, deleteAccount: the server is asked for what it knows.
Delete(t) ==
    /\ Ready
    /\ Count
    /\ t \in Visible
    /\ IF t \in DOMAIN known
       THEN Send(Request("delete", t)) /\ UNCHANGED <<draft, draftIds, draftEffect>>
       ELSE RemoveDraft(t) /\ UNCHANGED requests
    /\ UNCHANGED <<focus, server, news, group, known, knownIds, knownEffect, next, page, gap, risky>>

\* fetchTransactions.pending, fetchAccounts.pending: initializeGroupState.
FetchList ==
    /\ Send(Request("list", 0))
    /\ group' = IF group.present THEN group ELSE [present |-> TRUE, status |-> "loading"]
    /\ UNCHANGED <<focus, server, known, knownIds, knownEffect, draft, draftIds, draftEffect, next,
                   gap, risky>>

\* The page of the group opens: it subscribes and fetches.
OpenPage ==
    /\ ~page /\ member
    /\ page' = TRUE
    /\ FetchList
    /\ UNCHANGED <<news, events>>

\* The user pulls the list down, or leaves the page and comes back.
Refresh ==
    /\ page /\ member
    /\ Count
    /\ FetchList
    /\ UNCHANGED <<news, page>>

\* A notification makes the application fetch the item (fetchTransaction).
Notified(t) ==
    /\ page
    /\ t \in news
    /\ news' = news \ {t}
    /\ Send(Request("get", t))
    /\ UNCHANGED <<focus, server, store, page, events, gap, risky>>

\* leaveGroup.fulfilled: the group's part of the store is dropped.
Leave ==
    /\ Ready
    /\ focus.app = "web"
    /\ Count
    /\ member' = FALSE
    /\ page' = FALSE
    /\ news' = {}
    /\ group' = [present |-> FALSE, status |-> "none"]
    /\ known' = NoParts /\ knownIds' = <<>> /\ knownEffect' = NoParts
    /\ draft' = NoParts /\ draftIds' = <<>> /\ draftEffect' = NoParts
    /\ UNCHANGED <<focus, published, bornFrom, next, requests, gap, risky>>

\* The application is closed and opened again: the slices come back from the
\* storage of the device, the requests do not; the server may have got them.
Reload ==
    /\ Count
    /\ page' = FALSE
    /\ news' = {}
    /\ requests' = [r \in Slots |->
         IF requests[r] # Idle /\ requests[r].stage = "sent" /\ requests[r].kind \in {"save", "delete"}
         THEN [requests[r] EXCEPT !.stage = "orphan"]
         ELSE IF requests[r] # Idle /\ requests[r].stage = "orphan" THEN requests[r] ELSE Idle]
    /\ risky' = (risky \/ \E r \in Slots : requests[r] # Idle /\ requests[r].kind = "save")
    /\ UNCHANGED <<focus, server, store, gap>>

-----------------------------------------------------------------------------
(* The server. *)

\* Mutant of Announced: the trigger fires on inserts only.
AnnouncedNew(t) == IF focus.live /\ page /\ published[t] = <<>> THEN news \cup {t} ELSE news

\* Only an application that has opened its web socket is told (LiveUpdates).
Announced(t) == IF focus.live /\ page THEN news \cup {t} ELSE news

Publish(t, c, from) ==
    /\ published' = [published EXCEPT ![t] = Append(@, c)]
    /\ bornFrom' = [bornFrom EXCEPT ![t] = IF published[t] = <<>> THEN from ELSE @]
    /\ news' = Announced(t)
    /\ UNCHANGED member

NewItem == CHOOSE t \in Items : published[t] = <<>> /\ \A u \in Items : published[u] = <<>> => t <= u

\* update_transaction: the fields are replaced, changed parts too, new parts
\* get ids of their own, all others stay; an update brings a deleted item back.
Merged(parts, body) ==
    LET fresh == {p \in DOMAIN body.parts : body.parts[p].state = "new"}
        count == Cardinality(DOMAIN parts)
        Nth(p) == count + Cardinality({q \in fresh : q >= p})
        Plain(p) == [val |-> body.parts[p].val, deleted |-> body.parts[p].deleted]
    IN [q \in DOMAIN parts \cup {Nth(p) : p \in fresh} |->
          IF q \in DOMAIN parts
          THEN IF q \in DOMAIN body.parts THEN Plain(q) ELSE parts[q]
          ELSE Plain(CHOOSE p \in fresh : Nth(p) = q)]

Saved(t, body) ==
    [fields |-> body.fields, deleted |-> FALSE,
     parts |-> Merged(IF t \in Items THEN Latest(t).parts ELSE NoParts, body)]

Answered(q, answer) ==
    IF q.stage = "orphan" THEN Idle
    ELSE [k \in DOMAIN q \cup {"answer"} |->
            IF k = "answer" THEN answer ELSE IF k = "stage" THEN "answered" ELSE q[k]]

Execute(r) ==
    LET q == requests[r]
        \* a new item gets the next id of the server
        target == IF q.kind = "save" /\ q.item < 0 THEN NewItem ELSE q.item
    IN /\ q # Idle
       /\ q.stage \in {"sent", "orphan"}
       /\ member
       /\ q.kind = "delete" => ~Latest(q.item).deleted
       /\ q.kind = "save" /\ q.item < 0 =>      \* bound: Items
            \E t \in Items : published[t] = <<>>
       /\ CASE q.kind = "save" -> Publish(target, Saved(q.item, q.body), q.item)
            [] q.kind = "delete" -> Publish(target, [Latest(target) EXCEPT !.deleted = TRUE], 0)
            [] OTHER -> UNCHANGED <<server, news>>
       /\ requests' = [requests EXCEPT ![r] = Answered(q,
            IF q.kind = "list" THEN [t \in Existing |-> Len(published[t])]
            ELSE [t \in {target} |-> Len(published'[t])])]
       /\ UNCHANGED <<focus, store, page, events, gap, risky>>

\* Another client changes the fields or a part of an item, or deletes it.
OtherClient(t) ==
    /\ Count
    /\ t \in Existing
    /\ ~Latest(t).deleted
    /\ LET now == Latest(t)
           value == -Stamp
       IN \/ Publish(t, [now EXCEPT !.fields = value], 0)
          \/ Publish(t, [now EXCEPT !.deleted = TRUE], 0)
          \/ \E p \in DOMAIN now.parts : Publish(t, [now EXCEPT !.parts[p].val = value], 0)
    /\ UNCHANGED <<focus, store, requests, page, gap, risky>>

-----------------------------------------------------------------------------
(* Answers. *)

\* A known item is replaced by an older revision of itself.
Overtaken(answer) == \E t \in DOMAIN known : t \notin DOMAIN answer \/ answer[t] < known[t].rev

\* fetchTransactions.fulfilled throws for a group that is not in the store,
\* fetchAccounts.fulfilled initializes it.
ReceiveList(r) ==
    /\ requests[r] # Idle /\ requests[r].stage = "answered" /\ requests[r].kind = "list"
    /\ requests' = [requests EXCEPT ![r] = Idle]
    /\ IF group.present \/ focus.slice = "accounts"
       THEN /\ group' = [present |-> TRUE, status |-> "initialized"]
            /\ known' = [t \in DOMAIN requests[r].answer |-> FromServer(t, requests[r].answer[t])]
            /\ knownIds' = Filtered([i \in Items |-> i], DOMAIN requests[r].answer)
            /\ knownEffect' = [t \in DOMAIN known' |-> Effect(known'[t])]
            /\ gap' = (gap \/ Overtaken(requests[r].answer))
       ELSE UNCHANGED <<group, known, knownIds, knownEffect, gap>>
    /\ UNCHANGED <<focus, server, news, draft, draftIds, draftEffect, next, page, events, risky>>

\* Mutant of DraftOf: the draft is looked up by the id the server gave.
DraftOfAnswer(q) == CHOOSE u \in DOMAIN q.answer : TRUE

\* oldTransactionId, oldAccountId.
DraftOf(q) == q.item

\* fetchTransaction.fulfilled, saveTransaction.fulfilled, deleteTransaction.fulfilled
\* and those of accounts: the item is entered as it was answered; a save or a
\* deletion removes the draft, whatever is in it by now.
Receive(r) ==
    LET q == requests[r]
        t == CHOOSE u \in DOMAIN q.answer : TRUE
        item == FromServer(t, q.answer[t])
    IN /\ q # Idle /\ q.stage = "answered" /\ q.kind # "list"
       /\ requests' = [requests EXCEPT ![r] = Idle]
       /\ IF group.present
          THEN /\ known' = With(known, t, item)
               /\ knownIds' = AddId(knownIds, known, t)
               /\ knownEffect' = IF q.kind = "delete" THEN knownEffect ELSE With(knownEffect, t, Effect(item))
               /\ gap' = (gap \/ (t \in DOMAIN known /\ q.answer[t] < known[t].rev))
               /\ IF q.kind = "get" THEN UNCHANGED <<draft, draftIds, draftEffect>> ELSE RemoveDraft(DraftOf(q))
          ELSE UNCHANGED <<known, knownIds, knownEffect, draft, draftIds, draftEffect, gap>>
       /\ UNCHANGED <<focus, server, news, group, next, page, events, risky>>

\* The request is rejected: no connection, refused, or the answer is lost.
Reject(r) ==
    LET q == requests[r]
    IN /\ q # Idle
       /\ requests' = [requests EXCEPT ![r] = Idle]
       /\ group' = IF q.kind = "list" /\ group.present THEN [group EXCEPT !.status = "failed"] ELSE group
       /\ gap' = (gap \/ q.kind \in {"list", "get"})
       /\ risky' = (risky \/ (q.kind = "save" /\ q.stage = "answered"))
       /\ UNCHANGED <<focus, server, news, known, knownIds, knownEffect, draft, draftIds, draftEffect,
                      next, page, events>>

-----------------------------------------------------------------------------
(* What the pages offer.  On the web a page is edited once its edit button  *)
(* was clicked; on a mobile screen the first change starts the draft.       *)

Web(slice) == focus.app = "web" /\ focus.slice = slice
Mobile(slice) == focus.app = "mobile" /\ focus.slice = slice
Drafted(t) == t \in DOMAIN draft

TransactionActions(t) ==
    \/ Drafted(t) /\ (Save(t) \/ Discard(t))
    \/ StartEdit(t)
    \/ Delete(t)

TransactionMetadata(t) == Drafted(t) /\ EditFields(t)

\* Mutant of TransactionPositions: the rows accept input without a draft.
PositionsWithoutDraft(t) == AddPart(t) \/ \E p \in DOMAIN Base(t).parts : EditPart(t, p) \/ DeletePart(t, p)

\* A row copies, changes or removes its position.
PositionTableRow(t, p) == AddPart(t) \/ EditPart(t, p) \/ DeletePart(t, p)

TransactionPositions(t) ==
    /\ Drafted(t)
    /\ AddPart(t) \/ \E p \in DOMAIN Base(t).parts : PositionTableRow(t, p)

FileGallery(t) == Drafted(t) /\ \E p \in DOMAIN Base(t).parts : DeletePart(t, p)
ImageUploadDialog(t) == Drafted(t) /\ AddPart(t)

TransactionDetail(t) ==
    \/ TransactionActions(t) \/ TransactionMetadata(t)
    \/ Web("positions") /\ TransactionPositions(t)
    \/ Web("files") /\ (FileGallery(t) \/ ImageUploadDialog(t))

TransactionList == Create
AccountTransactionList == Create

TransactionPages ==
    \/ TransactionList \/ AccountTransactionList
    \/ \E t \in DOMAIN known \cup DOMAIN draft : TransactionDetail(t)

AccountInfo(t) ==
    \/ Drafted(t) /\ (Save(t) \/ Discard(t) \/ EditFields(t))
    \/ StartEdit(t)

DeleteAccountModal(t) == Delete(t)
PersonalAccountList == Create
PersonalAccountListItem(t) == StartEdit(t)
ClearingAccountList == Create
ClearingAccountListItem(t) == StartEdit(t) \/ CopyAccount(t)

AccountPages ==
    \/ PersonalAccountList \/ ClearingAccountList
    \/ \E t \in DOMAIN known \cup DOMAIN draft :
         \/ AccountInfo(t) \/ DeleteAccountModal(t)
         \/ PersonalAccountListItem(t) \/ ClearingAccountListItem(t)

\* A position dialog stores a row that is there, or the blank row of a draft;
\* a row of the list is copied or deleted.
PositionDialog(t) == (Drafted(t) /\ AddPart(t)) \/ \E p \in DOMAIN Base(t).parts : EditPart(t, p)
PositionListItem(t) == \E p \in DOMAIN Base(t).parts : AddPart(t) \/ DeletePart(t, p)

MobileTransactionDetail(t) ==
    \/ EditFields(t) \/ SubmitForm(t) \/ Discard(t) \/ Delete(t)
    \/ PositionDialog(t) \/ PositionListItem(t)

\* The list can be pulled down; on the web it is fetched when a page opens.
MobileTransactionList == Create \/ Refresh

MobileTransactionScreens ==
    \/ MobileTransactionList
    \/ \E t \in DOMAIN known \cup DOMAIN draft : MobileTransactionDetail(t)

MobileAccountEdit(t) == EditFields(t) \/ SubmitForm(t) \/ Discard(t) \/ Delete(t)
MobileAccountDetail(t) == Delete(t)
MobileAccountList == Create \/ Refresh

MobileAccountScreens ==
    \/ MobileAccountList
    \/ \E t \in DOMAIN known \cup DOMAIN draft : MobileAccountEdit(t) \/ MobileAccountDetail(t)

\* The mobile application fetches a group that becomes the active one, again
\* when it is the active one already.
changeActiveGroup == focus.app = "mobile" /\ (OpenPage \/ Refresh)

User ==
    \/ (Web("positions") \/ Web("files")) /\ TransactionPages
    \/ Web("accounts") /\ AccountPages
    \/ Mobile("positions") /\ MobileTransactionScreens
    \/ Mobile("accounts") /\ MobileAccountScreens
    \/ changeActiveGroup
    \/ focus.app = "web" /\ (OpenPage \/ Refresh)
    \/ Leave \/ Reload

Next ==
    \/ User
    \/ \E t \in Items : Notified(t) \/ OtherClient(t)
    \/ \E r \in Slots : Execute(r) \/ ReceiveList(r) \/ Receive(r) \/ Reject(r)

\* The runtime delivers notifications and answers, the server works off its
\* requests, and a request that nobody answers times out.  No user has to act.
Fairness ==
    /\ WF_vars(OpenPage)
    /\ WF_vars(\E t \in Items : Notified(t))
    /\ WF_vars(\E r \in Slots : Execute(r) \/ Reject(r) \/ ReceiveList(r) \/ Receive(r))

Spec == Init /\ [][Next]_vars /\ Fairness

-----------------------------------------------------------------------------
(* Properties. *)

Mutable(c) ==
    /\ c.fields \in Int /\ c.deleted \in BOOLEAN
    /\ \A p \in DOMAIN c.parts :
         /\ p \in Int \ {0}
         /\ c.parts[p].val \in Int /\ c.parts[p].deleted \in BOOLEAN
         /\ c.parts[p].state \in {"backend", "new", "updated"}

\* Items of the server have positive ids, local ones negative ids.
TypeOK ==
    /\ focus \in Focuses
    /\ \A t \in DOMAIN known : t \in Existing /\ known[t].rev \in 1..Len(published[t]) /\ Mutable(known[t])
    /\ \A t \in DOMAIN draft : (t < 0 \/ t \in Existing) /\ Mutable(draft[t])
    /\ news \subseteq Existing
    /\ group \in [present : BOOLEAN, status : {"none", "loading", "initialized", "failed"}]
    /\ DOMAIN requests = Slots
    /\ \A r \in Slots : requests[r] # Idle =>
         /\ requests[r].stage \in {"sent", "answered", "orphan"}
         /\ requests[r].kind \in {"list", "get", "save", "delete"}
    /\ events \in 0..MaxEvents
    /\ {page, member, gap, risky} \subseteq BOOLEAN

\* A local id that is handed out next is in nobody's use: neither a draft nor a
\* request that creates an item has it, nor a position or file of a draft.  Two
\* drafts with one id would be shown, saved and discarded as one, over restarts
\* too (nextLocalTransactionId, nextLocalPositionId, nextLocalAccountId).
LocalIdsAreFresh ==
    /\ \A t \in DOMAIN draft : /\ t > next.item
                              /\ \A p \in DOMAIN draft[t].parts : p > next.part
    /\ \A r \in Slots : requests[r] # Idle => requests[r].item > next.item

SeqSet(s) == {s[i] : i \in 1..Len(s)}
HasNoTwice(s) == \A i, j \in 1..Len(s) : s[i] = s[j] => i = j

\* The lists of ids and the maps of items name the same items, and the balance
\* effects are those of the items they are kept for: no page shows an item
\* twice, none that is gone, and no balance from a position nobody has.  The
\* mobile application starts drafts in the reducers that change them; there
\* the list of drafts holds an id twice and effects of known items are old.
IndexesAgree ==
    /\ SeqSet(knownIds) = DOMAIN known /\ HasNoTwice(knownIds)
    /\ SeqSet(draftIds) = DOMAIN draft
    /\ DOMAIN draftEffect \subseteq DOMAIN draft
    /\ \A t \in DOMAIN draftEffect : draftEffect[t] = Effect(draft[t])
    /\ focus.app = "web" =>
         /\ HasNoTwice(draftIds)
         /\ \A t \in DOMAIN known : ~known[t].deleted => knownEffect[t] = Effect(known[t])

\* What the web application keeps as coming from the server is, item by item,
\* some revision of the server: no edit of a draft reaches it before it is
\* saved, whatever the user edits, discards and reloads.
KnownComesFromServer ==
    focus.app = "web" => \A t \in DOMAIN known : known[t] = FromServer(t, known[t].rev)

Stored(stamp) ==
    \E t \in Existing : \E n \in 1..Len(published[t]) : stamp \in Stamps(published[t][n])

SavedBy(r, t) ==
    /\ requests[r] # Idle /\ requests'[r] = Idle
    /\ requests[r].kind = "save" /\ requests[r].item = t

\* A save that removes a draft loses no edit that was in the draft when it was
\* sent: the server has stored the last change of every field and position,
\* deletions too.  (Edits made while the answer is under way are lost.)
SavesLoseNoEarlierEdit ==
    [][\A t \in DOMAIN draft \ DOMAIN draft', r \in Slots :
         SavedBy(r, t) => \A stamp \in requests[r].had : Stored(stamp)]_vars

\* Saving a draft that was started some time ago undoes nobody's change of a
\* position this user has not touched: a stored position only changes to what
\* its user typed or to what another client has just sent.
NobodysPartIsUndone ==
    [][\A t \in Existing : \A p \in DOMAIN Latest(t).parts :
         LET now == published'[t][Len(published'[t])].parts[p].val
         IN now # Latest(t).parts[p].val => now > 0 \/ now = -Stamp]_vars

\* A draft becomes one item.  Only a second save while the first is under way
\* or after its answer was lost creates it again: the server cannot tell.
OneItemPerDraft ==
    \A t, u \in Existing : bornFrom[t] < 0 /\ bornFrom[t] = bornFrom[u] => t = u \/ risky

UpToDate ==
    \A t \in Existing : t \in DOMAIN known /\ known[t].rev = Len(published[t])

\* In the end a live application shows what the server has, without the user
\* doing anything, unless the answer to a read was lost or was overtaken by that
\* of a later one: an older answer replaces what is newer, and nothing asks again.
Converges == <>[](UpToDate \/ gap \/ ~member \/ ~focus.live)
=============================================================================
