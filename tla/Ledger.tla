------------------------------- MODULE Ledger --------------------------------
(***************************************************************************)
(* Accounts and transactions of one group and their revisions              *)
(* (abrechnung/application/accounts.py and transactions.py, the views and  *)
(* *_valid_at functions of database/code, and the check constraints that   *)
(* run when a revision is committed).                                      *)
(*                                                                         *)
(* Nothing is ever overwritten: every change adds a revision, with a       *)
(* serial id and a created_at, and the state of an item is computed from   *)
(* its revisions.  Three orders meet here: created_at is now(), the start  *)
(* of the database transaction; the id is drawn when the revision row is   *)
(* inserted; and other requests see the revision when it is committed.     *)
(* These handlers take no lock that makes another one wait.  A request is  *)
(* therefore three steps: Begin fixes now(); one step reads what the       *)
(* handler checks, draws the id, and writes; Commit publishes.  (A commit  *)
(* of another request between two of its reads makes it stale, as one      *)
(* right before or after them does.)  Abort is every end without a commit. *)
(* A request that is refused changes nothing and is an Abort after Begin.  *)
(*                                                                         *)
(* Left out: whether the caller is allowed to (see GroupMembership: these  *)
(* are the requests that were let through), names, prices and the size of  *)
(* shares (a share is in the set when it is positive), tags, files, dates, *)
(* owning users and the group log.                                         *)
(***************************************************************************)
EXTENDS Naturals, FiniteSets

CONSTANTS Personal, Clearing,           \* account ids by type
          Existing,                     \* accounts there from the start
          Purchases, Transfers, Mimos,  \* transaction ids by type
          Items,                        \* ids for the positions of a purchase
          ShareInputs,                  \* <<creditors, debitors>> clients send
          PositionInputs,               \* positions clients send
          ClearingInputs,               \* clearing shares clients send
          Requests,                     \* database connections
          MaxTime                       \* bound: requests that may begin

Accounts == Personal \cup Clearing
Transactions == Purchases \cup Transfers \cup Mimos

ASSUME AccountTypesDiffer == Personal \cap Clearing = {}
ASSUME TransactionTypesDiffer ==
    Purchases \cap Transfers = {} /\ Mimos \cap (Purchases \cup Transfers) = {}
ASSUME ExistingAreAccounts == Existing \subseteq Accounts
ASSUME InputsAreShares ==
    /\ ShareInputs \subseteq (SUBSET Accounts) \X (SUBSET Accounts)
    /\ ClearingInputs \subseteq SUBSET Accounts
ASSUME TimeIsBounded == MaxTime \in Nat

VARIABLES
    accRevs,   \* committed account revisions
    txRevs,    \* committed transaction revisions
    time,      \* start time of the latest request
    nextId,    \* the revision id to be drawn next
    req        \* the open request of each connection

vars == <<accRevs, txRevs, time, nextId, req>>
committed == <<accRevs, txRevs>>

-----------------------------------------------------------------------------
(* Revisions *)

Position == [used : SUBSET Accounts, common : BOOLEAN, deleted : BOOLEAN]
PartialFunctions(S, T) == UNION {[D -> T] : D \in SUBSET S}

ASSUME InputsArePositions == PositionInputs \subseteq PartialFunctions(Items, Position)

AccountRevision == [id : Nat, of : Accounts, at : Nat,
                    deleted : BOOLEAN, shares : SUBSET Accounts]

\* full: there is a transaction_history row for this revision
TransactionRevision ==
    [id : Nat, of : Transactions, at : Nat, full : BOOLEAN, deleted : BOOLEAN,
     cred : SUBSET Accounts, deb : SUBSET Accounts,
     pos : PartialFunctions(Items, Position)]

NoPositions == [i \in {} |-> {}]
\* Mutant of Newest: order by created_at without desc
NewestAscending(revs) == CHOOSE x \in revs : \A y \in revs : x.at <= y.at
Newest(revs) == CHOOSE x \in revs : \A y \in revs : y.at <= x.at
\* Mutant of Oldest: the window in descending order
OldestDescending(revs) == CHOOSE x \in revs : \A y \in revs : y.id <= x.id
Oldest(revs) == CHOOSE x \in revs : \A y \in revs : x.id <= y.id
Known(revs, x) == \E v \in revs : v.of = x
RevisionsOf(revs, x, now) == {v \in revs : v.of = x /\ v.at <= now}

-----------------------------------------------------------------------------
(* The views.  A state is what account_state_valid_at, ... return for the  *)
(* time now: the newest revision by created_at.                            *)

VisibleAccount(revs, a, now) == RevisionsOf(revs, a, now) # {}
AccountState(revs, a, now) == Newest(RevisionsOf(revs, a, now))
AccountLives(revs, a, now) ==
    VisibleAccount(revs, a, now) /\ ~AccountState(revs, a, now).deleted

\* aggregated_transaction_history: id_partition counts the history rows up to
\* created_at, so a revision that has none belongs with the full one before it.
\* The window runs over all committed revisions, whatever now is
Partition(revs, x) ==
    {y \in revs : y.of = x.of /\
       \A f \in revs : f.of = x.of /\ f.full => (f.at <= y.at <=> f.at <= x.at)}

\* first_value(...) over the partition in the order of revision ids: the columns
\* are NULL when that revision has no history row
VisibleTransaction(revs, t, now) == RevisionsOf(revs, t, now) # {}
TransactionState(revs, t, now) ==
    Oldest(Partition(revs, Newest(RevisionsOf(revs, t, now))))
HasDetails(revs, t, now) ==
    VisibleTransaction(revs, t, now) /\ TransactionState(revs, t, now).full
TransactionLives(revs, t, now) ==
    HasDetails(revs, t, now) /\ ~TransactionState(revs, t, now).deleted

\* transaction_position_state_valid_at: the newest revision that wrote the position
PositionRevisions(revs, t, i, now) ==
    {v \in RevisionsOf(revs, t, now) : i \in DOMAIN v.pos}
PositionState(revs, t, i, now) == Newest(PositionRevisions(revs, t, i, now)).pos[i]
PositionLives(revs, t, i, now) ==
    /\ PositionRevisions(revs, t, i, now) # {}
    /\ ~PositionState(revs, t, i, now).deleted

Involved(x) == x.cred \cup x.deb

\* The three queries of delete_account, for the account a
HasShares(revs, a, now) ==
    \E t \in Transactions :
        TransactionLives(revs, t, now) /\ a \in Involved(TransactionState(revs, t, now))
HasUsages(revs, a, now) ==
    \E t \in Transactions, i \in Items :
        PositionLives(revs, t, i, now) /\ a \in PositionState(revs, t, i, now).used
HasClearingShares(revs, a, now) ==
    \E c \in Accounts :
        AccountLives(revs, c, now) /\ a \in AccountState(revs, c, now).shares

-----------------------------------------------------------------------------
(* The checks *)

\* The accounts must exist in the group and not be deleted
AccountsUsable(S, now) == \A a \in S : AccountLives(accRevs, a, now)

\* check_creditor_shares, check_debitor_shares, check_committed_transactions
ShareCountsFit(t, cred, deb) ==
    /\ t \in Transfers => Cardinality(cred) = 1 /\ Cardinality(deb) = 1
    /\ t \in Purchases => Cardinality(cred) = 1 /\ deb # {}
    /\ t \in Mimos => cred # {} /\ deb # {}

\* ... and that every position written has somebody to consume it
Consumed(p) == p.deleted \/ p.used # {} \/ p.common

\* A position is written by its id when the transaction has it, or is a new one,
\* which is not deleted and which nobody else can name yet
HasItem(revs, t, i) == \E v \in revs : v.of = t /\ i \in DOMAIN v.pos
ItemsUsable(t, pos) ==
    \A i \in DOMAIN pos :
       \/ HasItem(txRevs, t, i)
       \/ ~pos[i].deleted /\ \A q \in Requests : ~HasItem(req[q].tx, t, i)

UsersOf(pos) == UNION {pos[i].used : i \in DOMAIN pos}

\* The edges of check_clearing_accounts_for_cyclic_dependencies: the shares of
\* every revision there has ever been, superseded ones too
Shares(revs, a, b) == \E v \in revs : v.of = a /\ b \in v.shares

\* In a finite graph the walks that never end are those that stay in such a set
Endless(revs, S) == \A a \in S : \E b \in S : Shares(revs, a, b)

\* Mutant of ClosesCycle: looks one step ahead only
ClosesDirectCycle(revs, new) == \E b \in new.shares : Shares(revs, b, new.of)

ClosesCycle(revs, new) ==
    \E S \in SUBSET Accounts :
       Endless(revs \cup {new}, S) /\ S \cap new.shares # {}

-----------------------------------------------------------------------------
(* Requests *)

Idle == [pc |-> "idle", now |-> 0, acc |-> {}, tx |-> {}, stale |-> FALSE]
Active(r) == req[r].pc # "idle"

TypeOK ==
    /\ accRevs \subseteq AccountRevision
    /\ txRevs \subseteq TransactionRevision
    /\ time \in 0..MaxTime
    /\ nextId \in Nat
    /\ \A x \in accRevs \cup txRevs : x.id < nextId
    /\ req \in [Requests ->
                 [pc : {"idle", "begun", "written"}, now : 0..MaxTime,
                  acc : SUBSET AccountRevision,    \* the revision it has written
                  tx : SUBSET TransactionRevision,
                  stale : BOOLEAN]]     \* history: a commit since it began

Init ==
    /\ accRevs = {[id |-> 0, of |-> a, at |-> 0, deleted |-> FALSE, shares |-> {}] :
                   a \in Existing}
    /\ txRevs = {}
    /\ time = 0
    /\ nextId = 1
    /\ req = [r \in Requests |-> Idle]

\* now() is the same in every statement of the request
Begin(r) ==
    /\ ~Active(r)
    /\ time < MaxTime
    /\ time' = time + 1
    /\ req' = [req EXCEPT ![r].pc = "begun", ![r].now = time + 1]
    /\ UNCHANGED <<accRevs, txRevs, nextId>>

\* Mutant of Write: the id is not taken from the sequence
WriteReusingId(r, acc, tx) ==
    /\ req' = [req EXCEPT ![r].pc = "written", ![r].acc = acc, ![r].tx = tx]
    /\ UNCHANGED <<accRevs, txRevs, time, nextId>>

\* The handler has run its checks, drawn a revision id and written its rows
Write(r, acc, tx) ==
    /\ req' = [req EXCEPT ![r].pc = "written", ![r].acc = acc, ![r].tx = tx]
    /\ nextId' = nextId + 1
    /\ UNCHANGED <<accRevs, txRevs, time>>

\* A request with an account revision: history row, clearing shares, and the
\* constraints that run when _commit_revision touches the revision
WriteAccount(r, a, deleted, shares) ==
    LET new == [id |-> nextId, of |-> a, at |-> req[r].now,
                deleted |-> deleted, shares |-> shares] IN
    /\ a \in Personal => shares = {}
    /\ ~ClosesCycle(accRevs, new)
    /\ Write(r, {new}, {})

CreateAccount(r, a, shares) ==
    /\ req[r].pc = "begun"
    /\ ~Known(accRevs, a) /\ \A q \in Requests : ~Known(req[q].acc, a)
    /\ AccountsUsable(shares, req[r].now)
    /\ WriteAccount(r, a, FALSE, shares)

\* The new history row has deleted = false, whatever the account was before
UpdateAccount(r, a, shares) ==
    /\ req[r].pc = "begun"
    /\ Known(accRevs, a)
    /\ AccountsUsable(shares, req[r].now)
    /\ WriteAccount(r, a, FALSE, shares)

\* Mutant: positions may use the deleted account
DeleteAccountInUse(r, a) ==
    LET now == req[r].now IN
    /\ req[r].pc = "begun"
    /\ ~HasShares(txRevs, a, now)
    /\ ~HasClearingShares(accRevs, a, now)
    /\ AccountLives(accRevs, a, now)
    /\ WriteAccount(r, a, TRUE, {})

\* Mutant: clearing accounts may distribute to the deleted account
DeleteAccountWithShares(r, a) ==
    LET now == req[r].now IN
    /\ req[r].pc = "begun"
    /\ ~HasShares(txRevs, a, now)
    /\ ~HasUsages(txRevs, a, now)
    /\ AccountLives(accRevs, a, now)
    /\ WriteAccount(r, a, TRUE, {})

DeleteAccount(r, a) ==
    LET now == req[r].now IN
    /\ req[r].pc = "begun"
    /\ ~HasShares(txRevs, a, now)
    /\ ~HasUsages(txRevs, a, now)
    /\ ~HasClearingShares(accRevs, a, now)
    /\ AccountLives(accRevs, a, now)
    /\ WriteAccount(r, a, TRUE, {})

\* Mutant of WriteTransaction: the revision is not touched, no constraint runs
WriteTransactionUnchecked(r, t, deleted, cred, deb, pos) ==
    Write(r, {}, {[id |-> nextId, of |-> t, at |-> req[r].now, full |-> TRUE,
                   deleted |-> deleted, cred |-> cred, deb |-> deb, pos |-> pos]})

\* A request with a complete transaction revision
WriteTransaction(r, t, deleted, cred, deb, pos) ==
    /\ deleted \/ ShareCountsFit(t, cred, deb)
    /\ deleted \/ \A i \in DOMAIN pos : Consumed(pos[i])
    /\ Write(r, {}, {[id |-> nextId, of |-> t, at |-> req[r].now, full |-> TRUE,
                      deleted |-> deleted, cred |-> cred, deb |-> deb, pos |-> pos]})

CreateTransaction(r, t, cred, deb, pos) ==
    /\ req[r].pc = "begun"
    /\ ~Known(txRevs, t) /\ \A q \in Requests : ~Known(req[q].tx, t)
    /\ AccountsUsable(cred \cup deb \cup UsersOf(pos), req[r].now)
    /\ pos # NoPositions => t \in Purchases /\ ItemsUsable(t, pos)
    /\ WriteTransaction(r, t, FALSE, cred, deb, pos)

\* As for accounts, the new history row is not deleted
UpdateTransaction(r, t, cred, deb, pos) ==
    /\ req[r].pc = "begun"
    /\ Known(txRevs, t)
    /\ AccountsUsable(cred \cup deb \cup UsersOf(pos), req[r].now)
    /\ pos # NoPositions => t \in Purchases /\ ItemsUsable(t, pos)
    /\ WriteTransaction(r, t, FALSE, cred, deb, pos)

\* No history row, and no _commit_revision: the constraint ran when the revision
\* row was inserted, before there was any position to look at
UpdatePositions(r, t, pos) ==
    /\ req[r].pc = "begun"
    /\ t \in Purchases /\ Known(txRevs, t)
    /\ \A i \in DOMAIN pos : HasItem(txRevs, t, i)
    /\ AccountsUsable(UsersOf(pos), req[r].now)
    /\ Write(r, {}, {[id |-> nextId, of |-> t, at |-> req[r].now, full |-> FALSE,
                      deleted |-> FALSE, cred |-> {}, deb |-> {}, pos |-> pos]})

\* A NULL in the column deleted passes the check.  The shares are copied from the
\* newest full revision, whatever now is
DeleteTransaction(r, t) ==
    LET last == Newest({v \in txRevs : v.of = t /\ v.full}) IN
    /\ req[r].pc = "begun"
    /\ VisibleTransaction(txRevs, t, req[r].now)
    /\ HasDetails(txRevs, t, req[r].now) => TransactionLives(txRevs, t, req[r].now)
    /\ WriteTransaction(r, t, TRUE, last.cred, last.deb, NoPositions)

Commit(r) ==
    /\ req[r].pc = "written"
    /\ accRevs' = accRevs \cup req[r].acc
    /\ txRevs' = txRevs \cup req[r].tx
    /\ req' = [q \in Requests |->
                 IF q = r THEN Idle
                 ELSE IF Active(q) THEN [req[q] EXCEPT !.stale = TRUE] ELSE req[q]]
    /\ UNCHANGED <<time, nextId>>

Abort(r) ==
    /\ Active(r)
    /\ req' = [req EXCEPT ![r] = Idle]
    /\ UNCHANGED <<accRevs, txRevs, time, nextId>>

AccountRequest(r) ==
    \E a \in Accounts :
       \/ \E shares \in ClearingInputs : CreateAccount(r, a, shares)
       \/ \E shares \in ClearingInputs : UpdateAccount(r, a, shares)
       \/ DeleteAccount(r, a)

TransactionRequest(r) ==
    \E t \in Transactions :
       \/ \E in \in ShareInputs, pos \in PositionInputs :
             CreateTransaction(r, t, in[1], in[2], pos)
       \/ \E in \in ShareInputs, pos \in PositionInputs :
             UpdateTransaction(r, t, in[1], in[2], pos)
       \/ \E pos \in PositionInputs : UpdatePositions(r, t, pos)
       \/ DeleteTransaction(r, t)

Next ==
    \E r \in Requests :
       \/ Begin(r)
       \/ AccountRequest(r)
       \/ TransactionRequest(r)
       \/ Commit(r)
       \/ Abort(r)

Spec == Init /\ [][Next]_vars

-----------------------------------------------------------------------------
(* Properties.  As in GroupMembership a request is fresh when no other     *)
(* request has committed since it began: the checks of the handlers and    *)
(* the check constraints hold for the state a fresh request changes.       *)

Overtaken == \E r \in Requests :
                req[r].pc = "written" /\ req'[r] = Idle /\ req[r].stale

Dangling(acc, tx) ==
    {a \in Accounts :
       /\ ~AccountLives(acc, a, time)
       /\ \/ HasShares(tx, a, time)
          \/ HasUsages(tx, a, time)
          \/ HasClearingShares(acc, a, time)}

\* What a live transaction shows always adds up for its type, in whichever order
\* concurrent updates, deletions and position updates started, drew their ids
\* and committed: no mixture of two revisions is ever shown
ShownSharesFit ==
    \A t \in Transactions, now \in 0..MaxTime :
       TransactionLives(txRevs, t, now) =>
         LET x == TransactionState(txRevs, t, now) IN ShareCountsFit(t, x.cred, x.deb)

\* A fresh request never leaves a deleted account referenced by a live
\* transaction, position or clearing account: not by deleting the account, not by
\* adding the reference, not by bringing a deleted transaction or account back
FreshRequestsLeaveNothingDangling ==
    [][Dangling(accRevs', txRevs') \subseteq Dangling(accRevs, txRevs) \/ Overtaken]_vars

\* A fresh request never makes the name, value, ... of a transaction vanish
FreshRequestsKeepDetails ==
    [][\A t \in Transactions :
         HasDetails(txRevs, t, time) => HasDetails(txRevs', t, time) \/ Overtaken]_vars

\* What a fresh request has written is what is shown once it has committed: no
\* revision that is there already, or is still open, comes before it
FreshWritesAreShown ==
    [][\A r \in Requests :
         req[r].pc = "written" /\ ~req[r].stale /\ committed' # committed
           /\ req'[r] = Idle =>
             /\ \A x \in req[r].acc : AccountState(accRevs', x.of, time) = x
             /\ \A x \in req[r].tx :
                   /\ x.full => TransactionState(txRevs', x.of, time) = x
                   /\ \A i \in DOMAIN x.pos :
                         PositionState(txRevs', x.of, i, time) = x.pos[i]]_vars

\* Clearing accounts never come to distribute to each other in a circle through
\* the commit of a fresh request
FreshRequestsCloseNoCycle ==
    [][(\E S \in (SUBSET Accounts) \ {{}} : Endless(accRevs', S)) =>
         \/ \E S \in (SUBSET Accounts) \ {{}} : Endless(accRevs, S)
         \/ Overtaken]_vars

\* "deleted can only be true if no other valid item references the account id."
\* (0001_initial_schema.sql:271)
NothingDangles == Dangling(accRevs, txRevs) = {}

\* A transaction that exists has a name, a value, ... (not null in the table
\* transaction_history and in domain/transactions.py), once a request that
\* started later than its creation looks
DetailsNeverVanish ==
    \A t \in Transactions :
       VisibleTransaction(txRevs, t, time) => HasDetails(txRevs, t, time)

\* "all transaction positions must have at least one account assigned or their
\* common shares set greater than 0" (0003_constraints.sql:174)
PositionsAreConsumed ==
    \A t \in Transactions, i \in Items :
       PositionLives(txRevs, t, i, time) => Consumed(PositionState(txRevs, t, i, time))

\* "this change would result in a cyclic dependency between clearing accounts"
\* (0003_constraints.sql:353): no circle among the shares accounts have now
CurrentShares == {AccountState(accRevs, a, time) : a \in {b \in Accounts : VisibleAccount(accRevs, b, time)}}
NoClearingCycle == \A S \in (SUBSET Accounts) \ {{}} : ~Endless(CurrentShares, S)
=============================================================================
