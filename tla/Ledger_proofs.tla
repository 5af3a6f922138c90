----------------------------- MODULE Ledger_proofs -----------------------------
(***************************************************************************)
(* Proofs about the revisions of accounts and transactions: their types,   *)
(* that what is shown fits its type in every order of starts, ids and      *)
(* commits, and what a request that nobody overtakes promises, for any     *)
(* accounts, transactions, inputs and number of connections.               *)
(***************************************************************************)
EXTENDS Ledger, WellFoundedInduction, TLAPS

-----------------------------------------------------------------------------
(* Newest and oldest revisions *)

LEMMA NaturalsHaveMinimum ==
    ASSUME NEW T \in SUBSET Nat, T # {}
    PROVE  \E x \in T : \A y \in T : x <= y
<1> DEFINE R == {p \in Nat \X Nat : p[1] < p[2]}
<1>1. IsWellFoundedOn(R, Nat)
  BY NatLessThanWellFounded DEF OpToRel
<1> HIDE DEF R
<1>2. \E x \in T : \A y \in T : <<y, x>> \notin R
  BY <1>1, WFMin, Zenon
<1>3. ASSUME NEW x \in Nat, NEW y \in Nat, <<y, x>> \notin R PROVE x <= y
  BY <1>3 DEF R
<1> QED
  BY <1>2, <1>3

\* Newest picks a revision no other is younger than
LEMMA NewestIsNewest ==
    ASSUME NEW revs, revs # {}, NEW m \in Nat,
           \A v \in revs : v.at \in Nat /\ v.at <= m
    PROVE  Newest(revs) \in revs /\ \A v \in revs : v.at <= Newest(revs).at
<1> DEFINE T == {m - v.at : v \in revs}
<1>1. T \in SUBSET Nat /\ T # {}
  OBVIOUS
<1>2. PICK y \in T : \A z \in T : y <= z
  BY <1>1, NaturalsHaveMinimum
<1>3. PICK x \in revs : y = m - x.at
  OBVIOUS
<1>4. ASSUME NEW v \in revs PROVE v.at <= x.at
  <2>1. m - x.at <= m - v.at
    BY <1>2, <1>3
  <2> QED
    BY <2>1
<1> QED
  BY <1>4 DEF Newest

\* Oldest picks a revision with the least revision id
LEMMA OldestIsOldest ==
    ASSUME NEW revs, revs # {}, \A v \in revs : v.id \in Nat
    PROVE  Oldest(revs) \in revs /\ \A v \in revs : Oldest(revs).id <= v.id
<1> DEFINE T == {v.id : v \in revs}
<1>1. T \in SUBSET Nat /\ T # {}
  OBVIOUS
<1>2. PICK x \in revs : \A y \in T : x.id <= y
  BY <1>1, NaturalsHaveMinimum
<1> QED
  BY <1>2 DEF Oldest

\* A revision that started after all others is the newest
LEMMA StrictlyNewest ==
    ASSUME NEW revs, NEW x \in revs, \A v \in revs : v.at \in Nat,
           \A v \in revs : v = x \/ v.at < x.at
    PROVE  Newest(revs) = x
<1>1. \A v \in revs : v.at <= x.at
  OBVIOUS
<1>2. Newest(revs) \in revs /\ \A v \in revs : v.at <= Newest(revs).at
  BY <1>1 DEF Newest
<1> QED
  BY <1>2

-----------------------------------------------------------------------------
(* The inductive invariant *)

RowFits(x) == x.full /\ ~x.deleted => ShareCountsFit(x.of, x.cred, x.deb)

\* A revision without a history row has a transaction to change
HasFull(x) == x.full \/ \E f \in txRevs : f.full /\ f.of = x.of

\* What a request has written: one revision of an account or of a transaction
OneRow(acc, tx) ==
    \E x : (acc = {x} /\ tx = {}) \/ (acc = {} /\ tx = {x})

RequestOK(r) ==
    /\ req[r].now <= time
    /\ Active(r) \/ req[r] = Idle
    /\ IF req[r].pc = "written" THEN OneRow(req[r].acc, req[r].tx)
                                ELSE req[r].acc = {} /\ req[r].tx = {}
    /\ \A x \in req[r].acc \cup req[r].tx : x.at = req[r].now /\ x.id < nextId
    /\ \A x \in req[r].tx : RowFits(x) /\ HasFull(x)

CommittedOK ==
    /\ \A v \in accRevs \cup txRevs : v.at <= time
    /\ \A v \in txRevs : RowFits(v) /\ HasFull(v)
    /\ \A v, w \in txRevs : v.id = w.id => v = w

IdsDiffer ==
    \A r \in Requests : \A x \in req[r].tx :
       /\ \A v \in txRevs : v.id # x.id
       /\ \A q \in Requests \ {r} : \A y \in req[q].tx : y.id # x.id

\* What the handler and the constraints have checked when a request wrote x
AccountChecked(x) ==
    /\ ~ClosesCycle(accRevs, x)
    /\ x.deleted =>
         /\ x.shares = {}
         /\ ~HasShares(txRevs, x.of, x.at)
         /\ ~HasUsages(txRevs, x.of, x.at)
         /\ ~HasClearingShares(accRevs, x.of, x.at)
    /\ ~x.deleted => AccountsUsable(x.shares, x.at)

TransactionChecked(x) ==
    /\ x.deleted => x.full /\ x.pos = NoPositions
    /\ ~x.deleted => AccountsUsable(Involved(x) \cup UsersOf(x.pos), x.at)

\* Nobody has committed since a fresh request began
FreshOK(r) ==
    Active(r) /\ ~req[r].stale =>
       /\ \A v \in accRevs \cup txRevs : v.at < req[r].now
       /\ \A x \in req[r].tx : \A v \in txRevs : v.id < x.id
       /\ \A x \in req[r].acc : AccountChecked(x)
       /\ \A x \in req[r].tx : TransactionChecked(x)

IInv ==
    /\ TypeOK
    /\ CommittedOK
    /\ IdsDiffer
    /\ \A r \in Requests : RequestOK(r) /\ FreshOK(r)

-----------------------------------------------------------------------------
(* The initial state, and the beginning and end of a request *)

LEMMA InitEstablishes == ASSUME Init PROVE IInv
<1>1. TypeOK
  <2>1. accRevs \subseteq AccountRevision /\ \A v \in accRevs : v.id = 0
    <3>1. ASSUME NEW a \in Accounts
          PROVE  [id |-> 0, of |-> a, at |-> 0, deleted |-> FALSE, shares |-> {}]
                    \in AccountRevision
      BY DEF AccountRevision
    <3> QED
      BY <3>1, ExistingAreAccounts DEF Init
  <2>2. Idle \in [pc : {"idle", "begun", "written"}, now : 0..MaxTime,
                  acc : SUBSET AccountRevision, tx : SUBSET TransactionRevision,
                  stale : BOOLEAN]
    BY TimeIsBounded DEF Idle
  <2> QED
    BY <2>1, <2>2, TimeIsBounded DEF Init, TypeOK
<1>2. CommittedOK /\ IdsDiffer
  <2>1. \A v \in accRevs : v.at = 0
    BY DEF Init
  <2> QED
    BY <2>1 DEF Init, CommittedOK, IdsDiffer, Idle
<1>3. \A r \in Requests : RequestOK(r) /\ FreshOK(r)
  BY DEF Init, RequestOK, FreshOK, Active, Idle
<1> QED
  BY <1>1, <1>2, <1>3 DEF IInv

\* The parts that speak of the committed revisions stay while they do
LEMMA CommittedStays ==
    ASSUME IInv, UNCHANGED committed, time' \in Nat, time <= time'
    PROVE  CommittedOK'
<1>1. accRevs' = accRevs /\ txRevs' = txRevs
  BY DEF committed
<1>2. \A v \in accRevs \cup txRevs : v.at \in Nat /\ v.at <= time
  BY DEF IInv, TypeOK, CommittedOK, AccountRevision, TransactionRevision
<1>3. time \in Nat
  BY TimeIsBounded DEF IInv, TypeOK
<1>4. \A v \in accRevs' \cup txRevs' : v.at <= time'
  BY <1>1, <1>2, <1>3
<1>5. \A v \in txRevs' : RowFits(v) /\ HasFull(v)'
  BY <1>1 DEF IInv, CommittedOK, HasFull
<1>6. \A v, w \in txRevs' : v.id = w.id => v = w
  BY <1>1 DEF IInv, CommittedOK
<1> QED
  BY <1>4, <1>5, <1>6 DEF CommittedOK

\* ... and so do those of a request that does not step
LEMMA OthersStay ==
    ASSUME IInv, UNCHANGED committed, time' \in Nat, time <= time',
           nextId' \in Nat, nextId <= nextId', NEW r \in Requests, req'[r] = req[r]
    PROVE  RequestOK(r)' /\ FreshOK(r)'
<1>1. accRevs' = accRevs /\ txRevs' = txRevs
  BY DEF committed
<1>2. RequestOK(r) /\ FreshOK(r)
  BY DEF IInv
<1>3. /\ time \in Nat /\ nextId \in Nat /\ req[r].now \in Nat
      /\ \A x \in req[r].acc \cup req[r].tx : x.id \in Nat
  BY TimeIsBounded DEF IInv, TypeOK, AccountRevision, TransactionRevision
<1>4. \A x \in req[r].acc \cup req[r].tx : x.at = req[r].now /\ x.id < nextId'
  BY <1>2, <1>3 DEF RequestOK
<1>5. RequestOK(r)'
  BY <1>1, <1>2, <1>3, <1>4 DEF RequestOK, HasFull, Active
<1>6. FreshOK(r)'
  BY <1>1, <1>2 DEF FreshOK, Active, AccountChecked, TransactionChecked, AccountsUsable
<1> QED
  BY <1>5, <1>6

RequestType == [pc : {"idle", "begun", "written"}, now : 0..MaxTime,
                acc : SUBSET AccountRevision, tx : SUBSET TransactionRevision,
                stale : BOOLEAN]

\* What a step of one request that commits nothing has to show
LEMMA RequestStep ==
    ASSUME IInv, UNCHANGED committed, time' \in 0..MaxTime, time <= time',
           nextId' \in Nat, nextId <= nextId',
           NEW r \in Requests, NEW request \in RequestType,
           req' = [req EXCEPT ![r] = request],
           RequestOK(r)', FreshOK(r)',
           \A x \in request.tx :
              /\ \A v \in txRevs : v.id # x.id
              /\ \A q \in Requests \ {r} : \A y \in req[q].tx : y.id # x.id
    PROVE  IInv'
<1>1. req \in [Requests -> RequestType]
  BY DEF IInv, TypeOK, RequestType
<1>2. req'[r] = request /\ \A q \in Requests \ {r} : req'[q] = req[q]
  BY <1>1
<1>3. accRevs' = accRevs /\ txRevs' = txRevs
  BY DEF committed
<1>4. time' \in Nat
  BY TimeIsBounded
<1>5. TypeOK'
  <2>1. \A x \in accRevs \cup txRevs : x.id < nextId'
    BY DEF IInv, TypeOK, AccountRevision, TransactionRevision
  <2>2. req' \in [Requests -> RequestType]
    BY <1>1
  <2> QED
    BY <1>3, <2>1, <2>2 DEF IInv, TypeOK, RequestType
<1>6. CommittedOK'
  BY <1>4, CommittedStays
<1>7. IdsDiffer'
  <2>1. \A q \in Requests : \A x \in req[q].tx :
           /\ \A v \in txRevs : v.id # x.id
           /\ \A p \in Requests \ {q} : \A y \in req[p].tx : y.id # x.id
    BY DEF IInv, IdsDiffer
  <2>2. ASSUME NEW q \in Requests, NEW x \in req'[q].tx
        PROVE  /\ \A v \in txRevs' : v.id # x.id
               /\ \A p \in Requests \ {q} : \A y \in req'[p].tx : y.id # x.id
    <3>1. CASE q = r
      BY <1>2, <1>3, <2>2, <3>1
    <3>2. CASE q # r
      <4>1. \A y \in request.tx : y.id # x.id
        BY <1>2, <2>2, <3>2
      <4> QED
        BY <1>2, <1>3, <2>1, <2>2, <3>2, <4>1
    <3> QED
      BY <3>1, <3>2
  <2> QED
    BY <2>2 DEF IdsDiffer
<1>8. \A q \in Requests \ {r} : RequestOK(q)' /\ FreshOK(q)'
  BY <1>2, <1>4, OthersStay
<1> QED
  BY <1>5, <1>6, <1>7, <1>8 DEF IInv

\* The begin of a request keeps the inductive invariant
LEMMA BeginOK ==
    ASSUME IInv, NEW r \in Requests, Begin(r)
    PROVE  IInv'
<1> DEFINE request == [req[r] EXCEPT !.pc = "begun", !.now = time + 1]
<1>1. /\ req \in [Requests -> RequestType] /\ req[r] = Idle
      /\ accRevs' = accRevs /\ txRevs' = txRevs /\ nextId' = nextId
      /\ time \in Nat /\ nextId \in Nat /\ time' = time + 1 /\ time' \in 0..MaxTime
  BY TimeIsBounded DEF IInv, TypeOK, RequestType, RequestOK, Begin
<1>2. /\ request.pc = "begun" /\ request.now = time + 1
      /\ request.acc = {} /\ request.tx = {}
  BY <1>1 DEF RequestType, Idle
<1>3. request \in RequestType
  BY <1>1 DEF RequestType
<1>4. req' = [req EXCEPT ![r] = request]
  BY <1>1 DEF Begin
<1> HIDE DEF request
<1>5. req'[r] = request
  BY <1>1, <1>4
<1>6. RequestOK(r)'
  BY <1>1, <1>2, <1>5 DEF RequestOK, Active
<1>7. FreshOK(r)'
  <2>1. \A v \in accRevs \cup txRevs : v.at <= time /\ v.at \in Nat
    BY DEF IInv, CommittedOK, TypeOK, AccountRevision, TransactionRevision
  <2>2. \A v \in accRevs \cup txRevs : v.at < time + 1
    BY <1>1, <2>1
  <2> QED
    BY <1>1, <1>2, <1>5, <2>2 DEF FreshOK
<1>8. request.tx = {}
  BY <1>2
<1>9. UNCHANGED committed /\ time <= time' /\ nextId' \in Nat /\ nextId <= nextId'
  BY <1>1 DEF committed
<1> QED
  BY <1>1, <1>3, <1>4, <1>6, <1>7, <1>8, <1>9, RequestStep

\* The abort of a request keeps the inductive invariant
LEMMA AbortOK ==
    ASSUME IInv, NEW r \in Requests, Abort(r)
    PROVE  IInv'
<1>1. /\ req \in [Requests -> RequestType]
      /\ accRevs' = accRevs /\ txRevs' = txRevs /\ nextId' = nextId /\ time' = time
      /\ time \in 0..MaxTime /\ time \in Nat /\ nextId \in Nat
  BY TimeIsBounded DEF IInv, TypeOK, RequestType, Abort
<1>2. Idle \in RequestType
  BY TimeIsBounded DEF Idle, RequestType
<1>3. req' = [req EXCEPT ![r] = Idle] /\ req'[r] = Idle
  BY <1>1 DEF Abort
<1>4. RequestOK(r)'
  BY <1>1, <1>3 DEF RequestOK, Active, Idle
<1>5. FreshOK(r)'
  BY <1>3 DEF FreshOK, Active, Idle
<1>6. Idle.tx = {}
  BY DEF Idle
<1>7. UNCHANGED committed /\ time <= time' /\ nextId' \in Nat /\ nextId <= nextId'
  BY <1>1 DEF committed
<1> QED
  BY <1>1, <1>2, <1>3, <1>4, <1>5, <1>6, <1>7, RequestStep

-----------------------------------------------------------------------------
(* The handlers *)

\* What a handler has to show for the revision x that it writes
LEMMA WriteOK ==
    ASSUME IInv, NEW r \in Requests, req[r].pc = "begun",
           NEW acc \in SUBSET AccountRevision, NEW tx \in SUBSET TransactionRevision,
           OneRow(acc, tx), Write(r, acc, tx),
           \A x \in acc \cup tx : x.at = req[r].now /\ x.id = nextId,
           \A x \in tx : RowFits(x) /\ HasFull(x) /\ TransactionChecked(x),
           \A x \in acc : AccountChecked(x)
    PROVE  IInv'
<1> DEFINE request == [req[r] EXCEPT !.pc = "written", !.acc = acc, !.tx = tx]
<1>1. /\ req \in [Requests -> RequestType] /\ RequestOK(r) /\ FreshOK(r)
      /\ accRevs' = accRevs /\ txRevs' = txRevs /\ nextId' = nextId + 1 /\ time' = time
      /\ time \in 0..MaxTime /\ time \in Nat /\ nextId \in Nat
  BY TimeIsBounded DEF IInv, TypeOK, RequestType, Write
<1>2. /\ request \in RequestType /\ request.pc = "written" /\ request.now = req[r].now
      /\ request.acc = acc /\ request.tx = tx /\ request.stale = req[r].stale
  BY <1>1 DEF RequestType
<1>3. req' = [req EXCEPT ![r] = request]
  BY <1>1 DEF Write
<1> HIDE DEF request
<1>4. req'[r] = request
  BY <1>1, <1>3
<1>5. RequestOK(r)'
  <2>1. \A x \in acc \cup tx : x.at = req[r].now /\ x.id < nextId'
    BY <1>1
  <2>2. \A x \in tx : RowFits(x) /\ HasFull(x)'
    BY <1>1 DEF HasFull
  <2>3. req[r].now <= time'
    BY <1>1 DEF RequestOK
  <2> QED
    BY <1>2, <1>4, <2>1, <2>2, <2>3 DEF RequestOK, Active
<1>6. \A v \in txRevs : v.id < nextId /\ v.id \in Nat
  BY DEF IInv, TypeOK, TransactionRevision
<1>7. FreshOK(r)'
  <2>1. ASSUME ~req[r].stale
        PROVE  \A v \in accRevs' \cup txRevs' : v.at < req[r].now
    BY <1>1, <2>1 DEF FreshOK, Active
  <2>2. \A x \in tx : \A v \in txRevs' : v.id < x.id
    BY <1>1, <1>6
  <2>3. \A x \in acc : AccountChecked(x)'
    BY <1>1 DEF AccountChecked, AccountsUsable
  <2>4. \A x \in tx : TransactionChecked(x)'
    BY <1>1 DEF TransactionChecked, AccountsUsable
  <2> QED
    BY <1>2, <1>4, <2>1, <2>2, <2>3, <2>4 DEF FreshOK
<1>8. ASSUME NEW x \in tx
      PROVE  /\ \A v \in txRevs : v.id # x.id
             /\ \A q \in Requests \ {r} : \A y \in req[q].tx : y.id # x.id
  <2>1. \A q \in Requests : \A y \in req[q].tx : y.id < nextId /\ y.id \in Nat
    BY <1>1 DEF IInv, RequestOK, RequestType, TransactionRevision
  <2> QED
    BY <1>1, <1>6, <2>1
<1>9. UNCHANGED committed /\ time <= time' /\ nextId' \in Nat /\ nextId <= nextId'
  BY <1>1 DEF committed
<1> QED
  BY <1>1, <1>2, <1>3, <1>5, <1>7, <1>8, <1>9, RequestStep

\* The clock of a request and the next revision id are natural numbers
LEMMA RequestTypes ==
    ASSUME IInv, NEW r \in Requests
    PROVE  req[r].now \in Nat /\ nextId \in Nat
BY TimeIsBounded DEF IInv, TypeOK

\* The row an account handler writes keeps the invariant, a deleted one if nothing uses it
LEMMA AccountWriteOK ==
    ASSUME IInv, NEW r \in Requests, req[r].pc = "begun",
           NEW a \in Accounts, NEW deleted \in BOOLEAN, NEW shares \in SUBSET Accounts,
           WriteAccount(r, a, deleted, shares),
           deleted =>
             /\ shares = {}
             /\ ~HasShares(txRevs, a, req[r].now)
             /\ ~HasUsages(txRevs, a, req[r].now)
             /\ ~HasClearingShares(accRevs, a, req[r].now),
           ~deleted => AccountsUsable(shares, req[r].now)
    PROVE  IInv'
<1> DEFINE new == [id |-> nextId, of |-> a, at |-> req[r].now,
                   deleted |-> deleted, shares |-> shares]
<1>1. new \in AccountRevision
  BY RequestTypes DEF AccountRevision
<1>2. ~ClosesCycle(accRevs, new) /\ Write(r, {new}, {})
  BY DEF WriteAccount
<1>3. /\ new.id = nextId /\ new.of = a /\ new.at = req[r].now
      /\ new.deleted = deleted /\ new.shares = shares
  OBVIOUS
<1> HIDE DEF new
<1>4. AccountChecked(new)
  BY <1>2, <1>3 DEF AccountChecked
<1>5. OneRow({new}, {})
  BY DEF OneRow
<1> QED
  BY <1>1, <1>2, <1>3, <1>4, <1>5, WriteOK

\* A checked transaction row of the next id keeps the invariant
LEMMA TransactionWriteOK ==
    ASSUME IInv, NEW r \in Requests, req[r].pc = "begun",
           NEW new \in TransactionRevision, Write(r, {}, {new}),
           new.id = nextId, new.at = req[r].now,
           RowFits(new), HasFull(new), TransactionChecked(new)
    PROVE  IInv'
<1>1. OneRow({}, {new})
  BY DEF OneRow
<1> QED
  BY <1>1, WriteOK

\* A full write of a transaction keeps the invariant if the accounts it uses are usable
LEMMA CompleteWriteOK ==
    ASSUME IInv, NEW r \in Requests, req[r].pc = "begun",
           NEW t \in Transactions, NEW deleted \in BOOLEAN,
           NEW cred \in SUBSET Accounts, NEW deb \in SUBSET Accounts,
           NEW pos \in PartialFunctions(Items, Position),
           WriteTransaction(r, t, deleted, cred, deb, pos),
           deleted => pos = NoPositions,
           ~deleted => AccountsUsable(cred \cup deb \cup UsersOf(pos), req[r].now)
    PROVE  IInv'
<1> DEFINE new == [id |-> nextId, of |-> t, at |-> req[r].now, full |-> TRUE,
                   deleted |-> deleted, cred |-> cred, deb |-> deb, pos |-> pos]
<1>1. new \in TransactionRevision
  BY RequestTypes DEF TransactionRevision
<1>2. Write(r, {}, {new}) /\ (deleted \/ ShareCountsFit(t, cred, deb))
  BY DEF WriteTransaction
<1>3. /\ new.id = nextId /\ new.of = t /\ new.at = req[r].now /\ new.full
      /\ new.deleted = deleted /\ new.cred = cred /\ new.deb = deb /\ new.pos = pos
  OBVIOUS
<1> HIDE DEF new
<1>4. RowFits(new) /\ HasFull(new)
  BY <1>2, <1>3 DEF RowFits, HasFull
<1>5. TransactionChecked(new)
  BY <1>3 DEF TransactionChecked, Involved
<1> QED
  BY <1>1, <1>2, <1>3, <1>4, <1>5, TransactionWriteOK

\* create_account, update_account and delete_account keep the invariant
LEMMA AccountRequestOK ==
    ASSUME IInv, NEW r \in Requests, AccountRequest(r)
    PROVE  IInv'
<1>1. PICK a \in Accounts :
         \/ \E shares \in ClearingInputs : CreateAccount(r, a, shares)
         \/ \E shares \in ClearingInputs : UpdateAccount(r, a, shares)
         \/ DeleteAccount(r, a)
  BY DEF AccountRequest
<1>2. ASSUME NEW shares \in ClearingInputs, CreateAccount(r, a, shares) PROVE IInv'
  <2>1. shares \in SUBSET Accounts
    BY InputsAreShares
  <2> QED
    BY <1>2, <2>1, AccountWriteOK DEF CreateAccount
<1>3. ASSUME NEW shares \in ClearingInputs, UpdateAccount(r, a, shares) PROVE IInv'
  <2>1. shares \in SUBSET Accounts
    BY InputsAreShares
  <2> QED
    BY <1>3, <2>1, AccountWriteOK DEF UpdateAccount
<1>4. ASSUME DeleteAccount(r, a) PROVE IInv'
  <2>1. /\ req[r].pc = "begun" /\ WriteAccount(r, a, TRUE, {})
        /\ ~HasShares(txRevs, a, req[r].now)
        /\ ~HasUsages(txRevs, a, req[r].now)
        /\ ~HasClearingShares(accRevs, a, req[r].now)
    BY <1>4 DEF DeleteAccount
  <2>2. {} \in SUBSET Accounts /\ TRUE \in BOOLEAN
    OBVIOUS
  <2> QED
    BY <2>1, <2>2, AccountWriteOK
<1> QED
  BY <1>1, <1>2, <1>3, <1>4

\* A transaction there is has a full revision: what delete_transaction copies
LEMMA NewestFullRevision ==
    ASSUME IInv, NEW t, Known(txRevs, t)
    PROVE  Newest({v \in txRevs : v.of = t /\ v.full}) \in txRevs
<1> DEFINE S == {v \in txRevs : v.of = t /\ v.full}
<1>1. S # {}
  BY DEF Known, IInv, CommittedOK, HasFull
<1>2. time \in Nat /\ \A v \in S : v.at \in Nat /\ v.at <= time
  BY TimeIsBounded DEF IInv, TypeOK, CommittedOK, TransactionRevision
<1>3. Newest(S) \in S
  <2> HIDE DEF S
  <2> QED
    BY <1>1, <1>2, NewestIsNewest
<1> QED
  BY <1>3

\* The transaction handlers keep the invariant
LEMMA TransactionRequestOK ==
    ASSUME IInv, NEW r \in Requests, TransactionRequest(r)
    PROVE  IInv'
<1>1. PICK t \in Transactions :
         \/ \E in \in ShareInputs, pos \in PositionInputs :
               CreateTransaction(r, t, in[1], in[2], pos)
         \/ \E in \in ShareInputs, pos \in PositionInputs :
               UpdateTransaction(r, t, in[1], in[2], pos)
         \/ \E pos \in PositionInputs : UpdatePositions(r, t, pos)
         \/ DeleteTransaction(r, t)
  BY DEF TransactionRequest
<1>2. \A pos \in PositionInputs : pos \in PartialFunctions(Items, Position)
  BY InputsArePositions
<1>3. ASSUME NEW in \in ShareInputs, NEW pos \in PositionInputs,
             \/ CreateTransaction(r, t, in[1], in[2], pos)
             \/ UpdateTransaction(r, t, in[1], in[2], pos)
      PROVE  IInv'
  <2>1. in[1] \in SUBSET Accounts /\ in[2] \in SUBSET Accounts
    BY InputsAreShares
  <2>2. /\ req[r].pc = "begun"
        /\ AccountsUsable(in[1] \cup in[2] \cup UsersOf(pos), req[r].now)
        /\ WriteTransaction(r, t, FALSE, in[1], in[2], pos)
    BY <1>3 DEF CreateTransaction, UpdateTransaction
  <2> QED
    BY <1>2, <2>1, <2>2, CompleteWriteOK
<1>4. ASSUME NEW pos \in PositionInputs, UpdatePositions(r, t, pos) PROVE IInv'
  <2> DEFINE new == [id |-> nextId, of |-> t, at |-> req[r].now, full |-> FALSE,
                     deleted |-> FALSE, cred |-> {}, deb |-> {}, pos |-> pos]
  <2>1. new \in TransactionRevision
    BY <1>2, RequestTypes DEF TransactionRevision
  <2>2. /\ req[r].pc = "begun" /\ Write(r, {}, {new}) /\ Known(txRevs, t)
        /\ AccountsUsable(UsersOf(pos), req[r].now)
    BY <1>4 DEF UpdatePositions
  <2>3. /\ new.id = nextId /\ new.of = t /\ new.at = req[r].now /\ ~new.full
        /\ ~new.deleted /\ new.cred = {} /\ new.deb = {} /\ new.pos = pos
    OBVIOUS
  <2> HIDE DEF new
  <2>4. RowFits(new) /\ HasFull(new)
    BY <2>2, <2>3 DEF RowFits, HasFull, Known, IInv, CommittedOK
  <2>5. TransactionChecked(new)
    BY <2>2, <2>3 DEF TransactionChecked, Involved
  <2> QED
    BY <2>1, <2>2, <2>3, <2>4, <2>5, TransactionWriteOK
<1>5. ASSUME DeleteTransaction(r, t) PROVE IInv'
  <2> DEFINE last == Newest({v \in txRevs : v.of = t /\ v.full})
  <2>1. Known(txRevs, t)
    BY <1>5 DEF DeleteTransaction, VisibleTransaction, RevisionsOf, Known
  <2>2. last.cred \in SUBSET Accounts /\ last.deb \in SUBSET Accounts
    BY <2>1, NewestFullRevision DEF IInv, TypeOK, TransactionRevision
  <2>3. NoPositions \in PartialFunctions(Items, Position)
    BY DEF NoPositions, PartialFunctions
  <2>4. req[r].pc = "begun" /\ WriteTransaction(r, t, TRUE, last.cred, last.deb, NoPositions)
    BY <1>5 DEF DeleteTransaction
  <2> HIDE DEF last
  <2> QED
    BY <2>2, <2>3, <2>4, CompleteWriteOK
<1> QED
  BY <1>1, <1>3, <1>4, <1>5

-----------------------------------------------------------------------------
(* The commit *)

\* It overtakes everybody else
LEMMA CommitOK ==
    ASSUME IInv, NEW r \in Requests, Commit(r)
    PROVE  IInv'
<1>1. /\ req \in [Requests -> RequestType] /\ RequestOK(r)
      /\ time' = time /\ nextId' = nextId
      /\ accRevs' = accRevs \cup req[r].acc /\ txRevs' = txRevs \cup req[r].tx
      /\ req[r].pc = "written" /\ time \in Nat
  BY TimeIsBounded DEF IInv, TypeOK, RequestType, Commit
<1>2. req'[r] = Idle
  BY DEF Commit
<1>3. ASSUME NEW q \in Requests, q # r
      PROVE  /\ req'[q] \in RequestType
             /\ req'[q].pc = req[q].pc /\ req'[q].now = req[q].now
             /\ req'[q].acc = req[q].acc /\ req'[q].tx = req[q].tx
             /\ Active(q) => req'[q].stale
             /\ ~Active(q) => req'[q] = req[q]
  BY <1>1, <1>3 DEF Commit, RequestType
<1>4. Idle \in RequestType
  BY TimeIsBounded DEF Idle, RequestType
<1>5. TypeOK'
  <2>1. req[r].acc \subseteq AccountRevision /\ req[r].tx \subseteq TransactionRevision
    BY <1>1 DEF RequestType
  <2>2. req' \in [Requests -> RequestType]
    <3>1. \A q \in Requests : req'[q] \in RequestType
      BY <1>2, <1>3, <1>4
    <3>2. req' = [q \in Requests |-> req'[q]]
      BY DEF Commit
    <3> QED
      BY <3>1, <3>2
  <2>3. \A x \in accRevs' \cup txRevs' : x.id < nextId'
    BY <1>1 DEF IInv, TypeOK, RequestOK
  <2> QED
    BY <1>1, <2>1, <2>2, <2>3 DEF IInv, TypeOK, RequestType
<1>6. CommittedOK'
  <2>1. \A v \in accRevs' \cup txRevs' : v.at <= time'
    BY <1>1 DEF IInv, CommittedOK, RequestOK
  <2>2. \A v \in txRevs' : RowFits(v) /\ HasFull(v)'
    BY <1>1 DEF IInv, CommittedOK, RequestOK, HasFull
  <2>3. ASSUME NEW v \in txRevs', NEW w \in txRevs', v.id = w.id PROVE v = w
    <3>1. CASE v \in txRevs /\ w \in txRevs
      BY <2>3, <3>1 DEF IInv, CommittedOK
    <3>2. CASE v \in req[r].tx /\ w \in req[r].tx
      BY <1>1, <3>2 DEF RequestOK, OneRow
    <3>3. CASE v \in txRevs /\ w \in req[r].tx
      BY <2>3, <3>3 DEF IInv, IdsDiffer
    <3>4. CASE v \in req[r].tx /\ w \in txRevs
      BY <2>3, <3>4 DEF IInv, IdsDiffer
    <3> QED
      BY <1>1, <2>3, <3>1, <3>2, <3>3, <3>4
  <2> QED
    BY <2>1, <2>2, <2>3 DEF CommittedOK
<1>7. IdsDiffer'
  <2>1. ASSUME NEW q \in Requests, NEW x \in req'[q].tx
        PROVE  /\ q # r /\ x \in req[q].tx
               /\ \A v \in txRevs' : v.id # x.id
               /\ \A p \in Requests \ {q} : \A y \in req'[p].tx : y.id # x.id
    <3>1. q # r /\ x \in req[q].tx
      BY <1>2, <1>3, <2>1 DEF Idle
    <3>2. /\ \A v \in txRevs : v.id # x.id
          /\ \A p \in Requests \ {q} : \A y \in req[p].tx : y.id # x.id
      BY <3>1 DEF IInv, IdsDiffer
    <3>3. \A v \in txRevs' : v.id # x.id
      BY <1>1, <3>1, <3>2
    <3>4. ASSUME NEW p \in Requests \ {q}, NEW y \in req'[p].tx PROVE y.id # x.id
      <4>1. p # r /\ y \in req[p].tx
        BY <1>2, <1>3, <3>4 DEF Idle
      <4> QED
        BY <3>2, <4>1
    <3> QED
      BY <3>1, <3>3, <3>4
  <2> QED
    BY <2>1 DEF IdsDiffer
<1>8. RequestOK(r)' /\ FreshOK(r)'
  <2>1. 0 <= time
    BY <1>1
  <2> QED
    BY <1>1, <1>2, <2>1 DEF RequestOK, FreshOK, Active, Idle
<1>9. ASSUME NEW q \in Requests, q # r PROVE RequestOK(q)' /\ FreshOK(q)'
  <2>1. RequestOK(q)
    BY DEF IInv
  <2>2. RequestOK(q)'
    <3>1. \A x \in req[q].tx : RowFits(x) /\ HasFull(x)'
      BY <1>1, <2>1 DEF RequestOK, HasFull
    <3> QED
      BY <1>1, <1>3, <1>9, <2>1, <3>1 DEF RequestOK, Active
  <2>3. FreshOK(q)'
    BY <1>3, <1>9 DEF FreshOK, Active
  <2> QED
    BY <2>2, <2>3
<1> QED
  BY <1>5, <1>6, <1>7, <1>8, <1>9 DEF IInv

\* A stuttering step keeps the invariant
LEMMA Stutter == ASSUME IInv, UNCHANGED vars PROVE IInv'
<1>1. /\ accRevs' = accRevs /\ txRevs' = txRevs /\ time' = time
      /\ nextId' = nextId /\ req' = req
  BY DEF vars
<1>2. TypeOK' /\ IdsDiffer'
  BY <1>1 DEF IInv, TypeOK, IdsDiffer
<1>3. CommittedOK'
  BY <1>1 DEF IInv, CommittedOK, HasFull
<1>4. \A r \in Requests : RequestOK(r)'
  BY <1>1 DEF IInv, RequestOK, HasFull, Active
<1>5. \A r \in Requests : FreshOK(r)'
  BY <1>1 DEF IInv, FreshOK, Active, AccountChecked, TransactionChecked, AccountsUsable
<1> QED
  BY <1>2, <1>3, <1>4, <1>5 DEF IInv

\* The inductive invariant holds in every state
LEMMA Invariance == Spec => []IInv
<1>1. Init => IInv
  BY InitEstablishes
<1>2. IInv /\ [Next]_vars => IInv'
  BY BeginOK, AccountRequestOK, TransactionRequestOK, CommitOK, AbortOK, Stutter DEF Next
<1> QED
  BY <1>1, <1>2, PTL DEF Spec

\* All revisions and requests are of their types: delete_transaction, too, always
\* finds a full revision to copy the shares from
THEOREM TypeCorrect == Spec => []TypeOK
<1>1. IInv => TypeOK
  BY DEF IInv
<1> QED
  BY <1>1, Invariance, PTL

-----------------------------------------------------------------------------
(* What is shown *)

LEMMA RevisionsHaveNumbers ==
    ASSUME IInv
    PROVE  /\ \A v \in accRevs \cup txRevs : v.at \in Nat /\ v.id \in Nat
           /\ time \in Nat
BY TimeIsBounded DEF IInv, TypeOK, AccountRevision, TransactionRevision

\* The state of a visible transaction is one of its revisions
LEMMA StateIsARevision ==
    ASSUME IInv, NEW t, NEW now \in Nat, VisibleTransaction(txRevs, t, now)
    PROVE  /\ TransactionState(txRevs, t, now) \in txRevs
           /\ TransactionState(txRevs, t, now).of = t
<1> DEFINE R == RevisionsOf(txRevs, t, now)
<1> DEFINE n == Newest(R)
<1>1. R # {} /\ R \subseteq txRevs /\ \A v \in R : v.of = t /\ v.at \in Nat /\ v.at <= now
  BY RevisionsHaveNumbers DEF VisibleTransaction, RevisionsOf
<1> HIDE DEF R
<1>2. n \in R
  BY <1>1, NewestIsNewest
<1> DEFINE P == Partition(txRevs, n)
<1> HIDE DEF n
<1>3. n \in P /\ P \subseteq txRevs /\ \A y \in P : y.of = t
  BY <1>1, <1>2 DEF Partition
<1>4. \A y \in P : y.id \in Nat
  BY <1>3, RevisionsHaveNumbers
<1> HIDE DEF P
<1>5. Oldest(P) \in P
  BY <1>3, <1>4, OldestIsOldest
<1>6. TransactionState(txRevs, t, now) = Oldest(P)
  BY DEF TransactionState, P, n, R
<1> QED
  BY <1>3, <1>5, <1>6

\* What a live transaction shows adds up for its type, at every time and in every
\* order of starts, revision ids and commits
THEOREM ShownSharesFitAlways == Spec => []ShownSharesFit
<1>1. ASSUME IInv, NEW t \in Transactions, NEW now \in 0..MaxTime,
             TransactionLives(txRevs, t, now)
      PROVE  LET x == TransactionState(txRevs, t, now) IN ShareCountsFit(t, x.cred, x.deb)
  <2>1. now \in Nat
    BY TimeIsBounded
  <2>2. /\ TransactionState(txRevs, t, now) \in txRevs
        /\ TransactionState(txRevs, t, now).of = t
    BY <1>1, <2>1, StateIsARevision DEF TransactionLives, HasDetails
  <2>3. RowFits(TransactionState(txRevs, t, now))
    BY <1>1, <2>2 DEF IInv, CommittedOK
  <2> QED
    BY <1>1, <2>2, <2>3 DEF RowFits, TransactionLives, HasDetails
<1>2. IInv => ShownSharesFit
  BY <1>1 DEF ShownSharesFit
<1> QED
  BY <1>2, Invariance, PTL

-----------------------------------------------------------------------------
(* What a fresh commit changes of what is shown *)

\* x started after everything that is committed
Latest(x) ==
    /\ x.at \in Nat /\ x.at <= time
    /\ \A v \in accRevs \cup txRevs : v.at < x.at

\* Only a commit changes what is committed
LEMMA WhoCommits ==
    ASSUME IInv, [Next]_vars, committed' # committed
    PROVE  \E r \in Requests : Commit(r)
<1>1. ASSUME NEW r \in Requests,
             Begin(r) \/ AccountRequest(r) \/ TransactionRequest(r) \/ Abort(r)
      PROVE  committed' = committed
  BY <1>1 DEF Begin, AccountRequest, TransactionRequest, Abort, CreateAccount,
              UpdateAccount, DeleteAccount, WriteAccount, CreateTransaction,
              UpdateTransaction, UpdatePositions, DeleteTransaction,
              WriteTransaction, Write, committed
<1> QED
  BY <1>1 DEF Next, vars, committed

\* A commit that no other has overtaken adds one checked row, the newest of its object
LEMMA FreshCommit ==
    ASSUME IInv, NEW r \in Requests, Commit(r), ~Overtaken
    PROVE  /\ OneRow(req[r].acc, req[r].tx)
           /\ accRevs' = accRevs \cup req[r].acc /\ txRevs' = txRevs \cup req[r].tx
           /\ \A x \in req[r].acc \cup req[r].tx : Latest(x)
           /\ \A x \in req[r].acc : AccountChecked(x) /\ x \in AccountRevision
           /\ \A x \in req[r].tx :
                /\ TransactionChecked(x) /\ HasFull(x) /\ x \in TransactionRevision
                /\ \A v \in txRevs : v.id < x.id
<1>1. req[r].pc = "written" /\ req'[r] = Idle
  BY DEF Commit
<1>2. ~req[r].stale
  BY <1>1 DEF Overtaken
<1>3. RequestOK(r) /\ FreshOK(r) /\ Active(r)
  BY <1>1 DEF IInv, Active
<1>4. req \in [Requests -> RequestType]
  BY DEF IInv, TypeOK, RequestType
<1>5. req[r].now \in Nat
  BY RequestTypes
<1>6. \A x \in req[r].acc \cup req[r].tx : Latest(x)
  BY <1>2, <1>3, <1>5 DEF RequestOK, FreshOK, Latest
<1>7. req[r].acc \subseteq AccountRevision /\ req[r].tx \subseteq TransactionRevision
  BY <1>4 DEF RequestType
<1> QED
  BY <1>1, <1>2, <1>3, <1>6, <1>7 DEF RequestOK, FreshOK, Commit

\* What is shown depends on the revisions up to now only
LEMMA SameRevisionsSameStates ==
    ASSUME NEW revs, NEW n, NEW m,
           \A b : RevisionsOf(revs, b, n) = RevisionsOf(revs, b, m)
    PROVE  /\ \A b : /\ AccountLives(revs, b, n) <=> AccountLives(revs, b, m)
                     /\ HasShares(revs, b, n) <=> HasShares(revs, b, m)
                     /\ HasUsages(revs, b, n) <=> HasUsages(revs, b, m)
                     /\ HasClearingShares(revs, b, n) <=> HasClearingShares(revs, b, m)
<1>1. \A b : /\ AccountLives(revs, b, n) <=> AccountLives(revs, b, m)
             /\ AccountState(revs, b, n) = AccountState(revs, b, m)
  BY DEF AccountLives, AccountState, VisibleAccount
<1>2. \A t : /\ TransactionState(revs, t, n) = TransactionState(revs, t, m)
             /\ TransactionLives(revs, t, n) <=> TransactionLives(revs, t, m)
  BY DEF TransactionLives, HasDetails, VisibleTransaction, TransactionState
<1>3. \A t, i : PositionRevisions(revs, t, i, n) = PositionRevisions(revs, t, i, m)
  BY DEF PositionRevisions
<1>4. \A t, i : /\ PositionState(revs, t, i, n) = PositionState(revs, t, i, m)
                /\ PositionLives(revs, t, i, n) <=> PositionLives(revs, t, i, m)
  BY <1>3 DEF PositionState, PositionLives
<1>5. \A b : HasShares(revs, b, n) <=> HasShares(revs, b, m)
  BY <1>2 DEF HasShares
<1>6. \A b : HasUsages(revs, b, n) <=> HasUsages(revs, b, m)
  BY <1>4 DEF HasUsages
<1>7. \A b : HasClearingShares(revs, b, n) <=> HasClearingShares(revs, b, m)
  BY <1>1 DEF HasClearingShares
<1> QED
  BY <1>1, <1>5, <1>6, <1>7

\* What a fresh request has checked at its start is so now
LEMMA CheckedNow ==
    ASSUME IInv, NEW x, Latest(x)
    PROVE  /\ \A b : /\ AccountLives(accRevs, b, x.at) <=> AccountLives(accRevs, b, time)
                     /\ HasShares(txRevs, b, x.at) <=> HasShares(txRevs, b, time)
                     /\ HasUsages(txRevs, b, x.at) <=> HasUsages(txRevs, b, time)
                     /\ HasClearingShares(accRevs, b, x.at)
                          <=> HasClearingShares(accRevs, b, time)
<1>1. \A v \in accRevs \cup txRevs : v.at \in Nat /\ v.at <= x.at /\ v.at <= time
  BY RevisionsHaveNumbers DEF Latest, IInv, CommittedOK
<1>2. \A b : RevisionsOf(accRevs, b, x.at) = RevisionsOf(accRevs, b, time)
  BY <1>1 DEF RevisionsOf
<1>3. \A b : RevisionsOf(txRevs, b, x.at) = RevisionsOf(txRevs, b, time)
  BY <1>1 DEF RevisionsOf
<1> QED
  BY <1>2, <1>3, SameRevisionsSameStates

\* The revisions of x.of, with x among them
LEMMA LatestIsNewest ==
    ASSUME IInv, NEW x, Latest(x), NEW revs, revs = accRevs \/ revs = txRevs
    PROVE  /\ Newest(RevisionsOf(revs \cup {x}, x.of, time)) = x
           /\ x \in RevisionsOf(revs \cup {x}, x.of, time)
           /\ \A b : b # x.of =>
                RevisionsOf(revs \cup {x}, b, time) = RevisionsOf(revs, b, time)
<1> DEFINE R == RevisionsOf(revs \cup {x}, x.of, time)
<1>1. x \in R /\ \A v \in R : v.at \in Nat /\ (v = x \/ v.at < x.at)
  BY RevisionsHaveNumbers DEF RevisionsOf, Latest
<1>2. Newest(R) = x
  <2> HIDE DEF R
  <2> QED
    BY <1>1, StrictlyNewest
<1>3. \A b : b # x.of => RevisionsOf(revs \cup {x}, b, time) = RevisionsOf(revs, b, time)
  BY DEF RevisionsOf
<1> QED
  BY <1>1, <1>2, <1>3

\* A full revision is shown ...
LEMMA FullIsShown ==
    ASSUME IInv, NEW x, Latest(x), x.full
    PROVE  TransactionState(txRevs \cup {x}, x.of, time) = x
<1> DEFINE revs == txRevs \cup {x}
<1>1. Newest(RevisionsOf(revs, x.of, time)) = x
  BY LatestIsNewest
<1>2. \A y \in revs : y = x \/ (y.at \in Nat /\ y.at < x.at)
  BY RevisionsHaveNumbers DEF Latest
<1>3. x.at \in Nat
  BY DEF Latest
<1>4. Partition(revs, x) = {x}
  BY <1>2, <1>3 DEF Partition
<1>5. Oldest({x}) = x
  BY DEF Oldest
<1> QED
  BY <1>1, <1>4, <1>5 DEF TransactionState

\* ... and one without a history row leaves the state as it is
LEMMA PositionsKeepState ==
    ASSUME IInv, NEW x, Latest(x), ~x.full, HasFull(x), x.id \in Nat,
           \A v \in txRevs : v.id < x.id
    PROVE  TransactionState(txRevs \cup {x}, x.of, time) = TransactionState(txRevs, x.of, time)
<1> DEFINE revs == txRevs \cup {x}
<1> DEFINE R == RevisionsOf(txRevs, x.of, time)
<1> DEFINE n == Newest(R)
<1>1. Newest(RevisionsOf(revs, x.of, time)) = x
  BY LatestIsNewest
<1>2. \A v \in txRevs : v.at \in Nat /\ v.id \in Nat /\ v.at <= time /\ v.at < x.at
  BY RevisionsHaveNumbers DEF Latest, IInv, CommittedOK
<1>3. x.at \in Nat /\ time \in Nat
  BY RevisionsHaveNumbers DEF Latest
<1>4. R # {} /\ R = {v \in txRevs : v.of = x.of}
  BY <1>2 DEF RevisionsOf, HasFull
<1>5. n \in R /\ \A v \in R : v.at <= n.at
  <2>1. \A v \in R : v.at \in Nat /\ v.at <= time
    BY <1>2, <1>4
  <2> HIDE DEF R
  <2> QED
    BY <1>3, <1>4, <2>1, NewestIsNewest
<1> HIDE DEF n
<1> DEFINE P == {y \in R : \A f \in R : f.full => f.at <= y.at}
<1>6. Partition(txRevs, n) = P
  BY <1>2, <1>4, <1>5 DEF Partition
<1>7. Partition(revs, x) = P \cup {x}
  BY <1>2, <1>3, <1>4 DEF Partition
<1>8. n \in P /\ P \subseteq txRevs
  BY <1>4, <1>5
<1> HIDE DEF P
<1>9. Oldest(P) \in P /\ \A y \in P : Oldest(P).id <= y.id
  BY <1>2, <1>8, OldestIsOldest
<1>10. /\ Oldest(P \cup {x}) \in P \cup {x}
       /\ \A y \in P \cup {x} : Oldest(P \cup {x}).id <= y.id
  <2>1. P \cup {x} # {} /\ \A y \in P \cup {x} : y.id \in Nat
    BY <1>2, <1>8
  <2> QED
    BY <2>1, OldestIsOldest
<1>11. Oldest(P \cup {x}) = Oldest(P)
  <2>1. Oldest(P \cup {x}).id <= Oldest(P).id /\ Oldest(P).id < x.id
    BY <1>8, <1>9, <1>10
  <2>2. Oldest(P \cup {x}) \in P
    BY <1>2, <1>8, <1>9, <1>10, <2>1
  <2>3. Oldest(P).id = Oldest(P \cup {x}).id
    BY <1>2, <1>8, <1>9, <2>1, <2>2
  <2> QED
    BY <1>8, <1>9, <2>2, <2>3 DEF IInv, CommittedOK
<1> QED
  BY <1>1, <1>6, <1>7, <1>11 DEF TransactionState, n

\* Other transactions show what they showed
LEMMA OthersAreShownAsBefore ==
    ASSUME IInv, NEW x, Latest(x), NEW t, t # x.of
    PROVE  /\ VisibleTransaction(txRevs \cup {x}, t, time)
                <=> VisibleTransaction(txRevs, t, time)
           /\ VisibleTransaction(txRevs, t, time) =>
                TransactionState(txRevs \cup {x}, t, time) = TransactionState(txRevs, t, time)
<1> DEFINE R == RevisionsOf(txRevs, t, time)
<1> DEFINE n == Newest(R)
<1>1. RevisionsOf(txRevs \cup {x}, t, time) = R
  BY LatestIsNewest
<1>2. ASSUME R # {}
      PROVE  Partition(txRevs \cup {x}, n) = Partition(txRevs, n)
  <2>1. \A v \in R : v.at \in Nat /\ v.at <= time /\ v.of = t
    BY RevisionsHaveNumbers DEF RevisionsOf
  <2>2. n \in R
    <3> HIDE DEF R
    <3> QED
      BY <1>2, <2>1, RevisionsHaveNumbers, NewestIsNewest
  <2> HIDE DEF n
  <2>3. n.of = t
    BY <2>1, <2>2
  <2> QED
    BY <2>3 DEF Partition
<1> QED
  BY <1>1, <1>2 DEF VisibleTransaction, TransactionState

-----------------------------------------------------------------------------
(* The promises of a fresh request *)

\* The state of every transaction after a fresh commit
LEMMA FreshStates ==
    ASSUME IInv, NEW r \in Requests, Commit(r), ~Overtaken
    PROVE  /\ \A x \in req[r].tx : x.full => TransactionState(txRevs', x.of, time) = x
           /\ \A t : VisibleTransaction(txRevs, t, time) =>
                /\ VisibleTransaction(txRevs', t, time)
                /\ \/ TransactionState(txRevs', t, time) = TransactionState(txRevs, t, time)
                   \/ \E x \in req[r].tx :
                        x.of = t /\ x.full /\ TransactionState(txRevs', t, time) = x
           /\ \A t : VisibleTransaction(txRevs', t, time) =>
                \/ VisibleTransaction(txRevs, t, time)
                \/ \E x \in req[r].tx : x.of = t /\ x.full
<1>1. /\ OneRow(req[r].acc, req[r].tx) /\ txRevs' = txRevs \cup req[r].tx
      /\ \A x \in req[r].tx : /\ Latest(x) /\ HasFull(x) /\ x.id \in Nat
                              /\ \A v \in txRevs : v.id < x.id
  BY FreshCommit DEF TransactionRevision
<1>2. CASE req[r].tx = {}
  BY <1>1, <1>2
<1>3. ASSUME NEW x \in req[r].tx
      PROVE  txRevs' = txRevs \cup {x}
  BY <1>1, <1>3 DEF OneRow
<1>4. ASSUME NEW x \in req[r].tx, x.full
      PROVE  TransactionState(txRevs', x.of, time) = x
  BY <1>1, <1>3, <1>4, FullIsShown
<1>5. ASSUME NEW x \in req[r].tx, NEW t, VisibleTransaction(txRevs, t, time)
      PROVE  /\ VisibleTransaction(txRevs', t, time)
             /\ \/ TransactionState(txRevs', t, time) = TransactionState(txRevs, t, time)
                \/ x.of = t /\ x.full /\ TransactionState(txRevs', t, time) = x
  <2>1. txRevs' = txRevs \cup {x} /\ Latest(x)
    BY <1>1, <1>3
  <2>2. VisibleTransaction(txRevs', t, time)
    BY <1>5, <2>1 DEF VisibleTransaction, RevisionsOf
  <2>3. CASE x.of # t
    BY <1>5, <2>1, <2>2, <2>3, OthersAreShownAsBefore
  <2>4. CASE x.of = t /\ x.full
    BY <1>4, <2>2, <2>4
  <2>5. CASE x.of = t /\ ~x.full
    BY <1>1, <2>1, <2>2, <2>5, PositionsKeepState
  <2> QED
    BY <2>3, <2>4, <2>5
<1>6. ASSUME NEW x \in req[r].tx, NEW t, VisibleTransaction(txRevs', t, time)
      PROVE  VisibleTransaction(txRevs, t, time) \/ (x.of = t /\ x.full)
  <2>1. txRevs' = txRevs \cup {x} /\ Latest(x) /\ HasFull(x)
    BY <1>1, <1>3
  <2>2. CASE x.of # t
    BY <1>6, <2>1, <2>2, OthersAreShownAsBefore
  <2>3. CASE x.of = t /\ ~x.full
    <3>1. PICK f \in txRevs : f.of = t
      BY <2>1, <2>3 DEF HasFull
    <3>2. f.at <= time
      BY DEF IInv, CommittedOK
    <3> QED
      BY <3>1, <3>2 DEF VisibleTransaction, RevisionsOf
  <2> QED
    BY <2>2, <2>3
<1>7. CASE req[r].tx # {}
  <2>1. PICK x \in req[r].tx : TRUE
    BY <1>7
  <2>2. \A t : VisibleTransaction(txRevs, t, time) =>
          /\ VisibleTransaction(txRevs', t, time)
          /\ \/ TransactionState(txRevs', t, time) = TransactionState(txRevs, t, time)
             \/ x.of = t /\ x.full /\ TransactionState(txRevs', t, time) = x
    BY <1>5
  <2>3. \A t : VisibleTransaction(txRevs', t, time) =>
          VisibleTransaction(txRevs, t, time) \/ (x.of = t /\ x.full)
    BY <1>6
  <2> QED
    BY <1>4, <2>2, <2>3
<1> QED
  BY <1>2, <1>7

\* No fresh request makes the details of a transaction vanish
THEOREM DetailsAreKept == Spec => FreshRequestsKeepDetails
<1>1. ASSUME IInv, [Next]_vars, NEW t \in Transactions, HasDetails(txRevs, t, time)
      PROVE  HasDetails(txRevs', t, time) \/ Overtaken
  <2>1. CASE committed' = committed
    BY <1>1, <2>1 DEF committed
  <2>2. CASE committed' # committed /\ ~Overtaken
    <3>1. PICK r \in Requests : Commit(r)
      BY <1>1, <2>2, WhoCommits
    <3> QED
      BY <1>1, <2>2, <3>1, FreshStates DEF HasDetails
  <2> QED
    BY <2>1, <2>2
<1>2. IInv /\ [Next]_vars =>
        [\A t \in Transactions :
           HasDetails(txRevs, t, time) => HasDetails(txRevs', t, time) \/ Overtaken]_vars
  BY <1>1
<1> QED
  BY <1>2, Invariance, PTL DEF Spec, FreshRequestsKeepDetails

\* No fresh commit closes a circle of clearing accounts: a circle of the new shares
\* either leads through the new revision, and then the constraint has seen it, or
\* was there before
THEOREM NoCycleIsClosed == Spec => FreshRequestsCloseNoCycle
<1>1. ASSUME IInv, [Next]_vars, ~Overtaken,
             NEW S \in (SUBSET Accounts) \ {{}}, Endless(accRevs', S)
      PROVE  Endless(accRevs, S)
  <2>1. CASE accRevs' = accRevs
    BY <1>1, <2>1
  <2>2. CASE accRevs' # accRevs
    <3>1. PICK r \in Requests : Commit(r)
      BY <1>1, <2>2, WhoCommits DEF committed
    <3>2. /\ OneRow(req[r].acc, req[r].tx) /\ accRevs' = accRevs \cup req[r].acc
          /\ \A x \in req[r].acc : AccountChecked(x)
      BY <1>1, <3>1, FreshCommit
    <3>3. PICK x : accRevs' = accRevs \cup {x} /\ AccountChecked(x)
      BY <2>2, <3>2 DEF OneRow
    <3>4. S \cap x.shares = {}
      BY <1>1, <3>3 DEF AccountChecked, ClosesCycle
    <3> QED
      BY <1>1, <3>3, <3>4 DEF Endless, Shares
  <2> QED
    BY <2>1, <2>2
<1>2. IInv /\ [Next]_vars =>
        [(\E S \in (SUBSET Accounts) \ {{}} : Endless(accRevs', S)) =>
           \/ \E S \in (SUBSET Accounts) \ {{}} : Endless(accRevs, S)
           \/ Overtaken]_vars
  BY <1>1
<1> QED
  BY <1>2, Invariance, PTL DEF Spec, FreshRequestsCloseNoCycle

\* What a fresh request has written is what is shown after its commit
THEOREM WritesAreShown == Spec => FreshWritesAreShown
<1>1. ASSUME IInv, [Next]_vars, NEW r \in Requests, req[r].pc = "written", ~req[r].stale,
             committed' # committed, req'[r] = Idle
      PROVE  /\ \A x \in req[r].acc : AccountState(accRevs', x.of, time) = x
             /\ \A x \in req[r].tx :
                   /\ x.full => TransactionState(txRevs', x.of, time) = x
                   /\ \A i \in DOMAIN x.pos :
                         PositionState(txRevs', x.of, i, time) = x.pos[i]
  <2>1. PICK q \in Requests : Commit(q)
    BY <1>1, WhoCommits
  <2>2. q = r
    <3>1. ASSUME q # r PROVE FALSE
      <4>1. req'[r].pc = req[r].pc
        BY <2>1, <3>1 DEF Commit, IInv, TypeOK
      <4> QED
        BY <1>1, <4>1 DEF Idle
    <3> QED
      BY <3>1
  <2>3. ~Overtaken
    <3>1. ASSUME NEW p \in Requests, req[p].pc = "written", req'[p] = Idle PROVE p = r
      <4>1. ASSUME p # r PROVE FALSE
        <5>1. req'[p].pc = req[p].pc
          BY <2>1, <2>2, <4>1 DEF Commit, IInv, TypeOK
        <5> QED
          BY <3>1, <5>1 DEF Idle
      <4> QED
        BY <4>1
    <3> QED
      BY <1>1, <3>1 DEF Overtaken
  <2>4. /\ OneRow(req[r].acc, req[r].tx)
        /\ accRevs' = accRevs \cup req[r].acc /\ txRevs' = txRevs \cup req[r].tx
        /\ \A x \in req[r].acc \cup req[r].tx : Latest(x)
    BY <1>1, <2>1, <2>2, <2>3, FreshCommit
  <2>5. ASSUME NEW x \in req[r].acc PROVE AccountState(accRevs', x.of, time) = x
    <3>1. accRevs' = accRevs \cup {x}
      BY <2>4, <2>5 DEF OneRow
    <3> QED
      BY <1>1, <2>4, <3>1, LatestIsNewest DEF AccountState
  <2>6. ASSUME NEW x \in req[r].tx, NEW i \in DOMAIN x.pos
        PROVE  PositionState(txRevs', x.of, i, time) = x.pos[i]
    <3>1. txRevs' = txRevs \cup {x} /\ Latest(x)
      BY <2>4, <2>6 DEF OneRow
    <3> DEFINE R == PositionRevisions(txRevs', x.of, i, time)
    <3>2. x \in R /\ \A v \in R : v.at \in Nat /\ (v = x \/ v.at < x.at)
      BY <1>1, <3>1, RevisionsHaveNumbers DEF PositionRevisions, RevisionsOf, Latest
    <3>3. Newest(R) = x
      <4> HIDE DEF R
      <4> QED
        BY <3>2, StrictlyNewest
    <3> QED
      BY <3>3 DEF PositionState
  <2>7. \A x \in req[r].tx : x.full => TransactionState(txRevs', x.of, time) = x
    BY <1>1, <2>1, <2>2, <2>3, FreshStates
  <2> QED
    BY <2>5, <2>6, <2>7
<1>2. IInv /\ [Next]_vars =>
        [\A r \in Requests :
           req[r].pc = "written" /\ ~req[r].stale /\ committed' # committed
             /\ req'[r] = Idle =>
               /\ \A x \in req[r].acc : AccountState(accRevs', x.of, time) = x
               /\ \A x \in req[r].tx :
                     /\ x.full => TransactionState(txRevs', x.of, time) = x
                     /\ \A i \in DOMAIN x.pos :
                           PositionState(txRevs', x.of, i, time) = x.pos[i]]_vars
  BY <1>1
<1> QED
  BY <1>2, Invariance, PTL DEF Spec, FreshWritesAreShown

\* The account a is shown as before when x is a revision of another one
LEMMA OtherAccountsStay ==
    ASSUME IInv, NEW x, Latest(x), NEW a, a # x.of
    PROVE  /\ AccountLives(accRevs \cup {x}, a, time) <=> AccountLives(accRevs, a, time)
           /\ AccountState(accRevs \cup {x}, a, time) = AccountState(accRevs, a, time)
BY LatestIsNewest DEF AccountLives, AccountState, VisibleAccount

\* The state of an account is its newest revision
LEMMA NewAccountState ==
    ASSUME IInv, NEW x, Latest(x)
    PROVE  /\ AccountState(accRevs \cup {x}, x.of, time) = x
           /\ AccountLives(accRevs \cup {x}, x.of, time) <=> ~x.deleted
BY LatestIsNewest DEF AccountLives, AccountState, VisibleAccount

\* A fresh commit of an account leaves no account dangling that was not before
LEMMA AccountCommitLeavesNothingDangling ==
    ASSUME IInv, NEW x \in AccountRevision, Latest(x), AccountChecked(x)
    PROVE  Dangling(accRevs \cup {x}, txRevs) \subseteq Dangling(accRevs, txRevs)
<1> DEFINE acc == accRevs \cup {x}
<1>1. SUFFICES ASSUME NEW a \in Dangling(acc, txRevs)
               PROVE  a \in Dangling(accRevs, txRevs)
  OBVIOUS
<1>2. a \in Accounts /\ ~AccountLives(acc, a, time)
  BY DEF Dangling
<1>3. HasShares(txRevs, a, time) \/ HasUsages(txRevs, a, time) \/ HasClearingShares(acc, a, time)
  BY DEF Dangling
<1>4. /\ x.deleted => /\ x.shares = {}
                      /\ ~HasShares(txRevs, x.of, time)
                      /\ ~HasUsages(txRevs, x.of, time)
                      /\ ~HasClearingShares(accRevs, x.of, time)
      /\ ~x.deleted => \A b \in x.shares : AccountLives(accRevs, b, time)
  BY CheckedNow DEF AccountChecked, AccountsUsable
<1>5. AccountLives(acc, x.of, time) <=> ~x.deleted
  BY NewAccountState
<1>6. ASSUME HasClearingShares(acc, a, time)
      PROVE  HasClearingShares(accRevs, a, time)
  <2>1. PICK c \in Accounts : AccountLives(acc, c, time) /\ a \in AccountState(acc, c, time).shares
    BY <1>6 DEF HasClearingShares
  <2>2. CASE c # x.of
    BY <2>1, <2>2, OtherAccountsStay DEF HasClearingShares
  <2>3. CASE c = x.of
    <3>1. ~x.deleted /\ a \in x.shares
      BY <1>5, <2>1, <2>3, NewAccountState
    <3>2. AccountLives(accRevs, a, time) /\ a # x.of
      BY <1>2, <1>4, <1>5, <3>1
    <3> QED
      BY <1>2, <3>2, OtherAccountsStay
  <2> QED
    BY <2>2, <2>3
<1>7. a # x.of
  BY <1>2, <1>3, <1>4, <1>5, <1>6
<1>8. ~AccountLives(accRevs, a, time)
  BY <1>2, <1>7, OtherAccountsStay
<1> QED
  BY <1>2, <1>3, <1>6, <1>8 DEF Dangling

\* ... and neither does that of a transaction
LEMMA TransactionCommitLeavesNothingDangling ==
    ASSUME IInv, NEW r \in Requests, Commit(r), ~Overtaken, NEW x, req[r].tx = {x}
    PROVE  Dangling(accRevs, txRevs') \subseteq Dangling(accRevs, txRevs)
<1>1. /\ txRevs' = txRevs \cup {x} /\ Latest(x) /\ TransactionChecked(x) /\ HasFull(x)
      /\ x \in TransactionRevision
  BY FreshCommit
<1>2. ~x.deleted => \A b \in Involved(x) \cup UsersOf(x.pos) : AccountLives(accRevs, b, time)
  BY <1>1, CheckedNow DEF TransactionChecked, AccountsUsable
<1>3. SUFFICES ASSUME NEW a \in Dangling(accRevs, txRevs')
               PROVE  HasShares(txRevs, a, time) \/ HasUsages(txRevs, a, time)
                        \/ HasClearingShares(accRevs, a, time)
  BY DEF Dangling
<1>4. a \in Accounts /\ ~AccountLives(accRevs, a, time)
  BY DEF Dangling
<1>5. ASSUME HasShares(txRevs', a, time) PROVE HasShares(txRevs, a, time)
  <2>1. PICK t \in Transactions :
           TransactionLives(txRevs', t, time) /\ a \in Involved(TransactionState(txRevs', t, time))
    BY <1>5 DEF HasShares
  <2>2. CASE \E y \in req[r].tx : y.of = t /\ y.full
    <3>1. TransactionState(txRevs', t, time) = x
      BY <2>2, FreshStates
    <3> QED
      BY <1>2, <1>4, <2>1, <3>1 DEF TransactionLives
  <2>3. CASE ~\E y \in req[r].tx : y.of = t /\ y.full
    <3>1. VisibleTransaction(txRevs, t, time)
      BY <2>1, <2>3, FreshStates DEF TransactionLives, HasDetails
    <3>2. TransactionState(txRevs', t, time) = TransactionState(txRevs, t, time)
      BY <2>3, <3>1, FreshStates
    <3> QED
      BY <2>1, <3>1, <3>2 DEF HasShares, TransactionLives, HasDetails
  <2> QED
    BY <2>2, <2>3
<1>6. ASSUME HasUsages(txRevs', a, time) PROVE HasUsages(txRevs, a, time)
  <2>1. PICK t \in Transactions, i \in Items :
           PositionLives(txRevs', t, i, time) /\ a \in PositionState(txRevs', t, i, time).used
    BY <1>6 DEF HasUsages
  <2> DEFINE R == PositionRevisions(txRevs', t, i, time)
  <2>2. CASE t = x.of /\ i \in DOMAIN x.pos
    <3>1. x \in R /\ \A v \in R : v.at \in Nat /\ (v = x \/ v.at < x.at)
      BY <1>1, <2>2, RevisionsHaveNumbers DEF PositionRevisions, RevisionsOf, Latest
    <3>2. Newest(R) = x
      <4> HIDE DEF R
      <4> QED
        BY <3>1, StrictlyNewest
    <3>3. a \in x.pos[i].used
      BY <2>1, <3>2 DEF PositionState
    <3>4. ~x.deleted
      BY <1>1, <2>2 DEF TransactionChecked, NoPositions
    <3> QED
      BY <1>2, <1>4, <2>2, <3>3, <3>4 DEF UsersOf
  <2>3. CASE ~(t = x.of /\ i \in DOMAIN x.pos)
    <3>1. R = PositionRevisions(txRevs, t, i, time)
      BY <1>1, <2>3 DEF PositionRevisions, RevisionsOf
    <3> QED
      BY <2>1, <3>1 DEF PositionLives, PositionState, HasUsages
  <2> QED
    BY <2>2, <2>3
<1> QED
  BY <1>5, <1>6 DEF Dangling

\* No fresh request leaves a deleted account that something live refers to: not by
\* deleting it, not by adding the reference, not by bringing something back
THEOREM NothingIsLeftDangling == Spec => FreshRequestsLeaveNothingDangling
<1>1. ASSUME IInv, [Next]_vars
      PROVE  Dangling(accRevs', txRevs') \subseteq Dangling(accRevs, txRevs) \/ Overtaken
  <2>1. CASE committed' = committed
    BY <2>1 DEF committed
  <2>2. CASE committed' # committed /\ ~Overtaken
    <3>1. PICK r \in Requests : Commit(r)
      BY <1>1, <2>2, WhoCommits
    <3>2. /\ OneRow(req[r].acc, req[r].tx)
          /\ accRevs' = accRevs \cup req[r].acc /\ txRevs' = txRevs \cup req[r].tx
          /\ \A x \in req[r].acc :
                Latest(x) /\ AccountChecked(x) /\ x \in AccountRevision
      BY <1>1, <2>2, <3>1, FreshCommit
    <3>3. PICK x : \/ req[r].acc = {x} /\ req[r].tx = {}
                   \/ req[r].acc = {} /\ req[r].tx = {x}
      BY <3>2 DEF OneRow
    <3>4. CASE req[r].acc = {x} /\ req[r].tx = {}
      <4>1. accRevs' = accRevs \cup {x} /\ txRevs' = txRevs
        BY <3>2, <3>4
      <4> QED
        BY <1>1, <3>2, <3>4, <4>1, AccountCommitLeavesNothingDangling
    <3>5. CASE req[r].acc = {} /\ req[r].tx = {x}
      <4>1. accRevs' = accRevs
        BY <3>2, <3>5
      <4> QED
        BY <1>1, <2>2, <3>1, <3>5, <4>1, TransactionCommitLeavesNothingDangling
    <3> QED
      BY <3>3, <3>4, <3>5
  <2> QED
    BY <2>1, <2>2
<1>2. IInv /\ [Next]_vars =>
        [Dangling(accRevs', txRevs') \subseteq Dangling(accRevs, txRevs) \/ Overtaken]_vars
  BY <1>1
<1> QED
  BY <1>2, Invariance, PTL DEF Spec, FreshRequestsLeaveNothingDangling
=============================================================================
