-------------------------------- MODULE Balances --------------------------------
(***************************************************************************)
(* What the applications compute from accounts and transactions: balances, *)
(* the distribution of clearing accounts ("events"), the history of a      *)
(* balance and the plan of payments that settles a group; and the pages    *)
(* that show it and feed it again: the shares of an event that is edited,  *)
(* and the settle button.                                                  *)
(*                                                                         *)
(* Amounts are multiples of 1 / Unit, where the code uses floating point:  *)
(* Unit is such that the divisions leave no remainder.  Accounts are       *)
(* numbers, as the code goes through them in the order of their ids.       *)
(* Left out: currencies, names, the order of lists on the screen.          *)
(***************************************************************************)
EXTENDS Integers, Sequences, FiniteSets, SequencesExt

CONSTANTS
    Personal, Clearing,   \* the accounts that are there, by type
    Unit,
    Purchases,            \* the purchases that may be recorded
    Date,                 \* date_info of the clearing accounts
    StartShares,          \* and the shares they were created with
    MaxTransactions,      \* how many transactions there may be, drafts included,
    MaxChanges            \* and how many with the edits of shares

Accounts == Personal \cup Clearing

IsShares(f) == DOMAIN f \subseteq Accounts /\ f \in [DOMAIN f -> Nat]
IsTransaction(t) ==
    /\ t.value \in Int /\ t.date \in Nat /\ IsShares(t.creditor_shares) /\ IsShares(t.debitor_shares)
    /\ IsFiniteSet(DOMAIN t.positions)
    /\ \A i \in DOMAIN t.positions :
          LET p == t.positions[i] IN p.price \in Int /\ p.communist_shares \in Nat /\ IsShares(p.usages)
\* No account has a share of itself, and no share is zero.
IsClearing(sh) ==
    /\ DOMAIN sh = Clearing
    /\ \A c \in Clearing : IsShares(sh[c]) /\ c \notin DOMAIN sh[c] /\ \A a \in DOMAIN sh[c] : sh[c][a] > 0

ASSUME BalanceBounds ==
    /\ Accounts \subseteq Nat /\ Personal \cap Clearing = {} /\ IsFiniteSet(Accounts)
    /\ Unit \in Nat \ {0} /\ MaxTransactions \in Nat /\ MaxChanges \in Nat
    /\ Date \in [Clearing -> Nat] /\ IsClearing(StartShares)
    /\ \A p \in Purchases : IsTransaction(p)

VARIABLES
    transactions,   \* the transactions of the server
    shares,         \* clearing_shares, with what is being edited
    drafts,         \* transfers made by the settle button and not saved yet
    balances, plan, \* what selectAccountBalances and selectSettlementPlan have memoized
    edits           \* how often the shares were edited

vars == <<transactions, shares, drafts, balances, plan, edits>>

\* x, computed once for all its uses.
Computed(x) == CHOOSE v \in {x} : TRUE

Abs(x) == IF x < 0 THEN -x ELSE x
Sum(f) == FoldFunction(+, 0, Computed(f))
Map(op(_), s) == Computed([i \in DOMAIN s |-> op(s[i])])
At(f, a) == IF a \in DOMAIN f THEN f[a] ELSE 0
\* The elements of S by their place: before(x, y) is a strict order.
InOrder(S, before(_, _)) ==
    Computed([i \in 1 .. Cardinality(S) |-> CHOOSE x \in S : Cardinality({y \in S : before(y, x)}) = i - 1])
Ordered(S) == InOrder(Computed(S), <)
\* The elements of s at the places in S.
Selected(s, S) == Map(LAMBDA i : s[i], Ordered(S))
\* Array.sort is stable.  keys[i] is what s[i] is compared by.
StableSort(s, keys) ==
    LET order == InOrder(DOMAIN s, LAMBDA i, j : keys[i] < keys[j] \/ (keys[i] = keys[j] /\ i < j))
    IN  Map(LAMBDA i : s[i], order)
\* What n rounds of a loop make of start.
Rounds(round(_, _), start, n) ==
    LET after[k \in 0 .. n] == IF k = 0 THEN start ELSE CHOOSE v \in {round(x, k) : x \in {after[k - 1]}} : TRUE
    IN  after

-----------------------------------------------------------------------------
(* The effect of a transaction. *)

\* n parts of an amount of which there are total.
Part(amount, n, total) == IF total > 0 THEN (amount * n) \div total ELSE 0

Usages(p) == p.communist_shares + Sum(p.usages)

\* The positions that count.
Alive(t) == {i \in DOMAIN t.positions : ~t.positions[i].deleted}

\* What account a uses of position p, and what is left of p for everybody.
Used(p, a) == Part(p.price, At(p.usages, a), Usages(p))
Common(p) == Part(p.price, p.communist_shares, Usages(p))

\* What is left to share: the value without the positions, but with the part of
\* every position that is common.
Remaining(t) == t.value + Sum([i \in Alive(t) |-> Common(t.positions[i]) - t.positions[i].price])

computeTransactionBalanceEffect(t) ==
    LET involved == DOMAIN t.creditor_shares \cup DOMAIN t.debitor_shares
                      \cup UNION {DOMAIN t.positions[i].usages : i \in Alive(t)}
        positions(a) == Sum([i \in Alive(t) |-> Used(t.positions[i], a)])
        debit(a) == Part(Remaining(t), At(t.debitor_shares, a), Sum(t.debitor_shares))
        credit(a) == Part(t.value, At(t.creditor_shares, a), Sum(t.creditor_shares))
    IN  [a \in involved |-> [positions |-> positions(a), commonDebitors |-> debit(a), commonCreditors |-> credit(a),
                             total |-> credit(a) - positions(a) - debit(a)]]

-----------------------------------------------------------------------------
(* Account balances, and the distribution of the clearing accounts. *)

BeforeClearing(ts) ==
    LET effects == Map(computeTransactionBalanceEffect, ts)
        total(a, part(_)) == Sum([i \in {j \in DOMAIN ts : a \in DOMAIN effects[j]} |-> part(effects[i][a])])
    IN  [a \in Accounts |-> [balance |-> total(a, LAMBDA e : e.total),
                             totalConsumed |-> total(a, LAMBDA e : e.commonDebitors + e.positions),
                             totalPaid |-> total(a, LAMBDA e : e.commonCreditors),
                             clearingResolution |-> [x \in {} |-> 0]]]

\* shareMap: the clearing accounts with shares.
Sharing(sh) == {c \in Clearing : DOMAIN sh[c] # {}}
InDegree(sh) == [a \in Accounts |-> Cardinality({c \in Sharing(sh) : a \in DOMAIN sh[c]})]

\* Take the last account without open inflow, and open what it flows into.
Linearize(sh, search) ==
    IF search.zero = <<>> THEN search
    ELSE LET node == Last(search.zero)
             next == IF node \in Sharing(sh) THEN DOMAIN sh[node] ELSE {}
             now == [a \in Accounts |-> IF a \in next THEN search.degree[a] - 1 ELSE search.degree[a]]
             opened == {a \in next : search.degree[a] > 0 /\ now[a] <= 0}
         IN  [zero |-> Front(search.zero) \o Ordered(opened), degree |-> now,
              sorting |-> IF node \in Sharing(sh) THEN Append(search.sorting, node) ELSE search.sorting]

\* Mutant of Sorting: the clearing accounts in the order of their ids.
SortingById(sh) == Ordered(Sharing(sh))

\* An account is taken once at most, so that the search ends within as many rounds.
Sorting(sh) ==
    LET start == [zero |-> Ordered({c \in Sharing(sh) : InDegree(sh)[c] = 0}), degree |-> InDegree(sh), sorting |-> <<>>]
        n == Cardinality(Accounts)
    IN  Computed(Rounds(LAMBDA search, k : Linearize(sh, search), start, n)[n].sorting)

\* One clearing account is emptied into the accounts that share it.
Distribute(sh, b, c) ==
    LET share(a) == (b[c].balance * At(sh[c], a)) \div Sum(sh[c])
        got(a) == [b[a] EXCEPT !.balance = b[a].balance + share(a),
                               !.totalPaid = b[a].totalPaid + (IF share(a) > 0 THEN share(a) ELSE 0),
                               !.totalConsumed = b[a].totalConsumed + (IF share(a) > 0 THEN 0 ELSE -share(a))]
    IN  [a \in Accounts |-> CASE a = c -> [b[c] EXCEPT !.balance = 0,
                                                       !.clearingResolution = [x \in DOMAIN sh[c] |-> share(x)]]
                              [] a # c /\ a \in DOMAIN sh[c] -> got(a)
                              [] OTHER -> b[a]]

\* The balances after the first, the second, ... of them is emptied.
Emptied(ts, sh) ==
    LET sorting == Sorting(sh)
    IN  Rounds(LAMBDA b, k : Distribute(sh, b, sorting[k]), BeforeClearing(ts), Len(sorting))

computeAccountBalances(ts, sh) == Computed(Emptied(ts, sh)[Len(Sorting(sh))])

-----------------------------------------------------------------------------
(* The history of a balance and its graph. *)

\* The changes of an account, transactions first, then the clearing accounts.
Changes(a, ts) ==
    LET own == {i \in DOMAIN ts : a \in DOMAIN computeTransactionBalanceEffect(ts[i])}
        from == {c \in Clearing : a \in DOMAIN balances[c].clearingResolution}
    IN  Map(LAMBDA i : [date |-> ts[i].date, change |-> computeTransactionBalanceEffect(ts[i])[a].total], Ordered(own))
        \o Map(LAMBDA c : [date |-> Date[c], change |-> balances[c].clearingResolution[a]], Ordered(from))

computeAccountBalanceHistory(a, ts) ==
    LET changes == Computed(Changes(a, ts))
        ordered == Computed(StableSort(changes, Map(LAMBDA e : e.date, changes)))
    IN  IF ts = <<>> THEN <<>>
        ELSE [i \in DOMAIN ordered |->
                  [date |-> ordered[i].date, balance |-> Sum(Map(LAMBDA e : e.change, SubSeq(ordered, 1, i)))]]

Sign(x) == CASE x > 0 -> 1 [] x = 0 -> 0 [] x < 0 -> -1

\* A series ends with the first entry of another sign, and the next begins with it.
Drawn(history, series, i) ==
    LET y == history[i].balance
        grown == [series EXCEPT ![Len(series)] = Append(@, y)]
    IN  IF i > 1 /\ Sign(history[i - 1].balance) # Sign(y) THEN Append(grown, <<y>>) ELSE grown

BalanceHistoryGraph(history) ==
    IF history = <<>> THEN <<>>
    ELSE Rounds(LAMBDA series, i : Drawn(history, series, i), <<<<>>>>, Len(history))[Len(history)]

-----------------------------------------------------------------------------
(* The plan of payments. *)

Item(payer, payee, amount) == [creditorId |-> payer, debitorId |-> payee, paymentAmount |-> amount]

\* Both lists, sorted, are walked once: equal amounts are settled by one payment.
Walk(w) ==
    IF w.ci > Len(w.creditors) \/ w.di > Len(w.debitors) THEN w
    ELSE LET c == w.creditors[w.ci]
             d == w.debitors[w.di]
         IN  CASE c[2] = -d[2] ->
                    [w EXCEPT !.creditors = RemoveAt(@, w.ci), !.debitors = RemoveAt(@, w.di),
                              !.result = Append(@, Item(d[1], c[1], c[2]))]
               [] c[2] # -d[2] /\ (w.di = Len(w.debitors) \/ (w.ci # Len(w.creditors) /\ c[2] < -d[2])) ->
                    [w EXCEPT !.ci = @ + 1]
               [] OTHER -> [w EXCEPT !.di = @ + 1]

extractOneToOneSettlements(creditors, debitors, result) ==
    LET start == [creditors |-> creditors, debitors |-> debitors, ci |-> 1, di |-> 1, result |-> result]
        n == Len(creditors) + Len(debitors)
    IN  Rounds(LAMBDA w, k : Walk(w), start, n)[n]

\* Mutant of Left: a rest that is less than the payment is dropped.
LeftIfLarge(list, b, amount) ==
    IF Abs(b[2]) > 2 * amount THEN Append(list, <<b[1], b[2] - Sign(b[2]) * amount>>) ELSE list

\* What is left of the larger one goes back into its list.
Left(list, b, amount) == IF Abs(b[2]) > amount THEN Append(list, <<b[1], b[2] - Sign(b[2]) * amount>>) ELSE list

\* The largest of both lists, once the equal ones are settled: one of them is done.
Pay(p) ==
    LET size(b) == Abs(b[2])
        sorted(list) == StableSort(list, Map(size, list))
        one == extractOneToOneSettlements(sorted(p.creditors), sorted(p.debitors), p.result)
        c == Last(one.creditors)
        d == Last(one.debitors)
        amount == IF size(d) > size(c) THEN size(c) ELSE size(d)
    IN  IF p.creditors = <<>> \/ p.debitors = <<>> THEN p
        ELSE IF one.creditors = <<>> \/ one.debitors = <<>>
             THEN [creditors |-> <<>>, debitors |-> <<>>, result |-> one.result]
        ELSE [creditors |-> Left(Front(one.creditors), c, amount), debitors |-> Left(Front(one.debitors), d, amount),
              result |-> Append(one.result, Item(d[1], c[1], amount))]

\* Payments that round to nothing are not shown.
computeGroupSettlement(all) ==
    LET list(S) == Map(LAMBDA a : <<a, all[a].balance>>, Ordered(S))
        start == [creditors |-> list({a \in Accounts : all[a].balance > 0}),
                  debitors |-> list({a \in Accounts : all[a].balance < 0}), result |-> <<>>]
        n == Cardinality(Accounts)
        payments == Computed(Rounds(LAMBDA p, k : Pay(p), start, n)[n].result)
    IN  Selected(payments, {i \in DOMAIN payments : 200 * payments[i].paymentAmount >= Unit})

-----------------------------------------------------------------------------
(* Steps.  The selectors follow the store at once. *)

selectAccountBalances(ts, sh) ==
    /\ balances' = Computed(computeAccountBalances(ts, sh))
    /\ plan' = Computed(computeGroupSettlement(balances'))

Init ==
    /\ transactions = <<>>
    /\ shares = StartShares
    /\ drafts = <<>>
    /\ balances = computeAccountBalances(<<>>, StartShares)
    /\ plan = computeGroupSettlement(balances)
    /\ edits = 0

Made == Len(drafts) + Len(transactions)
RoomForTransaction == Made < MaxTransactions /\ Made + edits < MaxChanges

\* A purchase is saved, by this user or another one.
Record(p) ==
    /\ RoomForTransaction
    /\ transactions' = Append(transactions, p)
    /\ selectAccountBalances(transactions', shares)
    /\ UNCHANGED <<shares, drafts, edits>>

\* The shares of a clearing account are edited: every account but itself can be
\* chosen, and a share of zero removes it.
ShareSelect(c, a, share) ==
    /\ a # c
    /\ share # At(shares[c], a)
    /\ Made + edits < MaxChanges
    /\ shares' = [shares EXCEPT ![c] = IF share = 0 THEN Restrict(shares[c], DOMAIN shares[c] \ {a})
                                       ELSE [x \in DOMAIN shares[c] \cup {a} |-> IF x = a THEN share ELSE shares[c][x]]]
    /\ selectAccountBalances(transactions, shares')
    /\ edits' = edits + 1
    /\ UNCHANGED <<transactions, drafts>>

\* Mutant of Transfer: who is to be paid pays.
TransferBack(item) ==
    [value |-> item.paymentAmount, creditor_shares |-> [x \in {item.debitorId} |-> 1],
     debitor_shares |-> [x \in {item.creditorId} |-> 1], positions |-> <<>>, date |-> 3]

Transfer(item) ==
    [value |-> item.paymentAmount, creditor_shares |-> [x \in {item.creditorId} |-> 1],
     debitor_shares |-> [x \in {item.debitorId} |-> 1], positions |-> <<>>, date |-> 3]

\* The settle button of a line of the plan: a draft, which no balance counts, so
\* that the line stays and can be settled again.
onSettleClicked(i) ==
    /\ RoomForTransaction
    /\ drafts' = Append(drafts, Transfer(plan[i]))
    /\ UNCHANGED <<transactions, shares, balances, plan, edits>>

SaveTransfer(i) ==
    /\ drafts' = RemoveAt(drafts, i)
    /\ transactions' = Append(transactions, drafts[i])
    /\ selectAccountBalances(transactions', shares)
    /\ UNCHANGED <<shares, edits>>

DiscardTransfer(i) ==
    /\ drafts' = RemoveAt(drafts, i)
    /\ UNCHANGED <<transactions, shares, balances, plan, edits>>

Next ==
    \/ \E p \in Purchases : Record(p)
    \/ \E c \in Clearing, a \in Accounts, share \in 0 .. 2 : ShareSelect(c, a, share)
    \/ \E i \in DOMAIN plan : onSettleClicked(i)
    \/ \E i \in DOMAIN drafts : SaveTransfer(i) \/ DiscardTransfer(i)

Spec == Init /\ [][Next]_vars

-----------------------------------------------------------------------------
(* Properties. *)

\* Somebody pays, and everything that was bought is consumed by somebody.
Consumed(t) ==
    /\ Sum(t.creditor_shares) > 0
    /\ Remaining(t) # 0 => Sum(t.debitor_shares) > 0
    /\ \A i \in Alive(t) : t.positions[i].price # 0 => Usages(t.positions[i]) > 0

\* No division leaves a remainder: Unit is fine enough.
Whole(amount, n, total) == total > 0 => (amount * n) % total = 0
WholeParts(t) ==
    /\ \A a \in DOMAIN t.creditor_shares : Whole(t.value, t.creditor_shares[a], Sum(t.creditor_shares))
    /\ \A a \in DOMAIN t.debitor_shares : Whole(Remaining(t), t.debitor_shares[a], Sum(t.debitor_shares))
    /\ \A i \in Alive(t) :
          LET p == t.positions[i]
          IN  /\ Whole(p.price, p.communist_shares, Usages(p))
              /\ \A a \in DOMAIN p.usages : Whole(p.price, p.usages[a], Usages(p))
WithoutRemainder ==
    /\ \A t \in Range(transactions) : WholeParts(t)
    /\ LET sorting == Sorting(shares)
           before == Emptied(transactions, shares)
       IN  \A k \in DOMAIN sorting : \A a \in DOMAIN shares[sorting[k]] :
              Whole(before[k - 1][sorting[k]].balance, shares[sorting[k]][a], Sum(shares[sorting[k]]))

AllConsumed == \A t \in Range(transactions) : Consumed(t)

\* No clearing account passes its balance on to itself through others.
Acyclic ==
    LET inside(S) == \A c \in S : DOMAIN shares[c] \cap S # {}
    IN  \A S \in SUBSET Clearing : S # {} => ~inside(S)

\* What reaches an account: its part of every transaction, and its part of what
\* reaches each clearing account that it shares.
Inflow ==
    LET own(a, t) == LET e == computeTransactionBalanceEffect(t) IN IF a \in DOMAIN e THEN e[a].total ELSE 0
        inflow[a \in Accounts] ==
            Sum([i \in DOMAIN transactions |-> own(a, transactions[i])])
            + Sum([c \in {d \in Clearing : a \in DOMAIN shares[d]} |-> (inflow[c] * shares[c][a]) \div Sum(shares[c])])
    IN  inflow

\* However the events share each other, on a circle too, nothing appears or is
\* lost: all balances add up to zero.
BalancesAddUp == AllConsumed /\ WithoutRemainder => Sum([a \in Accounts |-> balances[a].balance]) = 0

\* The balances add up to zero.  Without a circle an event with shares is left with
\* nothing, every other account with what reaches it, paid less consumed is what has
\* reached it, and the last entry of its history, in whatever order the dates put it,
\* is that too.  The graph of the history changes series where the sign changes and
\* nowhere else.
BalancesMatchReference ==
    /\ BalancesAddUp /\ WithoutRemainder
    /\ Acyclic =>
         \A a \in Accounts :
            LET history == Computed(computeAccountBalanceHistory(a, transactions))
            IN  /\ balances[a].balance = IF a \in Sharing(shares) THEN 0 ELSE Inflow[a]
                /\ balances[a].totalPaid - balances[a].totalConsumed = Inflow[a]
                /\ (IF history = <<>> THEN 0 ELSE Last(history).balance) = Inflow[a]
                /\ \A s \in Range(BalanceHistoryGraph(history)) : \A i \in 1 .. Len(s) - 1 : Sign(s[i]) = Sign(s[1])

\* The payments of the plan, made together, bring every account to zero but for
\* what they leave out as too small; each has a positive amount, and there are fewer
\* of them than accounts to settle.
PlanSettlesEverything ==
    LET open == {a \in Accounts : balances[a].balance # 0}
        paid(a) == Sum(Map(LAMBDA item : (IF item.creditorId = a THEN item.paymentAmount ELSE 0)
                                           - (IF item.debitorId = a THEN item.paymentAmount ELSE 0), plan))
    IN  /\ \A i \in DOMAIN plan : plan[i].paymentAmount > 0
        /\ open # {} => Len(plan) < Cardinality(open)
        /\ AllConsumed /\ WithoutRemainder =>
             \A a \in Accounts : 200 * Abs(balances[a].balance + paid(a)) <= Unit * Cardinality(open)

\* What is still open, of everybody.
Outstanding(b) == Sum([a \in Accounts |-> Abs(b[a].balance)])

\* Saving a payment that the plan still asks for brings two accounts nearer to zero,
\* moves no other and takes nobody beyond, events with a balance included, so that
\* what is open shrinks by both: who settles line after line is done in the end, even
\* when the next plan is not the rest of this one, nor shorter.
SettlingReducesDebts ==
    [][\A i \in DOMAIN drafts, k \in DOMAIN plan :
          SaveTransfer(i) /\ drafts[i] = Transfer(plan[k]) =>
             /\ \A a \in Accounts :
                   Abs(balances[a].balance) = Abs(balances'[a].balance) + Abs(balances[a].balance - balances'[a].balance)
             /\ Outstanding(balances') = Outstanding(balances) - 2 * plan[k].paymentAmount]_vars
================================================================================
