------------------------------- MODULE MCLedger -------------------------------
(* Small instances of Ledger for TLC *)
EXTENDS Ledger, TLC

CONSTANTS a1, a2, c1, c2, c3, i1

Connections == Permutations(Requests)

NoClearing == {{}}
NoItem == {NoPositions}
NoShares == {}

\* One creditor; the debitors fit a purchase, or there are none
ToOne == {<<{a1}, {a2}>>, <<{a1}, {}>>}

Pos(used, common, deleted) == [used |-> used, common |-> common, deleted |-> deleted]
Write1(p) == [i \in {i1} |-> p]
\* No position, or one with a user, with a common share, without anybody, or deleted
ItemWrites == {NoPositions} \cup
    {Write1(p) : p \in {Pos({a2}, FALSE, FALSE), Pos({}, TRUE, FALSE), Pos({}, FALSE, FALSE),
                        Pos({}, TRUE, TRUE)}}

\* Shares that fit all types, only a mimo, or none of them
PerType == {<<{c1}, {c2}>>, <<{c1, c2}, {c1}>>, <<{c1}, {}>>}
\* Each clearing account distributes to at most one other
Chains == {{}} \cup {{c} : c \in Clearing}
=============================================================================
