------------------------------- MODULE MCBalances -------------------------------
(* Three people and two events. *)
EXTENDS Balances

MCDate == 4 :> 1 @@ 5 :> 3

MCStartShares == 4 :> (1 :> 1 @@ 2 :> 1) @@ 5 :> <<>>

Bought(price, usages, common) == [price |-> price * Unit, usages |-> usages, communist_shares |-> common, deleted |-> FALSE]

\* A dinner with two items and a deleted one, and a trip that the events carry.
MCPurchases ==
    {[value |-> 6 * Unit, creditor_shares |-> 1 :> 1 @@ 5 :> 1, debitor_shares |-> 1 :> 1 @@ 2 :> 1 @@ 3 :> 1,
      positions |-> <<Bought(2, 2 :> 1, 1), [Bought(2, 2 :> 1, 0) EXCEPT !.deleted = TRUE], Bought(1, 1 :> 1 @@ 4 :> 1, 0)>>, date |-> 2],
     [value |-> 6 * Unit, creditor_shares |-> 2 :> 1, debitor_shares |-> 3 :> 1 @@ 4 :> 2, positions |-> <<>>, date |-> 1]}
================================================================================
