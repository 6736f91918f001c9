----------------------------- MODULE MCSessions -----------------------------
(***************************************************************************)
(* An instance of Sessions for TLC: two tabs, two emails, two users, and   *)
(* the forms that lie at and just past each limit.                         *)
(***************************************************************************)
EXTENDS Sessions, TLC

CONSTANTS t1, t2

LimitOrder  == [type |-> "LIMIT", symbol |-> "BTC/USD", price |-> 48000000, quantity |-> 500]
MCOrderForms ==
    {[LimitOrder EXCEPT !.price = p] : p \in {0, 9, 10, 1000000000, 1000000001}}
    \cup {[LimitOrder EXCEPT !.quantity = q] : q \in {0, 100000, 100001}}
    \cup {[LimitOrder EXCEPT !.symbol = "BTC"], [LimitOrder EXCEPT !.type = "MARKET"]}

MCAmounts == {0, 1, 1000000000, 1000000001}

TabSymmetry == Permutations({t1, t2})
=============================================================================
