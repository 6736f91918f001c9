------------------------------- MODULE Market -------------------------------
(***************************************************************************)
(* What the exchange promises while its calls run one at a time: an order  *)
(* trades only with the order that is first in price-time priority among   *)
(* those it crosses, rests only when it crosses none, and leaves the book  *)
(* by trading or by being cancelled.  Also what is said of it on the event *)
(* bus: that it rests, that it was filled on arrival, or was cancelled.    *)
(* Nothing is said of a resting order that a later one consumes.           *)
(***************************************************************************)
EXTENDS Trading, FiniteSets

CONSTANTS Users, OrderIds, Prices, Quantities, Times

VARIABLES
    terms,      \* what was asked for, and when the order came to rest
    taking,     \* what an order being processed may still take
    rest,       \* what is for sale in the book
    bought,     \* what each order has traded
    told        \* the statuses announced

marketVars == <<terms, taking, rest, bought, told>>

NoTerms == [size |-> 0]

MarketInit ==
    /\ terms = [o \in OrderIds |-> NoTerms]
    /\ taking = [o \in OrderIds |-> 0]
    /\ rest = [o \in OrderIds |-> 0]
    /\ bought = [o \in OrderIds |-> 0]
    /\ told = [o \in OrderIds |-> {}]

Says(o, status) == told' = [told EXCEPT ![o] = @ \cup {status}]

Book == {m \in OrderIds : rest[m] > 0}

\* The order that goes first, if the taker's limit reaches it.
Counterparties(o) ==
    {m \in Book : /\ terms[m].side = Opposite(terms[o].side)
                  /\ PricesCross(terms[o], terms[m])
                  /\ \A n \in Book : terms[n].side = terms[m].side => ~TradesBefore(terms[n], terms[m])}

Ask(o, user, side, price, size, createdAt) ==
    /\ terms[o] = NoTerms
    /\ terms' = [terms EXCEPT ![o] =
         [user |-> user, side |-> side, price |-> price, size |-> size,
          createdAt |-> createdAt, placedAt |-> 0]]
    /\ taking' = [taking EXCEPT ![o] = size]
    /\ UNCHANGED <<rest, bought, told>>

\* The user cannot pay.  A failed validation is announced, a failed lock is not.
Refuse(o) ==
    /\ taking[o] > 0 /\ bought[o] = 0
    /\ taking' = [taking EXCEPT ![o] = 0]
    /\ told' = told \/ Says(o, "FAILED")
    /\ UNCHANGED <<terms, rest, bought>>

Deal(o, m) ==
    LET quantity == LesserOf(taking[o], rest[m])
    IN  /\ taking' = [taking EXCEPT ![o] = @ - quantity]
        /\ rest' = [rest EXCEPT ![m] = @ - quantity]
        /\ bought' = [bought EXCEPT ![o] = @ + quantity, ![m] = @ + quantity]
        /\ UNCHANGED <<terms, told>>

ComesToRest(o, placedAt) ==
    /\ taking[o] > 0
    /\ Counterparties(o) = {}
    /\ \A m \in Book : terms[m].placedAt < placedAt
    /\ terms' = [terms EXCEPT ![o].placedAt = placedAt]
    /\ rest' = [rest EXCEPT ![o] = taking[o]]
    /\ taking' = [taking EXCEPT ![o] = 0]
    /\ Says(o, "PARTIALLY_FILLED")
    /\ UNCHANGED bought

FilledOnArrival(o) ==
    /\ terms[o] # NoTerms /\ terms[o].placedAt = 0
    /\ bought[o] = terms[o].size
    /\ Says(o, "FILLED")
    /\ UNCHANGED <<terms, taking, rest, bought>>

Withdraw(o) ==
    /\ o \in Book
    /\ rest' = [rest EXCEPT ![o] = 0]
    /\ Says(o, "CANCELLED")
    /\ UNCHANGED <<terms, taking, bought>>

RefuseWithdrawal(o) ==
    /\ o \notin Book /\ terms[o] # NoTerms
    /\ Says(o, "FAILED")
    /\ UNCHANGED <<terms, taking, rest, bought>>

MarketNext == \E o \in OrderIds :
    \/ \E u \in Users, s \in Sides, p \in Prices, q \in Quantities, t \in Times : Ask(o, u, s, p, q, t)
    \/ Refuse(o)
    \/ taking[o] > 0 /\ \E m \in Counterparties(o) : Deal(o, m)
    \/ \E turn \in 1..Cardinality(OrderIds) : ComesToRest(o, turn)
    \/ FilledOnArrival(o) \/ Withdraw(o) \/ RefuseWithdrawal(o)

MarketSpec == MarketInit /\ [][MarketNext]_marketVars
=============================================================================
