--------------------------- MODULE PriceTimeBook ---------------------------
(***************************************************************************)
(* What an order book promises: the resting orders in the order in which   *)
(* they arrived, and a match that takes, in one step, from the order that  *)
(* is first in price-time priority.  The in-memory store and the Postgres  *)
(* store both mean to be this.                                             *)
(***************************************************************************)
EXTENDS Trading, Arrays

CONSTANTS OrderIds, Prices, Quantities, Times

VARIABLES
    arrivals,   \* the resting orders, oldest arrival first
    answer      \* what the step's match answered

bookVars == <<arrivals, answer>>

Resting  == [id : OrderIds, side : Sides, price : Prices, createdAt : Times, quantity : Quantities]
NoAnswer == [id |-> 0, price |-> 0, quantity |-> 0]

Ids == {arrivals[i].id : i \in DOMAIN arrivals}

BookInit == arrivals = <<>> /\ answer = NoAnswer

\* Positions nothing on the same side is ahead of; ties go to the first arrival.
Ahead(i, j) == \/ Precedes(arrivals[i], arrivals[j])
               \/ ~Precedes(arrivals[j], arrivals[i]) /\ i < j

First(side) ==
    {i \in DOMAIN arrivals :
        /\ arrivals[i].side = side
        /\ \A j \in DOMAIN arrivals \ {i} : arrivals[j].side = side => Ahead(i, j)}

Place(r) ==
    /\ r.id \notin Ids
    /\ arrivals' = Append(arrivals, r)
    /\ answer' = NoAnswer

Without(id) == Kept(arrivals, {i \in DOMAIN arrivals : arrivals[i].id # id})

Cancel(id) ==
    /\ id \in Ids
    /\ arrivals' = Without(id)
    /\ answer' = NoAnswer

Update(id, quantity) ==
    /\ id \in Ids
    /\ arrivals' = IF quantity = 0 THEN Without(id)
                   ELSE [i \in DOMAIN arrivals |->
                           IF arrivals[i].id = id THEN [arrivals[i] EXCEPT !.quantity = quantity]
                                                  ELSE arrivals[i]]
    /\ answer' = NoAnswer

\* A taker of the given side, limit and quantity meets the first order of the
\* other side, or nothing.
Match(side, price, quantity) ==
    LET taker == [side |-> side, price |-> price]
        Crossing == {i \in First(Opposite(side)) : PricesCross(taker, arrivals[i])}
    IN  \/ Crossing = {} /\ answer' = NoAnswer /\ UNCHANGED arrivals
        \/ \E i \in Crossing :
             LET taken == LesserOf(quantity, arrivals[i].quantity)
             IN  /\ answer' = [id |-> arrivals[i].id, price |-> arrivals[i].price, quantity |-> taken]
                 /\ arrivals' = IF arrivals[i].quantity > taken
                                THEN [arrivals EXCEPT ![i].quantity = @ - taken]
                                ELSE Without(arrivals[i].id)

BookNext ==
    \/ \E r \in Resting : Place(r)
    \/ \E id \in OrderIds : Cancel(id)
    \/ \E id \in OrderIds, q \in Quantities \cup {0} : Update(id, q)
    \/ \E s \in Sides, p \in Prices, q \in Quantities : Match(s, p, q)

BookSpec == BookInit /\ [][BookNext]_bookVars
=============================================================================
