--------------------------- MODULE OrderBookStore ---------------------------
(***************************************************************************)
(* inmemory_OrderBookStore: a Map of the resting orders, which iterates in *)
(* insertion order, and two arrays of references to the same objects, kept *)
(* sorted.  Every method but atomicMatch runs in one piece; atomicMatch    *)
(* awaits the head of the opposite array before it uses it, and other      *)
(* calls run during that await.                                            *)
(***************************************************************************)
EXTENDS Trading, Arrays, Totals

CONSTANTS
    OrderIds, Prices, Quantities, Times,
    Amended         \* a bound: the orders updateOrder is called for

ASSUME IdsAssumption      == OrderIds \subseteq Nat \ {0}    \* a bound: orders placed in all
ASSUME AmountsAssumption  == Prices \subseteq Nat \ {0} /\ Quantities \subseteq Nat \ {0} /\ Times \subseteq Nat
ASSUME AmendedAssumption  == Amended \subseteq OrderIds

VARIABLES
    object,     \* the order objects by id
    orders,     \* keys of the Map, in insertion order
    bids, asks, \* the arrays
    match,      \* the atomicMatch call under way
    answer,     \* what the step's atomicMatch returned
    placed      \* orders placed so far

storeVars == <<object, orders, bids, asks, match, answer, placed>>

Resting  == [id : OrderIds, side : Sides, price : Prices, createdAt : Times, quantity : Quantities]
Order    == [id : OrderIds, side : Sides, price : Prices, createdAt : Times, quantity : Nat \ {0}]
NoOrder  == 0
NoAnswer == [id |-> NoOrder, price |-> 0, quantity |-> 0]
NoMatch  == [side |-> "buy", price |-> 0, quantity |-> 0, best |-> NoOrder]
Blank(id) == [id |-> id, side |-> "buy", price |-> 0, createdAt |-> 0, quantity |-> 0]

Keys == {orders[i] : i \in DOMAIN orders}

Init ==
    /\ object = [id \in OrderIds |-> Blank(id)]
    /\ orders = <<>> /\ bids = <<>> /\ asks = <<>>
    /\ match = NoMatch /\ answer = NoAnswer /\ placed = 0

-----------------------------------------------------------------------------

\* The comparators of bids and asks: one order sorts before another.
SortsBefore(obj, x, y) == Precedes(obj[x], obj[y])

\* The order of an array's positions after its sort, which is stable.
SortedBefore(obj, array) ==
    {p \in (DOMAIN array) \X (DOMAIN array) :
        \/ SortsBefore(obj, array[p[1]], array[p[2]])
        \/ ~SortsBefore(obj, array[p[2]], array[p[1]]) /\ p[1] <= p[2]}

Sorted(obj, array) == Arranged(array, DOMAIN array, SortedBefore(obj, array))

Filtered(array, id) == Kept(array, {i \in DOMAIN array : array[i] # id})

\* Slip: the order is deleted from the Map only.
RemovedFromMap(id) == orders' = Filtered(orders, id) /\ UNCHANGED <<bids, asks>>

Removed(id) ==
    /\ orders' = Filtered(orders, id)
    /\ bids' = Filtered(bids, id)
    /\ asks' = Filtered(asks, id)

\* An order out of the Map is garbage once no pending atomicMatch holds it.
Collected(id, held) ==
    object' = [object EXCEPT ![id] = IF id = held THEN @ ELSE Blank(id)]

-----------------------------------------------------------------------------

\* placeOrder.  generateOrderId never hands out an id twice; the store does not
\* compare ids, so they are numbered here as they are placed.
Place(r) ==
    /\ r.id = placed + 1
    /\ placed' = r.id
    /\ object' = [object EXCEPT ![r.id] = r]
    /\ orders' = Append(orders, r.id)
    /\ \/ /\ r.side = "buy"
          /\ bids' = Sorted(object', Append(bids, r.id))
          /\ UNCHANGED asks
       \/ /\ r.side = "sell"
          /\ asks' = Sorted(object', Append(asks, r.id))
          /\ UNCHANGED bids
    /\ answer' = NoAnswer
    /\ UNCHANGED match

\* Cancelling an order that is not there changes nothing.
Cancel(id) ==
    /\ id \in Keys
    /\ Removed(id)
    /\ Collected(id, match.best)
    /\ answer' = NoAnswer
    /\ UNCHANGED <<match, placed>>

\* updateOrder throws for an order that is not there, and cancels one that has
\* nothing left.
Update(id, quantity) ==
    /\ id \in Keys
    /\ \/ /\ quantity = 0
          /\ Removed(id)
          /\ Collected(id, match.best)
       \/ /\ quantity > 0
          /\ object' = [object EXCEPT ![id].quantity = quantity]
          /\ bids' = Sorted(object', bids) /\ asks' = Sorted(object', asks)
          /\ UNCHANGED orders
    /\ answer' = NoAnswer
    /\ UNCHANGED <<match, placed>>

Head0(array) == IF array = <<>> THEN NoOrder ELSE Head(array)

\* Slip: the best bid is read from the far end of the array.
BestOppositeWorstBid(side) ==
    IF side = "buy" THEN Head0(asks) ELSE IF bids = <<>> THEN NoOrder ELSE bids[Len(bids)]

\* getBestAsk for a buy, getBestBid for a sell.
BestOpposite(side) == IF side = "buy" THEN Head0(asks) ELSE Head0(bids)

\* atomicMatch up to its await.
MatchPeek(side, price, quantity) ==
    /\ match = NoMatch
    /\ match' = [side |-> side, price |-> price, quantity |-> quantity, best |-> BestOpposite(side)]
    /\ UNCHANGED <<object, orders, bids, asks, answer, placed>>

\* The head read still matches, and the Map still has it.
Takes(m) ==
    /\ m.best # NoOrder
    /\ PricesCross(m, object[m.best])
    /\ m.best \in Keys

MatchNothing ==
    /\ match # NoMatch
    /\ ~Takes(match)
    /\ answer' = NoAnswer
    /\ match' = NoMatch
    /\ \/ match.best \in Keys \cup {NoOrder} /\ UNCHANGED object
       \/ match.best \notin Keys \cup {NoOrder} /\ Collected(match.best, NoOrder)
    /\ UNCHANGED <<orders, bids, asks, placed>>

\* Slip: an order of exactly the taken quantity is kept.
WhollyTakenStays(id, taken) == object[id].quantity < taken

WhollyTaken(id, taken) == object[id].quantity <= taken

\* A part of the resting order is taken in place, or all of it and it is gone.
MatchTake ==
    LET id    == match.best
        taken == LesserOf(match.quantity, object[id].quantity)
    IN  /\ match # NoMatch
        /\ Takes(match)
        /\ match' = NoMatch
        /\ answer' = [id |-> id, price |-> object[id].price, quantity |-> taken]
        /\ \/ /\ ~WhollyTaken(id, taken)
              /\ object' = [object EXCEPT ![id].quantity = @ - taken]
              /\ bids' = Sorted(object', bids) /\ asks' = Sorted(object', asks)
              /\ UNCHANGED orders
           \/ /\ WhollyTaken(id, taken)
              /\ Removed(id)
              /\ Collected(id, NoOrder)
        /\ UNCHANGED placed

-----------------------------------------------------------------------------

\* OrderService.getOrderBook reads the Map, in insertion order.
OnSide(side) == Kept(orders, {i \in DOMAIN orders : object[orders[i]].side = side})

Amounts(array) == [i \in DOMAIN array |-> object[array[i]].quantity]

AmountsAt(array, price) ==
    [i \in DOMAIN array |-> IF object[array[i]].price = price THEN object[array[i]].quantity ELSE 0]

\* Slip: an order replaces what was counted at its price.
CountedLast(array, price) ==
    LET at == {i \in DOMAIN array : object[array[i]].price = price}
    IN  object[array[CHOOSE i \in at : \A j \in at : j <= i]].quantity

\* What aggregateLevels' levelMap has for a price once every order is counted.
Counted(array, price) == Total(AmountsAt(array, price))

\* The order of prices on the screen, dearest first on both sides.
Dearer(prices) == {p \in prices \X prices : p[1] >= p[2]}

\* aggregateLevels: one level for every price seen.
Levels(side) ==
    LET array  == OnSide(side)
        prices == {object[array[i]].price : i \in DOMAIN array}
        Level(price) == [price |-> price, quantity |-> Counted(array, price)]
    IN  [k \in 1..Cardinality(prices) |-> Level(Position(k, prices, Dearer(prices)))]

TotalQuantity(levels) == Total([i \in DOMAIN levels |-> levels[i].quantity])

-----------------------------------------------------------------------------

Next ==
    \/ \E r \in Resting : Place(r)
    \/ \E id \in OrderIds : Cancel(id)
    \/ \E id \in Amended, q \in Quantities \cup {0} : Update(id, q)
    \/ \E s \in Sides, p \in Prices, q \in Quantities : MatchPeek(s, p, q)
    \/ MatchNothing
    \/ MatchTake

Spec == Init /\ [][Next]_storeVars

-----------------------------------------------------------------------------

\* Every resting order has something left to trade.
TypeOK ==
    /\ \A id \in Keys : object[id] \in Order
    /\ orders \in Seq(OrderIds) /\ bids \in Seq(OrderIds) /\ asks \in Seq(OrderIds)
    /\ match.best \in OrderIds \cup {NoOrder}
    /\ answer.quantity \in Nat

NoRepeats(s) == \A i, j \in DOMAIN s : s[i] = s[j] => i = j

InOrder(s) == \A i, j \in DOMAIN s : i < j => ~SortsBefore(object, s[j], s[i])

\* The Map and the two arrays hold the same orders, each once, each on its
\* side and in price-time order, whatever calls placed, updated, matched and
\* cancelled them (three structures that no method rebuilds).
MapAndArraysAgree ==
    /\ \A id \in OrderIds :
        /\ (id \in Keys /\ object[id].side = "buy")  <=> (\E i \in DOMAIN bids : bids[i] = id)
        /\ (id \in Keys /\ object[id].side = "sell") <=> (\E i \in DOMAIN asks : asks[i] = id)
    /\ NoRepeats(orders) /\ NoRepeats(bids) /\ NoRepeats(asks)
    /\ InOrder(bids) /\ InOrder(asks)

Book == INSTANCE PriceTimeBook WITH arrivals <- [i \in DOMAIN orders |-> object[orders[i]]]

\* The call that ends read a head of the array that is no longer its head.
HeadHasChanged ==
    match # NoMatch /\ match' = NoMatch /\ match.best # BestOpposite(match.side)

\* The Map and the two arrays are one price-time book: every call, with others
\* running in the middle of atomicMatch, changes it and answers as the abstract
\* book does, save an atomicMatch whose head of the book changed during its
\* await (getBestAsk, getBestBid and the look-up that follows).
PriceTimePriority ==
    Book!BookInit /\ [][Book!BookNext \/ HeadHasChanged]_(Book!bookVars)

\* The snapshot the order book screen is drawn from, built from the Map, shows
\* the book that atomicMatch trades against, kept in the arrays: each side has
\* every price once, the best bid heads the bids and the best ask ends the asks,
\* and neither a level nor the total loses or repeats what rests (getOrderBook).
SnapshotShowsTheBook ==
    \A side \in Sides :
        LET levels == Levels(side)
            array  == IF side = "buy" THEN bids ELSE asks
            best   == IF side = "buy" THEN 1 ELSE Len(levels)
        IN  /\ \A i, j \in DOMAIN levels : i < j => levels[i].price > levels[j].price
            /\ \A i \in DOMAIN levels : levels[i].quantity = Total(AmountsAt(array, levels[i].price))
            /\ TotalQuantity(levels) = Total(Amounts(array))
            /\ array # <<>> => levels[best].price = object[array[1]].price
=============================================================================
