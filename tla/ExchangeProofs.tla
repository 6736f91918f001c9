--------------------------- MODULE ExchangeProofs ---------------------------
(***************************************************************************)
(* Theorems about Exchange for every set of users, orders, prices and      *)
(* quantities, and for any number of overlapping calls: balances and       *)
(* locks, no unit of an order sold twice, the end of every call, and the   *)
(* refinement: until calls overlap, engine, book and wallet are the atomic *)
(* Market.                                                                 *)
(***************************************************************************)
EXTENDS ExchangeOverlaps, DataProofs

-----------------------------------------------------------------------------
(* The inductive invariant.  TypeOK is not inductive: an order's residual  *)
(* lock stays a natural number only because it backs the remainder, a      *)
(* trade consumes no more than that because it fits the taker and was      *)
(* struck within both limits, and that holds because the best order, once  *)
(* read, keeps its side and price.                                         *)

\* Only orders whose call has ended by placing them are in the book.
BookIsPlaced == \A o \in book : pc[o] = "open"

\* What a taker has read as best is an order of the other side, in the book
\* or gone from it.
BestIsOpposite ==
    \A o \in OrderIds : best[o] # NoOrder =>
        /\ pc[o] = "taking"
        /\ pc[best[o]] = "open"
        /\ order[best[o]].side = Opposite(order[o].side)

\* A trade under way fits its taker and both limits.
TradeFits ==
    \A o \in OrderIds : pc[o] \in {"settling", "recording", "failed"} /\ trade[o] # NoTrade =>
        /\ trade[o].resting \in OrderIds
        /\ pc[trade[o].resting] = "open"
        /\ order[trade[o].resting].side = Opposite(order[o].side)
        /\ trade[o].quantity > 0
        /\ trade[o].quantity <= order[o].quantity
        /\ order[BuyOrder(o)].price >= trade[o].price
        /\ order[SellOrder(o)].price <= trade[o].price

TradeUnderWay ==
    \A o \in OrderIds :
        /\ pc[o] \in {"settling", "recording"} => trade[o] # NoTrade
        /\ trade[o] # NoTrade => pc[o] \in {"settling", "recording", "failed"}

\* Nobody trades, or rests, with nothing left.
QuantityLeft ==
    \A o \in OrderIds :
        o \in book \/ pc[o] \in Processing \ {"releasing"} => order[o].quantity > 0

CancelsKnown == \A c \in Cancels : cancel[c].at \in Cancelling => cancel[c].order \in OrderIds

IInv ==
    /\ TypeOK
    /\ BookIsPlaced
    /\ BestIsOpposite
    /\ TradeFits
    /\ TradeUnderWay
    /\ QuantityLeft
    /\ CancelsKnown
    /\ LockBacksRemainder

-----------------------------------------------------------------------------
(* What is left of an order.                                               *)

\* A trade no larger than the order, at a price its limit allows, leaves an
\* order whose lock backs its remainder.
LEMMA ReducedIsBacked ==
    ASSUME order \in [OrderIds -> Order], NEW o \in OrderIds, NEW t \in Nat, NEW r \in Nat,
           r <= order[o].quantity, order[o].side = "buy" => t <= order[o].price,
           Cost(order[o].side, order[o].price, order[o].quantity) <= order[o].lockedAmount
    PROVE  LET new == Reduced(o, t, r)
           IN  /\ new \in Order
               /\ new.quantity = order[o].quantity - r
               /\ new.side = order[o].side /\ new.price = order[o].price
               /\ Cost(new.side, new.price, new.quantity) <= new.lockedAmount
<1> DEFINE lock == order[o].lockedAmount - Cost(order[o].side, t, r)
<1>1. order[o] \in Order /\ order[o].price \in Nat
    BY OrdersAssumption DEF Order
<1>2. lock \in Nat /\ Cost(order[o].side, order[o].price, order[o].quantity - r) <= lock
    BY <1>1, LockSplits DEF Order
<1>3. order[o].quantity - r \in Nat
    BY <1>1 DEF Order
<1>4. Reduced(o, t, r) = [[order[o] EXCEPT !.quantity = order[o].quantity - r] EXCEPT !.lockedAmount = lock]
    BY <1>1 DEF Reduced, Order
<1> HIDE DEF lock
<1>5. [order[o] EXCEPT !.quantity = order[o].quantity - r] \in Order
    BY <1>1, <1>3 DEF Order
<1> QED BY <1>1, <1>2, <1>3, <1>4, <1>5 DEF Order

-----------------------------------------------------------------------------
(* The wallet store's mutations.                                           *)

\* A deposit keeps the balances natural numbers.
LEMMA CreditIsWallet ==
    ASSUME NEW b \in Wallets, NEW u \in Users, NEW a \in Assets, NEW n \in Nat
    PROVE  [b EXCEPT ![u][a].available = @ + n] \in Wallets
<1>1. b[u] \in [Assets -> Balance] /\ b[u][a] \in Balance
    BY DEF Wallets
<1>2. [b[u][a] EXCEPT !.available = @ + n] \in Balance
    BY <1>1 DEF Balance
<1>3. [b[u] EXCEPT ![a].available = @ + n] \in [Assets -> Balance]
    BY <1>1, <1>2
<1> QED BY <1>3 DEF Wallets

\* lockFunds keeps the balances natural numbers.
LEMMA LockedIsWallet ==
    ASSUME NEW b \in Wallets, NEW u \in Users, NEW a \in Assets, NEW n \in Nat,
           n <= b[u][a].available
    PROVE  Locked(b, u, a, n) \in Wallets
<1>1. b[u] \in [Assets -> Balance] /\ b[u][a] \in Balance
    BY DEF Wallets
<1>2. [available |-> b[u][a].available - n, locked |-> b[u][a].locked + n] \in Balance
    BY <1>1 DEF Balance
<1> QED BY <1>1, <1>2 DEF Wallets, Locked

\* unlockFunds keeps the balances natural numbers.
LEMMA UnlockedIsWallet ==
    ASSUME NEW b \in Wallets, NEW u \in Users, NEW a \in Assets, NEW n \in Nat,
           n <= b[u][a].locked
    PROVE  Unlocked(b, u, a, n) \in Wallets
<1>1. b[u] \in [Assets -> Balance] /\ b[u][a] \in Balance
    BY DEF Wallets
<1>2. [available |-> b[u][a].available + n, locked |-> b[u][a].locked - n] \in Balance
    BY <1>1 DEF Balance
<1> QED BY <1>1, <1>2 DEF Wallets, Unlocked

\* settleTrade's first half (it leaves every locked base balance alone) keeps the balances natural numbers.
LEMMA BuyerSettledIsWallet ==
    ASSUME NEW b \in Wallets, NEW u \in Users, NEW p \in Nat, NEW q \in Nat,
           p * q <= b[u]["quote"].locked
    PROVE  /\ BuyerSettled(b, u, p, q) \in Wallets
           /\ \A v \in Users : BuyerSettled(b, u, p, q)[v]["base"].locked = b[v]["base"].locked
<1>1. b[u] \in [Assets -> Balance] /\ b[u]["quote"] \in Balance /\ b[u]["base"] \in Balance
    BY DEF Wallets, Assets
<1>2. p * q \in Nat
    OBVIOUS
<1>3. [b[u]["quote"] EXCEPT !.locked = @ - p * q] \in Balance
    BY <1>1, <1>2 DEF Balance
<1>4. [b[u]["base"] EXCEPT !.available = @ + q] \in Balance
    BY <1>1 DEF Balance
<1>5. [b[u] EXCEPT !["quote"].locked = @ - p * q, !["base"].available = @ + q] \in [Assets -> Balance]
    BY <1>1, <1>3, <1>4 DEF Assets
<1>6. BuyerSettled(b, u, p, q)
        = [b EXCEPT ![u] = [b[u] EXCEPT !["quote"].locked = @ - p * q, !["base"].available = @ + q]]
    BY DEF Wallets, BuyerSettled
<1> QED BY <1>1, <1>5, <1>6 DEF Wallets, Assets, Balance

\* settleTrade's second half keeps the balances natural numbers.
LEMMA SellerSettledIsWallet ==
    ASSUME NEW b \in Wallets, NEW u \in Users, NEW p \in Nat, NEW q \in Nat,
           q <= b[u]["base"].locked
    PROVE  SellerSettled(b, u, p, q) \in Wallets
<1>1. b[u] \in [Assets -> Balance] /\ b[u]["quote"] \in Balance /\ b[u]["base"] \in Balance
    BY DEF Wallets, Assets
<1>2. p * q \in Nat
    OBVIOUS
<1>3. [b[u]["quote"] EXCEPT !.available = @ + p * q] \in Balance
    BY <1>1, <1>2 DEF Balance
<1>4. [b[u]["base"] EXCEPT !.locked = @ - q] \in Balance
    BY <1>1 DEF Balance
<1>5. [b[u] EXCEPT !["base"].locked = @ - q, !["quote"].available = @ + p * q] \in [Assets -> Balance]
    BY <1>1, <1>3, <1>4 DEF Assets
<1>6. SellerSettled(b, u, p, q)
        = [b EXCEPT ![u] = [b[u] EXCEPT !["base"].locked = @ - q, !["quote"].available = @ + p * q]]
    BY DEF Wallets, SellerSettled
<1> QED BY <1>5, <1>6 DEF Wallets

-----------------------------------------------------------------------------
(* The initial states.                                                     *)

\* An order object nobody has filled in yet is an order.
LEMMA BlankOrderIsOrder == BlankOrder \in Order
<1>1. (CHOOSE u \in Users : TRUE) \in Users
    BY UsersAssumption
<1>2. (CHOOSE p \in Prices : TRUE) \in Prices /\ (CHOOSE q \in Quantities : TRUE) \in Quantities
    BY OrdersAssumption
<1> QED BY <1>1, <1>2, OrdersAssumption DEF BlankOrder, Order, Sides

\* The empty exchange satisfies the invariant.
LEMMA InitIInv == Init => IInv
<1> SUFFICES ASSUME Init PROVE IInv
    OBVIOUS
<1>1. TypeOK
    <2>1. balance \in Wallets
        BY FundsAssumption DEF Init, Balance, Wallets
    <2>2. order \in [OrderIds -> Order]
        BY BlankOrderIsOrder DEF Init
    <2>3. trade \in [OrderIds -> Trade] /\ cancel \in [Cancels -> Cancellation]
        BY DEF Init, NoTrade, Trade, Cancellation
    <2> QED BY <2>1, <2>2, <2>3 DEF Init, TypeOK
<1>2. BookIsPlaced /\ BestIsOpposite /\ TradeFits /\ TradeUnderWay /\ QuantityLeft /\ CancelsKnown
    BY DEF Init, BookIsPlaced, BestIsOpposite, TradeFits, TradeUnderWay, QuantityLeft, CancelsKnown,
           NoOrder, NoTrade, Processing, Cancelling
<1>3. LockBacksRemainder
    BY DEF Init, LockBacksRemainder, Live
<1> QED BY <1>1, <1>2, <1>3 DEF IInv

-----------------------------------------------------------------------------
(* The steps.                                                              *)

\* An order that has not been placed is in no book and in nobody's hands.
LEMMA NobodyRefers ==
    ASSUME IInv, NEW o \in OrderIds, pc[o] # "open"
    PROVE  o \notin book /\ \A x \in OrderIds : best[x] # o /\ trade[x].resting # o
<1>1. o # NoOrder
    BY OrderIdsAssumption DEF NoOrder
<1> QED BY <1>1 DEF IInv, BookIsPlaced, BestIsOpposite, TradeFits, TradeUnderWay, NoTrade

\* A deposit touches only a balance.
LEMMA DepositIInv ==
    ASSUME IInv, NEW u \in Users, NEW a \in Assets, Deposit(u, a)
    PROVE  IInv'
<1>1. TypeOK'
    <2>1. balance' \in Wallets
        BY FundsAssumption, CreditIsWallet DEF IInv, TypeOK, Deposit
    <2> QED BY <2>1 DEF IInv, TypeOK, Deposit
<1>2. (BookIsPlaced /\ BestIsOpposite /\ TradeFits /\ TradeUnderWay /\ QuantityLeft /\ CancelsKnown)'
    BY DEF IInv, Deposit, BookIsPlaced, BestIsOpposite, TradeFits, BuyOrder, SellOrder, TradeUnderWay, QuantityLeft, CancelsKnown
<1>3. LockBacksRemainder'
    BY DEF IInv, Deposit, LockBacksRemainder, Live
<1> QED BY <1>1, <1>2, <1>3 DEF IInv

\* A new order starts with all of its quantity.
LEMMA SubmitIInv ==
    ASSUME IInv, NEW o \in OrderIds, NEW u \in Users, NEW s \in Sides, NEW p \in Prices,
           NEW q \in Quantities, NEW now \in {clock, clock + 1}, Submit(o, u, s, p, q, now)
    PROVE  IInv'
<1>1. p \in Nat /\ q \in Nat /\ q > 0
    BY OrdersAssumption
<1>2. TypeOK'
    <2>1. Cost(s, p, q) \in Nat
        BY <1>1, CostIsNat
    <2>2. order' \in [OrderIds -> Order]
        BY <1>1, <2>1 DEF IInv, TypeOK, Order, Submit
    <2>3. pc' \in [OrderIds -> {"idle"} \cup Processing \cup Ended]
        BY DEF IInv, TypeOK, Submit, Goto, Processing
    <2> QED BY <2>2, <2>3 DEF IInv, TypeOK, Submit
<1>3. o \notin book /\ \A x \in OrderIds : best[x] # o /\ trade[x].resting # o
    BY NobodyRefers DEF Submit
<1>4. BookIsPlaced' /\ BestIsOpposite' /\ TradeUnderWay' /\ CancelsKnown'
    BY <1>3 DEF IInv, TypeOK, Submit, Goto, BookIsPlaced, BestIsOpposite, TradeUnderWay, CancelsKnown
<1>5. TradeFits'
    BY <1>3 DEF IInv, TypeOK, Submit, Goto, TradeFits, TradeUnderWay, BuyOrder, SellOrder
<1>6. QuantityLeft'
    BY <1>1 DEF IInv, TypeOK, Submit, Goto, QuantityLeft, Processing
<1>7. LockBacksRemainder'
    BY <1>3 DEF IInv, TypeOK, Submit, Goto, LockBacksRemainder, Live
<1> QED BY <1>2, <1>4, <1>5, <1>6, <1>7 DEF IInv

\* Validation only moves the call along.
LEMMA ValidateBalanceIInv ==
    ASSUME IInv, NEW o \in OrderIds, ValidateBalance(o)
    PROVE  IInv'
<1>1. TypeOK'
    <2>1. told' \in [OrderIds -> SUBSET Statuses]
        BY DEF IInv, TypeOK, ValidateBalance, Tell, Statuses
    <2>2. pc' \in [OrderIds -> {"idle"} \cup Processing \cup Ended]
        BY DEF IInv, TypeOK, ValidateBalance, Goto, Processing, Ended
    <2> QED BY <2>1, <2>2 DEF IInv, TypeOK, ValidateBalance
<1>2. (BookIsPlaced /\ BestIsOpposite /\ TradeUnderWay /\ QuantityLeft /\ CancelsKnown)'
    BY DEF IInv, TypeOK, ValidateBalance, Goto, BookIsPlaced, BestIsOpposite, TradeUnderWay,
           QuantityLeft, CancelsKnown, Processing
<1>3. TradeFits'
    BY DEF IInv, TypeOK, ValidateBalance, Goto, TradeFits, BuyOrder, SellOrder
<1>4. LockBacksRemainder'
    BY DEF IInv, TypeOK, ValidateBalance, Goto, LockBacksRemainder, Live
<1> QED BY <1>1, <1>2, <1>3, <1>4 DEF IInv

\* Locking makes the lock exactly the cost of the order.
LEMMA LockFundsIInv ==
    ASSUME IInv, NEW o \in OrderIds, LockFunds(o)
    PROVE  IInv'
<1> DEFINE amount == Cost(order[o].side, order[o].price, order[o].quantity)
<1>1. order[o] \in Order /\ order[o].price \in Nat /\ amount \in Nat
    BY OrdersAssumption, CostIsNat DEF IInv, TypeOK, Order
<1>2. TypeOK'
    <2>1. order' \in [OrderIds -> Order]
        BY <1>1 DEF IInv, TypeOK, LockFunds, Order
    <2>2. CASE CanLock(o)
        <3>1. LockAsset(order[o].side) \in Assets
            BY DEF LockAsset, Assets
        <3>2. Locked(balance, order[o].user, LockAsset(order[o].side), amount) \in Wallets
            BY <1>1, <2>2, <3>1, LockedIsWallet DEF IInv, TypeOK, Order, CanLock, Affordable
        <3>3. pc' \in [OrderIds -> {"idle"} \cup Processing \cup Ended]
            BY DEF IInv, TypeOK, LockFunds, Goto, Processing, Ended
        <3> QED BY <2>1, <2>2, <3>2, <3>3 DEF IInv, TypeOK, LockFunds
    <2>3. CASE ~CanLock(o)
        BY <2>1, <2>3 DEF IInv, TypeOK, LockFunds, Goto, Processing, Ended
    <2> QED BY <2>2, <2>3
<1>3. o \notin book /\ \A x \in OrderIds : best[x] # o /\ trade[x].resting # o
    BY NobodyRefers DEF LockFunds
<1>4. (BookIsPlaced /\ BestIsOpposite /\ TradeUnderWay /\ QuantityLeft /\ CancelsKnown)'
    BY <1>3 DEF IInv, TypeOK, LockFunds, Goto, BookIsPlaced, BestIsOpposite, TradeUnderWay,
           QuantityLeft, CancelsKnown, Processing
<1>5. TradeFits'
    BY <1>3 DEF IInv, TypeOK, LockFunds, Goto, TradeFits, TradeUnderWay, BuyOrder, SellOrder
<1>6. LockBacksRemainder'
    <2>1. order'[o].lockedAmount = amount /\ Cost(order'[o].side, order'[o].price, order'[o].quantity) = amount
        BY DEF IInv, TypeOK, LockFunds, Order
    <2>2. \A x \in OrderIds \ {o} : order'[x] = order[x] /\ pc'[x] = pc[x]
        BY DEF IInv, TypeOK, LockFunds, Goto
    <2> QED BY <1>1, <2>1, <2>2 DEF IInv, TypeOK, LockFunds, LockBacksRemainder, Live
<1> QED BY <1>2, <1>4, <1>5, <1>6 DEF IInv

\* The order read as best is in the book, on the other side.
LEMMA PeekBestIInv ==
    ASSUME IInv, NEW o \in OrderIds, PeekBest(o)
    PROVE  IInv'
<1>1. TypeOK'
    <2>1. best' \in [OrderIds -> OrderIds \cup {NoOrder}]
        BY DEF IInv, TypeOK, PeekBest, BestOf
    <2>2. pc' \in [OrderIds -> {"idle"} \cup Processing \cup Ended]
        BY DEF IInv, TypeOK, PeekBest, Goto, Processing, Ended
    <2> QED BY <2>1, <2>2 DEF IInv, TypeOK, PeekBest
<1>2. o \notin book /\ \A x \in OrderIds : best[x] # o /\ trade[x].resting # o
    BY NobodyRefers DEF PeekBest
<1>3. BestIsOpposite'
    <2>1. best'[o] # NoOrder => best'[o] \in book /\ order[best'[o]].side = Opposite(order[o].side)
        BY DEF IInv, TypeOK, PeekBest, BestOf
    <2>2. \A x \in OrderIds \ {o} : best'[x] = best[x] /\ pc'[x] = pc[x]
        BY DEF IInv, TypeOK, PeekBest, Goto
    <2>3. pc'[o] = "taking"
        BY DEF IInv, TypeOK, PeekBest, Goto
    <2> QED BY <1>2, <2>1, <2>2, <2>3 DEF IInv, TypeOK, PeekBest, BookIsPlaced, BestIsOpposite
<1>4. (BookIsPlaced /\ TradeUnderWay /\ QuantityLeft /\ CancelsKnown)'
    BY <1>2 DEF IInv, TypeOK, PeekBest, Goto, BookIsPlaced, TradeUnderWay, QuantityLeft,
                CancelsKnown, Processing
<1>5. TradeFits'
    BY <1>2 DEF IInv, TypeOK, PeekBest, Goto, TradeFits, BuyOrder, SellOrder
<1>6. LockBacksRemainder'
    BY DEF IInv, TypeOK, PeekBest, Goto, LockBacksRemainder, Live
<1> QED BY <1>1, <1>3, <1>4, <1>5, <1>6 DEF IInv

\* What rests had something left, and a lock for it.
LEMMA PlaceRemainderIInv ==
    ASSUME IInv, NEW o \in OrderIds, PlaceRemainder(o)
    PROVE  IInv'
<1>1. TypeOK'
    <2>1. order' \in [OrderIds -> Order]
        BY DEF IInv, TypeOK, PlaceRemainder, Order
    <2>2. told' \in [OrderIds -> SUBSET Statuses]
        BY DEF IInv, TypeOK, PlaceRemainder, Tell, Statuses
    <2>3. pc' \in [OrderIds -> {"idle"} \cup Processing \cup Ended]
        BY DEF IInv, TypeOK, PlaceRemainder, Goto, Ended
    <2> QED BY <2>1, <2>2, <2>3 DEF IInv, TypeOK, PlaceRemainder
<1>2. \A x \in OrderIds : /\ order'[x].side = order[x].side /\ order'[x].price = order[x].price
                          /\ order'[x].quantity = order[x].quantity
                          /\ order'[x].lockedAmount = order[x].lockedAmount
    BY DEF IInv, TypeOK, PlaceRemainder, Order
<1>3. trade[o] = NoTrade
    BY DEF IInv, TradeUnderWay, PlaceRemainder
<1>4. (BookIsPlaced /\ BestIsOpposite /\ TradeUnderWay /\ QuantityLeft /\ CancelsKnown)'
    BY <1>2 DEF IInv, TypeOK, PlaceRemainder, Goto, BookIsPlaced, BestIsOpposite, TradeUnderWay,
                QuantityLeft, CancelsKnown, Processing
<1>5. TradeFits'
    BY <1>2, <1>3 DEF IInv, TypeOK, PlaceRemainder, Goto, TradeFits, BuyOrder, SellOrder
<1>6. LockBacksRemainder'
    BY <1>2 DEF IInv, TypeOK, PlaceRemainder, Goto, LockBacksRemainder, Live
<1> QED BY <1>1, <1>4, <1>5, <1>6 DEF IInv

\* A match is within both limits and takes from the resting order's lock no
\* more than its limit allows.
LEMMA TakeBestIInv ==
    ASSUME IInv, NEW o \in OrderIds, TakeBest(o)
    PROVE  IInv'
<1> DEFINE m     == best[o]
           qty   == LesserOf(order[o].quantity, order[m].quantity)
           price == TradePrice(order[m], order[o])
<1>1. /\ m \in OrderIds /\ m \in book /\ m # o /\ pc[m] = "open" /\ pc[o] = "taking"
      /\ order[m].side = Opposite(order[o].side)
    BY DEF IInv, TypeOK, BestIsOpposite, TakeBest, CanTake
<1>2. /\ order[o] \in Order /\ order[m] \in Order
      /\ order[o].price \in Nat /\ order[m].price \in Nat
    BY <1>1, OrdersAssumption DEF IInv, TypeOK, Order
<1>3. /\ qty \in Nat /\ qty > 0
      /\ qty <= order[o].quantity /\ qty <= order[m].quantity
    BY <1>1, <1>2 DEF IInv, QuantityLeft, Processing, Order, LesserOf
<1>4. /\ price \in Nat
      /\ order[m].side = "buy" => price <= order[m].price /\ price = order[o].price
      /\ order[m].side = "sell" => price = order[m].price /\ price <= order[o].price
    BY <1>1, <1>2 DEF TakeBest, CanTake, PricesCross, TradePrice, Opposite, Order, Sides
<1>5. LET new == Reduced(m, price, qty)
      IN  /\ new \in Order
          /\ new.quantity = order[m].quantity - qty
          /\ new.side = order[m].side /\ new.price = order[m].price
          /\ Cost(new.side, new.price, new.quantity) <= new.lockedAmount
    BY <1>1, <1>3, <1>4, ReducedIsBacked DEF IInv, TypeOK, LockBacksRemainder, Live
<1>6. \/ /\ ~LeavesBook(m, qty)
         /\ order' = [order EXCEPT ![m] = Reduced(m, price, qty)]
         /\ book' = book
      \/ LeavesBook(m, qty) /\ book' = book \ {m} /\ order' = order
    BY DEF TakeBest
<1>7. /\ trade' = [trade EXCEPT ![o] = [resting |-> m, price |-> price, quantity |-> qty]]
      /\ best' = [best EXCEPT ![o] = NoOrder]
      /\ pc' = [pc EXCEPT ![o] = "settling"]
      /\ UNCHANGED <<balance, cancel, traded, told, clock, placements, deposits>>
    BY DEF TakeBest, Goto
<1>8. /\ \A x \in OrderIds : order'[x].side = order[x].side /\ order'[x].price = order[x].price
      /\ \A x \in OrderIds \ {m} : order'[x] = order[x]
    BY <1>1, <1>5, <1>6 DEF IInv, TypeOK
<1>9. TypeOK'
    <2>1. order' \in [OrderIds -> Order]
        BY <1>1, <1>5, <1>6 DEF IInv, TypeOK
    <2>2. trade' \in [OrderIds -> Trade]
        BY <1>1, <1>3, <1>4, <1>7 DEF IInv, TypeOK, Trade
    <2>3. pc' \in [OrderIds -> {"idle"} \cup Processing \cup Ended] /\ best' \in [OrderIds -> OrderIds \cup {NoOrder}]
        BY <1>7 DEF IInv, TypeOK, Processing
    <2> QED BY <1>6, <1>7, <2>1, <2>2, <2>3 DEF IInv, TypeOK
<1>10. (BookIsPlaced /\ BestIsOpposite /\ TradeUnderWay /\ CancelsKnown)'
    BY <1>1, <1>3, <1>6, <1>7, <1>8
    DEF IInv, TypeOK, BookIsPlaced, BestIsOpposite, TradeUnderWay, CancelsKnown, NoTrade
<1>11. TradeFits'
    <2>1. /\ trade'[o].resting = m /\ trade'[o].price = price /\ trade'[o].quantity = qty
          /\ order'[o] = order[o] /\ pc'[m] = "open"
        BY <1>1, <1>7, <1>8 DEF IInv, TypeOK
    <2>2. BuyOrder(o)' = (IF order[o].side = "buy" THEN o ELSE m)
          /\ SellOrder(o)' = (IF order[o].side = "sell" THEN o ELSE m)
        BY <2>1 DEF BuyOrder, SellOrder
    <2>3. /\ order'[m].side = Opposite(order'[o].side)
          /\ order[BuyOrder(o)'].price >= price /\ order[SellOrder(o)'].price <= price
          /\ BuyOrder(o)' \in OrderIds /\ SellOrder(o)' \in OrderIds
        BY <1>1, <1>2, <1>4, <1>8, <2>1, <2>2 DEF Opposite, Order, Sides
    <2>4. \A x \in OrderIds \ {o} : trade'[x] = trade[x] /\ pc'[x] = pc[x]
        BY <1>7 DEF IInv, TypeOK
    <2>5. \A x \in OrderIds : pc[x] = "open" => pc'[x] = "open"
        BY <1>1, <1>7 DEF IInv, TypeOK
    <2>6. ASSUME NEW x \in OrderIds \ {o}, pc'[x] \in {"settling", "recording", "failed"}, trade'[x] # NoTrade
          PROVE  /\ trade'[x].resting \in OrderIds /\ pc'[trade'[x].resting] = "open"
                 /\ order'[trade'[x].resting].side = Opposite(order'[x].side)
                 /\ trade'[x].quantity > 0 /\ trade'[x].quantity <= order'[x].quantity
                 /\ order'[BuyOrder(x)'].price >= trade'[x].price
                 /\ order'[SellOrder(x)'].price <= trade'[x].price
        BY <1>1, <1>8, <2>4, <2>5, <2>6 DEF IInv, TradeFits, BuyOrder, SellOrder
    <2>7. order'[BuyOrder(o)'].price >= price /\ order'[SellOrder(o)'].price <= price
        BY <1>8, <2>3
    <2> QED BY <1>1, <1>3, <2>1, <2>3, <2>6, <2>7 DEF TradeFits
<1>12. QuantityLeft'
    BY <1>1, <1>2, <1>3, <1>5, <1>6, <1>7, <1>8
    DEF IInv, TypeOK, QuantityLeft, LeavesBook, Order, Processing
<1>13. LockBacksRemainder'
    <2>1. \A x \in Live' : x \in Live /\ (x = m => ~LeavesBook(m, qty))
        BY <1>1, <1>6, <1>7 DEF IInv, TypeOK, Live
    <2>2. ASSUME NEW x \in Live', x # m
          PROVE  Cost(order'[x].side, order'[x].price, order'[x].quantity) <= order'[x].lockedAmount
        BY <1>8, <2>1, <2>2 DEF IInv, TypeOK, LockBacksRemainder, Live
    <2>3. ASSUME m \in Live'
          PROVE  Cost(order'[m].side, order'[m].price, order'[m].quantity) <= order'[m].lockedAmount
        BY <1>1, <1>5, <1>6, <2>1, <2>3 DEF IInv, TypeOK
    <2> QED BY <2>2, <2>3 DEF LockBacksRemainder
<1> QED BY <1>9, <1>10, <1>11, <1>12, <1>13 DEF IInv

\* Settlement moves money and the call, whether it succeeds or throws half-way.
LEMMA SettleTradeIInv ==
    ASSUME IInv, NEW o \in OrderIds, SettleTrade(o)
    PROVE  IInv'
<1> DEFINE buyer  == order[BuyOrder(o)].user
           seller == order[SellOrder(o)].user
           price  == trade[o].price
           qty    == trade[o].quantity
<1>1. trade[o] # NoTrade /\ trade[o].resting \in OrderIds
    BY DEF IInv, TradeUnderWay, TradeFits, SettleTrade
<1>2. buyer \in Users /\ seller \in Users /\ price \in Nat /\ qty \in Nat
    BY <1>1 DEF IInv, TypeOK, Order, Trade, BuyOrder, SellOrder
<1>3. balance' \in Wallets
    <2>1. \/ balance' = balance
          \/ /\ price * qty <= balance[buyer]["quote"].locked
             /\ balance' = BuyerSettled(balance, buyer, price, qty)
          \/ /\ price * qty <= balance[buyer]["quote"].locked
             /\ qty <= balance[seller]["base"].locked
             /\ balance' = SellerSettled(BuyerSettled(balance, buyer, price, qty), seller, price, qty)
        BY DEF SettleTrade
    <2>2. balance \in Wallets
        BY DEF IInv, TypeOK
    <2>3. ASSUME price * qty <= balance[buyer]["quote"].locked
          PROVE  /\ BuyerSettled(balance, buyer, price, qty) \in Wallets
                 /\ BuyerSettled(balance, buyer, price, qty)[seller]["base"].locked
                      = balance[seller]["base"].locked
        BY <1>2, <2>2, <2>3, BuyerSettledIsWallet
    <2> QED BY <1>2, <2>1, <2>2, <2>3, SellerSettledIsWallet
<1>4. /\ pc[o] = "settling"
      /\ \/ pc' = [pc EXCEPT ![o] = "recording"] \/ pc' = [pc EXCEPT ![o] = "failed"]
      /\ UNCHANGED <<order, book, best, trade, cancel, traded, told, clock, placements, deposits>>
    BY DEF SettleTrade, Goto
<1>5. TypeOK'
    BY <1>3, <1>4 DEF IInv, TypeOK, Processing, Ended
<1>6. (BookIsPlaced /\ BestIsOpposite /\ TradeUnderWay /\ QuantityLeft /\ CancelsKnown)'
    BY <1>4 DEF IInv, TypeOK, BookIsPlaced, BestIsOpposite, TradeUnderWay, QuantityLeft,
                CancelsKnown, Processing
<1>7. TradeFits'
    BY <1>4 DEF IInv, TypeOK, TradeFits, BuyOrder, SellOrder
<1>8. LockBacksRemainder'
    BY <1>4 DEF IInv, TypeOK, LockBacksRemainder, Live
<1> QED BY <1>5, <1>6, <1>7, <1>8 DEF IInv

\* The engine's copy loses what the trade took.
LEMMA RecordTradeIInv ==
    ASSUME IInv, NEW o \in OrderIds, RecordTrade(o)
    PROVE  IInv'
<1> DEFINE new == AfterTrade(o)
<1>1. /\ pc[o] = "recording" /\ trade[o] # NoTrade /\ trade[o].resting \in OrderIds
      /\ trade[o].price \in Nat /\ trade[o].quantity \in Nat
      /\ trade[o].quantity <= order[o].quantity
      /\ order[o].side = "buy" => trade[o].price <= order[o].price
    BY DEF IInv, TypeOK, TradeUnderWay, TradeFits, RecordTrade, Trade, BuyOrder
<1>2. /\ new \in Order
      /\ new.quantity = order[o].quantity - trade[o].quantity
      /\ new.side = order[o].side /\ new.price = order[o].price
      /\ Cost(new.side, new.price, new.quantity) <= new.lockedAmount
    BY <1>1, ReducedIsBacked DEF IInv, TypeOK, LockBacksRemainder, Live, AfterTrade
<1>3. /\ pc' = [pc EXCEPT ![o] = IF new.quantity > 0 THEN "peeking" ELSE "releasing"]
      /\ order' = [order EXCEPT ![o] = new]
      /\ trade' = [trade EXCEPT ![o] = NoTrade]
      /\ UNCHANGED <<balance, book, best, cancel, told, clock, placements, deposits>>
    BY DEF RecordTrade, Goto
<1> HIDE DEF new
<1>4. TypeOK'
    <2>1. traded' \in [OrderIds -> Nat]
        BY <1>1 DEF IInv, TypeOK, RecordTrade
    <2>2. order' \in [OrderIds -> Order] /\ trade' \in [OrderIds -> Trade]
        BY <1>2, <1>3 DEF IInv, TypeOK, Trade, NoTrade
    <2>3. pc' \in [OrderIds -> {"idle"} \cup Processing \cup Ended]
        BY <1>3 DEF IInv, TypeOK, Processing
    <2> QED BY <1>3, <2>1, <2>2, <2>3 DEF IInv, TypeOK
<1>5. o \notin book /\ \A x \in OrderIds : best[x] # o /\ trade[x].resting # o
    BY <1>1, NobodyRefers
<1>6. (BookIsPlaced /\ BestIsOpposite /\ TradeUnderWay /\ CancelsKnown)'
    BY <1>1, <1>2, <1>3, <1>5
    DEF IInv, TypeOK, BookIsPlaced, BestIsOpposite, TradeUnderWay, CancelsKnown
<1>7. TradeFits'
    BY <1>2, <1>3, <1>5 DEF IInv, TypeOK, TradeFits, BuyOrder, SellOrder
<1>8. QuantityLeft'
    BY <1>1, <1>2, <1>3, <1>5 DEF IInv, TypeOK, QuantityLeft, Processing
<1>9. LockBacksRemainder'
    BY <1>1, <1>2, <1>3, <1>5 DEF IInv, TypeOK, LockBacksRemainder, Live
<1> QED BY <1>4, <1>6, <1>7, <1>8, <1>9 DEF IInv

\* Releasing the residual ends a call that no longer trades.
LEMMA ReleaseResidualIInv ==
    ASSUME IInv, NEW o \in OrderIds, ReleaseResidual(o)
    PROVE  IInv'
<1>1. LockAsset(order[o].side) \in Assets
    BY DEF LockAsset, Assets
<1>2. balance' \in Wallets
    BY <1>1, UnlockedIsWallet DEF IInv, TypeOK, ReleaseResidual, Order
<1>3. /\ pc[o] = "releasing"
      /\ \/ pc' = [pc EXCEPT ![o] = "filled"] \/ pc' = [pc EXCEPT ![o] = "failed"]
      /\ UNCHANGED <<order, book, best, trade, cancel, traded, clock, placements, deposits>>
    BY DEF ReleaseResidual, Goto
<1>4. told' \in [OrderIds -> SUBSET Statuses]
    BY DEF IInv, TypeOK, ReleaseResidual, Tell, Statuses
<1>5. TypeOK'
    BY <1>2, <1>3, <1>4 DEF IInv, TypeOK, Ended
<1>6. (BookIsPlaced /\ BestIsOpposite /\ TradeUnderWay /\ QuantityLeft /\ CancelsKnown)'
    BY <1>3 DEF IInv, TypeOK, BookIsPlaced, BestIsOpposite, TradeUnderWay, QuantityLeft,
                CancelsKnown, Processing
<1>7. TradeFits'
    BY <1>3 DEF IInv, TypeOK, TradeFits, TradeUnderWay, BuyOrder, SellOrder
<1>8. LockBacksRemainder'
    BY <1>3 DEF IInv, TypeOK, LockBacksRemainder, Live
<1> QED BY <1>5, <1>6, <1>7, <1>8 DEF IInv

\* A cancel remembers the order it has found.
LEMMA CancelGetOrderIInv ==
    ASSUME IInv, NEW c \in Cancels, NEW o \in OrderIds, CancelGetOrder(c, o)
    PROVE  IInv'
<1>1. TypeOK'
    <2>1. cancel' \in [Cancels -> Cancellation]
        BY DEF IInv, TypeOK, CancelGetOrder, Cancellation, Cancelling
    <2>2. told' \in [OrderIds -> SUBSET Statuses]
        BY DEF IInv, TypeOK, CancelGetOrder, Tell, Statuses
    <2> QED BY <2>1, <2>2 DEF IInv, TypeOK, CancelGetOrder
<1>2. CancelsKnown'
    BY DEF IInv, TypeOK, CancelGetOrder, CancelsKnown, Cancelling
<1>3. (BookIsPlaced /\ BestIsOpposite /\ TradeFits /\ TradeUnderWay /\ QuantityLeft)'
    BY DEF IInv, CancelGetOrder, BookIsPlaced, BestIsOpposite, TradeFits, BuyOrder, SellOrder,
           TradeUnderWay, QuantityLeft
<1>4. LockBacksRemainder'
    BY DEF IInv, CancelGetOrder, LockBacksRemainder, Live
<1> QED BY <1>1, <1>2, <1>3, <1>4 DEF IInv

\* A cancel returns a lock the wallet holds.
LEMMA CancelUnlockFundsIInv ==
    ASSUME IInv, NEW c \in Cancels, CancelUnlockFunds(c)
    PROVE  IInv'
<1> DEFINE x      == order[cancel[c].order]
           asset  == LockAsset(x.side)
           amount == IF x.lockedAmount > 0 THEN x.lockedAmount ELSE Cost(x.side, x.price, x.quantity)
<1>1. x \in Order /\ x.price \in Nat
    BY OrdersAssumption DEF IInv, TypeOK, CancelsKnown, CancelUnlockFunds, Cancelling, Order
<1>2. asset \in Assets /\ amount \in Nat
    BY <1>1, CostIsNat DEF LockAsset, Assets, Order
<1>3. balance' \in Wallets
    <2>1. \/ balance' = balance
          \/ /\ amount <= balance[x.user][asset].locked
             /\ balance' = Unlocked(balance, x.user, asset, amount)
        BY DEF CancelUnlockFunds
    <2>2. x.user \in Users /\ balance \in Wallets
        BY <1>1 DEF IInv, TypeOK, Order
    <2> QED BY <1>2, <2>1, <2>2, UnlockedIsWallet
<1>4. /\ cancel[c].at = "unlocking"
      /\ \/ cancel' = [cancel EXCEPT ![c].at = "removing"]
         \/ cancel' = [cancel EXCEPT ![c].at = "failed"]
      /\ UNCHANGED <<order, book, pc, best, trade, traded, told, clock, placements, deposits>>
    BY DEF CancelUnlockFunds, CancelGoto
<1>5. TypeOK'
    <2>1. cancel' \in [Cancels -> Cancellation]
        BY <1>4 DEF IInv, TypeOK, Cancellation, Cancelling
    <2> QED BY <1>3, <1>4, <2>1 DEF IInv, TypeOK
<1>6. CancelsKnown'
    BY <1>4 DEF IInv, TypeOK, CancelsKnown, Cancellation, Cancelling
<1>7. (BookIsPlaced /\ BestIsOpposite /\ TradeFits /\ TradeUnderWay /\ QuantityLeft)'
    BY <1>4 DEF IInv, BookIsPlaced, BestIsOpposite, TradeFits, BuyOrder, SellOrder,
                TradeUnderWay, QuantityLeft
<1>8. LockBacksRemainder'
    BY <1>4 DEF IInv, LockBacksRemainder, Live
<1> QED BY <1>5, <1>6, <1>7, <1>8 DEF IInv

\* Removing an order leaves the others as they were.
LEMMA CancelRemoveIInv ==
    ASSUME IInv, NEW c \in Cancels, CancelRemove(c)
    PROVE  IInv'
<1>1. TypeOK'
    <2>1. cancel[c].order \in OrderIds
        BY DEF IInv, CancelsKnown, CancelRemove, Cancelling
    <2>2. cancel' \in [Cancels -> Cancellation]
        BY DEF IInv, TypeOK, CancelRemove, CancelGoto, Cancellation
    <2>3. told' \in [OrderIds -> SUBSET Statuses]
        BY <2>1 DEF IInv, TypeOK, CancelRemove, Tell, Statuses
    <2> QED BY <2>2, <2>3 DEF IInv, TypeOK, CancelRemove, BookWithout
<1>2. CancelsKnown'
    BY DEF IInv, TypeOK, CancelRemove, CancelGoto, CancelsKnown, Cancellation, Cancelling
<1>3. (BookIsPlaced /\ BestIsOpposite /\ TradeFits /\ TradeUnderWay /\ QuantityLeft)'
    BY DEF IInv, CancelRemove, BookWithout, BookIsPlaced, BestIsOpposite, TradeFits, BuyOrder,
           SellOrder, TradeUnderWay, QuantityLeft
<1>4. LockBacksRemainder'
    BY DEF IInv, CancelRemove, BookWithout, LockBacksRemainder, Live
<1> QED BY <1>1, <1>2, <1>3, <1>4 DEF IInv

-----------------------------------------------------------------------------
(* The theorems.                                                           *)

\* Every step of every call keeps the invariant.
LEMMA NextIInv == IInv /\ [Next]_vars => IInv'
<1> SUFFICES ASSUME IInv, [Next]_vars PROVE IInv'
    OBVIOUS
<1>1. ASSUME NEW u \in Users, NEW a \in Assets, Deposit(u, a) PROVE IInv'
    BY <1>1, DepositIInv
<1>2. ASSUME NEW o \in OrderIds, NEW u \in Users, NEW s \in Sides, NEW p \in Prices,
             NEW q \in Quantities, NEW now \in {clock, clock + 1}, Submit(o, u, s, p, q, now)
      PROVE  IInv'
    BY <1>2, SubmitIInv
<1>3. ASSUME NEW c \in Cancels, NEW o \in OrderIds, CancelGetOrder(c, o) PROVE IInv'
    BY <1>3, CancelGetOrderIInv
<1>4. ASSUME NEW o \in OrderIds, Process(o) PROVE IInv'
    BY <1>4, ValidateBalanceIInv, LockFundsIInv, PeekBestIInv, PlaceRemainderIInv, TakeBestIInv,
       SettleTradeIInv, RecordTradeIInv, ReleaseResidualIInv DEF Process
<1>5. ASSUME NEW c \in Cancels, ProcessCancel(c) PROVE IInv'
    BY <1>5, CancelUnlockFundsIInv, CancelRemoveIInv DEF ProcessCancel
<1>6. CASE UNCHANGED vars
    BY <1>6 DEF vars, IInv, TypeOK, BookIsPlaced, BestIsOpposite, TradeFits, BuyOrder, SellOrder,
                TradeUnderWay, QuantityLeft, CancelsKnown, LockBacksRemainder, Live
<1> QED BY <1>1, <1>2, <1>3, <1>4, <1>5, <1>6 DEF Next, Arrive

\* IInv is inductive, so it holds in every reachable state.
LEMMA SpecIInv == Spec => []IInv
<1> QED BY InitIInv, NextIInv, PTL DEF Spec

\* No balance, lock or quantity ever leaves the natural numbers: nobody trades
\* or withdraws from the lock more than is there, however calls overlap.
THEOREM TypeCorrect == Spec => []TypeOK
<1>1. IInv => TypeOK
    BY DEF IInv
<1> QED BY <1>1, SpecIInv, PTL

\* However calls overlap, the residual lock of every order that can still
\* trade pays for what is left of it at its limit.
THEOREM LocksBackOrders == Spec => []LockBacksRemainder
<1>1. IInv => LockBacksRemainder
    BY DEF IInv
<1> QED BY <1>1, SpecIInv, PTL

\* However calls overlap, a trade is within the limits of both its orders.
THEOREM TradesAreWithinLimits == Spec => []TradesWithinLimits
<1>1. IInv => TradesWithinLimits
    BY DEF IInv, TradeFits, TradeUnderWay, TradesWithinLimits
<1> QED BY <1>1, SpecIInv, PTL

-----------------------------------------------------------------------------
(* The wallet's books: what is locked is what the orders claim, no         *)
(* settlement fails half-way, and trading creates and destroys nothing.    *)
(* All of this is false when a cancel overlaps a match, which              *)
(* CancelsDoNotRace rules out.                                             *)

\* Calls run one at a time, or nobody cancels.
CancelsDoNotRace == MaxInFlight <= 1 \/ Cancels = {}

-----------------------------------------------------------------------------
(* The inductive invariant: besides IInv, nobody else is at work while an  *)
(* order is being cancelled, and what a sell order has locked is exactly   *)
(* what it has left (so that nothing is left over when it goes).           *)

CancelsAlone ==
    \A c \in Cancels : cancel[c].at \in Cancelling =>
        /\ cancel[c].order \in book
        /\ \A o \in OrderIds : pc[o] \notin Processing
        /\ \A d \in Cancels \ {c} : cancel[d].at \notin Cancelling

SellLockExact ==
    \A o \in Live : order[o].side = "sell" => order[o].lockedAmount = order[o].quantity

\* One user's locks on one side of the market, as LocksAccounted has them.
Covered(user, side) ==
    /\ Claims(user, side) <= balance[user][LockAsset(side)].locked
    /\ side = "sell" => Claims(user, side) = balance[user][LockAsset(side)].locked

MInv ==
    /\ IInv
    /\ CancelsAlone
    /\ SellLockExact
    /\ SettlementNeverFails
    /\ \A u \in Users, s \in Sides : Covered(u, s)

-----------------------------------------------------------------------------
(* Claims.                                                                 *)

\* A call that has taken an order holds a trade that its own lock pays for.
LEMMA TradeIsPaidFor ==
    ASSUME IInv, NEW o \in OrderIds, pc[o] \in {"settling", "recording"}
    PROVE  /\ trade[o].price \in Nat \ {0} /\ trade[o].quantity \in Nat \ {0}
           /\ trade[o].resting \in OrderIds /\ trade[o].resting # o
           /\ pc[trade[o].resting] = "open"
           /\ order[trade[o].resting].side = Opposite(order[o].side)
           /\ TradeCost(o, "buy") = trade[o].price * trade[o].quantity
           /\ TradeCost(o, "sell") = trade[o].quantity
           /\ TradeCost(o, "buy") \in Nat
           /\ TradeCost(o, order[o].side) <= order[o].lockedAmount
<1>1. /\ trade[o] # NoTrade /\ trade[o].price \in Nat /\ trade[o].quantity \in Nat \ {0}
      /\ trade[o].resting \in OrderIds /\ pc[trade[o].resting] = "open"
      /\ order[trade[o].resting].side = Opposite(order[o].side)
      /\ trade[o].quantity <= order[o].quantity
      /\ order[BuyOrder(o)].price >= trade[o].price
      /\ order[SellOrder(o)].price <= trade[o].price
    BY DEF IInv, TypeOK, TradeFits, TradeUnderWay, Trade
<1>2. /\ order[o].side \in Sides /\ order[o].price \in Nat /\ order[o].quantity \in Nat
      /\ order[o].lockedAmount \in Nat
    BY OrdersAssumption DEF IInv, TypeOK, Order
<1>3. trade[o].price # 0
    <2>1. SellOrder(o) \in OrderIds
        BY <1>1 DEF SellOrder
    <2>2. order[SellOrder(o)].price \in Nat \ {0}
        BY <2>1, OrdersAssumption DEF IInv, TypeOK, Order
    <2> QED BY <1>1, <2>2
<1>4. o \in Live
    BY DEF Live
<1>5. Cost(order[o].side, order[o].price, order[o].quantity) <= order[o].lockedAmount
    BY <1>4 DEF IInv, LockBacksRemainder
<1>6. order[o].side = "buy" => trade[o].price <= order[o].price
    BY <1>1, <1>2 DEF BuyOrder
<1>7. order[o].lockedAmount - Cost(order[o].side, trade[o].price, trade[o].quantity) \in Nat
    BY <1>1, <1>2, <1>5, <1>6, LockSplits
<1>8. Cost(order[o].side, trade[o].price, trade[o].quantity) \in Nat
    BY <1>1, <1>2, CostIsNat
<1>9. Cost(order[o].side, trade[o].price, trade[o].quantity) <= order[o].lockedAmount
    BY <1>2, <1>7, <1>8
<1>10. trade[o].price * trade[o].quantity \in Nat
    BY <1>1
<1> QED BY <1>1, <1>3, <1>9, <1>10 DEF TradeCost, Cost

\* Claims are sums of natural numbers.
ClaimsCount ==
    \A u \in Users, s \in Sides :
        Residuals(u, s) \in [OrderIds -> Nat] /\ Owing(u, s) \in [OrderIds -> Nat]

LEMMA ClaimsCounted == IInv => ClaimsCount
<1> SUFFICES ASSUME IInv, NEW u \in Users, NEW s \in Sides
             PROVE  Residuals(u, s) \in [OrderIds -> Nat] /\ Owing(u, s) \in [OrderIds -> Nat]
    BY DEF ClaimsCount
<1>1. ASSUME NEW o \in OrderIds PROVE Residual(o) \in Nat
    <2>1. order[o].lockedAmount \in Nat /\ order[o].side \in Sides
        BY DEF IInv, TypeOK, Order
    <2>2. CASE pc[o] = "recording"
        <3>1. TradeCost(o, order[o].side) <= order[o].lockedAmount /\ TradeCost(o, order[o].side) \in Nat
            BY <2>1, <2>2, TradeIsPaidFor DEF Sides
        <3> QED BY <2>1, <2>2, <3>1 DEF Residual
    <2> QED BY <2>1, <2>2 DEF Residual
<1>2. ASSUME NEW o \in OrderIds, pc[o] = "settling" PROVE TradeCost(o, s) \in Nat
    BY <1>2, TradeIsPaidFor DEF Sides
<1> QED BY <1>1, <1>2 DEF Residuals, Owing

\* The same of the next state.
LEMMA ClaimsCountedNext == IInv' => ClaimsCount'
<1> QED BY ClaimsCounted, PTL

-----------------------------------------------------------------------------
(* What the wallet's mutations do to the locks.                            *)

\* The locks after lockFunds.
LEMMA LockedLocks ==
    ASSUME NEW b \in Wallets, NEW u \in Users, NEW a \in Assets, NEW n \in Nat,
           n <= b[u][a].available, NEW v \in Users, NEW x \in Assets
    PROVE  Locked(b, u, a, n)[v][x].locked
             = IF v = u /\ x = a THEN b[v][x].locked + n ELSE b[v][x].locked
<1>1. b[v] \in [Assets -> Balance] /\ b[u] \in [Assets -> Balance]
    BY DEF Wallets
<1> QED BY <1>1 DEF Wallets, Locked, Balance

\* The locks after unlockFunds.
LEMMA UnlockedLocks ==
    ASSUME NEW b \in Wallets, NEW u \in Users, NEW a \in Assets, NEW n \in Nat,
           n <= b[u][a].locked, NEW v \in Users, NEW x \in Assets
    PROVE  Unlocked(b, u, a, n)[v][x].locked
             = IF v = u /\ x = a THEN b[v][x].locked - n ELSE b[v][x].locked
<1>1. b[v] \in [Assets -> Balance] /\ b[u] \in [Assets -> Balance]
    BY DEF Wallets
<1> QED BY <1>1 DEF Wallets, Unlocked, Balance

\* A wallet in which a trade has been settled, balance by balance.
Settled(b, buyer, seller, value, quantity) ==
    [u \in Users |-> [a \in Assets |->
        IF a = "quote"
            THEN [available |-> b[u][a].available + (IF u = seller THEN value ELSE 0),
                  locked    |-> b[u][a].locked - (IF u = buyer THEN value ELSE 0)]
            ELSE [available |-> b[u][a].available + (IF u = buyer THEN quantity ELSE 0),
                  locked    |-> b[u][a].locked - (IF u = seller THEN quantity ELSE 0)]]]

SettledAt(b, buyer, seller, price, quantity) == Settled(b, buyer, seller, price * quantity, quantity)

\* Both halves of settleTrade.
LEMMA SettledBalances ==
    ASSUME NEW b \in Wallets, NEW buyer \in Users, NEW seller \in Users, NEW p \in Nat, NEW q \in Nat
    PROVE  SellerSettled(BuyerSettled(b, buyer, p, q), seller, p, q) = SettledAt(b, buyer, seller, p, q)
<1> DEFINE Loose == [available : Int, locked : Int]
<1>1. PICK value \in Nat : value = p * q
    BY ProductIsNat
<1>2. PICK b1 : b1 = BuyerSettled(b, buyer, p, q)
    OBVIOUS
<1>3. PICK b2 : b2 = SellerSettled(b1, seller, p, q)
    OBVIOUS
<1>4. /\ b \in [Users -> [Assets -> Loose]]
      /\ \A u \in Users : b[u] \in [Assets -> Loose]
      /\ \A u \in Users, a \in Assets : b[u][a] \in Loose /\ b[u][a].available \in Int /\ b[u][a].locked \in Int
    BY DEF Wallets, Balance
<1>5. b1 = [b EXCEPT ![buyer] = [b[buyer] EXCEPT !["quote"].locked = @ - value, !["base"].available = @ + q]]
    <2>1. b1 = [b EXCEPT ![buyer] = [b[buyer] EXCEPT !["quote"].locked = @ - p * q,
                                                     !["base"].available = @ + q]]
        BY <1>2 DEF Wallets, BuyerSettled
    <2> QED BY <1>1, <2>1
<1>6. /\ [b[buyer]["quote"] EXCEPT !.locked = @ - value] \in Loose
      /\ [b[buyer]["base"] EXCEPT !.available = @ + q] \in Loose
    BY <1>4 DEF Assets
<1>7. [b[buyer] EXCEPT !["quote"].locked = @ - value, !["base"].available = @ + q] \in [Assets -> Loose]
    BY <1>4, <1>6 DEF Assets
<1>8. /\ b1 \in [Users -> [Assets -> Loose]]
      /\ \A u \in Users : b1[u] \in [Assets -> Loose]
      /\ \A u \in Users, a \in Assets : b1[u][a] \in Loose /\ b1[u][a].available \in Int /\ b1[u][a].locked \in Int
    BY <1>4, <1>5, <1>7
<1>9. ASSUME NEW u \in Users
      PROVE  /\ b1[u]["quote"].locked = b[u]["quote"].locked - (IF u = buyer THEN value ELSE 0)
             /\ b1[u]["base"].locked = b[u]["base"].locked
             /\ b1[u]["quote"].available = b[u]["quote"].available
             /\ b1[u]["base"].available = b[u]["base"].available + (IF u = buyer THEN q ELSE 0)
    <2>1. CASE u = buyer
        BY <1>4, <1>5, <2>1 DEF Assets
    <2>2. CASE u # buyer
        BY <1>4, <1>5, <2>2 DEF Assets
    <2> QED BY <2>1, <2>2
<1>10. b2 = [b1 EXCEPT ![seller] = [b1[seller] EXCEPT !["base"].locked = @ - q, !["quote"].available = @ + value]]
    <2>1. b1 \in [Users -> [Assets -> Loose]]
        BY <1>8
    <2>2. b2 = [b1 EXCEPT ![seller] = [b1[seller] EXCEPT !["base"].locked = @ - q,
                                                        !["quote"].available = @ + p * q]]
        BY <1>3, <2>1 DEF SellerSettled
    <2> QED BY <1>1, <2>2
<1>11. /\ [b1[seller]["base"] EXCEPT !.locked = @ - q] \in Loose
       /\ [b1[seller]["quote"] EXCEPT !.available = @ + value] \in Loose
    BY <1>8 DEF Assets
<1>12. [b1[seller] EXCEPT !["base"].locked = @ - q, !["quote"].available = @ + value] \in [Assets -> Loose]
    BY <1>8, <1>11 DEF Assets
<1>13. b2 \in [Users -> [Assets -> Loose]]
    BY <1>8, <1>10, <1>12
<1>14. ASSUME NEW u \in Users
       PROVE  /\ b2[u]["quote"].locked = b1[u]["quote"].locked
              /\ b2[u]["base"].locked = b1[u]["base"].locked - (IF u = seller THEN q ELSE 0)
              /\ b2[u]["quote"].available = b1[u]["quote"].available + (IF u = seller THEN value ELSE 0)
              /\ b2[u]["base"].available = b1[u]["base"].available
    <2>1. CASE u = seller
        BY <1>8, <1>10, <2>1 DEF Assets
    <2>2. CASE u # seller
        BY <1>8, <1>10, <2>2 DEF Assets
    <2> QED BY <2>1, <2>2
<1>15. ASSUME NEW u \in Users, NEW a \in Assets
       PROVE  b2[u][a] = Settled(b, buyer, seller, value, q)[u][a]
    <2>1. b2[u][a] \in Loose
        BY <1>13
    <2>2. CASE a = "quote"
        <3>1. /\ b2[u][a].available = b[u][a].available + (IF u = seller THEN value ELSE 0)
              /\ b2[u][a].locked = b[u][a].locked - (IF u = buyer THEN value ELSE 0)
            BY <1>9, <1>14, <2>2
        <3> QED BY <2>1, <2>2, <3>1 DEF Settled
    <2>3. CASE a = "base"
        <3>1. /\ b2[u][a].available = b[u][a].available + (IF u = buyer THEN q ELSE 0)
              /\ b2[u][a].locked = b[u][a].locked - (IF u = seller THEN q ELSE 0)
            BY <1>9, <1>14, <2>3
        <3> QED BY <2>1, <2>3, <3>1 DEF Settled
    <2> QED BY <2>2, <2>3 DEF Assets
<1>16. \A u \in Users : b2[u] = Settled(b, buyer, seller, value, q)[u]
    BY <1>13, <1>15 DEF Settled
<1>17. b2 = Settled(b, buyer, seller, value, q)
    BY <1>13, <1>16 DEF Settled
<1>18. SettledAt(b, buyer, seller, p, q) = Settled(b, buyer, seller, value, q)
    BY <1>1 DEF SettledAt
<1> QED BY <1>2, <1>3, <1>17, <1>18

-----------------------------------------------------------------------------
(* How the steps move claims and locks.                                    *)

\* A user's claims on a side change at most at order x and at the trade of
\* taker y, and its lock changes with them: all of it by rise - drop.
Shifted(u, s, x, y, drop, rise) ==
    /\ \A z \in OrderIds \ {x} : Residuals(u, s)'[z] = Residuals(u, s)[z]
    /\ \A z \in OrderIds \ {y} : Owing(u, s)'[z] = Owing(u, s)[z]
    /\ (Residuals(u, s)'[x] + Owing(u, s)'[y]) + drop <= (Residuals(u, s)[x] + Owing(u, s)[y]) + rise
    /\ s = "sell" => (Residuals(u, s)'[x] + Owing(u, s)'[y]) + drop
                        = (Residuals(u, s)[x] + Owing(u, s)[y]) + rise
    /\ balance[u][LockAsset(s)].locked \in Nat /\ balance'[u][LockAsset(s)].locked \in Nat
    /\ balance'[u][LockAsset(s)].locked + drop = balance[u][LockAsset(s)].locked + rise

\* Then the lock still covers them.
LEMMA CoveredMoves ==
    ASSUME ClaimsCount, ClaimsCount', NEW u \in Users, NEW s \in Sides, Covered(u, s),
           NEW x \in OrderIds, NEW y \in OrderIds, NEW drop \in Nat, NEW rise \in Nat,
           Shifted(u, s, x, y, drop, rise)
    PROVE  Covered(u, s)'
<1>1. PICK R \in [OrderIds -> Nat], R2 \in [OrderIds -> Nat], O \in [OrderIds -> Nat], O2 \in [OrderIds -> Nat] :
        /\ R = Residuals(u, s) /\ R2 = Residuals(u, s)'
        /\ O = Owing(u, s) /\ O2 = Owing(u, s)'
    BY DEF ClaimsCount
<1>2. PICK r \in Nat, r2 \in Nat, w \in Nat, w2 \in Nat :
        r = R[x] /\ r2 = R2[x] /\ w = O[y] /\ w2 = O2[y]
    OBVIOUS
<1>3. /\ Claims(u, s)' + (r + w) = Claims(u, s) + (r2 + w2)
      /\ Claims(u, s)' \in Nat /\ Claims(u, s) \in Nat
    <2>1. IsFiniteSet(OrderIds)
        BY FiniteAssumption
    <2>2. Total(R) + R2[x] = Total(R2) + R[x] /\ Total(R) \in Nat /\ Total(R2) \in Nat
        <3>1. \A z \in OrderIds \ {x} : R2[z] = R[z]
            BY <1>1 DEF Shifted
        <3> QED BY <2>1, <3>1, TotalChanges
    <2>3. Total(O) + O2[y] = Total(O2) + O[y] /\ Total(O) \in Nat /\ Total(O2) \in Nat
        <3>1. \A z \in OrderIds \ {y} : O2[z] = O[z]
            BY <1>1 DEF Shifted
        <3> QED BY <2>1, <3>1, TotalChanges
    <2>4. Claims(u, s)' = Total(R2) + Total(O2) /\ Claims(u, s) = Total(R) + Total(O)
        BY <1>1 DEF Claims
    <2>5. PICK tr \in Nat, tr2 \in Nat, tw \in Nat, tw2 \in Nat :
            tr = Total(R) /\ tr2 = Total(R2) /\ tw = Total(O) /\ tw2 = Total(O2)
        BY <2>2, <2>3
    <2>6. tr + r2 = tr2 + r /\ tw + w2 = tw2 + w
        BY <1>2, <2>2, <2>3, <2>5
    <2>7. Claims(u, s)' = tr2 + tw2 /\ Claims(u, s) = tr + tw
        BY <2>4, <2>5
    <2> QED BY <2>6, <2>7
<1>4. PICK l \in Nat, l2 \in Nat :
        l = balance[u][LockAsset(s)].locked /\ l2 = balance'[u][LockAsset(s)].locked
    BY DEF Shifted
<1>5. /\ (r2 + w2) + drop <= (r + w) + rise /\ l2 + drop = l + rise
      /\ s = "sell" => (r2 + w2) + drop = (r + w) + rise
    BY <1>1, <1>2, <1>4 DEF Shifted
<1>6. Claims(u, s) <= l /\ (s = "sell" => Claims(u, s) = l)
    BY <1>4 DEF Covered
<1>7. Claims(u, s)' <= l2 /\ (s = "sell" => Claims(u, s)' = l2)
    BY <1>3, <1>5, <1>6
<1> QED BY <1>4, <1>7 DEF Covered

\* A step that changes nobody's residual, debt or lock changes no cover.
LEMMA CoveredStays ==
    ASSUME ClaimsCount, ClaimsCount', NEW u \in Users, NEW s \in Sides, Covered(u, s),
           \A z \in OrderIds : Residuals(u, s)'[z] = Residuals(u, s)[z],
           \A z \in OrderIds : Owing(u, s)'[z] = Owing(u, s)[z],
           balance'[u][LockAsset(s)].locked = balance[u][LockAsset(s)].locked
    PROVE  Covered(u, s)'
<1>1. Total(Residuals(u, s)') = Total(Residuals(u, s)) /\ Total(Owing(u, s)') = Total(Owing(u, s))
    BY TotalSame DEF ClaimsCount
<1> QED BY <1>1 DEF Covered, Claims

\* While a processOrder call is under way nobody is cancelling.
LEMMA NobodyCancels ==
    ASSUME CancelsAlone, NEW o \in OrderIds, pc[o] \in Processing
    PROVE  (\A c \in Cancels : cancel[c].at \notin Cancelling) /\ Backed = Live
<1>1. \A c \in Cancels : cancel[c].at \notin Cancelling
    BY DEF CancelsAlone
<1> QED BY <1>1 DEF Backed, Cancelling

\* A deposit locks nothing.
LEMMA DepositCovered ==
    ASSUME MInv, IInv', NEW u \in Users, NEW a \in Assets, Deposit(u, a)
    PROVE  \A v \in Users, s \in Sides : Covered(v, s)'
<1> SUFFICES ASSUME NEW v \in Users, NEW s \in Sides PROVE Covered(v, s)'
    OBVIOUS
<1>1. ClaimsCount /\ ClaimsCount'
    BY ClaimsCounted, ClaimsCountedNext DEF MInv
<1>2. balance'[v][LockAsset(s)].locked = balance[v][LockAsset(s)].locked
    <2>1. LockAsset(s) \in Assets /\ balance[v] \in [Assets -> Balance] /\ balance[u] \in [Assets -> Balance]
        BY DEF MInv, IInv, TypeOK, Wallets, LockAsset, Assets
    <2> QED BY <2>1 DEF MInv, IInv, TypeOK, Wallets, Deposit, Balance
<1>3. /\ \A z \in OrderIds : Residuals(v, s)'[z] = Residuals(v, s)[z]
      /\ \A z \in OrderIds : Owing(v, s)'[z] = Owing(v, s)[z]
    BY DEF Deposit, Residuals, Owing, Residual, TradeCost, Backed, Live
<1> QED BY <1>1, <1>2, <1>3, CoveredStays DEF MInv

\* A new order has locked nothing.
LEMMA SubmitCovered ==
    ASSUME MInv, IInv', NEW o \in OrderIds, NEW u \in Users, NEW si \in Sides, NEW p \in Prices,
           NEW q \in Quantities, NEW now \in {clock, clock + 1}, Submit(o, u, si, p, q, now)
    PROVE  \A v \in Users, s \in Sides : Covered(v, s)'
<1> SUFFICES ASSUME NEW v \in Users, NEW s \in Sides PROVE Covered(v, s)'
    OBVIOUS
<1>1. ClaimsCount /\ ClaimsCount'
    BY ClaimsCounted, ClaimsCountedNext DEF MInv
<1>2. o \notin book /\ \A z \in OrderIds : trade[z].resting # o
    BY NobodyRefers DEF MInv, Submit
<1>3. /\ pc[o] = "idle" /\ pc'[o] = "validating"
      /\ \A z \in OrderIds \ {o} : pc'[z] = pc[z] /\ order'[z] = order[z]
      /\ UNCHANGED <<balance, book, trade, cancel>>
    BY DEF Submit, Goto, MInv, IInv, TypeOK
<1>4. o \notin Live /\ o \notin Live' /\ \A z \in OrderIds \ {o} : z \in Live <=> z \in Live'
    BY <1>2, <1>3 DEF Live
<1>5. o \notin Backed /\ o \notin Backed' /\ \A z \in OrderIds \ {o} : z \in Backed <=> z \in Backed'
    BY <1>3, <1>4 DEF Backed
<1>6. \A z \in OrderIds : Residuals(v, s)'[z] = Residuals(v, s)[z]
    BY <1>3, <1>5 DEF Residuals, Residual, TradeCost
<1>7. \A z \in OrderIds : pc[z] = "settling" => trade[z].resting \in OrderIds \ {o}
    BY <1>2, TradeIsPaidFor DEF MInv
<1>8. \A z \in OrderIds : Owing(v, s)'[z] = Owing(v, s)[z]
    BY <1>3, <1>7 DEF Owing, TradeCost
<1> QED BY <1>1, <1>3, <1>6, <1>8, CoveredStays DEF MInv

\* Validation and the look at the book move nothing.
LEMMA GotoCovered ==
    ASSUME MInv, IInv', NEW o \in OrderIds, ValidateBalance(o) \/ PeekBest(o)
    PROVE  \A v \in Users, s \in Sides : Covered(v, s)'
<1> SUFFICES ASSUME NEW v \in Users, NEW s \in Sides PROVE Covered(v, s)'
    OBVIOUS
<1>1. ClaimsCount /\ ClaimsCount'
    BY ClaimsCounted, ClaimsCountedNext DEF MInv
<1>2. /\ \/ pc[o] = "validating" /\ pc'[o] \in {"locking", "rejected"}
         \/ pc[o] = "peeking" /\ pc'[o] = "taking"
      /\ \A z \in OrderIds \ {o} : pc'[z] = pc[z]
      /\ UNCHANGED <<balance, order, book, trade, cancel>>
    BY DEF ValidateBalance, PeekBest, Goto, MInv, IInv, TypeOK
<1>3. Live' = Live /\ Backed' = Backed
    BY <1>2 DEF Live, Backed
<1>4. /\ \A z \in OrderIds : Residuals(v, s)'[z] = Residuals(v, s)[z]
      /\ \A z \in OrderIds : Owing(v, s)'[z] = Owing(v, s)[z]
    BY <1>2, <1>3 DEF Residuals, Residual, Owing, TradeCost
<1> QED BY <1>1, <1>2, <1>4, CoveredStays DEF MInv

\* An order that comes to rest keeps its lock.
LEMMA PlaceRemainderCovered ==
    ASSUME MInv, IInv', NEW o \in OrderIds, PlaceRemainder(o)
    PROVE  \A v \in Users, s \in Sides : Covered(v, s)'
<1> SUFFICES ASSUME NEW v \in Users, NEW s \in Sides PROVE Covered(v, s)'
    OBVIOUS
<1>1. ClaimsCount /\ ClaimsCount'
    BY ClaimsCounted, ClaimsCountedNext DEF MInv
<1>2. /\ pc[o] = "taking" /\ pc'[o] = "open" /\ book' = book \cup {o}
      /\ \A z \in OrderIds \ {o} : pc'[z] = pc[z]
      /\ \A z \in OrderIds : /\ order'[z].user = order[z].user /\ order'[z].side = order[z].side
                             /\ order'[z].lockedAmount = order[z].lockedAmount
      /\ UNCHANGED <<balance, trade, cancel>>
    BY DEF PlaceRemainder, Goto, MInv, IInv, TypeOK, Order
<1>3. Live' = Live
    BY <1>2 DEF Live
<1>4. Backed' = Backed
    BY <1>2, <1>3 DEF Backed
<1>5. \A z \in OrderIds : Residuals(v, s)'[z] = Residuals(v, s)[z]
    BY <1>2, <1>4 DEF Residuals, Residual, TradeCost
<1>6. \A z \in OrderIds : pc[z] = "settling" => trade[z].resting \in OrderIds
    BY TradeIsPaidFor DEF MInv
<1>7. \A z \in OrderIds : Owing(v, s)'[z] = Owing(v, s)[z]
    BY <1>2, <1>6 DEF Owing, TradeCost
<1> QED BY <1>1, <1>2, <1>5, <1>7, CoveredStays DEF MInv

\* lockFunds locks what the order then claims.
LEMMA LockFundsCovered ==
    ASSUME MInv, IInv', NEW o \in OrderIds, LockFunds(o)
    PROVE  \A v \in Users, s \in Sides : Covered(v, s)'
<1> SUFFICES ASSUME NEW v \in Users, NEW s \in Sides PROVE Covered(v, s)'
    OBVIOUS
<1>1. ClaimsCount /\ ClaimsCount'
    BY ClaimsCounted, ClaimsCountedNext DEF MInv
<1>2. order[o] \in Order /\ order[o].price \in Nat /\ LockAsset(order[o].side) \in Assets /\ LockAsset(s) \in Assets
    BY OrdersAssumption DEF MInv, IInv, TypeOK, Order, LockAsset, Assets
<1>3. PICK amount \in Nat : amount = Cost(order[o].side, order[o].price, order[o].quantity)
    BY <1>2, CostIsNat DEF Order
<1>4. o \notin book /\ \A z \in OrderIds : trade[z].resting # o
    BY NobodyRefers DEF MInv, LockFunds
<1>5. /\ pc[o] = "locking"
      /\ \A z \in OrderIds \ {o} : pc'[z] = pc[z] /\ order'[z] = order[z]
      /\ order'[o].user = order[o].user /\ order'[o].side = order[o].side /\ order'[o].lockedAmount = amount
      /\ UNCHANGED <<book, trade, cancel>>
    BY <1>3 DEF LockFunds, Goto, MInv, IInv, TypeOK, Order
<1>6. Backed = Live /\ Backed' = Live'
    BY <1>5, NobodyCancels DEF MInv, Processing, Backed, Cancelling
<1>7. /\ pc'[o] \in {"peeking", "rejected"}
      /\ o \notin Live /\ \A z \in OrderIds \ {o} : z \in Live <=> z \in Live'
    BY <1>4, <1>5 DEF Live, LockFunds, Goto, MInv, IInv, TypeOK
<1>8. \A z \in OrderIds \ {o} : Residuals(v, s)'[z] = Residuals(v, s)[z]
    BY <1>5, <1>6, <1>7 DEF Residuals, Residual, TradeCost
<1>9. \A z \in OrderIds : pc[z] = "settling" => trade[z].resting \in OrderIds \ {o}
    BY <1>4, TradeIsPaidFor DEF MInv
<1>10. \A z \in OrderIds : Owing(v, s)'[z] = Owing(v, s)[z]
    BY <1>5, <1>7, <1>9 DEF Owing, TradeCost
<1>11. Residuals(v, s)[o] = 0
    BY <1>6, <1>7 DEF Residuals
<1>12. CASE CanLock(o)
    <2>1. pc'[o] = "peeking" /\ balance' = Locked(balance, order[o].user, LockAsset(order[o].side), amount)
        BY <1>3, <1>12 DEF LockFunds, Goto, MInv, IInv, TypeOK
    <2>2. o \in Live'
        BY <2>1 DEF Live
    <2>3. Residuals(v, s)'[o] = IF v = order[o].user /\ s = order[o].side THEN amount ELSE 0
        BY <1>5, <1>6, <2>1, <2>2 DEF Residuals, Residual
    <2>4. balance'[v][LockAsset(s)].locked
            = IF v = order[o].user /\ s = order[o].side
                THEN balance[v][LockAsset(s)].locked + amount ELSE balance[v][LockAsset(s)].locked
        <3>1. amount <= balance[order[o].user][LockAsset(order[o].side)].available
            BY <1>3, <1>12 DEF CanLock, Affordable
        <3>2. LockAsset(s) = LockAsset(order[o].side) <=> s = order[o].side
            BY <1>2 DEF LockAsset, Order, Sides
        <3>3. order[o].user \in Users /\ balance \in Wallets
            BY <1>2 DEF Order, MInv, IInv, TypeOK
        <3>4. Locked(balance, order[o].user, LockAsset(order[o].side), amount)[v][LockAsset(s)].locked
                = IF v = order[o].user /\ LockAsset(s) = LockAsset(order[o].side)
                    THEN balance[v][LockAsset(s)].locked + amount ELSE balance[v][LockAsset(s)].locked
            BY <1>2, <3>1, <3>3, LockedLocks
        <3> QED BY <2>1, <3>2, <3>4
    <2>5. balance[v][LockAsset(s)].locked \in Nat /\ balance'[v][LockAsset(s)].locked \in Nat
        BY <1>2 DEF MInv, IInv, TypeOK, Wallets, Balance
    <2>6. PICK w \in Nat : w = Owing(v, s)[o]
        BY <1>1 DEF ClaimsCount
    <2>7. PICK rise \in Nat : rise = IF v = order[o].user /\ s = order[o].side THEN amount ELSE 0
        OBVIOUS
    <2>8. Residuals(v, s)'[o] = rise /\ balance'[v][LockAsset(s)].locked + 0 = balance[v][LockAsset(s)].locked + rise
        BY <2>3, <2>4, <2>5, <2>7
    <2>9. (Residuals(v, s)'[o] + Owing(v, s)'[o]) + 0 = (Residuals(v, s)[o] + Owing(v, s)[o]) + rise
        BY <1>10, <1>11, <2>6, <2>8
    <2>10. (Residuals(v, s)'[o] + Owing(v, s)'[o]) + 0 <= (Residuals(v, s)[o] + Owing(v, s)[o]) + rise
        BY <1>10, <1>11, <2>6, <2>8
    <2>11. Shifted(v, s, o, o, 0, rise)
        BY <1>8, <1>10, <2>5, <2>8, <2>9, <2>10 DEF Shifted
    <2> QED BY <1>1, <2>11, CoveredMoves DEF MInv
<1>13. CASE ~CanLock(o)
    <2>1. pc'[o] = "rejected" /\ balance' = balance
        BY <1>13 DEF LockFunds, Goto, MInv, IInv, TypeOK
    <2>2. o \notin Live'
        BY <1>4, <1>5, <2>1 DEF Live
    <2>3. Residuals(v, s)'[o] = 0
        BY <1>6, <2>2 DEF Residuals
    <2> QED BY <1>1, <1>8, <1>10, <1>11, <2>1, <2>3, CoveredStays DEF MInv
<1> QED BY <1>12, <1>13

\* A step reduces an order at most: nothing that was asked for changes.
SameTerms(o) ==
    /\ order'[o].user = order[o].user /\ order'[o].side = order[o].side
    /\ order'[o].price = order[o].price /\ order'[o].size = order[o].size
    /\ order'[o].createdAt = order[o].createdAt /\ order'[o].placedAt = order[o].placedAt

\* What a match takes: the resting order's lock pays for it, and an order
\* taken whole had no more than that to sell.
LEMMA MatchTakes ==
    ASSUME IInv, NEW o \in OrderIds, TakeBest(o)
    PROVE  \E m \in OrderIds \ {o}, price \in Nat, qty \in Nat \ {0} :
             /\ m = best[o] /\ qty = LesserOf(order[o].quantity, order[m].quantity)
             /\ m \in book /\ pc[m] = "open" /\ pc[o] = "taking"
             /\ order[m].side = Opposite(order[o].side)
             /\ trade' = [trade EXCEPT ![o] = [resting |-> m, price |-> price, quantity |-> qty]]
             /\ pc' = [pc EXCEPT ![o] = "settling"]
             /\ Cost(order[m].side, price, qty) \in Nat
             /\ Cost(order[m].side, price, qty) <= order[m].lockedAmount
             /\ \A z \in OrderIds \ {m} : order'[z] = order[z]
             /\ SameTerms(m)
             /\ order'[m].user = order[m].user /\ order'[m].side = order[m].side /\ order'[m].size = order[m].size
             /\ \/ /\ book' = book
                   /\ order'[m].quantity = order[m].quantity - qty
                   /\ order'[m].lockedAmount = order[m].lockedAmount - Cost(order[m].side, price, qty)
                \/ /\ book' = book \ {m}
                   /\ order' = order /\ order[m].quantity = qty
             /\ UNCHANGED <<balance, cancel, traded, told, deposits>>
<1>0. PICK m \in OrderIds \ {o} : m = best[o] /\ m \in book /\ pc[m] = "open"
                                 /\ order[m].side = Opposite(order[o].side)
    BY DEF IInv, TypeOK, BestIsOpposite, TakeBest, CanTake
<1>1. PICK price, qty :
        /\ m = best[o] /\ price = TradePrice(order[m], order[o])
        /\ qty = LesserOf(order[o].quantity, order[m].quantity)
        /\ m \in book /\ pc[m] = "open" /\ pc[o] = "taking" /\ order[m].side = Opposite(order[o].side)
    BY <1>0 DEF TakeBest
<1>2. order[o] \in Order /\ order[m] \in Order /\ order[o].price \in Nat /\ order[m].price \in Nat
    BY OrdersAssumption DEF IInv, TypeOK, Order
<1>3. qty \in Nat \ {0} /\ qty <= order[m].quantity
    BY <1>1, <1>2 DEF IInv, QuantityLeft, Processing, Order, LesserOf
<1>4. price \in Nat /\ (order[m].side = "buy" => price <= order[m].price)
    BY <1>1, <1>2 DEF TakeBest, CanTake, PricesCross, TradePrice, Opposite, Order, Sides
<1>5. PICK cost : cost = Cost(order[m].side, price, qty)
    OBVIOUS
<1>6. cost \in Nat /\ cost <= order[m].lockedAmount
    <2>1. Cost(order[m].side, order[m].price, order[m].quantity) <= order[m].lockedAmount
        BY <1>1 DEF IInv, LockBacksRemainder, Live
    <2>2. order[m].lockedAmount - cost \in Nat
        BY <1>2, <1>3, <1>4, <1>5, <2>1, LockSplits DEF Order
    <2>3. cost \in Nat
        BY <1>2, <1>3, <1>4, <1>5, CostIsNat DEF Order
    <2> QED BY <1>2, <2>2, <2>3 DEF Order
<1>7. /\ trade' = [trade EXCEPT ![o] = [resting |-> m, price |-> price, quantity |-> qty]]
      /\ pc' = [pc EXCEPT ![o] = "settling"]
      /\ UNCHANGED <<balance, cancel, traded, told, deposits>>
    BY <1>1 DEF TakeBest, Goto
<1>8. \/ book' = book /\ order' = [order EXCEPT ![m] = Reduced(m, price, qty)]
      \/ book' = book \ {m} /\ order' = order /\ order[m].quantity <= qty
    BY <1>1 DEF TakeBest, LeavesBook
<1>9. (\A z \in OrderIds \ {m} : order'[z] = order[z]) /\ SameTerms(m)
    <2>1. LET new == Reduced(m, price, qty)
          IN  /\ new.user = order[m].user /\ new.side = order[m].side /\ new.size = order[m].size
              /\ new.price = order[m].price /\ new.createdAt = order[m].createdAt
              /\ new.placedAt = order[m].placedAt
        BY <1>2 DEF Order, Reduced
    <2>2. order \in [OrderIds -> Order]
        BY DEF IInv, TypeOK
    <2> QED BY <1>8, <2>1, <2>2 DEF SameTerms
<1>10. \/ /\ book' = book
          /\ order'[m].quantity = order[m].quantity - qty
          /\ order'[m].lockedAmount = order[m].lockedAmount - cost
       \/ /\ book' = book \ {m}
          /\ order' = order /\ order[m].quantity = qty
    <2>1. CASE book' = book /\ order' = [order EXCEPT ![m] = Reduced(m, price, qty)]
        BY <1>2, <1>5, <2>1 DEF IInv, TypeOK, Order, Reduced
    <2>2. CASE book' = book \ {m} /\ order' = order /\ order[m].quantity <= qty
        BY <1>2, <1>3, <2>2 DEF Order
    <2> QED BY <1>8, <2>1, <2>2
<1> QED BY <1>1, <1>3, <1>4, <1>5, <1>6, <1>7, <1>9, <1>10 DEF SameTerms

\* A match moves the cost of the trade from the resting order's residual to
\* what is owing.
LEMMA TakeBestCovered ==
    ASSUME MInv, IInv', NEW o \in OrderIds, TakeBest(o)
    PROVE  \A v \in Users, s \in Sides : Covered(v, s)'
<1> SUFFICES ASSUME NEW v \in Users, NEW s \in Sides PROVE Covered(v, s)'
    OBVIOUS
<1>1. ClaimsCount /\ ClaimsCount'
    BY ClaimsCounted, ClaimsCountedNext DEF MInv
<1>2. PICK m \in OrderIds \ {o}, price \in Nat, qty \in Nat \ {0} :
        /\ m \in book /\ pc[m] = "open" /\ pc[o] = "taking"
        /\ order[m].side = Opposite(order[o].side)
        /\ trade' = [trade EXCEPT ![o] = [resting |-> m, price |-> price, quantity |-> qty]]
        /\ pc' = [pc EXCEPT ![o] = "settling"]
        /\ Cost(order[m].side, price, qty) \in Nat
        /\ Cost(order[m].side, price, qty) <= order[m].lockedAmount
        /\ \A z \in OrderIds \ {m} : order'[z] = order[z]
        /\ order'[m].user = order[m].user /\ order'[m].side = order[m].side
        /\ \/ /\ book' = book
              /\ order'[m].lockedAmount = order[m].lockedAmount - Cost(order[m].side, price, qty)
           \/ /\ book' = book \ {m}
              /\ order' = order /\ order[m].quantity = qty
        /\ UNCHANGED <<balance, cancel>>
    BY MatchTakes DEF MInv
<1>3. PICK cost \in Nat : cost = Cost(order[m].side, price, qty)
    BY <1>2
<1>4. /\ pc'[o] = "settling" /\ pc'[m] = "open"
      /\ \A z \in OrderIds \ {o} : pc'[z] = pc[z] /\ trade'[z] = trade[z]
      /\ trade'[o].resting = m /\ trade'[o].price = price /\ trade'[o].quantity = qty
    BY <1>2 DEF MInv, IInv, TypeOK
<1>5. order[m].side \in Sides /\ order[o].side \in Sides /\ order[m].lockedAmount \in Nat
    BY DEF MInv, IInv, TypeOK, Order
<1>6. Backed = Live /\ Backed' = Live'
    BY <1>2, NobodyCancels DEF MInv, Processing, Backed, Cancelling
<1>7. m \in Live /\ \A z \in OrderIds \ {m} : z \in Live <=> z \in Live'
    BY <1>2, <1>4 DEF Live
<1>8. \A z \in OrderIds \ {m} : Residuals(v, s)'[z] = Residuals(v, s)[z]
    <2>1. \A z \in OrderIds \ {m} : pc'[z] = "recording" <=> pc[z] = "recording"
        BY <1>2, <1>4
    <2>2. \A z \in OrderIds \ {m} : pc[z] = "recording" => trade'[z] = trade[z]
        BY <1>2, <1>4
    <2> QED BY <1>2, <1>6, <1>7, <2>1, <2>2 DEF Residuals, Residual, TradeCost
<1>9. \A z \in OrderIds : pc[z] = "settling" => trade[z].resting \in OrderIds
    BY TradeIsPaidFor DEF MInv
<1>10. \A z \in OrderIds : order'[z].user = order[z].user /\ order'[z].side = order[z].side
    BY <1>2
<1>11. \A z \in OrderIds \ {o} : Owing(v, s)'[z] = Owing(v, s)[z]
    BY <1>4, <1>9, <1>10 DEF Owing, TradeCost
<1>12. Owing(v, s)[o] = 0
    BY <1>2 DEF Owing
<1>13. Owing(v, s)'[o] = IF v = order[m].user /\ s = order[m].side THEN cost ELSE 0
    <2>1. order[o].side # s <=> s = order[m].side
        BY <1>2, <1>5 DEF Opposite, Sides
    <2>2. TradeCost(o, s)' = Cost(s, price, qty)
        BY <1>4 DEF TradeCost
    <2> QED BY <1>3, <1>4, <1>10, <2>1, <2>2 DEF Owing
<1>14. Residuals(v, s)[m] = IF v = order[m].user /\ s = order[m].side THEN order[m].lockedAmount ELSE 0
    BY <1>2, <1>6, <1>7 DEF Residuals, Residual
<1>15. CASE v = order[m].user /\ s = order[m].side
    <2>1. CASE book' = book /\ order'[m].lockedAmount = order[m].lockedAmount - cost
        <3>1. m \in Live'
            BY <1>2, <2>1 DEF Live
        <3>2. Residuals(v, s)'[m] = order[m].lockedAmount - cost
            BY <1>2, <1>4, <1>6, <1>15, <2>1, <3>1 DEF Residuals, Residual
        <3>3. Residuals(v, s)'[m] + Owing(v, s)'[o] = Residuals(v, s)[m] + Owing(v, s)[o]
            BY <1>2, <1>3, <1>5, <1>12, <1>13, <1>14, <1>15, <3>2
        <3>4. Residuals(v, s)'[m] \in Nat /\ Owing(v, s)'[o] \in Nat /\ Residuals(v, s)[m] \in Nat
            BY <1>1 DEF ClaimsCount
        <3>5. balance[v][LockAsset(s)].locked \in Nat
            BY DEF MInv, IInv, TypeOK, Wallets, Balance, LockAsset, Assets
        <3>6. Shifted(v, s, m, o, 0, 0)
            BY <1>2, <1>8, <1>11, <1>12, <3>3, <3>4, <3>5 DEF Shifted
        <3> QED BY <1>1, <3>6, CoveredMoves DEF MInv
    <2>2. CASE book' = book \ {m} /\ order' = order /\ order[m].quantity = qty
        <3>1. m \notin Live'
            BY <1>4, <2>2 DEF Live
        <3>2. Residuals(v, s)'[m] = 0
            BY <1>6, <3>1 DEF Residuals
        <3>3. s = "sell" => order[m].lockedAmount = cost
            BY <1>3, <1>7, <1>15, <2>2 DEF MInv, SellLockExact, Cost
        <3>4. /\ Residuals(v, s)'[m] + Owing(v, s)'[o] <= Residuals(v, s)[m] + Owing(v, s)[o]
              /\ s = "sell" => Residuals(v, s)'[m] + Owing(v, s)'[o] = Residuals(v, s)[m] + Owing(v, s)[o]
            BY <1>2, <1>3, <1>5, <1>12, <1>13, <1>14, <1>15, <3>2, <3>3
        <3>5. Residuals(v, s)'[m] \in Nat /\ Owing(v, s)'[o] \in Nat /\ Residuals(v, s)[m] \in Nat
            BY <1>1 DEF ClaimsCount
        <3>6. balance[v][LockAsset(s)].locked \in Nat
            BY DEF MInv, IInv, TypeOK, Wallets, Balance, LockAsset, Assets
        <3>7. Shifted(v, s, m, o, 0, 0)
            BY <1>2, <1>8, <1>11, <1>12, <3>4, <3>5, <3>6 DEF Shifted
        <3> QED BY <1>1, <3>7, CoveredMoves DEF MInv
    <2> QED BY <1>2, <1>3, <2>1, <2>2
<1>16. CASE ~(v = order[m].user /\ s = order[m].side)
    <2>1. Residuals(v, s)'[m] = 0
        BY <1>10, <1>16 DEF Residuals
    <2>2. \A z \in OrderIds : Residuals(v, s)'[z] = Residuals(v, s)[z]
        BY <1>8, <1>14, <1>16, <2>1
    <2>3. \A z \in OrderIds : Owing(v, s)'[z] = Owing(v, s)[z]
        BY <1>11, <1>12, <1>13, <1>16
    <2> QED BY <1>1, <1>2, <2>2, <2>3, CoveredStays DEF MInv
<1> QED BY <1>15, <1>16

\* What an order holds, or a trade has owing, is locked in the wallet.
LEMMA ClaimIsLocked ==
    ASSUME MInv, NEW u \in Users, NEW s \in Sides, NEW o \in OrderIds
    PROVE  /\ Residuals(u, s)[o] \in Nat /\ Owing(u, s)[o] \in Nat
           /\ balance[u][LockAsset(s)].locked \in Nat
           /\ Residuals(u, s)[o] <= balance[u][LockAsset(s)].locked
           /\ Owing(u, s)[o] <= balance[u][LockAsset(s)].locked
<1>1. PICK R \in [OrderIds -> Nat], O \in [OrderIds -> Nat] : R = Residuals(u, s) /\ O = Owing(u, s)
    BY ClaimsCounted DEF MInv, ClaimsCount
<1>2. /\ R[o] <= Total(R) /\ Total(R) \in Nat /\ R[o] \in Nat
      /\ O[o] <= Total(O) /\ Total(O) \in Nat /\ O[o] \in Nat
    BY TotalIncludes, FiniteAssumption
<1>3. Total(R) + Total(O) <= balance[u][LockAsset(s)].locked
    BY <1>1 DEF MInv, Covered, Claims
<1>4. balance[u][LockAsset(s)].locked \in Nat
    BY DEF MInv, IInv, TypeOK, Wallets, Balance, LockAsset, Assets
<1> QED BY <1>1, <1>2, <1>3, <1>4

\* settleTrade finds what it takes from both parties.
LEMMA SettlementSucceeds ==
    ASSUME MInv, NEW o \in OrderIds, SettleTrade(o)
    PROVE  LET buyer  == order[BuyOrder(o)].user
               seller == order[SellOrder(o)].user
               price  == trade[o].price
               qty    == trade[o].quantity
           IN  /\ price * qty <= balance[buyer]["quote"].locked
               /\ qty <= balance[seller]["base"].locked
               /\ pc' = [pc EXCEPT ![o] = "recording"]
               /\ balance' = SellerSettled(BuyerSettled(balance, buyer, price, qty), seller, price, qty)
<1>1. PICK m \in OrderIds \ {o}, price \in Nat \ {0}, qty \in Nat \ {0} :
        m = trade[o].resting /\ price = trade[o].price /\ qty = trade[o].quantity
    BY TradeIsPaidFor DEF MInv, SettleTrade
<1>2. /\ pc[o] = "settling" /\ order[m].side = Opposite(order[o].side)
      /\ TradeCost(o, "buy") = price * qty /\ TradeCost(o, "sell") = qty /\ price * qty \in Nat
      /\ TradeCost(o, order[o].side) <= order[o].lockedAmount
    BY <1>1, TradeIsPaidFor DEF MInv, SettleTrade
<1>3. /\ order[o].side \in Sides /\ order[o].user \in Users /\ order[m].user \in Users
      /\ order[o].lockedAmount \in Nat
    BY DEF MInv, IInv, TypeOK, Order
<1>4. o \in Backed
    BY <1>2, NobodyCancels DEF MInv, Processing, Live
<1>5. Residuals(order[o].user, order[o].side)[o] = order[o].lockedAmount
    BY <1>2, <1>3, <1>4 DEF Residuals, Residual
<1>6. order[o].lockedAmount <= balance[order[o].user][LockAsset(order[o].side)].locked
    BY <1>3, <1>5, ClaimIsLocked
<1>7. \A u \in Users, a \in Assets : balance[u][a].locked \in Nat
    BY DEF MInv, IInv, TypeOK, Wallets, Balance
<1>8. CASE order[o].side = "buy"
    <2>1. BuyOrder(o) = o /\ SellOrder(o) = m
        BY <1>1, <1>8 DEF BuyOrder, SellOrder
    <2>2. price * qty <= balance[order[o].user]["quote"].locked
        BY <1>2, <1>3, <1>6, <1>7, <1>8 DEF LockAsset, Assets
    <2>3. Owing(order[m].user, "sell")[o] = qty
        BY <1>1, <1>2, <1>8 DEF Owing
    <2>4. qty <= balance[order[m].user]["base"].locked
        BY <1>3, <2>3, ClaimIsLocked DEF LockAsset, Sides
    <2>5. price > 0 /\ qty > 0
        OBVIOUS
    <2> QED BY <1>1, <2>1, <2>2, <2>4, <2>5 DEF SettleTrade, Goto
<1>9. CASE order[o].side = "sell"
    <2>1. BuyOrder(o) = m /\ SellOrder(o) = o
        BY <1>1, <1>9 DEF BuyOrder, SellOrder
    <2>2. qty <= balance[order[o].user]["base"].locked
        BY <1>2, <1>3, <1>6, <1>7, <1>9 DEF LockAsset, Assets
    <2>3. Owing(order[m].user, "buy")[o] = price * qty
        BY <1>1, <1>2, <1>9 DEF Owing
    <2>4. price * qty <= balance[order[m].user]["quote"].locked
        BY <1>3, <2>3, ClaimIsLocked DEF LockAsset, Sides
    <2>5. price > 0 /\ qty > 0
        OBVIOUS
    <2> QED BY <1>1, <2>1, <2>2, <2>4, <2>5 DEF SettleTrade, Goto
<1> QED BY <1>3, <1>8, <1>9 DEF Sides

\* Settlement draws the cost from the taker's residual and from what was owing.
LEMMA SettleTradeCovered ==
    ASSUME MInv, IInv', NEW o \in OrderIds, SettleTrade(o)
    PROVE  \A v \in Users, s \in Sides : Covered(v, s)'
<1> SUFFICES ASSUME NEW v \in Users, NEW s \in Sides PROVE Covered(v, s)'
    OBVIOUS
<1>1. ClaimsCount /\ ClaimsCount'
    BY ClaimsCounted, ClaimsCountedNext DEF MInv
<1>2. PICK m \in OrderIds \ {o}, price \in Nat \ {0}, qty \in Nat \ {0} :
        m = trade[o].resting /\ price = trade[o].price /\ qty = trade[o].quantity
    BY TradeIsPaidFor DEF MInv, SettleTrade
<1>3. /\ pc[o] = "settling" /\ order[m].side = Opposite(order[o].side)
      /\ TradeCost(o, "buy") = price * qty /\ TradeCost(o, "sell") = qty /\ price * qty \in Nat
    BY <1>2, TradeIsPaidFor DEF MInv, SettleTrade
<1>4. /\ order[o].side \in Sides /\ order[o].user \in Users /\ order[m].user \in Users
      /\ order[o].lockedAmount \in Nat
    BY DEF MInv, IInv, TypeOK, Order
<1>5. PICK buyer \in Users, seller \in Users :
        /\ buyer = order[BuyOrder(o)].user /\ seller = order[SellOrder(o)].user
        /\ order[o].side = "buy" => buyer = order[o].user /\ seller = order[m].user
        /\ order[o].side = "sell" => buyer = order[m].user /\ seller = order[o].user
    BY <1>2, <1>4 DEF BuyOrder, SellOrder
<1>6. /\ pc' = [pc EXCEPT ![o] = "recording"]
      /\ price * qty <= balance[buyer]["quote"].locked /\ qty <= balance[seller]["base"].locked
      /\ balance' = SellerSettled(BuyerSettled(balance, buyer, price, qty), seller, price, qty)
      /\ UNCHANGED <<order, book, trade, cancel>>
    BY <1>2, <1>5, SettlementSucceeds DEF SettleTrade
<1>7. pc'[o] = "recording" /\ \A z \in OrderIds \ {o} : pc'[z] = pc[z]
    BY <1>6 DEF MInv, IInv, TypeOK
<1>8. Live' = Live
    BY <1>3, <1>6, <1>7 DEF Live
<1>9. Backed' = Backed /\ o \in Backed
    <2>1. o \in Live
        BY <1>3 DEF Live
    <2> QED BY <1>3, <1>6, <1>8, <2>1, NobodyCancels DEF MInv, Backed, Processing
<1>10. \A z \in OrderIds \ {o} : Residuals(v, s)'[z] = Residuals(v, s)[z]
    BY <1>6, <1>7, <1>9 DEF Residuals, Residual, TradeCost
<1>11. \A z \in OrderIds \ {o} : Owing(v, s)'[z] = Owing(v, s)[z]
    BY <1>6, <1>7 DEF Owing, TradeCost
<1>12. PICK cost \in Nat : cost = TradeCost(o, s)
    BY <1>3 DEF Sides
<1>13. cost = (IF s = "buy" THEN price * qty ELSE qty)
    BY <1>3, <1>12 DEF Sides
<1>14. TradeCost(o, s)' = cost
    BY <1>6, <1>12 DEF TradeCost
<1>15. PICK party : party = IF s = "buy" THEN buyer ELSE seller
    OBVIOUS
<1>16. balance'[v][LockAsset(s)].locked = balance[v][LockAsset(s)].locked - (IF v = party THEN cost ELSE 0)
    <2>1. balance \in Wallets
        BY DEF MInv, IInv, TypeOK
    <2>2. balance' = SettledAt(balance, buyer, seller, price, qty)
        BY <1>6, <2>1, SettledBalances
    <2>3. /\ balance'[v]["quote"].locked = balance[v]["quote"].locked - (IF v = buyer THEN price * qty ELSE 0)
          /\ balance'[v]["base"].locked = balance[v]["base"].locked - (IF v = seller THEN qty ELSE 0)
        BY <2>2 DEF SettledAt, Settled, Assets
    <2> QED BY <1>13, <1>15, <2>3 DEF LockAsset, Sides
<1>17. Owing(v, s)'[o] = 0
    BY <1>7 DEF Owing
<1>18. \/ /\ order[o].side = s
          /\ party = order[o].user /\ Owing(v, s)[o] = 0
          /\ Residuals(v, s)[o] = IF v = party THEN order[o].lockedAmount ELSE 0
          /\ Residuals(v, s)'[o] = IF v = party THEN order[o].lockedAmount - cost ELSE 0
       \/ /\ order[o].side # s
          /\ party = order[m].user /\ Owing(v, s)[o] = IF v = party THEN cost ELSE 0
          /\ Residuals(v, s)[o] = 0 /\ Residuals(v, s)'[o] = 0
    <2>1. CASE order[o].side = s
        <3>1. party = order[o].user
            BY <1>4, <1>5, <1>15, <2>1 DEF Sides
        <3>2. Owing(v, s)[o] = 0
            BY <2>1 DEF Owing
        <3>3. Residuals(v, s)[o] = IF v = party THEN order[o].lockedAmount ELSE 0
            BY <1>3, <1>9, <2>1, <3>1 DEF Residuals, Residual
        <3>4. Residuals(v, s)'[o] = IF v = party THEN order[o].lockedAmount - cost ELSE 0
            BY <1>6, <1>7, <1>9, <1>14, <2>1, <3>1 DEF Residuals, Residual
        <3> QED BY <2>1, <3>1, <3>2, <3>3, <3>4
    <2>2. CASE order[o].side # s
        <3>1. party = order[m].user
            BY <1>4, <1>5, <1>15, <2>2 DEF Sides
        <3>2. Owing(v, s)[o] = IF v = party THEN cost ELSE 0
            BY <1>2, <1>3, <1>12, <2>2, <3>1 DEF Owing
        <3>3. Residuals(v, s)[o] = 0 /\ Residuals(v, s)'[o] = 0
            BY <1>6, <2>2 DEF Residuals
        <3> QED BY <2>2, <3>1, <3>2, <3>3
    <2> QED BY <2>1, <2>2
<1>19. PICK drop \in Nat : drop = IF v = party THEN cost ELSE 0
    OBVIOUS
<1>20. /\ Residuals(v, s)[o] \in Nat /\ Owing(v, s)[o] \in Nat
       /\ Residuals(v, s)'[o] \in Nat /\ Owing(v, s)'[o] \in Nat
    BY <1>1 DEF ClaimsCount
<1>21. (Residuals(v, s)'[o] + Owing(v, s)'[o]) + drop = (Residuals(v, s)[o] + Owing(v, s)[o]) + 0
    BY <1>4, <1>17, <1>18, <1>19, <1>20
<1>22. (Residuals(v, s)'[o] + Owing(v, s)'[o]) + drop <= (Residuals(v, s)[o] + Owing(v, s)[o]) + 0
    BY <1>20, <1>21
<1>23. balance[v][LockAsset(s)].locked \in Nat /\ balance'[v][LockAsset(s)].locked \in Nat
    BY DEF MInv, IInv, TypeOK, Wallets, Balance, LockAsset, Assets
<1>24. balance'[v][LockAsset(s)].locked + drop = balance[v][LockAsset(s)].locked + 0
    BY <1>16, <1>19, <1>23
<1>25. Shifted(v, s, o, o, drop, 0)
    BY <1>10, <1>11, <1>21, <1>22, <1>23, <1>24 DEF Shifted
<1> QED BY <1>1, <1>25, CoveredMoves DEF MInv

\* What recordTrade takes from the engine's copy of the taker.
LEMMA TradeRecorded ==
    ASSUME IInv, NEW o \in OrderIds, RecordTrade(o)
    PROVE  /\ pc[o] = "recording" /\ pc'[o] \in {"peeking", "releasing"}
           /\ SameTerms(o)
           /\ order'[o].user = order[o].user /\ order'[o].side = order[o].side /\ order'[o].size = order[o].size
           /\ order'[o].quantity = order[o].quantity - trade[o].quantity
           /\ order'[o].lockedAmount = order[o].lockedAmount - TradeCost(o, order[o].side)
           /\ pc'[o] = "peeking" <=> order'[o].quantity > 0
           /\ trade'[o] = NoTrade
           /\ \A z \in OrderIds \ {o} : pc'[z] = pc[z] /\ order'[z] = order[z] /\ trade'[z] = trade[z]
           /\ UNCHANGED <<balance, book, cancel, told, deposits>>
<1>1. order[o] \in Order
    BY DEF IInv, TypeOK
<1>2. /\ order' = [order EXCEPT ![o] = AfterTrade(o)]
      /\ pc' = [pc EXCEPT ![o] = IF AfterTrade(o).quantity > 0 THEN "peeking" ELSE "releasing"]
      /\ trade' = [trade EXCEPT ![o] = NoTrade]
      /\ pc[o] = "recording"
      /\ UNCHANGED <<balance, book, cancel, told, deposits>>
    BY DEF RecordTrade, Goto
<1>3. order'[o] = AfterTrade(o) /\ AfterTrade(o) = Reduced(o, trade[o].price, trade[o].quantity)
    BY <1>2 DEF IInv, TypeOK, AfterTrade
<1>4. /\ AfterTrade(o).user = order[o].user /\ AfterTrade(o).side = order[o].side
      /\ AfterTrade(o).size = order[o].size /\ AfterTrade(o).price = order[o].price
      /\ AfterTrade(o).createdAt = order[o].createdAt /\ AfterTrade(o).placedAt = order[o].placedAt
      /\ AfterTrade(o).quantity = order[o].quantity - trade[o].quantity
      /\ AfterTrade(o).lockedAmount = order[o].lockedAmount - TradeCost(o, order[o].side)
    BY <1>1, <1>3 DEF Order, Reduced, TradeCost
<1> QED BY <1>2, <1>3, <1>4 DEF IInv, TypeOK, SameTerms

\* Recording takes from the taker's lock what settlement has already drawn.
LEMMA RecordTradeCovered ==
    ASSUME MInv, IInv', NEW o \in OrderIds, RecordTrade(o)
    PROVE  \A v \in Users, s \in Sides : Covered(v, s)'
<1> SUFFICES ASSUME NEW v \in Users, NEW s \in Sides PROVE Covered(v, s)'
    OBVIOUS
<1>1. ClaimsCount /\ ClaimsCount'
    BY ClaimsCounted, ClaimsCountedNext DEF MInv
<1>2. /\ pc[o] = "recording" /\ pc'[o] \in {"peeking", "releasing"}
      /\ order'[o].user = order[o].user /\ order'[o].side = order[o].side
      /\ order'[o].lockedAmount = order[o].lockedAmount - TradeCost(o, order[o].side)
      /\ \A z \in OrderIds \ {o} : pc'[z] = pc[z] /\ order'[z] = order[z] /\ trade'[z] = trade[z]
      /\ UNCHANGED <<balance, book, cancel>>
    BY TradeRecorded DEF MInv
<1>3. Live' = Live
    BY <1>2 DEF Live
<1>4. Backed' = Backed
    BY <1>2, <1>3 DEF Backed
<1>5. \A z \in OrderIds \ {o} : Residuals(v, s)'[z] = Residuals(v, s)[z]
    BY <1>2, <1>4 DEF Residuals, Residual, TradeCost
<1>6. Residuals(v, s)'[o] = Residuals(v, s)[o]
    BY <1>2, <1>4 DEF Residuals, Residual
<1>7. \A z \in OrderIds : pc[z] = "settling" => trade[z].resting \in OrderIds
    BY TradeIsPaidFor DEF MInv
<1>8. \A z \in OrderIds : Owing(v, s)'[z] = Owing(v, s)[z]
    BY <1>2, <1>7 DEF Owing, TradeCost
<1> QED BY <1>1, <1>2, <1>5, <1>6, <1>8, CoveredStays DEF MInv

\* The residual of a taker filled whole is there to be released, and goes.
LEMMA ReleaseSucceeds ==
    ASSUME MInv, NEW o \in OrderIds, ReleaseResidual(o)
    PROVE  /\ order[o].lockedAmount <= balance[order[o].user][LockAsset(order[o].side)].locked
           /\ pc' = [pc EXCEPT ![o] = "filled"]
           /\ balance' = Unlocked(balance, order[o].user, LockAsset(order[o].side), order[o].lockedAmount)
<1>1. order[o].user \in Users /\ order[o].side \in Sides /\ order[o].lockedAmount \in Nat
    BY DEF MInv, IInv, TypeOK, Order
<1>2. pc[o] = "releasing"
    BY DEF ReleaseResidual
<1>3. o \in Backed
    BY <1>2, NobodyCancels DEF MInv, Processing, Live
<1>4. Residuals(order[o].user, order[o].side)[o] = order[o].lockedAmount
    BY <1>2, <1>3 DEF Residuals, Residual
<1>5. /\ order[o].lockedAmount <= balance[order[o].user][LockAsset(order[o].side)].locked
      /\ balance[order[o].user][LockAsset(order[o].side)].locked \in Nat
    BY <1>1, <1>4, ClaimIsLocked
<1> QED BY <1>1, <1>5 DEF ReleaseResidual, Goto

\* Unlocking an order's whole residual keeps what the others hold.
LEMMA UnlockCovers ==
    ASSUME ClaimsCount, ClaimsCount', balance \in Wallets, balance' \in Wallets,
           NEW o \in OrderIds, order[o] \in Order,
           NEW v \in Users, NEW s \in Sides, Covered(v, s),
           order[o].lockedAmount <= balance[order[o].user][LockAsset(order[o].side)].locked,
           balance' = Unlocked(balance, order[o].user, LockAsset(order[o].side), order[o].lockedAmount),
           o \in Backed, o \notin Backed', pc[o] # "recording",
           \A z \in OrderIds \ {o} : Residuals(v, s)'[z] = Residuals(v, s)[z],
           \A z \in OrderIds : Owing(v, s)'[z] = Owing(v, s)[z]
    PROVE  Covered(v, s)'
<1>1. PICK user \in Users, side \in Sides, lock \in Nat :
        user = order[o].user /\ side = order[o].side /\ lock = order[o].lockedAmount
    BY DEF Order
<1>2. Residuals(v, s)[o] = (IF v = user /\ s = side THEN lock ELSE 0) /\ Residuals(v, s)'[o] = 0
    BY <1>1 DEF Residuals, Residual
<1>3. LockAsset(s) \in Assets /\ LockAsset(side) \in Assets /\ (LockAsset(s) = LockAsset(side) <=> s = side)
    BY DEF LockAsset, Assets, Sides
<1>4. balance'[v][LockAsset(s)].locked
        = IF v = user /\ LockAsset(s) = LockAsset(side) THEN balance[v][LockAsset(s)].locked - lock
                                                        ELSE balance[v][LockAsset(s)].locked
    BY <1>1, <1>3, UnlockedLocks
<1>5. balance[v][LockAsset(s)].locked \in Nat /\ balance'[v][LockAsset(s)].locked \in Nat
    BY <1>3 DEF Wallets, Balance
<1>6. PICK drop \in Nat : drop = IF v = user /\ s = side THEN lock ELSE 0
    OBVIOUS
<1>7. balance'[v][LockAsset(s)].locked + drop = balance[v][LockAsset(s)].locked + 0
    BY <1>3, <1>4, <1>5, <1>6
<1>8. PICK w \in Nat : w = Owing(v, s)[o] /\ w = Owing(v, s)'[o]
    BY DEF ClaimsCount
<1>9. (Residuals(v, s)'[o] + Owing(v, s)'[o]) + drop = (Residuals(v, s)[o] + Owing(v, s)[o]) + 0
    BY <1>2, <1>6, <1>8
<1>10. (Residuals(v, s)'[o] + Owing(v, s)'[o]) + drop <= (Residuals(v, s)[o] + Owing(v, s)[o]) + 0
    BY <1>2, <1>6, <1>8
<1>11. Shifted(v, s, o, o, drop, 0)
    BY <1>5, <1>7, <1>9, <1>10 DEF Shifted
<1> QED BY <1>11, CoveredMoves

\* A taker filled whole no longer claims what it is given back.
LEMMA ReleaseResidualCovered ==
    ASSUME MInv, IInv', NEW o \in OrderIds, ReleaseResidual(o)
    PROVE  \A v \in Users, s \in Sides : Covered(v, s)'
<1> SUFFICES ASSUME NEW v \in Users, NEW s \in Sides PROVE Covered(v, s)'
    OBVIOUS
<1>1. ClaimsCount /\ ClaimsCount'
    BY ClaimsCounted, ClaimsCountedNext DEF MInv
<1>2. /\ order[o].lockedAmount <= balance[order[o].user][LockAsset(order[o].side)].locked
      /\ pc' = [pc EXCEPT ![o] = "filled"]
      /\ balance' = Unlocked(balance, order[o].user, LockAsset(order[o].side), order[o].lockedAmount)
    BY ReleaseSucceeds
<1>3. /\ pc[o] = "releasing" /\ pc'[o] = "filled" /\ \A z \in OrderIds \ {o} : pc'[z] = pc[z]
      /\ UNCHANGED <<order, book, trade, cancel>>
    BY <1>2 DEF ReleaseResidual, MInv, IInv, TypeOK
<1>4. o \notin book
    BY <1>3, NobodyRefers DEF MInv
<1>5. o \in Live /\ o \notin Live' /\ \A z \in OrderIds \ {o} : z \in Live <=> z \in Live'
    BY <1>3, <1>4 DEF Live
<1>6. Backed = Live /\ Backed' = Live'
    BY <1>3, NobodyCancels DEF MInv, Processing, Backed, Cancelling
<1>7. \A z \in OrderIds \ {o} : Residuals(v, s)'[z] = Residuals(v, s)[z]
    BY <1>3, <1>5, <1>6 DEF Residuals, Residual, TradeCost
<1>8. \A z \in OrderIds : Owing(v, s)'[z] = Owing(v, s)[z]
    BY <1>3 DEF Owing, TradeCost
<1>9. balance \in Wallets /\ balance' \in Wallets /\ order[o] \in Order /\ Covered(v, s)
    BY DEF MInv, IInv, TypeOK
<1> QED BY <1>1, <1>2, <1>3, <1>5, <1>6, <1>7, <1>8, <1>9, UnlockCovers

\* Finding an order to cancel moves nothing.
LEMMA CancelGetOrderCovered ==
    ASSUME MInv, IInv', NEW c \in Cancels, NEW o \in OrderIds, CancelGetOrder(c, o)
    PROVE  \A v \in Users, s \in Sides : Covered(v, s)'
<1> SUFFICES ASSUME NEW v \in Users, NEW s \in Sides PROVE Covered(v, s)'
    OBVIOUS
<1>1. ClaimsCount /\ ClaimsCount'
    BY ClaimsCounted, ClaimsCountedNext DEF MInv
<1>2. /\ cancel[c].at = "idle" /\ cancel'[c].at \in {"unlocking", "failed"}
      /\ \A d \in Cancels \ {c} : cancel'[d] = cancel[d]
      /\ UNCHANGED <<balance, order, book, pc, trade>>
    BY DEF CancelGetOrder, MInv, IInv, TypeOK
<1>3. Live' = Live
    BY <1>2 DEF Live
<1>4. Backed' = Backed
    BY <1>2, <1>3 DEF Backed
<1>5. /\ \A z \in OrderIds : Residuals(v, s)'[z] = Residuals(v, s)[z]
      /\ \A z \in OrderIds : Owing(v, s)'[z] = Owing(v, s)[z]
    BY <1>2, <1>4 DEF Residuals, Residual, Owing, TradeCost
<1> QED BY <1>1, <1>2, <1>5, CoveredStays DEF MInv

\* The lock of an order being cancelled is there to be released, and is the
\* one the order has tracked.
LEMMA CancelSucceeds ==
    ASSUME MInv, NEW c \in Cancels, NEW o \in OrderIds, o = cancel[c].order, CancelUnlockFunds(c)
    PROVE  /\ o \in book /\ o \in Backed
           /\ order[o].lockedAmount <= balance[order[o].user][LockAsset(order[o].side)].locked
           /\ cancel' = [cancel EXCEPT ![c].at = "removing"]
           /\ balance' = Unlocked(balance, order[o].user, LockAsset(order[o].side), order[o].lockedAmount)
<1>1. /\ cancel[c].at = "unlocking" /\ o \in book
      /\ \A d \in Cancels : cancel[d].at # "removing"
    BY DEF CancelUnlockFunds, MInv, CancelsAlone, Cancelling
<1>2. o \in Backed /\ pc[o] = "open"
    BY <1>1 DEF Backed, Live, MInv, IInv, BookIsPlaced
<1>3. /\ order[o].user \in Users /\ order[o].side \in Sides /\ order[o].lockedAmount \in Nat
      /\ order[o].price \in Nat \ {0} /\ order[o].quantity \in Nat \ {0}
    <2>1. order[o] \in Order
        BY <1>1 DEF MInv, IInv, TypeOK
    <2>2. order[o].quantity > 0
        BY <1>1 DEF MInv, IInv, TypeOK, QuantityLeft
    <2>3. order[o].price \in Nat \ {0}
        BY <2>1, OrdersAssumption DEF Order
    <2> QED BY <2>1, <2>2, <2>3 DEF Order
<1>4. order[o].lockedAmount > 0
    <2>1. Cost(order[o].side, order[o].price, order[o].quantity) <= order[o].lockedAmount
        BY <1>1 DEF MInv, IInv, LockBacksRemainder, Live
    <2>2. CASE order[o].side = "sell"
        BY <1>3, <2>1, <2>2 DEF Cost
    <2>3. CASE order[o].side = "buy"
        <3>1. 1 * order[o].quantity <= order[o].price * order[o].quantity
            BY <1>3, ProductMonotonic
        <3>2. order[o].price * order[o].quantity \in Nat /\ 1 * order[o].quantity = order[o].quantity
            BY <1>3
        <3> QED BY <1>3, <2>1, <2>3, <3>1, <3>2 DEF Cost
    <2> QED BY <1>3, <2>2, <2>3 DEF Sides
<1>5. Residuals(order[o].user, order[o].side)[o] = order[o].lockedAmount
    BY <1>2 DEF Residuals, Residual
<1>6. /\ order[o].lockedAmount <= balance[order[o].user][LockAsset(order[o].side)].locked
      /\ balance[order[o].user][LockAsset(order[o].side)].locked \in Nat
    BY <1>3, <1>5, ClaimIsLocked
<1>7. /\ cancel' = [cancel EXCEPT ![c].at = "removing"]
      /\ balance' = Unlocked(balance, order[o].user, LockAsset(order[o].side), order[o].lockedAmount)
    <2>1. PICK amount \in Nat : amount = order[o].lockedAmount /\ amount > 0
        BY <1>3, <1>4
    <2>2. PICK held \in Nat : held = balance[order[o].user][LockAsset(order[o].side)].locked
        BY <1>6
    <2>3. amount <= held
        BY <1>6, <2>1, <2>2
    <2>4. (IF order[o].lockedAmount > 0 THEN order[o].lockedAmount
                                        ELSE Cost(order[o].side, order[o].price, order[o].quantity)) = amount
        BY <2>1
    <2>5. \/ amount <= held /\ CancelGoto(c, "removing")
             /\ balance' = Unlocked(balance, order[o].user, LockAsset(order[o].side), amount)
          \/ amount > held
        BY <2>2, <2>4 DEF CancelUnlockFunds
    <2>6. ~(amount > held)
        BY <2>3
    <2> QED BY <2>1, <2>5, <2>6 DEF CancelGoto
<1> QED BY <1>1, <1>2, <1>6, <1>7

\* An order whose lock a cancel has returned claims nothing.
LEMMA CancelUnlockFundsCovered ==
    ASSUME MInv, IInv', NEW c \in Cancels, CancelUnlockFunds(c)
    PROVE  \A v \in Users, s \in Sides : Covered(v, s)'
<1> SUFFICES ASSUME NEW v \in Users, NEW s \in Sides PROVE Covered(v, s)'
    OBVIOUS
<1>1. ClaimsCount /\ ClaimsCount'
    BY ClaimsCounted, ClaimsCountedNext DEF MInv
<1>2. PICK o \in OrderIds : o = cancel[c].order
    BY DEF CancelUnlockFunds, MInv, IInv, CancelsKnown, Cancelling
<1>3. /\ o \in book /\ o \in Backed
      /\ order[o].lockedAmount <= balance[order[o].user][LockAsset(order[o].side)].locked
      /\ cancel' = [cancel EXCEPT ![c].at = "removing"]
      /\ balance' = Unlocked(balance, order[o].user, LockAsset(order[o].side), order[o].lockedAmount)
    BY <1>2, CancelSucceeds
<1>4. /\ cancel'[c].at = "removing" /\ cancel'[c].order = o
      /\ \A d \in Cancels \ {c} : cancel'[d] = cancel[d] /\ cancel[d].at # "removing"
      /\ UNCHANGED <<order, book, pc, trade>> /\ cancel[c].at = "unlocking"
    <2>1. cancel \in [Cancels -> Cancellation] /\ cancel[c] \in Cancellation
        BY DEF MInv, IInv, TypeOK
    <2>2. cancel'[c].at = "removing" /\ cancel'[c].order = o /\ \A d \in Cancels \ {c} : cancel'[d] = cancel[d]
        BY <1>2, <1>3, <2>1 DEF Cancellation
    <2>3. cancel[c].at = "unlocking" /\ UNCHANGED <<order, book, pc, trade>>
        BY DEF CancelUnlockFunds
    <2>4. \A d \in Cancels \ {c} : cancel[d].at # "removing"
        BY <2>3 DEF MInv, CancelsAlone, Cancelling
    <2> QED BY <2>2, <2>3, <2>4
<1>5. Live' = Live /\ pc[o] = "open"
    BY <1>3, <1>4 DEF Live, MInv, IInv, BookIsPlaced
<1>6. Backed = Live /\ Backed' = Live \ {o}
    BY <1>4, <1>5 DEF Backed
<1>7. o \notin Backed' /\ \A z \in OrderIds \ {o} : z \in Backed' <=> z \in Backed
    BY <1>6
<1>8. \A z \in OrderIds \ {o} : Residuals(v, s)'[z] = Residuals(v, s)[z]
    BY <1>4, <1>7 DEF Residuals, Residual, TradeCost
<1>9. \A z \in OrderIds : Owing(v, s)'[z] = Owing(v, s)[z]
    BY <1>4 DEF Owing, TradeCost
<1>10. balance \in Wallets /\ balance' \in Wallets /\ order[o] \in Order /\ Covered(v, s)
    BY DEF MInv, IInv, TypeOK
<1> QED BY <1>1, <1>3, <1>5, <1>7, <1>8, <1>9, <1>10, UnlockCovers

\* Removing an order that claims nothing changes no claim.
LEMMA CancelRemoveCovered ==
    ASSUME MInv, IInv', NEW c \in Cancels, CancelRemove(c)
    PROVE  \A v \in Users, s \in Sides : Covered(v, s)'
<1> SUFFICES ASSUME NEW v \in Users, NEW s \in Sides PROVE Covered(v, s)'
    OBVIOUS
<1>1. ClaimsCount /\ ClaimsCount'
    BY ClaimsCounted, ClaimsCountedNext DEF MInv
<1>2. PICK o \in OrderIds : o = cancel[c].order
    BY DEF CancelRemove, MInv, IInv, CancelsKnown, Cancelling
<1>3. /\ cancel[c].at = "removing" /\ cancel'[c].at = "cancelled" /\ book' = book \ {o} /\ o \in book
      /\ \A d \in Cancels \ {c} : cancel'[d] = cancel[d] /\ cancel[d].at # "removing"
      /\ UNCHANGED <<balance, order, pc, trade>>
    BY <1>2 DEF CancelRemove, CancelGoto, BookWithout, MInv, IInv, TypeOK, Cancellation, CancelsAlone, Cancelling
<1>4. pc[o] = "open"
    BY <1>3 DEF MInv, IInv, BookIsPlaced
<1>5. Live' = Live \ {o}
    BY <1>3, <1>4 DEF Live
<1>6. Backed = Live \ {o} /\ Backed' = Live'
    BY <1>2, <1>3 DEF Backed
<1>7. Backed' = Backed
    BY <1>5, <1>6
<1>8. /\ \A z \in OrderIds : Residuals(v, s)'[z] = Residuals(v, s)[z]
      /\ \A z \in OrderIds : Owing(v, s)'[z] = Owing(v, s)[z]
    BY <1>3, <1>7 DEF Residuals, Residual, Owing, TradeCost
<1> QED BY <1>1, <1>3, <1>8, CoveredStays DEF MInv

-----------------------------------------------------------------------------
(* The rest of the invariant.                                              *)

\* Where at most one call is let in at a time, a call that comes in is alone.
LEMMA NobodyIn ==
    ASSUME IInv, MaxInFlight <= 1, InFlight < MaxInFlight
    PROVE  /\ \A o \in OrderIds : pc[o] \notin Processing
           /\ \A c \in Cancels : cancel[c].at \notin Cancelling
<1> DEFINE P == {o \in OrderIds : pc[o] \in Processing}
           C == {c \in Cancels : cancel[c].at \in Cancelling}
<1>1. IsFiniteSet(P) /\ IsFiniteSet(C)
    BY FiniteAssumption, FS_Subset
<1>2. Cardinality(P) \in Nat /\ Cardinality(C) \in Nat
    BY <1>1, FS_CardinalityType
<1>3. Cardinality(P) = 0 /\ Cardinality(C) = 0
    BY <1>2, BoundsAssumption DEF InFlight
<1>4. P = {} /\ C = {}
    BY <1>1, <1>3, FS_EmptySet
<1> QED BY <1>4

\* Nobody starts while an order is being cancelled, and nobody's order is
\* cancelled while it is being worked on.
LEMMA CancelsStayAlone ==
    ASSUME CancelsDoNotRace, IInv, CancelsAlone, Next
    PROVE  CancelsAlone'
<1>1. CASE Cancels = {}
    BY <1>1 DEF CancelsAlone
<1>2. CASE MaxInFlight <= 1
    <2>1. ASSUME NEW u \in Users, NEW a \in Assets, Deposit(u, a) PROVE CancelsAlone'
        BY <2>1 DEF Deposit, CancelsAlone
    <2>2. ASSUME NEW o \in OrderIds, NEW u \in Users, NEW s \in Sides, NEW p \in Prices,
                 NEW q \in Quantities, NEW now \in {clock, clock + 1}, Submit(o, u, s, p, q, now)
          PROVE  CancelsAlone'
        <3>1. \A c \in Cancels : cancel'[c].at \notin Cancelling
            BY <1>2, <2>2, NobodyIn DEF Submit
        <3> QED BY <3>1 DEF CancelsAlone
    <2>3. ASSUME NEW c \in Cancels, NEW o \in OrderIds, CancelGetOrder(c, o) PROVE CancelsAlone'
        <3>1. /\ \A x \in OrderIds : pc'[x] \notin Processing
              /\ \A d \in Cancels \ {c} : cancel'[d].at \notin Cancelling
              /\ book' = book
            BY <1>2, <2>3, NobodyIn DEF CancelGetOrder, IInv, TypeOK
        <3>2. cancel'[c].at \in Cancelling => cancel'[c].order \in book
            BY <2>3 DEF CancelGetOrder, IInv, TypeOK, Cancelling
        <3> QED BY <3>1, <3>2 DEF CancelsAlone
    <2>4. ASSUME NEW o \in OrderIds, Process(o) PROVE CancelsAlone'
        <3>1. pc[o] \in Processing /\ cancel' = cancel
            BY <2>4 DEF Process, ValidateBalance, LockFunds, PeekBest, PlaceRemainder, TakeBest,
                        SettleTrade, RecordTrade, ReleaseResidual, Processing
        <3> QED BY <3>1 DEF CancelsAlone
    <2>5. ASSUME NEW c \in Cancels, ProcessCancel(c) PROVE CancelsAlone'
        <3>1. CASE CancelUnlockFunds(c)
            <4>1. /\ UNCHANGED <<book, pc>> /\ cancel[c].at \in Cancelling
                  /\ cancel'[c].order = cancel[c].order
                  /\ \A d \in Cancels \ {c} : cancel'[d] = cancel[d]
                BY <3>1 DEF CancelUnlockFunds, CancelGoto, IInv, TypeOK, Cancellation, Cancelling
            <4> QED BY <4>1 DEF CancelsAlone
        <3>2. CASE CancelRemove(c)
            <4>1. /\ cancel[c].at \in Cancelling /\ cancel'[c].at = "cancelled"
                  /\ \A d \in Cancels \ {c} : cancel'[d] = cancel[d]
                BY <3>2 DEF CancelRemove, CancelGoto, IInv, TypeOK, Cancellation, Cancelling
            <4>2. \A d \in Cancels : cancel'[d].at \notin Cancelling
                BY <4>1 DEF CancelsAlone, Cancelling
            <4> QED BY <4>2 DEF CancelsAlone
        <3> QED BY <2>5, <3>1, <3>2 DEF ProcessCancel
    <2> QED BY <2>1, <2>2, <2>3, <2>4, <2>5 DEF Next, Arrive
<1> QED BY <1>1, <1>2 DEF CancelsDoNotRace

\* Every step takes from a sell order's lock what it takes from its quantity.
LEMMA SellLocksStayExact ==
    ASSUME MInv, Next
    PROVE  SellLockExact'
<1>1. ASSUME NEW u \in Users, NEW a \in Assets, Deposit(u, a) PROVE SellLockExact'
    BY <1>1 DEF Deposit, MInv, SellLockExact, Live
<1>2. ASSUME NEW o \in OrderIds, NEW u \in Users, NEW s \in Sides, NEW p \in Prices,
             NEW q \in Quantities, NEW now \in {clock, clock + 1}, Submit(o, u, s, p, q, now)
      PROVE  SellLockExact'
    <2>1. o \notin book
        BY <1>2, NobodyRefers DEF MInv, Submit
    <2>2. /\ pc'[o] = "validating" /\ book' = book
          /\ \A z \in OrderIds \ {o} : pc'[z] = pc[z] /\ order'[z] = order[z]
        BY <1>2 DEF Submit, Goto, MInv, IInv, TypeOK
    <2> QED BY <2>1, <2>2 DEF MInv, IInv, TypeOK, SellLockExact, Live
<1>3. ASSUME NEW c \in Cancels, NEW o \in OrderIds, CancelGetOrder(c, o) PROVE SellLockExact'
    BY <1>3 DEF CancelGetOrder, MInv, SellLockExact, Live
<1>4. ASSUME NEW o \in OrderIds, Process(o) PROVE SellLockExact'
    <2>1. CASE LockFunds(o)
        <3>1. /\ order'[o].side = "sell" => order'[o].lockedAmount = order'[o].quantity
              /\ \A z \in OrderIds \ {o} : pc'[z] = pc[z] /\ order'[z] = order[z]
              /\ book' = book
            BY <2>1 DEF LockFunds, Goto, MInv, IInv, TypeOK, Order, Cost
        <3> QED BY <3>1 DEF MInv, IInv, TypeOK, SellLockExact, Live
    <2>2. CASE ValidateBalance(o) \/ PeekBest(o)
        <3>1. /\ UNCHANGED <<order, book>>
              /\ \A z \in OrderIds \ {o} : pc'[z] = pc[z]
              /\ (pc[o] = "validating" /\ pc'[o] \in {"locking", "rejected"}) \/ pc[o] = "peeking"
            BY <2>2 DEF ValidateBalance, PeekBest, Goto, MInv, IInv, TypeOK
        <3> QED BY <3>1 DEF MInv, IInv, TypeOK, SellLockExact, Live
    <2>3. CASE PlaceRemainder(o)
        <3>1. \A z \in OrderIds : /\ order'[z].side = order[z].side
                                  /\ order'[z].quantity = order[z].quantity
                                  /\ order'[z].lockedAmount = order[z].lockedAmount
            BY <2>3 DEF PlaceRemainder, MInv, IInv, TypeOK, Order
        <3>2. /\ pc[o] = "taking" /\ book' = book \cup {o}
              /\ pc'[o] = "open" /\ \A z \in OrderIds \ {o} : pc'[z] = pc[z]
            BY <2>3 DEF PlaceRemainder, Goto, MInv, IInv, TypeOK
        <3> QED BY <3>1, <3>2 DEF MInv, IInv, TypeOK, SellLockExact, Live
    <2>4. CASE TakeBest(o)
        <3>1. PICK m \in OrderIds \ {o}, price \in Nat, qty \in Nat \ {0} :
                /\ m \in book /\ pc[m] = "open" /\ pc[o] = "taking"
                /\ pc' = [pc EXCEPT ![o] = "settling"]
                /\ \A z \in OrderIds \ {m} : order'[z] = order[z]
                /\ order'[m].side = order[m].side
                /\ \/ /\ book' = book
                      /\ order'[m].quantity = order[m].quantity - qty
                      /\ order'[m].lockedAmount = order[m].lockedAmount - Cost(order[m].side, price, qty)
                   \/ book' = book \ {m} /\ order' = order
            BY <2>4, MatchTakes DEF MInv
        <3>2. order[m].side = "sell" => Cost(order[m].side, price, qty) = qty
            BY DEF Cost
        <3>3. order[m].side = "sell" => order[m].lockedAmount = order[m].quantity
            BY <3>1 DEF MInv, SellLockExact, Live
        <3>4. \A z \in OrderIds \ {m} : z \in Live' => z \in Live
            BY <3>1 DEF Live, MInv, IInv, TypeOK
        <3>5. order'[m].side = "sell" => order'[m].lockedAmount = order'[m].quantity
            BY <3>1, <3>2, <3>3
        <3> QED BY <3>1, <3>4, <3>5 DEF MInv, IInv, TypeOK, SellLockExact, Live
    <2>5. CASE SettleTrade(o)
        <3>1. /\ UNCHANGED <<order, book>> /\ pc[o] = "settling"
              /\ \A z \in OrderIds \ {o} : pc'[z] = pc[z]
            BY <2>5 DEF SettleTrade, Goto, MInv, IInv, TypeOK
        <3> QED BY <3>1 DEF MInv, IInv, TypeOK, SellLockExact, Live
    <2>6. CASE RecordTrade(o)
        <3>1. /\ pc[o] = "recording" /\ order'[o].side = order[o].side
              /\ order'[o].quantity = order[o].quantity - trade[o].quantity
              /\ order'[o].lockedAmount = order[o].lockedAmount - TradeCost(o, order[o].side)
              /\ \A z \in OrderIds \ {o} : pc'[z] = pc[z] /\ order'[z] = order[z]
              /\ book' = book
            BY <2>6, TradeRecorded DEF MInv
        <3>2. order[o].side = "sell" => TradeCost(o, order[o].side) = trade[o].quantity
            BY DEF TradeCost, Cost
        <3>3. o \in Live
            BY <3>1 DEF Live
        <3>4. order'[o].side = "sell" => order'[o].lockedAmount = order'[o].quantity
            BY <3>1, <3>2, <3>3 DEF MInv, SellLockExact
        <3> QED BY <3>1, <3>4 DEF MInv, IInv, TypeOK, SellLockExact, Live
    <2>7. CASE ReleaseResidual(o)
        <3>1. /\ UNCHANGED <<order, book>> /\ pc[o] = "releasing"
              /\ \A z \in OrderIds \ {o} : pc'[z] = pc[z]
            BY <2>7 DEF ReleaseResidual, Goto, MInv, IInv, TypeOK
        <3> QED BY <3>1 DEF MInv, IInv, TypeOK, SellLockExact, Live
    <2> QED BY <1>4, <2>1, <2>2, <2>3, <2>4, <2>5, <2>6, <2>7 DEF Process
<1>5. ASSUME NEW c \in Cancels, ProcessCancel(c) PROVE SellLockExact'
    <2>1. UNCHANGED <<order, pc>> /\ book' \subseteq book
        BY <1>5 DEF ProcessCancel, CancelUnlockFunds, CancelRemove, BookWithout
    <2> QED BY <2>1 DEF MInv, SellLockExact, Live
<1> QED BY <1>1, <1>2, <1>3, <1>4, <1>5 DEF Next, Arrive

\* No step fails a call.
LEMMA NobodyFails ==
    ASSUME MInv, Next
    PROVE  SettlementNeverFails'
<1>1. ASSUME NEW o \in OrderIds, Process(o) PROVE \A z \in OrderIds : pc'[z] = pc[z] \/ pc'[z] # "failed"
    <2>1. CASE SettleTrade(o)
        BY <2>1, SettlementSucceeds DEF MInv, IInv, TypeOK
    <2>2. CASE ReleaseResidual(o)
        BY <2>2, ReleaseSucceeds DEF MInv, IInv, TypeOK
    <2> QED BY <1>1, <2>1, <2>2 DEF Process, ValidateBalance, LockFunds, PeekBest, PlaceRemainder,
                                   TakeBest, RecordTrade, Goto, MInv, IInv, TypeOK
<1>2. ASSUME NEW o \in OrderIds, NEW u \in Users, NEW s \in Sides, NEW p \in Prices,
             NEW q \in Quantities, NEW now \in {clock, clock + 1}, Submit(o, u, s, p, q, now)
      PROVE  \A z \in OrderIds : pc'[z] = pc[z] \/ pc'[z] # "failed"
    BY <1>2 DEF Submit, Goto, MInv, IInv, TypeOK
<1>3. ASSUME \/ \E u \in Users, a \in Assets : Deposit(u, a)
             \/ \E c \in Cancels, o \in OrderIds : CancelGetOrder(c, o)
             \/ \E c \in Cancels : ProcessCancel(c)
      PROVE  pc' = pc
    BY <1>3 DEF Deposit, CancelGetOrder, ProcessCancel, CancelUnlockFunds, CancelRemove
<1> QED BY <1>1, <1>2, <1>3 DEF Next, Arrive, MInv, SettlementNeverFails

\* The empty exchange has nothing locked and nothing claimed.
LEMMA InitMInv == Init => MInv
<1> SUFFICES ASSUME Init PROVE MInv
    OBVIOUS
<1>1. IInv
    BY InitIInv
<1>2. CancelsAlone /\ SellLockExact /\ SettlementNeverFails /\ Backed = {}
    BY DEF Init, CancelsAlone, Cancelling, SellLockExact, Live, SettlementNeverFails, Backed
<1>3. ASSUME NEW u \in Users, NEW s \in Sides PROVE Covered(u, s)
    <2>1. /\ Residuals(u, s) \in [OrderIds -> Nat] /\ \A o \in OrderIds : Residuals(u, s)[o] = 0
          /\ Owing(u, s) \in [OrderIds -> Nat] /\ \A o \in OrderIds : Owing(u, s)[o] = 0
        BY <1>2 DEF Init, Residuals, Owing
    <2>2. Total(Residuals(u, s)) = 0 /\ Total(Owing(u, s)) = 0
        BY <2>1, TotalOfNothing
    <2>3. balance[u][LockAsset(s)].locked = 0
        BY DEF Init, LockAsset, Assets
    <2> QED BY <2>2, <2>3 DEF Covered, Claims
<1> QED BY <1>1, <1>2, <1>3 DEF MInv

\* Every step that leaves cancels alone keeps the wallet's books.
LEMMA NextMInv == MInv /\ [Next]_vars /\ CancelsAlone' => MInv'
<1> SUFFICES ASSUME MInv, [Next]_vars, CancelsAlone' PROVE MInv'
    OBVIOUS
<1>1. IInv'
    BY NextIInv DEF MInv
<1>2. CASE UNCHANGED vars
    <2>1. SellLockExact' /\ SettlementNeverFails'
        BY <1>2 DEF vars, MInv, SellLockExact, Live, SettlementNeverFails
    <2>2. ASSUME NEW u \in Users, NEW s \in Sides PROVE Covered(u, s)'
        BY <1>2 DEF vars, MInv, Covered, Claims, Residuals, Residual, Owing, TradeCost, Backed, Live
    <2> QED BY <1>1, <2>1, <2>2 DEF MInv
<1>3. CASE Next
    <2>1. SellLockExact' /\ SettlementNeverFails'
        BY <1>3, SellLocksStayExact, NobodyFails
    <2>2. ASSUME NEW u \in Users, NEW a \in Assets, Deposit(u, a)
          PROVE  \A v \in Users, s \in Sides : Covered(v, s)'
        BY <1>1, <2>2, DepositCovered
    <2>3. ASSUME NEW o \in OrderIds, NEW u \in Users, NEW s \in Sides, NEW p \in Prices,
                 NEW q \in Quantities, NEW now \in {clock, clock + 1}, Submit(o, u, s, p, q, now)
          PROVE  \A v \in Users, x \in Sides : Covered(v, x)'
        BY <1>1, <2>3, SubmitCovered
    <2>4. ASSUME NEW c \in Cancels, NEW o \in OrderIds, CancelGetOrder(c, o)
          PROVE  \A v \in Users, s \in Sides : Covered(v, s)'
        BY <1>1, <2>4, CancelGetOrderCovered
    <2>5. ASSUME NEW o \in OrderIds, Process(o)
          PROVE  \A v \in Users, s \in Sides : Covered(v, s)'
        BY <1>1, <2>5, GotoCovered, LockFundsCovered, PlaceRemainderCovered, TakeBestCovered,
           SettleTradeCovered, RecordTradeCovered, ReleaseResidualCovered DEF Process
    <2>6. ASSUME NEW c \in Cancels, ProcessCancel(c)
          PROVE  \A v \in Users, s \in Sides : Covered(v, s)'
        BY <1>1, <2>6, CancelUnlockFundsCovered, CancelRemoveCovered DEF ProcessCancel
    <2>7. \A v \in Users, s \in Sides : Covered(v, s)'
        BY <1>3, <2>2, <2>3, <2>4, <2>5, <2>6 DEF Next, Arrive
    <2> QED BY <1>1, <2>1, <2>7 DEF MInv
<1> QED BY <1>2, <1>3

LEMMA SpecMInv == ASSUME CancelsDoNotRace PROVE Spec => []MInv
<1>1. MInv /\ [Next]_vars => MInv'
    <2> SUFFICES ASSUME MInv, [Next]_vars PROVE CancelsAlone'
        BY NextMInv
    <2>1. CASE Next
        BY <2>1, CancelsStayAlone DEF MInv
    <2>2. CASE UNCHANGED vars
        BY <2>2 DEF vars, MInv, CancelsAlone
    <2> QED BY <2>1, <2>2
<1> QED BY <1>1, InitMInv, PTL DEF Spec

-----------------------------------------------------------------------------
(* What everybody owns.                                                    *)

Credited(b, u, asset, n) == [b EXCEPT ![u][asset].available = @ + n]

\* What a user owns of an asset, in a wallet.
Holding(b, u, asset) == b[u][asset].available + b[u][asset].locked

Holdings(b, asset) == [u \in Users |-> Holding(b, u, asset)]

LEMMA HoldingsCounted ==
    ASSUME NEW b \in Wallets, NEW a \in Assets
    PROVE  /\ Holdings(b, a) \in [Users -> Nat] /\ Total(Holdings(b, a)) \in Nat
           /\ \A u \in Users : b[u][a].available \in Nat /\ b[u][a].locked \in Nat
<1>1. \A u \in Users : b[u][a].available \in Nat /\ b[u][a].locked \in Nat
    BY DEF Wallets, Balance
<1>2. Holdings(b, a) \in [Users -> Nat]
    BY <1>1 DEF Holdings, Holding
<1> QED BY <1>1, <1>2, TotalIsNat, FiniteAssumption

\* Locking and unlocking change nobody's holding.
LEMMA LockingKeepsHoldings ==
    ASSUME NEW b \in Wallets, NEW u \in Users, NEW x \in Assets, NEW n \in Nat, NEW a \in Assets
    PROVE  /\ n <= b[u][x].available => Total(Holdings(Locked(b, u, x, n), a)) = Total(Holdings(b, a))
           /\ n <= b[u][x].locked => Total(Holdings(Unlocked(b, u, x, n), a)) = Total(Holdings(b, a))
<1>1. \A v \in Users : b[v] \in [Assets -> Balance] /\ b[v][a] \in Balance /\ b[v][x] \in Balance
    BY DEF Wallets
<1>2. ASSUME n <= b[u][x].available
      PROVE  Total(Holdings(Locked(b, u, x, n), a)) = Total(Holdings(b, a))
    <2>1. Locked(b, u, x, n) \in Wallets
        BY <1>2, LockedIsWallet
    <2>2. \A v \in Users : Holding(Locked(b, u, x, n), v, a) = Holding(b, v, a)
        BY <1>1, <1>2 DEF Locked, Holding, Wallets, Balance
    <2> QED BY <2>1, <2>2 DEF Holdings
<1>3. ASSUME n <= b[u][x].locked
      PROVE  Total(Holdings(Unlocked(b, u, x, n), a)) = Total(Holdings(b, a))
    <2>1. Unlocked(b, u, x, n) \in Wallets
        BY <1>3, UnlockedIsWallet
    <2>2. \A v \in Users : Holding(Unlocked(b, u, x, n), v, a) = Holding(b, v, a)
        BY <1>1, <1>3 DEF Unlocked, Holding, Wallets, Balance
    <2> QED BY <2>1, <2>2 DEF Holdings
<1> QED BY <1>2, <1>3

\* A whole settlement passes quote from the buyer to the seller and the base
\* asset from the seller to the buyer.
LEMMA SettlingKeepsHoldings ==
    ASSUME NEW b \in Wallets, NEW buyer \in Users, NEW seller \in Users, NEW p \in Nat, NEW q \in Nat,
           p * q <= b[buyer]["quote"].locked, q <= b[seller]["base"].locked, NEW a \in Assets
    PROVE  LET b2 == SellerSettled(BuyerSettled(b, buyer, p, q), seller, p, q)
           IN  Total(Holdings(b2, a)) = Total(Holdings(b, a))
<1>1. PICK after : after = SellerSettled(BuyerSettled(b, buyer, p, q), seller, p, q)
    OBVIOUS
<1>2. after \in Wallets
    <2>1. PICK between : between = BuyerSettled(b, buyer, p, q)
        OBVIOUS
    <2>2. between \in Wallets /\ between[seller]["base"].locked = b[seller]["base"].locked
        BY <2>1, BuyerSettledIsWallet
    <2>3. SellerSettled(between, seller, p, q) \in Wallets
        BY <2>2, SellerSettledIsWallet
    <2> QED BY <1>1, <2>1, <2>3
<1>3. PICK value \in Nat : value = p * q
    BY ProductIsNat
<1>4. ASSUME NEW v \in Users
      PROVE  /\ after[v]["quote"].locked = b[v]["quote"].locked - (IF v = buyer THEN value ELSE 0)
             /\ after[v]["base"].locked = b[v]["base"].locked - (IF v = seller THEN q ELSE 0)
             /\ after[v]["quote"].available = b[v]["quote"].available + (IF v = seller THEN value ELSE 0)
             /\ after[v]["base"].available = b[v]["base"].available + (IF v = buyer THEN q ELSE 0)
    <2>1. after = SettledAt(b, buyer, seller, p, q)
        <3>1. SellerSettled(BuyerSettled(b, buyer, p, q), seller, p, q) = SettledAt(b, buyer, seller, p, q)
            BY SettledBalances
        <3> QED BY <1>1, <3>1
    <2>2. after = Settled(b, buyer, seller, value, q)
        BY <1>3, <2>1 DEF SettledAt
    <2> QED BY <2>2 DEF Settled, Assets
<1>5. Holdings(b, a) \in [Users -> Nat] /\ Holdings(after, a) \in [Users -> Nat]
    BY <1>2, HoldingsCounted
<1>6. \A v \in Users, x \in Assets : b[v][x].available \in Nat /\ b[v][x].locked \in Nat
    BY HoldingsCounted
<1>7. CASE a = "quote"
    <2>1. PICK f \in [Users -> Nat], g \in [Users -> Nat] : f = Holdings(b, a) /\ g = Holdings(after, a)
        BY <1>5
    <2>2. f[buyer] + f[seller] = g[buyer] + g[seller]
        BY <1>4, <1>6, <1>7, <2>1 DEF Holdings, Holding, Assets
    <2>3. \A v \in Users \ {buyer, seller} : f[v] = g[v]
        BY <1>4, <1>6, <1>7, <2>1 DEF Holdings, Holding, Assets
    <2>4. Total(f) = Total(g)
        BY <2>2, <2>3, TotalTransfers, FiniteAssumption
    <2> QED BY <1>1, <2>1, <2>4
<1>8. CASE a = "base"
    <2>1. PICK f \in [Users -> Nat], g \in [Users -> Nat] : f = Holdings(b, a) /\ g = Holdings(after, a)
        BY <1>5
    <2>2. f[seller] + f[buyer] = g[seller] + g[buyer]
        BY <1>4, <1>6, <1>8, <2>1 DEF Holdings, Holding, Assets
    <2>3. \A v \in Users \ {seller, buyer} : f[v] = g[v]
        BY <1>4, <1>6, <1>8, <2>1 DEF Holdings, Holding, Assets
    <2>4. Total(f) = Total(g)
        BY <2>2, <2>3, TotalTransfers, FiniteAssumption
    <2> QED BY <1>1, <2>1, <2>4
<1> QED BY <1>7, <1>8 DEF Assets

\* A deposit adds what it deposits.
LEMMA CreditAddsToHoldings ==
    ASSUME NEW b \in Wallets, NEW u \in Users, NEW x \in Assets, NEW n \in Nat, NEW a \in Assets
    PROVE  Total(Holdings(Credited(b, u, x, n), a)) = Total(Holdings(b, a)) + (IF a = x THEN n ELSE 0)
<1>0. PICK b2 : b2 = Credited(b, u, x, n)
    OBVIOUS
<1>1. b2 = [b EXCEPT ![u][x].available = @ + n]
    BY <1>0 DEF Credited
<1>2. b2 \in Wallets
    BY <1>1, CreditIsWallet
<1>3. PICK f \in [Users -> Nat], g \in [Users -> Nat] : f = Holdings(b, a) /\ g = Holdings(b2, a)
    BY <1>2, HoldingsCounted
<1>4. \A v \in Users : b[v] \in [Assets -> [available : Nat, locked : Nat]]
    BY DEF Wallets, Balance
<1>5. \A v \in Users \ {u} : g[v] = f[v]
    BY <1>1, <1>3 DEF Holdings, Holding, Wallets
<1>6. g[u] = f[u] + (IF a = x THEN n ELSE 0)
    BY <1>1, <1>3, <1>4 DEF Holdings, Holding, Wallets
<1>7. Total(f) + g[u] = Total(g) + f[u] /\ Total(f) \in Nat /\ Total(g) \in Nat /\ f[u] \in Nat
    BY <1>5, TotalChanges, FiniteAssumption
<1>8. Total(g) = Total(f) + (IF a = x THEN n ELSE 0)
    BY <1>6, <1>7
<1> QED BY <1>0, <1>3, <1>8

\* Every step leaves what is owned, except a deposit, which adds to it.
LEMMA OwnedMoves ==
    ASSUME MInv, IInv', Next
    PROVE  /\ Owned("base")' \in Nat /\ Owned("quote")' \in Nat
           /\ deposits' \in Nat
           /\ (Owned("base") + Owned("quote"))' + deposits * DepositAmount
                = (Owned("base") + Owned("quote")) + deposits' * DepositAmount
<1>1. balance \in Wallets /\ balance' \in Wallets /\ deposits \in Nat /\ deposits' \in Nat
    BY DEF MInv, IInv, TypeOK
<1>2. \A a \in Assets : /\ Owned(a) = Total(Holdings(balance, a)) /\ Owned(a) \in Nat
                        /\ Owned(a)' = Total(Holdings(balance', a)) /\ Owned(a)' \in Nat
    BY <1>1, HoldingsCounted DEF Owned, Holdings, Holding
<1>3. "base" \in Assets /\ "quote" \in Assets
    BY DEF Assets
<1>4. DepositAmount \in Nat
    BY FundsAssumption
<1>5. ASSUME NEW u \in Users, NEW x \in Assets, Deposit(u, x)
      PROVE  (Owned("base") + Owned("quote"))' + deposits * DepositAmount
               = (Owned("base") + Owned("quote")) + deposits' * DepositAmount
    <2>1. balance' = Credited(balance, u, x, DepositAmount) /\ deposits' = deposits + 1
        BY <1>5 DEF Deposit, Credited
    <2>2. \A a \in Assets : Total(Holdings(balance', a)) = Total(Holdings(balance, a)) + (IF a = x THEN DepositAmount ELSE 0)
        <3>1. ASSUME NEW a \in Assets
              PROVE  Total(Holdings(balance', a)) = Total(Holdings(balance, a)) + (IF a = x THEN DepositAmount ELSE 0)
            BY <1>1, <1>4, <2>1, CreditAddsToHoldings
        <3> QED BY <3>1
    <2>3. (Owned("base") + Owned("quote"))' = (Owned("base") + Owned("quote")) + DepositAmount
        BY <1>2, <1>3, <1>4, <2>2 DEF Assets
    <2>4. deposits' * DepositAmount = deposits * DepositAmount + DepositAmount
        BY <1>1, <1>4, <2>1
    <2>5. deposits * DepositAmount \in Nat
        BY <1>1, <1>4
    <2> QED BY <1>2, <1>3, <1>4, <2>3, <2>4, <2>5
<1>6. ASSUME NEW o \in OrderIds, Process(o)
      PROVE  deposits' = deposits /\ \A a \in Assets : Total(Holdings(balance', a)) = Total(Holdings(balance, a))
    <2>1. /\ deposits' = deposits /\ order[o].user \in Users /\ order[o].side \in Sides
          /\ order[o].lockedAmount \in Nat /\ LockAsset(order[o].side) \in Assets
        BY <1>6 DEF Process, ValidateBalance, LockFunds, PeekBest, PlaceRemainder, TakeBest, SettleTrade,
                    RecordTrade, ReleaseResidual, MInv, IInv, TypeOK, Order, LockAsset, Assets
    <2>2. CASE LockFunds(o)
        <3>1. PICK amount : amount = Cost(order[o].side, order[o].price, order[o].quantity)
            OBVIOUS
        <3>2. amount \in Nat
            BY <2>1, <3>1, CostIsNat, OrdersAssumption DEF MInv, IInv, TypeOK, Order
        <3>3. \/ balance' = balance
              \/ /\ amount <= balance[order[o].user][LockAsset(order[o].side)].available
                 /\ balance' = Locked(balance, order[o].user, LockAsset(order[o].side), amount)
            BY <2>2, <3>1 DEF LockFunds, CanLock, Affordable
        <3> QED BY <1>1, <2>1, <3>2, <3>3, LockingKeepsHoldings
    <2>3. CASE SettleTrade(o)
        <3>1. PICK buyer \in Users, seller \in Users, price \in Nat, qty \in Nat :
                /\ buyer = order[BuyOrder(o)].user /\ seller = order[SellOrder(o)].user
                /\ price = trade[o].price /\ qty = trade[o].quantity
            BY <2>3, TradeIsPaidFor DEF SettleTrade, MInv, IInv, TypeOK, Order, BuyOrder, SellOrder
        <3>2. /\ price * qty <= balance[buyer]["quote"].locked /\ qty <= balance[seller]["base"].locked
              /\ balance' = SellerSettled(BuyerSettled(balance, buyer, price, qty), seller, price, qty)
            BY <2>3, <3>1, SettlementSucceeds
        <3> QED BY <1>1, <2>1, <3>2, SettlingKeepsHoldings
    <2>4. CASE ReleaseResidual(o)
        BY <1>1, <2>1, <2>4, ReleaseSucceeds, LockingKeepsHoldings
    <2> QED BY <1>6, <2>1, <2>2, <2>3, <2>4 DEF Process, ValidateBalance, PeekBest, PlaceRemainder,
                                              TakeBest, RecordTrade
<1>7. ASSUME NEW c \in Cancels, ProcessCancel(c)
      PROVE  deposits' = deposits /\ \A a \in Assets : Total(Holdings(balance', a)) = Total(Holdings(balance, a))
    <2>1. CASE CancelUnlockFunds(c)
        <3>1. PICK o \in OrderIds : o = cancel[c].order
            BY <2>1 DEF CancelUnlockFunds, MInv, IInv, CancelsKnown, Cancelling
        <3>2. /\ order[o].user \in Users /\ LockAsset(order[o].side) \in Assets /\ order[o].lockedAmount \in Nat
              /\ deposits' = deposits
            BY <2>1 DEF CancelUnlockFunds, MInv, IInv, TypeOK, Order, LockAsset, Assets
        <3> QED BY <1>1, <2>1, <3>1, <3>2, CancelSucceeds, LockingKeepsHoldings
    <2>2. CASE CancelRemove(c)
        BY <2>2 DEF CancelRemove
    <2> QED BY <1>7, <2>1, <2>2 DEF ProcessCancel
<1>8. ASSUME \/ \E o \in OrderIds, u \in Users, s \in Sides, p \in Prices, q \in Quantities,
                   now \in {clock, clock + 1} : Submit(o, u, s, p, q, now)
             \/ \E c \in Cancels, o \in OrderIds : CancelGetOrder(c, o)
      PROVE  deposits' = deposits /\ \A a \in Assets : Total(Holdings(balance', a)) = Total(Holdings(balance, a))
    BY <1>8 DEF Submit, CancelGetOrder
<1>9. ASSUME deposits' = deposits /\ \A a \in Assets : Total(Holdings(balance', a)) = Total(Holdings(balance, a))
      PROVE  (Owned("base") + Owned("quote"))' + deposits * DepositAmount
               = (Owned("base") + Owned("quote")) + deposits' * DepositAmount
    BY <1>2, <1>3, <1>9
<1> QED BY <1>1, <1>2, <1>3, <1>5, <1>6, <1>7, <1>8, <1>9 DEF Next, Arrive

-----------------------------------------------------------------------------
(* The theorems.                                                           *)

\* While no cancel overlaps a match, no call throws after it has moved
\* anything: settleTrade finds both locks, unlockFunds the residual.
THEOREM SettlementsSucceed == ASSUME CancelsDoNotRace PROVE Spec => []SettlementNeverFails
<1>1. MInv => SettlementNeverFails
    BY DEF MInv
<1> QED BY <1>1, SpecMInv, PTL

\* Covered, user by user, is what LocksAccounted says.
LEMMA MInvAccountsLocks == MInv => LocksAccounted
<1> SUFFICES ASSUME MInv, NEW u \in Users
             PROVE  /\ balance[u]["base"].locked = Claims(u, "sell")
                    /\ balance[u]["quote"].locked >= Claims(u, "buy")
    BY DEF LocksAccounted
<1>1. Covered(u, "sell") /\ Covered(u, "buy")
    BY DEF MInv, Sides
<1>2. balance[u]["base"].locked = Claims(u, "sell")
    BY <1>1 DEF Covered, LockAsset
<1>3. Claims(u, "buy") <= balance[u]["quote"].locked
    BY <1>1 DEF Covered, LockAsset
<1>4. Claims(u, "buy") \in Nat /\ balance[u]["quote"].locked \in Nat
    <2>1. PICK R \in [OrderIds -> Nat], O \in [OrderIds -> Nat] : R = Residuals(u, "buy") /\ O = Owing(u, "buy")
        BY ClaimsCounted DEF MInv, ClaimsCount, Sides
    <2>2. Total(R) \in Nat /\ Total(O) \in Nat
        BY TotalIsNat, FiniteAssumption
    <2>3. balance[u]["quote"].locked \in Nat
        BY DEF MInv, IInv, TypeOK, Wallets, Balance, Assets
    <2> QED BY <2>1, <2>2, <2>3 DEF Claims
<1> QED BY <1>2, <1>3, <1>4

\* While no cancel overlaps a match, the wallet's locked balances are what the
\* orders' lockedAmount fields say.
THEOREM LocksAreAccounted == ASSUME CancelsDoNotRace PROVE Spec => []LocksAccounted
BY MInvAccountsLocks, SpecMInv, PTL

\* Conservation at the start.
LEMMA InitConservation == Init => Conservation
<1> SUFFICES ASSUME Init PROVE Conservation
    OBVIOUS
<1>1. \A a \in Assets : InitialFunds[a] \in Nat
    BY FundsAssumption
<1>2. ASSUME NEW a \in Assets PROVE Owned(a) = Cardinality(Users) * InitialFunds[a]
    <2>1. [u \in Users |-> balance[u][a].available + balance[u][a].locked] = [u \in Users |-> InitialFunds[a]]
        BY <1>1 DEF Init
    <2> QED BY <1>1, <2>1, TotalOfShares, FiniteAssumption DEF Owned
<1>3. Cardinality(Users) \in Nat
    BY FiniteAssumption, FS_CardinalityType
<1>4. PICK n \in Nat, b \in Nat, q \in Nat : n = Cardinality(Users) /\ b = InitialFunds["base"] /\ q = InitialFunds["quote"]
    BY <1>1, <1>3 DEF Assets
<1>5. n * b + n * q = n * (b + q)
    OBVIOUS
<1>6. deposits * DepositAmount = 0 /\ n * (b + q) \in Nat
    BY FundsAssumption DEF Init
<1> QED BY <1>2, <1>4, <1>5, <1>6 DEF Conservation, Assets

\* No step creates or destroys anything.
LEMMA NextConservation == MInv /\ Conservation /\ [Next]_vars => Conservation'
<1> SUFFICES ASSUME MInv, Conservation, [Next]_vars PROVE Conservation'
    OBVIOUS
<1>1. CASE UNCHANGED vars
    BY <1>1 DEF vars, Conservation, Owned
<1>2. CASE Next
    <2>1. IInv'
        BY <1>2, NextIInv DEF MInv
    <2>2. (Owned("base") + Owned("quote"))' + deposits * DepositAmount
            = (Owned("base") + Owned("quote")) + deposits' * DepositAmount
        BY <1>2, <2>1, OwnedMoves
    <2>3. deposits * DepositAmount \in Nat /\ deposits' * DepositAmount \in Nat
        <3>1. deposits \in Nat /\ deposits' \in Nat /\ DepositAmount \in Nat
            BY <2>1, FundsAssumption DEF MInv, IInv, TypeOK
        <3> QED BY <3>1, ProductIsNat
    <2>4. Cardinality(Users) * (InitialFunds["base"] + InitialFunds["quote"]) \in Nat
        BY FundsAssumption, FiniteAssumption, FS_CardinalityType DEF Assets
    <2>5. (Owned("base") + Owned("quote"))' \in Nat
        BY <1>2, <2>1, OwnedMoves
    <2>6. PICK own2 \in Nat, d \in Nat, d2 \in Nat, k \in Nat :
            /\ own2 = (Owned("base") + Owned("quote"))' /\ d = deposits * DepositAmount
            /\ d2 = deposits' * DepositAmount
            /\ k = Cardinality(Users) * (InitialFunds["base"] + InitialFunds["quote"])
        BY <2>3, <2>4, <2>5
    <2>7. own2 + d = (k + d) + d2
        BY <2>2, <2>6 DEF Conservation
    <2>8. own2 = k + d2
        BY <2>7
    <2> QED BY <2>6, <2>8 DEF Conservation
<1> QED BY <1>1, <1>2

\* While no cancel overlaps a match, trading and cancelling create and destroy
\* nothing.
THEOREM MoneyIsConserved == ASSUME CancelsDoNotRace PROVE Spec => []Conservation
BY NextConservation, InitConservation, SpecMInv, PTL DEF Spec

-----------------------------------------------------------------------------
(* The inductive invariant of FillsAddUp.  An order's units are accounted  *)
(* for while its call runs, not only once it rests, and a call that has    *)
(* not matched yet has traded nothing.                                     *)

Accounted(o) ==
    /\ pc[o] \in {"idle", "validating", "locking"} => traded[o] = 0
    /\ pc[o] = "releasing" => order[o].quantity = 0
    /\ o \in book \/ pc[o] \in Processing => traded[o] + Pending(o) + order[o].quantity = order[o].size
    /\ traded[o] + Pending(o) <= order[o].size

FInv == IInv /\ \A o \in OrderIds : Accounted(o)

-----------------------------------------------------------------------------
(* The inductive invariant of the refinement: one call at a time, so that  *)
(* the order read as best is still first when it is taken.                 *)

CallsAlone ==
    \A o \in OrderIds : pc[o] \in Processing =>
        /\ \A x \in OrderIds \ {o} : pc[x] \notin Processing
        /\ \A c \in Cancels : cancel[c].at \notin Cancelling

BestIsFirst ==
    \A o \in OrderIds : pc[o] = "taking" =>
        IF best[o] = NoOrder THEN BestOf(Opposite(order[o].side)) = {}
                             ELSE best[o] \in BestOf(Opposite(order[o].side))

Placed == {o \in OrderIds : pc[o] = "open"}

PlacedInTurn ==
    /\ placements = Cardinality(Placed)
    /\ \A o \in OrderIds : /\ order[o].placedAt <= placements
                           /\ pc[o] # "open" => order[o].placedAt = 0

AInv == MInv /\ FInv /\ CallsAlone /\ BestIsFirst /\ PlacedInTurn

-----------------------------------------------------------------------------
(* Quantities.                                                             *)

\* Pending quantities are sums of natural numbers.
TakesCount == \A o \in OrderIds : Takes(o) \in [OrderIds -> Nat]

LEMMA TakesCounted == TypeOK => TakesCount
BY DEF TypeOK, Trade, TakesCount, Takes

LEMMA TakesCountedNext == TypeOK' => TakesCount'
<1> QED BY TakesCounted, PTL

\* What is pending is a natural number, and nothing for an order that has not
\* been placed.
LEMMA PendingIsNat ==
    ASSUME IInv, NEW o \in OrderIds
    PROVE  Pending(o) \in Nat /\ (pc[o] # "open" => Pending(o) = 0)
<1>1. Takes(o) \in [OrderIds -> Nat]
    BY TakesCounted DEF IInv, TakesCount
<1>2. Total(Takes(o)) \in Nat
    BY <1>1, TotalIsNat, FiniteAssumption
<1>3. ASSUME pc[o] # "open" PROVE Total(Takes(o)) = 0
    <2>1. \A t \in OrderIds : trade[t].resting # o
        BY <1>3, NobodyRefers
    <2>2. \A t \in OrderIds : Takes(o)[t] = 0
        BY <2>1 DEF Takes
    <2> QED BY <1>1, <2>2, TotalOfNothing
<1> QED BY <1>2, <1>3 DEF Pending

\* Changing one taker's trade changes what is pending by the difference.
LEMMA PendingMoves ==
    ASSUME IInv, IInv', NEW o \in OrderIds, NEW z \in OrderIds,
           \A t \in OrderIds \ {o} : trade'[t] = trade[t]
    PROVE  /\ Pending(z)' + (IF trade[o].resting = z THEN trade[o].quantity ELSE 0)
                = Pending(z) + (IF trade'[o].resting = z THEN trade'[o].quantity ELSE 0)
           /\ Pending(z)' \in Nat /\ Pending(z) \in Nat
<1>1. PICK f \in [OrderIds -> Nat], g \in [OrderIds -> Nat] : f = Takes(z) /\ g = Takes(z)'
    BY TakesCounted, TakesCountedNext DEF IInv, TakesCount
<1>2. \A t \in OrderIds \ {o} : f[t] = g[t]
    BY <1>1 DEF Takes
<1>3. Total(f) + g[o] = Total(g) + f[o] /\ Total(f) \in Nat /\ Total(g) \in Nat
    BY <1>2, TotalChanges, FiniteAssumption
<1>4. /\ f[o] = (IF trade[o].resting = z THEN trade[o].quantity ELSE 0)
      /\ g[o] = (IF trade'[o].resting = z THEN trade'[o].quantity ELSE 0)
    BY <1>1 DEF Takes
<1>5. Pending(z) = Total(f) /\ Pending(z)' = Total(g)
    BY <1>1 DEF Pending
<1> QED BY <1>3, <1>4, <1>5

\* A step that moves no trade and nobody's quantity keeps every account, as
\* long as nobody starts to rest or to be processed.
LEMMA AccountsStay ==
    ASSUME FInv, IInv', UNCHANGED <<trade, traded>>, NEW z \in OrderIds,
           order'[z].quantity = order[z].quantity, order'[z].size = order[z].size,
           z \in book' \/ pc'[z] \in Processing => z \in book \/ pc[z] \in Processing,
           pc'[z] \in {"idle", "validating", "locking"} => pc[z] \in {"idle", "validating", "locking"},
           pc'[z] = "releasing" => pc[z] = "releasing"
    PROVE  Accounted(z)'
<1>1. Pending(z)' = Pending(z)
    BY DEF Pending, Takes
<1> QED BY <1>1 DEF FInv, Accounted

\* Of a new order nothing has traded.
LEMMA SubmitAccounts ==
    ASSUME FInv, IInv', NEW o \in OrderIds, NEW u \in Users, NEW s \in Sides, NEW p \in Prices,
           NEW q \in Quantities, NEW now \in {clock, clock + 1}, Submit(o, u, s, p, q, now)
    PROVE  \A z \in OrderIds : Accounted(z)'
<1>1. /\ pc[o] = "idle" /\ pc'[o] = "validating"
      /\ order'[o].quantity = q /\ order'[o].size = q
      /\ \A z \in OrderIds \ {o} : pc'[z] = pc[z] /\ order'[z] = order[z]
      /\ UNCHANGED <<book, trade, traded>>
    BY DEF Submit, Goto, FInv, IInv, TypeOK
<1>2. ASSUME NEW z \in OrderIds, z # o PROVE Accounted(z)'
    BY <1>1, <1>2, AccountsStay
<1>3. Accounted(o)'
    <2>1. Pending(o)' = 0
        <3>1. Pending(o) = 0
            BY <1>1, PendingIsNat DEF FInv
        <3>2. Pending(o)' = Pending(o)
            BY <1>1 DEF Pending, Takes
        <3> QED BY <3>1, <3>2
    <2>2. traded'[o] = 0 /\ q \in Nat
        BY <1>1, OrdersAssumption DEF FInv, Accounted
    <2> QED BY <1>1, <2>1, <2>2 DEF Accounted
<1> QED BY <1>2, <1>3

\* A match moves units from what the resting order has left to what is pending.
LEMMA TakeBestAccounts ==
    ASSUME FInv, IInv', NEW o \in OrderIds, TakeBest(o)
    PROVE  \A z \in OrderIds : Accounted(z)'
<1>1. PICK m \in OrderIds \ {o}, price \in Nat, qty \in Nat \ {0} :
        /\ m \in book /\ pc[m] = "open" /\ pc[o] = "taking"
        /\ trade' = [trade EXCEPT ![o] = [resting |-> m, price |-> price, quantity |-> qty]]
        /\ pc' = [pc EXCEPT ![o] = "settling"]
        /\ \A z \in OrderIds \ {m} : order'[z] = order[z]
        /\ order'[m].size = order[m].size
        /\ \/ book' = book /\ order'[m].quantity = order[m].quantity - qty
           \/ book' = book \ {m} /\ order' = order /\ order[m].quantity = qty
        /\ traded' = traded
    BY MatchTakes DEF FInv
<1>2. /\ trade[o].resting = NoOrder /\ trade'[o].resting = m /\ trade'[o].quantity = qty
      /\ \A t \in OrderIds \ {o} : trade'[t] = trade[t]
      /\ pc'[o] = "settling" /\ \A z \in OrderIds \ {o} : pc'[z] = pc[z]
    BY <1>1 DEF FInv, IInv, TypeOK, TradeUnderWay, NoTrade
<1>3. ASSUME NEW z \in OrderIds
      PROVE  /\ Pending(z)' = Pending(z) + (IF z = m THEN qty ELSE 0)
             /\ Pending(z) \in Nat /\ traded[z] \in Nat /\ order[z].quantity \in Nat
             /\ order[z].size \in Nat
    <2>1. z # NoOrder
        BY OrderIdsAssumption DEF NoOrder
    <2>2. Pending(z)' + 0 = Pending(z) + (IF z = m THEN qty ELSE 0) /\ Pending(z)' \in Nat /\ Pending(z) \in Nat
        BY <1>2, <2>1, PendingMoves DEF FInv
    <2>3. traded[z] \in Nat /\ order[z].quantity \in Nat /\ order[z].size \in Nat
        BY OrdersAssumption DEF FInv, IInv, TypeOK, Order
    <2> QED BY <2>2, <2>3
<1>4. ASSUME NEW z \in OrderIds, z # m PROVE Accounted(z)'
    <2>1. Pending(z)' = Pending(z) /\ order'[z] = order[z] /\ traded' = traded
        BY <1>1, <1>3, <1>4
    <2>2. /\ z \in book' \/ pc'[z] \in Processing => z \in book \/ pc[z] \in Processing
          /\ pc'[z] \notin {"idle", "validating", "locking", "releasing"} \/ pc'[z] = pc[z]
        BY <1>1, <1>2 DEF Processing
    <2> QED BY <2>1, <2>2 DEF FInv, Accounted
<1>5. Accounted(m)'
    <2>1. Accounted(m)
        BY DEF FInv
    <2>2. /\ Pending(m)' = Pending(m) + qty /\ traded' = traded /\ pc'[m] = "open"
          /\ Pending(m) \in Nat /\ traded[m] \in Nat /\ order[m].quantity \in Nat
        BY <1>1, <1>2, <1>3
    <2>3. traded[m] + Pending(m) + order[m].quantity = order[m].size
        BY <1>1, <2>1 DEF Accounted
    <2>4. CASE book' = book /\ order'[m].quantity = order[m].quantity - qty
        <3>1. order'[m].quantity \in Nat
            BY DEF IInv, TypeOK, Order
        <3>2. traded[m] + Pending(m)' + order'[m].quantity = order'[m].size
            BY <1>1, <2>2, <2>3, <2>4
        <3>3. traded[m] + Pending(m)' <= order'[m].size
            BY <2>2, <3>1, <3>2
        <3> QED BY <2>2, <3>2, <3>3 DEF Accounted
    <2>5. CASE book' = book \ {m} /\ order' = order /\ order[m].quantity = qty
        <3>1. traded[m] + Pending(m)' = order'[m].size
            BY <2>2, <2>3, <2>5
        <3>2. traded[m] + Pending(m)' <= order'[m].size
            BY <1>3, <2>5, <3>1
        <3> QED BY <2>2, <2>5, <3>2 DEF Accounted, Processing
    <2> QED BY <1>1, <2>4, <2>5
<1> QED BY <1>4, <1>5

\* Recording moves them from what is pending to what has traded.
LEMMA RecordTradeAccounts ==
    ASSUME FInv, IInv', NEW o \in OrderIds, RecordTrade(o)
    PROVE  \A z \in OrderIds : Accounted(z)'
<1>1. PICK m \in OrderIds \ {o}, qty \in Nat \ {0} :
        m = trade[o].resting /\ qty = trade[o].quantity /\ pc[m] = "open"
    BY TradeIsPaidFor DEF RecordTrade, FInv
<1>2. /\ pc[o] = "recording" /\ pc'[o] \in {"peeking", "releasing"}
      /\ order'[o].size = order[o].size /\ order'[o].quantity = order[o].quantity - qty
      /\ pc'[o] = "peeking" <=> order'[o].quantity > 0
      /\ trade'[o] = NoTrade
      /\ \A z \in OrderIds \ {o} : pc'[z] = pc[z] /\ order'[z] = order[z] /\ trade'[z] = trade[z]
      /\ book' = book
    BY <1>1, TradeRecorded DEF FInv
<1>3. traded'[o] = traded[o] + qty /\ traded'[m] = traded[m] + qty
      /\ \A z \in OrderIds \ {o, m} : traded'[z] = traded[z]
    BY <1>1 DEF RecordTrade, FInv, IInv, TypeOK
<1>4. ASSUME NEW z \in OrderIds
      PROVE  /\ Pending(z)' + (IF z = m THEN qty ELSE 0) = Pending(z)
             /\ Pending(z) \in Nat /\ Pending(z)' \in Nat /\ traded[z] \in Nat /\ traded'[z] \in Nat
             /\ order[z].quantity \in Nat /\ order'[z].quantity \in Nat /\ order[z].size \in Nat
    <2>1. z # NoOrder /\ trade'[o].resting = NoOrder
        BY <1>2, OrderIdsAssumption DEF NoOrder, NoTrade
    <2>2. /\ Pending(z)' + (IF z = m THEN qty ELSE 0) = Pending(z) + 0
          /\ Pending(z)' \in Nat /\ Pending(z) \in Nat
        BY <1>1, <1>2, <2>1, PendingMoves DEF FInv
    <2>3. /\ traded[z] \in Nat /\ traded'[z] \in Nat /\ order[z].quantity \in Nat
          /\ order'[z].quantity \in Nat /\ order[z].size \in Nat
        BY OrdersAssumption DEF FInv, IInv, TypeOK, Order
    <2> QED BY <2>2, <2>3
<1>5. ASSUME NEW z \in OrderIds \ {o, m} PROVE Accounted(z)'
    <2>1. Pending(z)' = Pending(z)
        BY <1>4
    <2> QED BY <1>2, <1>3, <2>1 DEF FInv, Accounted
<1>6. Accounted(m)'
    <2>1. traded'[m] + Pending(m)' = traded[m] + Pending(m)
        BY <1>3, <1>4
    <2>2. order'[m] = order[m] /\ pc'[m] = pc[m] /\ pc[m] = "open" /\ book' = book
        BY <1>1, <1>2
    <2> QED BY <2>1, <2>2 DEF FInv, Accounted
<1>7. Accounted(o)'
    <2>1. Pending(o) = 0 /\ Pending(o)' = 0
        BY <1>1, <1>2, <1>4, PendingIsNat DEF FInv
    <2>2. traded[o] + order[o].quantity = order[o].size
        BY <1>2, <1>4, <2>1 DEF FInv, Accounted, Processing
    <2>3. traded'[o] + order'[o].quantity = order'[o].size
        BY <1>2, <1>3, <1>4, <2>2
    <2>4. traded'[o] <= order'[o].size
        BY <1>2, <1>4, <2>3
    <2>5. pc'[o] = "releasing" => order'[o].quantity = 0
        BY <1>2, <1>4
    <2> QED BY <1>2, <1>4, <2>1, <2>3, <2>4, <2>5 DEF Accounted
<1> QED BY <1>5, <1>6, <1>7

\* The other steps of a call move no quantity.
LEMMA ProcessAccounts ==
    ASSUME FInv, IInv', NEW o \in OrderIds, Process(o)
    PROVE  \A z \in OrderIds : Accounted(z)'
<1>1. CASE TakeBest(o)
    BY <1>1, TakeBestAccounts
<1>2. CASE RecordTrade(o)
    BY <1>2, RecordTradeAccounts
<1>3. CASE ~(TakeBest(o) \/ RecordTrade(o))
    <2> SUFFICES ASSUME NEW z \in OrderIds PROVE Accounted(z)'
        OBVIOUS
    <2>1. order[z] \in Order
        BY DEF FInv, IInv, TypeOK
    <2>2. order'[z].quantity = order[z].quantity /\ order'[z].size = order[z].size
        BY <1>3, <2>1 DEF Process, ValidateBalance, LockFunds, PeekBest, PlaceRemainder, SettleTrade,
                          ReleaseResidual, FInv, IInv, TypeOK, Order
    <2>3. UNCHANGED <<trade, traded>> /\ book' \subseteq book \cup {o} /\ pc[o] \in Processing
        BY <1>3 DEF Process, ValidateBalance, LockFunds, PeekBest, PlaceRemainder, SettleTrade,
                    ReleaseResidual, Processing
    <2>4. /\ pc'[o] \in {"idle", "validating", "locking"} => pc[o] \in {"idle", "validating", "locking"}
          /\ pc'[o] # "releasing"
          /\ \A x \in OrderIds \ {o} : pc'[x] = pc[x]
        BY <1>3 DEF Process, ValidateBalance, LockFunds, PeekBest, PlaceRemainder, SettleTrade,
                    ReleaseResidual, Goto, FInv, IInv, TypeOK
    <2> QED BY <2>2, <2>3, <2>4, AccountsStay
<1> QED BY <1>1, <1>2, <1>3

LEMMA InitFInv == Init => FInv
<1> SUFFICES ASSUME Init PROVE FInv
    OBVIOUS
<1>1. IInv
    BY InitIInv
<1>2. ASSUME NEW o \in OrderIds PROVE Accounted(o)
    <2>1. pc[o] = "idle" /\ traded[o] = 0 /\ o \notin book /\ order[o].size \in Nat
        BY <1>1, OrdersAssumption DEF Init, IInv, TypeOK, Order
    <2>2. Pending(o) = 0
        BY <1>1, <2>1, PendingIsNat
    <2> QED BY <2>1, <2>2 DEF Accounted, Processing
<1> QED BY <1>1, <1>2 DEF FInv

LEMMA NextFInv == FInv /\ [Next]_vars => FInv'
<1> SUFFICES ASSUME FInv, [Next]_vars PROVE FInv'
    OBVIOUS
<1>1. IInv'
    BY NextIInv DEF FInv
<1>2. ASSUME NEW o \in OrderIds, NEW u \in Users, NEW s \in Sides, NEW p \in Prices,
             NEW q \in Quantities, NEW now \in {clock, clock + 1}, Submit(o, u, s, p, q, now)
      PROVE  \A z \in OrderIds : Accounted(z)'
    BY <1>1, <1>2, SubmitAccounts
<1>3. ASSUME NEW o \in OrderIds, Process(o) PROVE \A z \in OrderIds : Accounted(z)'
    BY <1>1, <1>3, ProcessAccounts
<1>4. CASE \/ \E u \in Users, a \in Assets : Deposit(u, a)
           \/ \E c \in Cancels, o \in OrderIds : CancelGetOrder(c, o)
           \/ \E c \in Cancels : ProcessCancel(c)
           \/ UNCHANGED vars
    <2>1. UNCHANGED <<order, pc, trade, traded>> /\ book' \subseteq book
        BY <1>4 DEF Deposit, CancelGetOrder, ProcessCancel, CancelUnlockFunds, CancelRemove, BookWithout, vars
    <2> QED BY <1>1, <2>1, AccountsStay DEF FInv
<1> QED BY <1>1, <1>2, <1>3, <1>4 DEF Next, Arrive, FInv

LEMMA SpecFInv == Spec => []FInv
<1> QED BY InitFInv, NextFInv, PTL DEF Spec

\* However calls overlap, every unit of an order is in the trade store, in a
\* trade under way or still for sale: no two takers are filled from one unit.
THEOREM FillsAlwaysAddUp == Spec => []FillsAddUp
<1>1. FInv => FillsAddUp
    <2> SUFFICES ASSUME FInv PROVE FillsAddUp
        OBVIOUS
    <2>1. ASSUME NEW o \in book
          PROVE  order[o].quantity > 0 /\ traded[o] + Pending(o) + order[o].quantity = order[o].size
        BY DEF FInv, Accounted, IInv, TypeOK, QuantityLeft
    <2>2. ASSUME NEW o \in OrderIds PROVE traded[o] <= order[o].size
        <3>1. Pending(o) \in Nat
            BY PendingIsNat DEF FInv
        <3>2. traded[o] \in Nat /\ order[o].size \in Nat /\ traded[o] + Pending(o) <= order[o].size
            BY OrdersAssumption DEF FInv, Accounted, IInv, TypeOK, Order
        <3> QED BY <3>1, <3>2
    <2> QED BY <2>1, <2>2 DEF FillsAddUp
<1> QED BY <1>1, SpecFInv, PTL

-----------------------------------------------------------------------------
(* The refinement's invariant.                                             *)

\* A call that comes in is alone, and then nobody else comes in.
LEMMA CallsStayAlone ==
    ASSUME MaxInFlight <= 1, AInv, Next
    PROVE  CallsAlone'
<1>1. ASSUME NEW u \in Users, NEW a \in Assets, Deposit(u, a) PROVE CallsAlone'
    BY <1>1 DEF Deposit, AInv, CallsAlone
<1>2. ASSUME NEW o \in OrderIds, NEW u \in Users, NEW s \in Sides, NEW p \in Prices,
             NEW q \in Quantities, NEW now \in {clock, clock + 1}, Submit(o, u, s, p, q, now)
      PROVE  CallsAlone'
    <2>1. /\ \A x \in OrderIds \ {o} : pc'[x] \notin Processing
          /\ \A c \in Cancels : cancel'[c].at \notin Cancelling
        BY <1>2, NobodyIn DEF Submit, Goto, AInv, FInv, IInv, TypeOK
    <2> QED BY <2>1 DEF CallsAlone
<1>3. ASSUME NEW c \in Cancels, NEW o \in OrderIds, CancelGetOrder(c, o) PROVE CallsAlone'
    <2>1. \A x \in OrderIds : pc'[x] \notin Processing
        BY <1>3, NobodyIn DEF CancelGetOrder, AInv, FInv
    <2> QED BY <2>1 DEF CallsAlone
<1>4. ASSUME NEW o \in OrderIds, Process(o) PROVE CallsAlone'
    <2>1. /\ pc[o] \in Processing /\ cancel' = cancel
          /\ \A x \in OrderIds \ {o} : pc'[x] = pc[x]
        BY <1>4 DEF Process, ValidateBalance, LockFunds, PeekBest, PlaceRemainder, TakeBest,
                    SettleTrade, RecordTrade, ReleaseResidual, Processing, Goto, AInv, FInv, IInv, TypeOK
    <2> QED BY <2>1 DEF AInv, CallsAlone
<1>5. ASSUME NEW c \in Cancels, ProcessCancel(c) PROVE CallsAlone'
    <2>1. cancel[c].at \in Cancelling /\ pc' = pc
        BY <1>5 DEF ProcessCancel, CancelUnlockFunds, CancelRemove, Cancelling
    <2> QED BY <2>1 DEF AInv, MInv, CancelsAlone, CallsAlone
<1> QED BY <1>1, <1>2, <1>3, <1>4, <1>5 DEF Next, Arrive

\* A step that leaves the book, its orders and the best order read alone.
LEMMA BestStays ==
    ASSUME BestIsFirst, UNCHANGED <<order, book, best>>,
           \A o \in OrderIds : pc'[o] = "taking" => pc[o] = "taking"
    PROVE  BestIsFirst'
BY DEF BestIsFirst, BestOf

\* The order read as best stays first: nobody else touches the book.
LEMMA BestStaysFirst ==
    ASSUME AInv, CallsAlone', Next
    PROVE  BestIsFirst'
<1>1. ASSUME NEW u \in Users, NEW a \in Assets, Deposit(u, a) PROVE BestIsFirst'
    BY <1>1, BestStays DEF Deposit, AInv
<1>2. ASSUME NEW o \in OrderIds, NEW u \in Users, NEW s \in Sides, NEW p \in Prices,
             NEW q \in Quantities, NEW now \in {clock, clock + 1}, Submit(o, u, s, p, q, now)
      PROVE  BestIsFirst'
    <2>1. pc'[o] = "validating"
        BY <1>2 DEF Submit, Goto, AInv, FInv, IInv, TypeOK
    <2>2. \A x \in OrderIds : pc'[x] # "taking"
        BY <2>1 DEF CallsAlone, Processing
    <2> QED BY <2>2 DEF BestIsFirst
<1>3. ASSUME NEW c \in Cancels, NEW o \in OrderIds, CancelGetOrder(c, o) PROVE BestIsFirst'
    BY <1>3, BestStays DEF CancelGetOrder, AInv
<1>4. ASSUME NEW o \in OrderIds, Process(o) PROVE BestIsFirst'
    <2>1. CASE PeekBest(o)
        <3>1. pc'[o] = "taking" /\ UNCHANGED <<order, book>>
            BY <2>1 DEF PeekBest, Goto, AInv, FInv, IInv, TypeOK
        <3>2. \A x \in OrderIds \ {o} : pc'[x] # "taking"
            BY <3>1 DEF CallsAlone, Processing
        <3>3. \/ BestOf(Opposite(order[o].side)) = {} /\ best'[o] = NoOrder
              \/ best'[o] \in BestOf(Opposite(order[o].side)) /\ best'[o] # NoOrder
            BY <2>1, OrderIdsAssumption DEF PeekBest, BestOf, NoOrder, AInv, FInv, IInv, TypeOK
        <3>4. PICK side : side = Opposite(order[o].side)
            OBVIOUS
        <3>5. BestOf(side)' = BestOf(side) /\ side = Opposite(order'[o].side)
            BY <3>1, <3>4 DEF BestOf
        <3> QED BY <3>1, <3>2, <3>3, <3>4, <3>5 DEF BestIsFirst
    <2>2. CASE ~PeekBest(o)
        <3>1. pc[o] \in Processing
            BY <1>4 DEF Process, ValidateBalance, LockFunds, PeekBest, PlaceRemainder, TakeBest,
                        SettleTrade, RecordTrade, ReleaseResidual, Processing
        <3>2. pc'[o] # "taking" /\ \A x \in OrderIds \ {o} : pc'[x] = pc[x]
            BY <1>4, <2>2 DEF Process, ValidateBalance, LockFunds, PlaceRemainder, TakeBest, SettleTrade,
                              RecordTrade, ReleaseResidual, Goto, AInv, FInv, IInv, TypeOK
        <3>3. \A x \in OrderIds : pc'[x] # "taking"
            BY <3>1, <3>2 DEF AInv, CallsAlone, Processing
        <3> QED BY <3>3 DEF BestIsFirst
    <2> QED BY <2>1, <2>2
<1>5. ASSUME NEW c \in Cancels, ProcessCancel(c) PROVE BestIsFirst'
    <2>1. cancel[c].at \in Cancelling /\ pc' = pc
        BY <1>5 DEF ProcessCancel, CancelUnlockFunds, CancelRemove, Cancelling
    <2>2. \A x \in OrderIds : pc'[x] # "taking"
        BY <2>1 DEF AInv, MInv, CancelsAlone, Processing
    <2> QED BY <2>2 DEF BestIsFirst
<1> QED BY <1>1, <1>2, <1>3, <1>4, <1>5 DEF Next, Arrive

\* Orders are placed one after the other, each once.
LEMMA PlacedStaysInTurn ==
    ASSUME AInv, IInv', Next
    PROVE  PlacedInTurn'
<1>1. CASE \E o \in OrderIds : PlaceRemainder(o)
    <2>1. PICK o \in OrderIds : PlaceRemainder(o)
        BY <1>1
    <2>2. /\ pc[o] = "taking" /\ pc'[o] = "open" /\ \A x \in OrderIds \ {o} : pc'[x] = pc[x]
          /\ placements' = placements + 1
          /\ order'[o].placedAt = placements + 1 /\ \A x \in OrderIds \ {o} : order'[x] = order[x]
        BY <2>1 DEF PlaceRemainder, Goto, AInv, FInv, IInv, TypeOK, Order
    <2>3. Placed' = Placed \cup {o} /\ o \notin Placed
        BY <2>2 DEF Placed
    <2>4. IsFiniteSet(Placed)
        BY FiniteAssumption, FS_Subset DEF Placed
    <2>5. Cardinality(Placed') = Cardinality(Placed) + 1
        BY <2>3, <2>4, FS_AddElement
    <2>6. placements \in Nat /\ \A x \in OrderIds : order[x].placedAt \in Nat
        BY DEF AInv, FInv, IInv, TypeOK, Order
    <2> QED BY <2>2, <2>5, <2>6 DEF AInv, PlacedInTurn
<1>2. CASE ~\E o \in OrderIds : PlaceRemainder(o)
    <2>1. placements' = placements
        <3>1. ASSUME Arrive PROVE placements' = placements
            BY <3>1 DEF Arrive, Deposit, Submit, CancelGetOrder
        <3>2. ASSUME NEW o \in OrderIds, Process(o) PROVE placements' = placements
            BY <1>2, <3>2 DEF Process, ValidateBalance, LockFunds, PeekBest, TakeBest, SettleTrade,
                              RecordTrade, ReleaseResidual
        <3>3. ASSUME NEW c \in Cancels, ProcessCancel(c) PROVE placements' = placements
            BY <3>3 DEF ProcessCancel, CancelUnlockFunds, CancelRemove
        <3> QED BY <3>1, <3>2, <3>3 DEF Next
    <2>2. \A x \in OrderIds : pc'[x] = "open" <=> pc[x] = "open"
        <3>1. ASSUME NEW o \in OrderIds, NEW u \in Users, NEW s \in Sides, NEW p \in Prices,
                     NEW q \in Quantities, NEW now \in {clock, clock + 1}, Submit(o, u, s, p, q, now)
              PROVE  \A x \in OrderIds : pc'[x] = "open" <=> pc[x] = "open"
            BY <3>1 DEF Submit, Goto, AInv, FInv, IInv, TypeOK
        <3>2. ASSUME NEW o \in OrderIds, Process(o)
              PROVE  \A x \in OrderIds : pc'[x] = "open" <=> pc[x] = "open"
            BY <1>2, <3>2 DEF Process, ValidateBalance, LockFunds, PeekBest, TakeBest, SettleTrade,
                              RecordTrade, ReleaseResidual, Goto, AInv, FInv, IInv, TypeOK
        <3>3. ASSUME \/ \E u \in Users, a \in Assets : Deposit(u, a)
                     \/ \E c \in Cancels, o \in OrderIds : CancelGetOrder(c, o)
                     \/ \E c \in Cancels : ProcessCancel(c)
              PROVE  pc' = pc
            BY <3>3 DEF Deposit, CancelGetOrder, ProcessCancel, CancelUnlockFunds, CancelRemove
        <3> QED BY <3>1, <3>2, <3>3 DEF Next, Arrive
    <2>3. Placed' = Placed
        BY <2>2 DEF Placed
    <2>4. \A x \in OrderIds : order'[x].placedAt \in {order[x].placedAt, 0}
        <3>1. ASSUME NEW o \in OrderIds, NEW u \in Users, NEW s \in Sides, NEW p \in Prices,
                     NEW q \in Quantities, NEW now \in {clock, clock + 1}, Submit(o, u, s, p, q, now)
              PROVE  \A x \in OrderIds : order'[x].placedAt \in {order[x].placedAt, 0}
            BY <3>1 DEF Submit, AInv, FInv, IInv, TypeOK
        <3>2. ASSUME NEW o \in OrderIds, Process(o)
              PROVE  \A x \in OrderIds : order'[x].placedAt = order[x].placedAt
            <4>1. CASE LockFunds(o)
                BY <4>1 DEF LockFunds, AInv, FInv, IInv, TypeOK, Order
            <4>2. CASE TakeBest(o)
                <5>1. PICK m \in OrderIds : SameTerms(m) /\ \A z \in OrderIds \ {m} : order'[z] = order[z]
                    BY <4>2, MatchTakes DEF AInv, FInv
                <5> QED BY <5>1 DEF SameTerms
            <4>3. CASE RecordTrade(o)
                <5>1. SameTerms(o) /\ \A z \in OrderIds \ {o} : order'[z] = order[z]
                    BY <4>3, TradeRecorded DEF AInv, FInv
                <5> QED BY <5>1 DEF SameTerms
            <4> QED BY <1>2, <3>2, <4>1, <4>2, <4>3 DEF Process, ValidateBalance, PeekBest, SettleTrade, ReleaseResidual
        <3>3. ASSUME \/ \E u \in Users, a \in Assets : Deposit(u, a)
                     \/ \E c \in Cancels, o \in OrderIds : CancelGetOrder(c, o)
                     \/ \E c \in Cancels : ProcessCancel(c)
              PROVE  order' = order
            BY <3>3 DEF Deposit, CancelGetOrder, ProcessCancel, CancelUnlockFunds, CancelRemove
        <3> QED BY <3>1, <3>2, <3>3 DEF Next, Arrive
    <2> QED BY <2>1, <2>2, <2>3, <2>4 DEF AInv, FInv, IInv, TypeOK, PlacedInTurn
<1> QED BY <1>1, <1>2

LEMMA InitAInv == Init => AInv
<1> SUFFICES ASSUME Init PROVE AInv
    OBVIOUS
<1>1. Placed = {}
    BY DEF Init, Placed
<1>2. PlacedInTurn
    BY <1>1, FS_EmptySet DEF Init, PlacedInTurn, BlankOrder
<1>3. CallsAlone /\ BestIsFirst
    BY DEF Init, CallsAlone, BestIsFirst, Processing
<1> QED BY <1>2, <1>3, InitMInv, InitFInv DEF AInv

\* Every step that leaves calls alone keeps the invariant.
LEMMA NextAInv == AInv /\ [Next]_vars /\ CancelsAlone' /\ CallsAlone' => AInv'
<1> SUFFICES ASSUME AInv, [Next]_vars, CancelsAlone', CallsAlone' PROVE AInv'
    OBVIOUS
<1>1. MInv' /\ FInv'
    BY NextMInv, NextFInv DEF AInv
<1>2. CASE Next
    BY <1>1, <1>2, BestStaysFirst, PlacedStaysInTurn DEF AInv, FInv
<1>3. CASE UNCHANGED vars
    <2>1. PlacedInTurn'
        BY <1>3 DEF vars, AInv, PlacedInTurn, Placed
    <2>2. BestIsFirst'
        BY <1>3, BestStays DEF vars, AInv
    <2> QED BY <1>1, <2>1, <2>2 DEF AInv
<1> QED BY <1>2, <1>3

LEMMA SpecAInv == ASSUME MaxInFlight <= 1 PROVE Spec => []AInv
<1>1. AInv /\ [Next]_vars => AInv'
    <2> SUFFICES ASSUME AInv, [Next]_vars PROVE CancelsAlone' /\ CallsAlone'
        BY NextAInv
    <2>1. CASE Next
        BY <2>1, CancelsStayAlone, CallsStayAlone DEF AInv, MInv, CancelsDoNotRace
    <2>2. CASE UNCHANGED vars
        BY <2>2 DEF vars, AInv, MInv, CancelsAlone, CallsAlone
    <2> QED BY <2>1, <2>2
<1> QED BY <1>1, InitAInv, PTL DEF Spec

-----------------------------------------------------------------------------
(* The refinement: what each step is in the market.                        *)

\* What the market sees of an order.
Unseen(o) ==
    /\ TermsOf(o)' = TermsOf(o) /\ TakingOf(o)' = TakingOf(o)
    /\ RestOf(o)' = RestOf(o) /\ BoughtOf(o)' = BoughtOf(o)

\* The market stutters where it sees nothing.
LEMMA MarketStutters ==
    ASSUME \A z \in OrderIds : Unseen(z), told' = told
    PROVE  UNCHANGED AsMarket!marketVars
<1>1. /\ MarketTerms' = MarketTerms /\ MarketTaking' = MarketTaking
      /\ MarketRest' = MarketRest /\ MarketBought' = MarketBought
    BY DEF Unseen, MarketTerms, MarketTaking, MarketRest, MarketBought
<1> QED BY <1>1 DEF AsMarket!marketVars

\* Where it sees one order change, its functions change there.
LEMMA MarketChanges ==
    ASSUME NEW o \in OrderIds
    PROVE  /\ (\A z \in OrderIds \ {o} : TermsOf(z)' = TermsOf(z))
                 => MarketTerms' = [MarketTerms EXCEPT ![o] = TermsOf(o)']
           /\ (\A z \in OrderIds \ {o} : TakingOf(z)' = TakingOf(z))
                 => MarketTaking' = [MarketTaking EXCEPT ![o] = TakingOf(o)']
           /\ (\A z \in OrderIds \ {o} : RestOf(z)' = RestOf(z))
                 => MarketRest' = [MarketRest EXCEPT ![o] = RestOf(o)']
           /\ (\A z \in OrderIds : TermsOf(z)' = TermsOf(z)) => MarketTerms' = MarketTerms
           /\ (\A z \in OrderIds : TakingOf(z)' = TakingOf(z)) => MarketTaking' = MarketTaking
           /\ (\A z \in OrderIds : RestOf(z)' = RestOf(z)) => MarketRest' = MarketRest
           /\ (\A z \in OrderIds : BoughtOf(z)' = BoughtOf(z)) => MarketBought' = MarketBought
BY DEF MarketTerms, MarketTaking, MarketRest, MarketBought

\* Its terms are those the order was submitted with.
LEMMA TermsStay ==
    ASSUME NEW o \in OrderIds, SameTerms(o), pc'[o] = "idle" <=> pc[o] = "idle"
    PROVE  TermsOf(o)' = TermsOf(o)
BY DEF SameTerms, TermsOf

\* What has been bought moves only with trades.
LEMMA BoughtStays ==
    ASSUME UNCHANGED <<trade, traded>>
    PROVE  \A z \in OrderIds : BoughtOf(z)' = BoughtOf(z)
BY DEF BoughtOf, Pending, Takes

\* An order whose call has come in is known to the market.
LEMMA TermsAreKnown ==
    ASSUME IInv, NEW o \in OrderIds, pc[o] # "idle"
    PROVE  /\ MarketTerms[o] # AsMarket!NoTerms
           /\ MarketTerms[o] = [user |-> order[o].user, side |-> order[o].side, price |-> order[o].price,
                                size |-> order[o].size, createdAt |-> order[o].createdAt,
                                placedAt |-> order[o].placedAt]
           /\ MarketTerms[o].side = order[o].side /\ MarketTerms[o].price = order[o].price
           /\ MarketTerms[o].size = order[o].size /\ MarketTerms[o].createdAt = order[o].createdAt
           /\ MarketTerms[o].placedAt = order[o].placedAt
<1>1. MarketTerms[o] = [user |-> order[o].user, side |-> order[o].side, price |-> order[o].price,
                        size |-> order[o].size, createdAt |-> order[o].createdAt,
                        placedAt |-> order[o].placedAt]
    BY DEF MarketTerms, TermsOf
<1>2. MarketTerms[o].size # 0
    BY <1>1, OrdersAssumption DEF IInv, TypeOK, Order
<1>3. AsMarket!NoTerms.size = 0
    BY DEF AsMarket!NoTerms
<1> QED BY <1>1, <1>2, <1>3

\* Outside a trade, what a call may still take is what its order has left.
LEMMA TakingWhenIdle ==
    ASSUME AInv, NEW o \in OrderIds, pc[o] \in Processing \ {"settling", "recording"}
    PROVE  /\ trade[o].quantity = 0 /\ trade[o].resting = NoOrder
           /\ TakingOf(o) = order[o].quantity /\ MarketTaking[o] = order[o].quantity
           /\ order[o].quantity \in Nat /\ (pc[o] # "releasing" => order[o].quantity > 0)
           /\ BoughtOf(o) = traded[o] /\ MarketBought[o] = traded[o]
<1>1. trade[o].quantity = 0 /\ trade[o].resting = NoOrder
    BY DEF AInv, FInv, IInv, TradeUnderWay, Processing, NoTrade
<1>2. order[o].quantity \in Nat /\ (pc[o] # "releasing" => order[o].quantity > 0)
    BY DEF AInv, FInv, IInv, TypeOK, Order, QuantityLeft
<1>3. TakingOf(o) = order[o].quantity /\ MarketTaking[o] = TakingOf(o)
    BY <1>1, <1>2 DEF TakingOf, MarketTaking
<1>4. Pending(o) = 0 /\ traded[o] \in Nat
    BY PendingIsNat DEF AInv, FInv, IInv, TypeOK, Processing
<1>5. BoughtOf(o) = traded[o] /\ MarketBought[o] = BoughtOf(o)
    BY <1>1, <1>4 DEF BoughtOf, MarketBought
<1> QED BY <1>1, <1>2, <1>3, <1>5

\* The market's book is the book.
LEMMA BookIsBook ==
    ASSUME IInv
    PROVE  /\ AsMarket!Book = book
           /\ \A m \in book : MarketRest[m] = order[m].quantity /\ pc[m] = "open"
<1>1. \A m \in book : m \in OrderIds /\ order[m].quantity > 0 /\ pc[m] = "open"
    BY DEF IInv, TypeOK, QuantityLeft, BookIsPlaced
<1>2. \A m \in OrderIds : MarketRest[m] = IF m \in book THEN order[m].quantity ELSE 0
    BY DEF MarketRest, RestOf
<1> QED BY <1>1, <1>2 DEF AsMarket!Book

\* A deposit is not the market's business.
LEMMA DepositInMarket ==
    ASSUME NEW u \in Users, NEW a \in Assets, Deposit(u, a)
    PROVE  UNCHANGED AsMarket!marketVars
<1>1. UNCHANGED <<order, pc, book, trade, traded, told>>
    BY DEF Deposit
<1>2. \A z \in OrderIds : Unseen(z)
    BY <1>1, BoughtStays DEF Unseen, TermsOf, TakingOf, RestOf
<1> QED BY <1>1, <1>2, MarketStutters

\* A submission asks.
LEMMA SubmitInMarket ==
    ASSUME AInv, NEW o \in OrderIds, NEW u \in Users, NEW s \in Sides, NEW p \in Prices,
           NEW q \in Quantities, NEW now \in {clock, clock + 1}, Submit(o, u, s, p, q, now)
    PROVE  AsMarket!MarketNext
<1>1. /\ pc[o] = "idle" /\ pc'[o] = "validating" /\ now \in 0..MaxClock
      /\ order'[o] = [user |-> u, side |-> s, price |-> p, size |-> q, quantity |-> q,
                      lockedAmount |-> Cost(s, p, q), createdAt |-> now, placedAt |-> 0]
      /\ \A z \in OrderIds \ {o} : pc'[z] = pc[z] /\ order'[z] = order[z]
      /\ UNCHANGED <<book, trade, traded, told>>
    <2>1. now \in Nat /\ now <= MaxClock /\ MaxClock \in Nat
        BY BoundsAssumption DEF Submit, AInv, FInv, IInv, TypeOK
    <2> QED BY <2>1 DEF Submit, Goto, AInv, FInv, IInv, TypeOK
<1>2. o \notin book /\ trade[o].quantity = 0
    BY <1>1, NobodyRefers DEF AInv, FInv, IInv, TradeUnderWay, NoTrade
<1>3. \A z \in OrderIds \ {o} : TermsOf(z)' = TermsOf(z) /\ TakingOf(z)' = TakingOf(z)
    BY <1>1 DEF TermsOf, TakingOf
<1>4. \A z \in OrderIds : RestOf(z)' = RestOf(z) /\ BoughtOf(z)' = BoughtOf(z)
    BY <1>1, <1>2, BoughtStays DEF RestOf
<1>5. MarketTerms[o] = AsMarket!NoTerms
    BY <1>1 DEF MarketTerms, TermsOf, AsMarket!NoTerms
<1>6. TermsOf(o)' = [user |-> u, side |-> s, price |-> p, size |-> q, createdAt |-> now, placedAt |-> 0]
    BY <1>1 DEF TermsOf
<1>7. TakingOf(o)' = q
    BY <1>1, <1>2, OrdersAssumption DEF TakingOf, Processing
<1>8. AsMarket!Ask(o, u, s, p, q, now)
    BY <1>1, <1>3, <1>4, <1>5, <1>6, <1>7, MarketChanges DEF AsMarket!Ask
<1> QED BY <1>1, <1>8 DEF AsMarket!MarketNext, Sides, AsMarket!Sides

\* A validation that fails, and a lock that fails, refuse.
LEMMA RefusedInMarket ==
    ASSUME AInv, NEW o \in OrderIds, pc[o] \in {"validating", "locking"}, pc' = [pc EXCEPT ![o] = "rejected"],
           UNCHANGED <<book, trade, traded>>, told' = told \/ Tell(o, "FAILED"),
           SameTerms(o), \A z \in OrderIds \ {o} : order'[z] = order[z],
           order'[o].quantity = order[o].quantity
    PROVE  AsMarket!MarketNext
<1>1. pc'[o] = "rejected" /\ \A z \in OrderIds \ {o} : pc'[z] = pc[z]
    BY DEF AInv, FInv, IInv, TypeOK
<1>2. \A z \in OrderIds : TermsOf(z)' = TermsOf(z)
    <2>1. TermsOf(o)' = TermsOf(o)
        BY <1>1, TermsStay
    <2> QED BY <1>1, <2>1 DEF TermsOf
<1>3. \A z \in OrderIds \ {o} : TakingOf(z)' = TakingOf(z)
    BY <1>1 DEF TakingOf
<1>4. \A z \in OrderIds : RestOf(z)' = RestOf(z) /\ BoughtOf(z)' = BoughtOf(z)
    BY BoughtStays DEF RestOf
<1>5. TakingOf(o)' = 0
    BY <1>1 DEF TakingOf, Processing
<1>6. MarketTaking[o] > 0 /\ MarketBought[o] = 0
    <2>1. traded[o] = 0
        BY DEF AInv, FInv, Accounted
    <2> QED BY <2>1, TakingWhenIdle DEF Processing
<1>7. told' = told \/ AsMarket!Says(o, "FAILED")
    BY DEF Tell, AsMarket!Says
<1>8. AsMarket!Refuse(o)
    BY <1>2, <1>3, <1>4, <1>5, <1>6, <1>7, MarketChanges DEF AsMarket!Refuse
<1> QED BY <1>8 DEF AsMarket!MarketNext

\* A call that goes on with the same order, book and trades does nothing yet.
LEMMA GoesOnInMarket ==
    ASSUME AInv, NEW o \in OrderIds, pc[o] \in Processing, NEW to \in Processing,
           pc' = [pc EXCEPT ![o] = to], UNCHANGED <<book, trade, traded, told>>,
           SameTerms(o), \A z \in OrderIds \ {o} : order'[z] = order[z],
           order'[o].quantity = order[o].quantity
    PROVE  UNCHANGED AsMarket!marketVars
<1>1. pc'[o] = to /\ to # "idle" /\ pc[o] # "idle" /\ \A z \in OrderIds \ {o} : pc'[z] = pc[z]
    BY DEF AInv, FInv, IInv, TypeOK, Processing
<1>2. o \notin book
    BY NobodyRefers DEF AInv, FInv, Processing
<1>3. Unseen(o)
    BY <1>1, <1>2, TermsStay, BoughtStays DEF Unseen, TakingOf, RestOf
<1>4. \A z \in OrderIds \ {o} : Unseen(z)
    BY <1>1, BoughtStays DEF Unseen, TermsOf, TakingOf, RestOf
<1> QED BY <1>3, <1>4, MarketStutters

LEMMA ValidateBalanceInMarket ==
    ASSUME AInv, NEW o \in OrderIds, ValidateBalance(o)
    PROVE  AsMarket!MarketNext \/ UNCHANGED AsMarket!marketVars
<1>1. pc[o] = "validating" /\ UNCHANGED <<order, book, trade, traded>> /\ SameTerms(o)
    BY DEF ValidateBalance, SameTerms
<1>2. \/ pc' = [pc EXCEPT ![o] = "locking"] /\ told' = told
      \/ pc' = [pc EXCEPT ![o] = "rejected"] /\ Tell(o, "FAILED")
    BY DEF ValidateBalance, Goto
<1> QED BY <1>1, <1>2, RefusedInMarket, GoesOnInMarket DEF Processing

LEMMA LockFundsInMarket ==
    ASSUME AInv, NEW o \in OrderIds, LockFunds(o)
    PROVE  AsMarket!MarketNext \/ UNCHANGED AsMarket!marketVars
<1>1. /\ pc[o] = "locking" /\ UNCHANGED <<book, trade, traded, told>>
      /\ SameTerms(o) /\ order'[o].quantity = order[o].quantity
      /\ \A z \in OrderIds \ {o} : order'[z] = order[z]
    BY DEF LockFunds, SameTerms, AInv, FInv, IInv, TypeOK, Order
<1>2. pc' = [pc EXCEPT ![o] = "peeking"] \/ pc' = [pc EXCEPT ![o] = "rejected"]
    BY DEF LockFunds, Goto
<1> QED BY <1>1, <1>2, RefusedInMarket, GoesOnInMarket DEF Processing

LEMMA PeekBestInMarket ==
    ASSUME AInv, NEW o \in OrderIds, PeekBest(o)
    PROVE  UNCHANGED AsMarket!marketVars
<1>1. /\ pc[o] = "peeking" /\ UNCHANGED <<order, book, trade, traded, told>> /\ SameTerms(o)
      /\ pc' = [pc EXCEPT ![o] = "taking"]
    BY DEF PeekBest, Goto, SameTerms
<1> QED BY <1>1, GoesOnInMarket DEF Processing

\* The order read as best is, for the market, first among those of its side;
\* two orders of a side that are both first have one price.
LEMMA FirstHaveOnePrice ==
    ASSUME IInv, NEW side \in Sides, NEW m \in BestOf(side), NEW n \in BestOf(side)
    PROVE  order[m].price = order[n].price
<1>1. m \in book /\ n \in book /\ order[m].side = side /\ order[n].side = side
    BY DEF BestOf
<1>2. order[m].price \in Nat /\ order[n].price \in Nat
    BY <1>1, OrdersAssumption DEF IInv, TypeOK, Order
<1>3. ~TradesBefore(order[m], order[n]) /\ ~TradesBefore(order[n], order[m])
    BY <1>1 DEF BestOf
<1> QED BY <1>1, <1>2, <1>3 DEF TradesBefore, Precedes, Sides

\* Counterparties are the best orders that cross.
LEMMA CounterpartiesAreBest ==
    ASSUME AInv, NEW o \in OrderIds, pc[o] # "idle"
    PROVE  AsMarket!Counterparties(o)
             = {m \in BestOf(Opposite(order[o].side)) : PricesCross(order[o], order[m])}
<1>1. AsMarket!Book = book /\ book \subseteq OrderIds /\ \A m \in book : pc[m] = "open"
    BY BookIsBook DEF AInv, FInv, IInv, TypeOK
<1>2. \A m \in book \cup {o} :
        /\ MarketTerms[m].side = order[m].side /\ MarketTerms[m].price = order[m].price
        /\ MarketTerms[m].createdAt = order[m].createdAt /\ MarketTerms[m].placedAt = order[m].placedAt
    BY <1>1, TermsAreKnown DEF AInv, FInv
<1>3. \A m \in book : PricesCross(MarketTerms[o], MarketTerms[m]) <=> PricesCross(order[o], order[m])
    BY <1>2 DEF PricesCross
<1>4. \A m, n \in book : TradesBefore(MarketTerms[n], MarketTerms[m]) <=> TradesBefore(order[n], order[m])
    BY <1>2 DEF TradesBefore, Precedes
<1>5. AsMarket!Counterparties(o)
        = {m \in book : /\ MarketTerms[m].side = Opposite(MarketTerms[o].side)
                        /\ PricesCross(MarketTerms[o], MarketTerms[m])
                        /\ \A n \in book : MarketTerms[n].side = MarketTerms[m].side
                                              => ~TradesBefore(MarketTerms[n], MarketTerms[m])}
    BY <1>1 DEF AsMarket!Counterparties, PricesCross, AsMarket!PricesCross, TradesBefore, AsMarket!TradesBefore,
               Precedes, AsMarket!Precedes, Opposite, AsMarket!Opposite
<1>6. AsMarket!Counterparties(o)
        = {m \in book : /\ order[m].side = Opposite(order[o].side)
                        /\ PricesCross(order[o], order[m])
                        /\ \A n \in book : order[n].side = order[m].side => ~TradesBefore(order[n], order[m])}
    BY <1>2, <1>3, <1>4, <1>5
<1> QED BY <1>6 DEF BestOf

\* What is left comes to rest: the order read as best did not cross, and so
\* none that is first does.
LEMMA PlaceRemainderInMarket ==
    ASSUME AInv, AInv', NEW o \in OrderIds, PlaceRemainder(o)
    PROVE  AsMarket!MarketNext
<1>1. /\ pc[o] = "taking" /\ pc'[o] = "open" /\ \A z \in OrderIds \ {o} : pc'[z] = pc[z]
      /\ order'[o] = [order[o] EXCEPT !.placedAt = placements + 1]
      /\ \A z \in OrderIds \ {o} : order'[z] = order[z]
      /\ book' = book \cup {o} /\ placements' = placements + 1 /\ ~CanTake(o)
      /\ UNCHANGED <<trade, traded>> /\ Tell(o, "PARTIALLY_FILLED")
    BY DEF PlaceRemainder, Goto, AInv, FInv, IInv, TypeOK
<1>2. AsMarket!Counterparties(o) = {}
    <2>1. PICK side \in Sides : side = Opposite(order[o].side)
        BY DEF Opposite, Sides
    <2>2. ASSUME NEW m \in AsMarket!Counterparties(o) PROVE FALSE
        <3>1. m \in BestOf(side) /\ PricesCross(order[o], order[m])
            BY <1>1, <2>1, <2>2, CounterpartiesAreBest
        <3>2. best[o] # NoOrder /\ best[o] \in BestOf(side)
            BY <1>1, <2>1, <3>1 DEF AInv, BestIsFirst
        <3>3. order[m].price = order[best[o]].price
            BY <3>1, <3>2, FirstHaveOnePrice DEF AInv, FInv
        <3>4. CanTake(o)
            BY <3>1, <3>2, <3>3 DEF CanTake, PricesCross, BestOf
        <3> QED BY <1>1, <3>4
    <2> QED BY <2>2
<1>3. placements + 1 \in 1..Cardinality(OrderIds)
    <2>1. Placed' \subseteq OrderIds
        BY DEF Placed
    <2>2. Cardinality(Placed') <= Cardinality(OrderIds) /\ Cardinality(OrderIds) \in Nat
        BY <2>1, FiniteAssumption, FS_Subset, FS_CardinalityType
    <2>3. placements + 1 = Cardinality(Placed') /\ placements \in Nat
        BY <1>1 DEF AInv, PlacedInTurn, FInv, IInv, TypeOK
    <2> QED BY <2>2, <2>3
<1>4. \A m \in AsMarket!Book : MarketTerms[m].placedAt < placements + 1
    <2> SUFFICES ASSUME NEW m \in AsMarket!Book PROVE MarketTerms[m].placedAt < placements + 1
        OBVIOUS
    <2>1. m \in OrderIds /\ pc[m] = "open"
        BY BookIsBook DEF AInv, FInv, IInv, TypeOK
    <2>2. MarketTerms[m].placedAt = order[m].placedAt
        BY <2>1, TermsAreKnown DEF AInv, FInv
    <2>3. order[m].placedAt <= placements /\ order[m].placedAt \in Nat /\ placements \in Nat
        BY <2>1 DEF AInv, PlacedInTurn, FInv, IInv, TypeOK, Order
    <2> QED BY <2>2, <2>3
<1>5. /\ trade[o].quantity = 0 /\ MarketTaking[o] = order[o].quantity /\ MarketTaking[o] > 0
    BY <1>1, TakingWhenIdle DEF Processing
<1>6. /\ TermsOf(o)' = [MarketTerms[o] EXCEPT !.placedAt = placements + 1]
      /\ TakingOf(o)' = 0 /\ RestOf(o)' = MarketTaking[o]
    <2>1. order[o] \in Order /\ MarketTerms[o] = TermsOf(o)
        BY DEF AInv, FInv, IInv, TypeOK, MarketTerms
    <2>2. TermsOf(o)' = [TermsOf(o) EXCEPT !.placedAt = placements + 1]
        BY <1>1, <2>1 DEF TermsOf, Order
    <2>3. TakingOf(o)' = 0 /\ RestOf(o)' = order[o].quantity
        BY <1>1, <2>1 DEF TakingOf, RestOf, Processing, Order
    <2> QED BY <1>5, <2>1, <2>2, <2>3
<1>7. \A z \in OrderIds \ {o} : TermsOf(z)' = TermsOf(z) /\ TakingOf(z)' = TakingOf(z) /\ RestOf(z)' = RestOf(z)
    BY <1>1 DEF TermsOf, TakingOf, RestOf
<1>8. MarketBought' = MarketBought
    BY <1>1, BoughtStays DEF MarketBought
<1>9. /\ MarketTerms' = [MarketTerms EXCEPT ![o].placedAt = placements + 1]
      /\ MarketTaking' = [MarketTaking EXCEPT ![o] = 0]
      /\ MarketRest' = [MarketRest EXCEPT ![o] = MarketTaking[o]]
    BY <1>6, <1>7, MarketChanges
<1>10. AsMarket!ComesToRest(o, placements + 1)
    BY <1>1, <1>2, <1>4, <1>5, <1>8, <1>9 DEF AsMarket!ComesToRest, AsMarket!Says, Tell
<1>11. \E turn \in 1..Cardinality(OrderIds) : AsMarket!ComesToRest(o, turn)
    BY <1>3, <1>10
<1> QED BY <1>11 DEF AsMarket!MarketNext, Cardinality, AsMarket!Cardinality

\* A match is a deal with an order that is first.
LEMMA TakeBestInMarket ==
    ASSUME AInv, AInv', NEW o \in OrderIds, TakeBest(o)
    PROVE  AsMarket!MarketNext
<1>1. PICK m \in OrderIds \ {o}, price \in Nat, qty \in Nat \ {0} :
        /\ m = best[o] /\ qty = LesserOf(order[o].quantity, order[m].quantity)
        /\ m \in book /\ pc[m] = "open" /\ pc[o] = "taking"
        /\ trade' = [trade EXCEPT ![o] = [resting |-> m, price |-> price, quantity |-> qty]]
        /\ pc' = [pc EXCEPT ![o] = "settling"]
        /\ \A z \in OrderIds \ {m} : order'[z] = order[z]
        /\ SameTerms(m)
        /\ \/ book' = book /\ order'[m].quantity = order[m].quantity - qty
           \/ book' = book \ {m} /\ order' = order /\ order[m].quantity = qty
        /\ traded' = traded /\ told' = told
    BY MatchTakes DEF AInv, FInv
<1>2. /\ trade[o].resting = NoOrder /\ trade'[o].resting = m /\ trade'[o].quantity = qty
      /\ \A t \in OrderIds \ {o} : trade'[t] = trade[t]
      /\ pc'[o] = "settling" /\ \A z \in OrderIds \ {o} : pc'[z] = pc[z]
    BY <1>1 DEF AInv, FInv, IInv, TypeOK, TradeUnderWay, NoTrade
<1>3. m \in AsMarket!Counterparties(o)
    <2>1. m \in BestOf(Opposite(order[o].side))
        BY <1>1, OrderIdsAssumption DEF AInv, BestIsFirst, NoOrder
    <2>2. PricesCross(order[o], order[m])
        BY <1>1 DEF TakeBest, CanTake
    <2> QED BY <1>1, <2>1, <2>2, CounterpartiesAreBest
<1>4. /\ trade[o].quantity = 0 /\ MarketTaking[o] = order[o].quantity /\ MarketTaking[o] > 0
      /\ order[o].quantity \in Nat
    BY <1>1, TakingWhenIdle DEF Processing
<1>5. MarketRest[m] = order[m].quantity /\ order[m].quantity \in Nat
    BY <1>1, BookIsBook DEF AInv, FInv, IInv, TypeOK, Order
<1>6. qty = LesserOf(MarketTaking[o], MarketRest[m])
    BY <1>1, <1>4, <1>5
<1>7. \A z \in OrderIds : TermsOf(z)' = TermsOf(z)
    <2>1. TermsOf(m)' = TermsOf(m)
        BY <1>1, <1>2, TermsStay
    <2>2. ASSUME NEW z \in OrderIds \ {m} PROVE TermsOf(z)' = TermsOf(z)
        BY <1>1, <1>2 DEF TermsOf
    <2> QED BY <2>1, <2>2
<1>8. /\ TakingOf(o)' = MarketTaking[o] - qty
      /\ \A z \in OrderIds \ {o} : TakingOf(z)' = TakingOf(z)
    <2>1. TakingOf(o)' = MarketTaking[o] - qty
        BY <1>1, <1>2, <1>4 DEF TakingOf, Processing
    <2>2. TakingOf(m)' = TakingOf(m)
        BY <1>1, <1>2 DEF TakingOf, Processing
    <2>3. ASSUME NEW z \in OrderIds \ {o, m} PROVE TakingOf(z)' = TakingOf(z)
        BY <1>1, <1>2 DEF TakingOf
    <2> QED BY <2>1, <2>2, <2>3
<1>9. /\ RestOf(m)' = MarketRest[m] - qty
      /\ \A z \in OrderIds \ {m} : RestOf(z)' = RestOf(z)
    BY <1>1, <1>5 DEF RestOf
<1>10. MarketBought' = [MarketBought EXCEPT ![o] = @ + qty, ![m] = @ + qty]
    <2>1. ASSUME NEW z \in OrderIds
          PROVE  /\ Pending(z)' = Pending(z) + (IF z = m THEN qty ELSE 0)
                 /\ Pending(z) \in Nat /\ traded[z] \in Nat /\ trade[z].quantity \in Nat
        <3>1. z # NoOrder
            BY OrderIdsAssumption DEF NoOrder
        <3>2. /\ Pending(z)' + 0 = Pending(z) + (IF z = m THEN qty ELSE 0)
              /\ Pending(z)' \in Nat /\ Pending(z) \in Nat
            BY <1>2, <3>1, PendingMoves DEF AInv, FInv
        <3>3. traded[z] \in Nat /\ trade[z].quantity \in Nat
            BY DEF AInv, FInv, IInv, TypeOK, Trade
        <3> QED BY <3>2, <3>3
    <2>2. ASSUME NEW z \in OrderIds
          PROVE  BoughtOf(z)' = IF z = o \/ z = m THEN BoughtOf(z) + qty ELSE BoughtOf(z)
        <3>1. trade'[z].quantity = IF z = o THEN trade[z].quantity + qty ELSE trade[z].quantity
            BY <1>2, <1>4
        <3> QED BY <1>1, <2>1, <3>1 DEF BoughtOf
    <2> QED BY <1>1, <2>2 DEF MarketBought
<1>11. /\ MarketTerms' = MarketTerms
       /\ MarketTaking' = [MarketTaking EXCEPT ![o] = @ - qty]
       /\ MarketRest' = [MarketRest EXCEPT ![m] = @ - qty]
    BY <1>1, <1>7, <1>8, <1>9, MarketChanges
<1>12. AsMarket!Deal(o, m)
    BY <1>1, <1>6, <1>10, <1>11 DEF AsMarket!Deal, LesserOf, AsMarket!LesserOf
<1> QED BY <1>3, <1>4, <1>12 DEF AsMarket!MarketNext

\* The money moves after the deal.
LEMMA SettleTradeInMarket ==
    ASSUME AInv, NEW o \in OrderIds, SettleTrade(o)
    PROVE  UNCHANGED AsMarket!marketVars
<1>1. pc' = [pc EXCEPT ![o] = "recording"]
    BY SettlementSucceeds DEF AInv
<1>2. /\ pc[o] = "settling" /\ SameTerms(o) /\ UNCHANGED <<order, book, trade, traded, told>>
    BY DEF SettleTrade, SameTerms
<1> QED BY <1>1, <1>2, GoesOnInMarket DEF Processing

\* So do the records: what was pending has traded.
LEMMA RecordTradeInMarket ==
    ASSUME AInv, AInv', NEW o \in OrderIds, RecordTrade(o)
    PROVE  UNCHANGED AsMarket!marketVars
<1>1. PICK m \in OrderIds \ {o}, qty \in Nat \ {0} :
        m = trade[o].resting /\ qty = trade[o].quantity /\ pc[m] = "open"
    BY TradeIsPaidFor DEF RecordTrade, AInv, FInv
<1>2. /\ pc[o] = "recording" /\ pc'[o] \in {"peeking", "releasing"}
      /\ SameTerms(o) /\ order'[o].quantity = order[o].quantity - qty
      /\ trade'[o] = NoTrade
      /\ \A z \in OrderIds \ {o} : pc'[z] = pc[z] /\ order'[z] = order[z] /\ trade'[z] = trade[z]
      /\ book' = book /\ told' = told
    BY <1>1, TradeRecorded DEF AInv, FInv
<1>3. traded'[o] = traded[o] + qty /\ traded'[m] = traded[m] + qty
      /\ \A z \in OrderIds \ {o, m} : traded'[z] = traded[z]
    BY <1>1 DEF RecordTrade, AInv, FInv, IInv, TypeOK
<1>4. o \notin book
    BY <1>2, NobodyRefers DEF AInv, FInv
<1>5. \A z \in OrderIds : TermsOf(z)' = TermsOf(z) /\ TakingOf(z)' = TakingOf(z) /\ RestOf(z)' = RestOf(z)
    <2>1. TermsOf(o)' = TermsOf(o)
        BY <1>2, TermsStay
    <2>2. TakingOf(o)' = TakingOf(o)
        <3>1. order[o].quantity \in Nat /\ order'[o].quantity \in Nat
            BY DEF AInv, FInv, IInv, TypeOK, Order
        <3> QED BY <1>1, <1>2, <3>1 DEF TakingOf, Processing, NoTrade
    <2>3. RestOf(o)' = RestOf(o)
        BY <1>2, <1>4 DEF RestOf
    <2>4. ASSUME NEW z \in OrderIds \ {o}
          PROVE  TermsOf(z)' = TermsOf(z) /\ TakingOf(z)' = TakingOf(z) /\ RestOf(z)' = RestOf(z)
        BY <1>2 DEF TermsOf, TakingOf, RestOf
    <2> QED BY <2>1, <2>2, <2>3, <2>4
<1>6. ASSUME NEW z \in OrderIds PROVE BoughtOf(z)' = BoughtOf(z)
    <2>1. z # NoOrder /\ trade'[o].resting = NoOrder /\ trade'[o].quantity = 0
        BY <1>2, OrderIdsAssumption DEF NoOrder, NoTrade
    <2>2. /\ Pending(z)' + (IF z = m THEN qty ELSE 0) = Pending(z) + 0
          /\ Pending(z)' \in Nat /\ Pending(z) \in Nat
        BY <1>1, <1>2, <2>1, PendingMoves DEF AInv, FInv
    <2>3. traded[z] \in Nat /\ traded'[z] \in Nat /\ trade[z].quantity \in Nat
        BY DEF AInv, FInv, IInv, TypeOK, Trade
    <2>4. traded'[z] = traded[z] + (IF z = o \/ z = m THEN qty ELSE 0)
        BY <1>1, <1>3, <2>3
    <2>5. trade'[z].quantity = IF z = o THEN 0 ELSE trade[z].quantity
        BY <1>2, <2>1
    <2> QED BY <1>1, <2>2, <2>3, <2>4, <2>5 DEF BoughtOf
<1> QED BY <1>2, <1>5, <1>6, MarketStutters DEF Unseen

\* A taker filled whole is announced as filled, and was.
LEMMA ReleaseResidualInMarket ==
    ASSUME AInv, NEW o \in OrderIds, ReleaseResidual(o)
    PROVE  AsMarket!MarketNext
<1>1. /\ pc[o] = "releasing" /\ pc'[o] = "filled" /\ \A z \in OrderIds \ {o} : pc'[z] = pc[z]
      /\ UNCHANGED <<order, book, trade, traded>> /\ Tell(o, "FILLED")
    <2>1. pc' = [pc EXCEPT ![o] = "filled"]
        BY ReleaseSucceeds DEF AInv
    <2>2. pc'[o] = "filled" /\ \A z \in OrderIds \ {o} : pc'[z] = pc[z]
        BY <2>1 DEF AInv, FInv, IInv, TypeOK
    <2> QED BY <2>1, <2>2 DEF ReleaseResidual, Goto
<1>2. order[o].quantity = 0 /\ traded[o] = order[o].size
    <2>1. order[o].quantity = 0 /\ traded[o] + Pending(o) + order[o].quantity = order[o].size
        BY <1>1 DEF AInv, FInv, Accounted, Processing
    <2>2. Pending(o) = 0 /\ traded[o] \in Nat
        BY <1>1, PendingIsNat DEF AInv, FInv, IInv, TypeOK
    <2> QED BY <2>1, <2>2
<1>3. /\ MarketBought[o] = order[o].size /\ TakingOf(o) = 0
    BY <1>1, <1>2, TakingWhenIdle DEF Processing
<1>4. /\ MarketTerms[o] # AsMarket!NoTerms /\ MarketTerms[o].placedAt = 0
      /\ MarketTerms[o].size = order[o].size
    BY <1>1, TermsAreKnown DEF AInv, FInv, PlacedInTurn
<1>5. \A z \in OrderIds : Unseen(z)
    <2>1. TakingOf(o)' = 0
        BY <1>1 DEF TakingOf, Processing
    <2>2. \A z \in OrderIds : TermsOf(z)' = TermsOf(z) /\ RestOf(z)' = RestOf(z) /\ BoughtOf(z)' = BoughtOf(z)
        BY <1>1, BoughtStays DEF TermsOf, RestOf
    <2>3. \A z \in OrderIds \ {o} : TakingOf(z)' = TakingOf(z)
        BY <1>1 DEF TakingOf
    <2> QED BY <1>3, <2>1, <2>2, <2>3 DEF Unseen
<1>6. UNCHANGED <<MarketTerms, MarketTaking, MarketRest, MarketBought>>
    BY <1>5, MarketChanges DEF Unseen
<1>7. AsMarket!FilledOnArrival(o)
    BY <1>1, <1>3, <1>4, <1>6 DEF AsMarket!FilledOnArrival, AsMarket!Says, Tell
<1> QED BY <1>7 DEF AsMarket!MarketNext

\* Finding an order to cancel says nothing; not finding it says so.
LEMMA CancelGetOrderInMarket ==
    ASSUME AInv, NEW c \in Cancels, NEW o \in OrderIds, CancelGetOrder(c, o)
    PROVE  AsMarket!MarketNext \/ UNCHANGED AsMarket!marketVars
<1>1. UNCHANGED <<order, book, pc, trade, traded>> /\ pc[o] # "idle"
    BY DEF CancelGetOrder
<1>2. \A z \in OrderIds : Unseen(z)
    BY <1>1, BoughtStays DEF Unseen, TermsOf, TakingOf, RestOf
<1>3. UNCHANGED <<MarketTerms, MarketTaking, MarketRest, MarketBought>>
    BY <1>2, MarketChanges DEF Unseen
<1>4. CASE told' = told
    BY <1>2, <1>4, MarketStutters
<1>5. CASE o \notin book /\ Tell(o, "FAILED")
    <2>1. o \notin AsMarket!Book /\ MarketTerms[o] # AsMarket!NoTerms
        BY <1>1, <1>5, BookIsBook, TermsAreKnown DEF AInv, FInv
    <2>2. AsMarket!RefuseWithdrawal(o)
        BY <1>3, <1>5, <2>1 DEF AsMarket!RefuseWithdrawal, AsMarket!Says, Tell
    <2> QED BY <2>2 DEF AsMarket!MarketNext
<1> QED BY <1>4, <1>5 DEF CancelGetOrder

\* The lock goes back before the order leaves the market.
LEMMA CancelUnlockFundsInMarket ==
    ASSUME NEW c \in Cancels, CancelUnlockFunds(c)
    PROVE  UNCHANGED AsMarket!marketVars
<1>1. UNCHANGED <<order, book, pc, trade, traded, told>>
    BY DEF CancelUnlockFunds
<1>2. \A z \in OrderIds : Unseen(z)
    BY <1>1, BoughtStays DEF Unseen, TermsOf, TakingOf, RestOf
<1> QED BY <1>1, <1>2, MarketStutters

\* An order that is removed is still there to be withdrawn.
LEMMA CancelRemoveInMarket ==
    ASSUME AInv, NEW c \in Cancels, CancelRemove(c)
    PROVE  AsMarket!MarketNext
<1>1. PICK o \in book : o = cancel[c].order
    BY DEF CancelRemove, AInv, MInv, CancelsAlone, Cancelling
<1>2. o \in OrderIds /\ o \in AsMarket!Book
    BY BookIsBook DEF AInv, FInv, IInv, TypeOK
<1>3. /\ book' = book \ {o} /\ Tell(o, "CANCELLED")
      /\ UNCHANGED <<order, pc, trade, traded>>
    BY <1>1 DEF CancelRemove, BookWithout
<1>4. /\ RestOf(o)' = 0
      /\ \A z \in OrderIds \ {o} : RestOf(z)' = RestOf(z)
      /\ \A z \in OrderIds : TermsOf(z)' = TermsOf(z) /\ TakingOf(z)' = TakingOf(z) /\ BoughtOf(z)' = BoughtOf(z)
    BY <1>3, BoughtStays DEF RestOf, TermsOf, TakingOf
<1>5. MarketRest' = [MarketRest EXCEPT ![o] = 0] /\ UNCHANGED <<MarketTerms, MarketTaking, MarketBought>>
    BY <1>2, <1>4, MarketChanges
<1>6. AsMarket!Withdraw(o)
    BY <1>2, <1>3, <1>5 DEF AsMarket!Withdraw, AsMarket!Says, Tell
<1> QED BY <1>2, <1>6 DEF AsMarket!MarketNext

-----------------------------------------------------------------------------

LEMMA InitInMarket == Init => AsMarket!MarketInit
<1> SUFFICES ASSUME Init PROVE AsMarket!MarketInit
    OBVIOUS
<1>1. IInv
    BY InitIInv
<1>2. ASSUME NEW o \in OrderIds
      PROVE  TermsOf(o) = [size |-> 0] /\ TakingOf(o) = 0 /\ RestOf(o) = 0 /\ BoughtOf(o) = 0
    <2>1. pc[o] = "idle" /\ traded[o] = 0 /\ trade[o].quantity = 0 /\ o \notin book
        BY DEF Init, NoTrade
    <2>2. Pending(o) = 0
        BY <1>1, <2>1, PendingIsNat
    <2> QED BY <2>1, <2>2 DEF TermsOf, TakingOf, RestOf, BoughtOf, Processing
<1>3. told = [o \in OrderIds |-> {}]
    BY DEF Init
<1> QED BY <1>2, <1>3 DEF AsMarket!MarketInit, AsMarket!NoTerms, MarketTerms, MarketTaking, MarketRest, MarketBought

\* Every step of every call is a step of the market, or nothing.
LEMMA NextInMarket == AInv /\ AInv' /\ [Next]_vars => [AsMarket!MarketNext]_(AsMarket!marketVars)
<1> SUFFICES ASSUME AInv, AInv', [Next]_vars
             PROVE  AsMarket!MarketNext \/ UNCHANGED AsMarket!marketVars
    OBVIOUS
<1>1. ASSUME NEW u \in Users, NEW a \in Assets, Deposit(u, a) PROVE UNCHANGED AsMarket!marketVars
    BY <1>1, DepositInMarket
<1>2. ASSUME NEW o \in OrderIds, NEW u \in Users, NEW s \in Sides, NEW p \in Prices,
             NEW q \in Quantities, NEW now \in {clock, clock + 1}, Submit(o, u, s, p, q, now)
      PROVE  AsMarket!MarketNext
    BY <1>2, SubmitInMarket
<1>3. ASSUME NEW c \in Cancels, NEW o \in OrderIds, CancelGetOrder(c, o)
      PROVE  AsMarket!MarketNext \/ UNCHANGED AsMarket!marketVars
    BY <1>3, CancelGetOrderInMarket
<1>4. ASSUME NEW o \in OrderIds, Process(o)
      PROVE  AsMarket!MarketNext \/ UNCHANGED AsMarket!marketVars
    BY <1>4, ValidateBalanceInMarket, LockFundsInMarket, PeekBestInMarket, PlaceRemainderInMarket,
       TakeBestInMarket, SettleTradeInMarket, RecordTradeInMarket, ReleaseResidualInMarket DEF Process
<1>5. ASSUME NEW c \in Cancels, ProcessCancel(c)
      PROVE  AsMarket!MarketNext \/ UNCHANGED AsMarket!marketVars
    BY <1>5, CancelUnlockFundsInMarket, CancelRemoveInMarket DEF ProcessCancel
<1>6. CASE UNCHANGED vars
    <2>1. UNCHANGED <<order, book, pc, trade, traded, told>>
        BY <1>6 DEF vars
    <2>2. \A z \in OrderIds : Unseen(z)
        BY <2>1, BoughtStays DEF Unseen, TermsOf, TakingOf, RestOf
    <2> QED BY <2>1, <2>2, MarketStutters
<1> QED BY <1>1, <1>2, <1>3, <1>4, <1>5, <1>6 DEF Next, Arrive

\* While calls run one at a time, the engine, the book and the wallet together
\* are the atomic Market: each trade is with an order that is first in
\* price-time priority, nothing that crosses ever rests, and what is announced
\* follows what happened.
THEOREM ImplementsTheMarket == ASSUME MaxInFlight <= 1 PROVE Spec => AsMarket!MarketSpec
<1>1. AInv /\ AInv' /\ [Next]_vars => [AsMarket!MarketNext]_(AsMarket!marketVars)
    BY NextInMarket
<1>2. Spec => []AInv
    BY SpecAInv
<1> QED BY <1>1, <1>2, InitInMarket, PTL DEF Spec, AsMarket!MarketSpec

-----------------------------------------------------------------------------
(* What holds until calls overlap, in whatever mixture they come.          *)

\* With one call under way there is no other.
LEMMA OneInFlight ==
    ASSUME IInv, ~Overlaps
    PROVE  /\ CallsAlone
           /\ \A c \in Cancels : cancel[c].at \in Cancelling =>
                 /\ \A o \in OrderIds : pc[o] \notin Processing
                 /\ \A d \in Cancels \ {c} : cancel[d].at \notin Cancelling
<1> DEFINE P == {o \in OrderIds : pc[o] \in Processing}
           C == {c \in Cancels : cancel[c].at \in Cancelling}
<1>1. IsFiniteSet(P) /\ IsFiniteSet(C)
    BY FiniteAssumption, FS_Subset
<1>2. Cardinality(P) \in Nat /\ Cardinality(C) \in Nat /\ Cardinality(P) + Cardinality(C) <= 1
    BY <1>1, FS_CardinalityType DEF Overlaps, InFlight
<1>3. ASSUME NEW S, IsFiniteSet(S), Cardinality(S) <= 1, NEW x \in S, NEW y \in S PROVE x = y
    BY <1>3, FS_CardinalityType, FS_Singleton, FS_EmptySet
<1>4. P # {} => C = {}
    BY <1>1, <1>2, FS_EmptySet
<1>5. \A o, x \in P : o = x
    BY <1>1, <1>2, <1>3
<1>6. \A c, d \in C : c = d
    BY <1>1, <1>2, <1>3
<1> QED BY <1>4, <1>5, <1>6 DEF CallsAlone

\* An order that is being cancelled on its own stays in the book.
LEMMA CancelledStaysInBook ==
    ASSUME IInv, CancelsAlone, Next
    PROVE  \A c \in Cancels : cancel'[c].at \in Cancelling => cancel'[c].order \in book'
<1>1. ASSUME Arrive PROVE book' = book
    BY <1>1 DEF Arrive, Deposit, Submit, CancelGetOrder
<1>2. ASSUME NEW c \in Cancels, NEW o \in OrderIds, CancelGetOrder(c, o)
      PROVE  \A d \in Cancels : cancel'[d].at \in Cancelling => cancel'[d].order \in book
    BY <1>2 DEF CancelGetOrder, CancelsAlone, IInv, TypeOK, Cancelling
<1>3. ASSUME Arrive, ~\E c \in Cancels, o \in OrderIds : CancelGetOrder(c, o) PROVE cancel' = cancel
    BY <1>3 DEF Arrive, Deposit, Submit
<1>4. ASSUME NEW o \in OrderIds, Process(o) PROVE \A c \in Cancels : cancel'[c].at \notin Cancelling
    BY <1>4 DEF Process, ValidateBalance, LockFunds, PeekBest, PlaceRemainder, TakeBest,
                SettleTrade, RecordTrade, ReleaseResidual, Processing, CancelsAlone
<1>5. ASSUME NEW c \in Cancels, CancelUnlockFunds(c)
      PROVE  \A d \in Cancels : cancel'[d].at \in Cancelling => cancel'[d].order \in book'
    <2>1. /\ book' = book /\ cancel[c].at \in Cancelling
          /\ cancel'[c].order = cancel[c].order
          /\ \A d \in Cancels \ {c} : cancel'[d] = cancel[d]
        BY <1>5 DEF CancelUnlockFunds, CancelGoto, IInv, TypeOK, Cancellation, Cancelling
    <2> QED BY <2>1 DEF CancelsAlone
<1>6. ASSUME NEW c \in Cancels, CancelRemove(c) PROVE \A d \in Cancels : cancel'[d].at \notin Cancelling
    <2>1. /\ cancel[c].at \in Cancelling /\ cancel'[c].at = "cancelled"
          /\ \A d \in Cancels \ {c} : cancel'[d] = cancel[d]
        BY <1>6 DEF CancelRemove, CancelGoto, IInv, TypeOK, Cancellation, Cancelling
    <2> QED BY <2>1 DEF CancelsAlone, Cancelling
<1>7. ASSUME Arrive PROVE \A d \in Cancels : cancel'[d].at \in Cancelling => cancel'[d].order \in book'
    BY <1>1, <1>2, <1>3, <1>7 DEF CancelsAlone
<1> QED BY <1>4, <1>5, <1>6, <1>7 DEF Next, ProcessCancel

\* A step after which no cancel overlaps another call leaves cancels alone.
LEMMA CancelsAloneUntilRaced ==
    ASSUME IInv, IInv', CancelsAlone, [Next]_vars, ~Races'
    PROVE  CancelsAlone'
<1>1. CASE UNCHANGED vars
    BY <1>1 DEF vars, CancelsAlone
<1>2. CASE Next
    <2>1. \A c \in Cancels : cancel'[c].at \in Cancelling => cancel'[c].order \in book'
        BY <1>2, CancelledStaysInBook
    <2>2. CASE Overlaps'
        BY <2>2 DEF Races, CancelsAlone
    <2>3. CASE ~Overlaps'
        <3>1. (IInv /\ ~Overlaps =>
                 \A c \in Cancels : cancel[c].at \in Cancelling =>
                     /\ \A o \in OrderIds : pc[o] \notin Processing
                     /\ \A d \in Cancels \ {c} : cancel[d].at \notin Cancelling)'
            BY OneInFlight, PTL
        <3> QED BY <2>1, <2>3, <3>1 DEF CancelsAlone
    <2> QED BY <2>2, <2>3
<1> QED BY <1>1, <1>2

\* A step after which calls have not overlapped leaves each alone.
LEMMA CallsAloneUntilOverlapped == IInv' /\ ~Overlaps' => CallsAlone'
<1>1. IInv /\ ~Overlaps => CallsAlone
    BY OneInFlight
<1> QED BY <1>1, PTL

\* The memory of what has overlapped, with the invariants that last as long.
UntilOverlapped ==
    /\ IInv
    /\ overlapped \in BOOLEAN /\ raced \in BOOLEAN /\ (raced => overlapped)
    /\ ~raced => MInv /\ Conservation
    /\ ~overlapped => AInv

LEMMA SpecUntilOverlapped == OverlapSpec => []UntilOverlapped
<1>1. OverlapInit => UntilOverlapped
    BY InitIInv, InitMInv, InitConservation, InitAInv DEF OverlapInit, UntilOverlapped
<1>2. UntilOverlapped /\ [OverlapNext]_overlapVars => UntilOverlapped'
    <2> SUFFICES ASSUME UntilOverlapped, [OverlapNext]_overlapVars PROVE UntilOverlapped'
        OBVIOUS
    <2>1. [Next]_vars
        BY DEF OverlapNext, overlapVars
    <2>2. IInv'
        BY <2>1, NextIInv DEF UntilOverlapped
    <2>3. CASE UNCHANGED overlapVars
        <3>1. UNCHANGED vars /\ raced' = raced /\ overlapped' = overlapped
            BY <2>3 DEF overlapVars
        <3>2. ~raced => CancelsAlone'
            BY <3>1 DEF UntilOverlapped, MInv, CancelsAlone, vars
        <3>3. ~overlapped => CallsAlone'
            BY <3>1 DEF UntilOverlapped, AInv, CallsAlone, vars
        <3> QED BY <2>1, <2>2, <3>1, <3>2, <3>3, NextMInv, NextConservation, NextAInv DEF UntilOverlapped
    <2>4. CASE OverlapNext
        <3>1. /\ overlapped' = (overlapped \/ Overlaps') /\ raced' = (raced \/ Races')
              /\ Overlaps' \in BOOLEAN /\ Races' \in BOOLEAN /\ (Races' => Overlaps')
            BY <2>4 DEF OverlapNext, Overlaps, Races
        <3>2. /\ overlapped' \in BOOLEAN /\ raced' \in BOOLEAN
              /\ (~raced' => ~raced /\ ~Races') /\ (~overlapped' => ~overlapped /\ ~Overlaps')
              /\ (raced' => overlapped') /\ (~overlapped' => ~raced')
            BY <3>1 DEF UntilOverlapped
        <3>3. ~raced' => CancelsAlone'
            BY <2>1, <2>2, <3>2, CancelsAloneUntilRaced DEF UntilOverlapped, MInv
        <3>4. ~overlapped' => CallsAlone'
            BY <2>2, <3>2, CallsAloneUntilOverlapped
        <3>5. ~raced' => MInv' /\ Conservation'
            BY <2>1, <3>2, <3>3, NextMInv, NextConservation DEF UntilOverlapped
        <3>6. ~overlapped' => AInv'
            BY <2>1, <3>2, <3>3, <3>4, NextAInv DEF UntilOverlapped
        <3> QED BY <2>2, <3>2, <3>5, <3>6 DEF UntilOverlapped
    <2> QED BY <2>3, <2>4
<1> QED BY <1>1, <1>2, PTL DEF OverlapSpec

\* Until a cancel overlaps another call, nothing is created or lost, the
\* wallet's locks are those of the orders, and no call fails half-way, in every
\* mixture of deposits, overlapping orders and cancels.
THEOREM MoneyStaysAccounted == OverlapSpec => []MoneyAccounted
<1>1. UntilOverlapped => MoneyAccounted
    BY MInvAccountsLocks DEF UntilOverlapped, MoneyAccounted, MInv
<1> QED BY <1>1, SpecUntilOverlapped, PTL

\* Until calls overlap, every step is a step of the atomic market or none.
THEOREM MarketUntilOverlapped == OverlapSpec => ImplementsMarket
<1>1. UntilOverlapped /\ UntilOverlapped' /\ [OverlapNext]_overlapVars
        => [~overlapped' => AsMarket!MarketNext]_(AsMarket!marketVars)
    <2> SUFFICES ASSUME UntilOverlapped, UntilOverlapped', [OverlapNext]_overlapVars, ~overlapped'
                 PROVE  AsMarket!MarketNext \/ UNCHANGED AsMarket!marketVars
        OBVIOUS
    <2>1. [Next]_vars /\ ~overlapped
        BY DEF OverlapNext, overlapVars, UntilOverlapped
    <2>2. AInv /\ AInv'
        BY <2>1 DEF UntilOverlapped
    <2> QED BY <2>1, <2>2, NextInMarket
<1>2. OverlapInit => AsMarket!MarketInit
    BY InitInMarket DEF OverlapInit
<1> QED BY <1>1, <1>2, SpecUntilOverlapped, PTL DEF OverlapSpec, ImplementsMarket

-----------------------------------------------------------------------------
(* Calls come to an end.                                                   *)

\* Where a call stands in processOrder, counted from the end of its loop.
Stage(at) ==
    CASE at = "validating" -> 6 [] at = "locking"  -> 5
      [] at = "peeking"    -> 4 [] at = "taking"   -> 3
      [] at = "settling"   -> 2 [] at = "recording" -> 1

\* What a call may still do at most: four steps for each unit it has left.
StepsLeft(o) ==
    IF pc[o] \notin Processing THEN 0
    ELSE IF pc[o] = "releasing" THEN 1 ELSE 4 * order[o].quantity + Stage(pc[o])

LEMMA StageIsNat ==
    ASSUME NEW at \in Processing, at # "releasing"
    PROVE  Stage(at) \in 1..6
BY DEF Stage, Processing

LEMMA StepsAreNat ==
    ASSUME TypeOK, NEW o \in OrderIds
    PROVE  StepsLeft(o) \in Nat /\ (StepsLeft(o) = 0 <=> pc[o] \notin Processing)
<1>1. PICK q \in Nat : q = order[o].quantity
    BY DEF TypeOK, Order
<1>2. pc[o] \in Processing /\ pc[o] # "releasing" => Stage(pc[o]) \in 1..6
    BY StageIsNat
<1> QED BY <1>1, <1>2 DEF StepsLeft

\* A step of a call, by where it leads.
LEMMA NextStage ==
    ASSUME NEW q \in Nat, NEW r \in Nat, NEW s \in 1..6, NEW t \in 1..6,
           (r = q /\ t < s) \/ (r < q /\ t <= 4)
    PROVE  4 * r + t < 4 * q + s
<1>1. CASE r = q /\ t < s
    BY <1>1
<1>2. CASE r < q /\ t <= 4
    <2>1. r + 1 <= q
        BY <1>2
    <2>2. 4 * r + 4 <= 4 * q
        BY <2>1
    <2> QED BY <1>2, <2>2
<1> QED BY <1>1, <1>2

LEMMA CallProceeds ==
    ASSUME IInv, NEW o \in OrderIds, Process(o)
    PROVE  StepsLeft(o)' < StepsLeft(o)
<1>1. PICK q \in Nat : q = order[o].quantity
    BY DEF IInv, TypeOK, Order
<1>2. pc \in [OrderIds -> {"idle"} \cup Processing \cup Ended] /\ order \in [OrderIds -> Order]
    BY DEF IInv, TypeOK
<1>3. pc[o] \in Processing
    BY DEF Process, ValidateBalance, LockFunds, PeekBest, PlaceRemainder, TakeBest, SettleTrade,
           RecordTrade, ReleaseResidual, Processing
<1>4. StepsLeft(o) \in Nat \ {0}
    BY <1>3, StepsAreNat DEF IInv
<1>5. CASE pc'[o] \in Ended
    <2>1. StepsLeft(o)' = 0
        BY <1>5 DEF StepsLeft, Ended, Processing
    <2> QED BY <1>4, <2>1
<1>6. CASE pc'[o] = "releasing"
    <2>1. StepsLeft(o)' = 1
        BY <1>6 DEF StepsLeft, Processing
    <2>2. pc[o] = "recording"
        BY <1>2, <1>6 DEF Process, ValidateBalance, LockFunds, PeekBest, PlaceRemainder, TakeBest,
           SettleTrade, RecordTrade, ReleaseResidual, Goto
    <2>3. q > 0
        BY <1>1, <2>2 DEF IInv, QuantityLeft, Processing
    <2>4. StepsLeft(o) = 4 * q + 1
        BY <1>1, <2>2 DEF StepsLeft, Processing, Stage
    <2> QED BY <2>1, <2>3, <2>4
<1>7. ASSUME pc[o] # "releasing",
             \E r \in Nat, s \in 1..6, t \in 1..6 :
                 /\ pc'[o] \in Processing \ {"releasing"} /\ r = order'[o].quantity
                 /\ s = Stage(pc[o]) /\ t = Stage(pc'[o])
                 /\ (r = q /\ t < s) \/ (r < q /\ t <= 4)
      PROVE  StepsLeft(o)' < StepsLeft(o)
    <2>1. PICK r \in Nat, s \in 1..6, t \in 1..6 :
                 /\ pc'[o] \in Processing \ {"releasing"} /\ r = order'[o].quantity
                 /\ s = Stage(pc[o]) /\ t = Stage(pc'[o])
                 /\ (r = q /\ t < s) \/ (r < q /\ t <= 4)
        BY <1>7
    <2>2. StepsLeft(o) = 4 * q + s /\ StepsLeft(o)' = 4 * r + t
        BY <1>1, <1>3, <1>7, <2>1 DEF StepsLeft
    <2> QED BY <2>1, <2>2, NextStage
<1>8. CASE ValidateBalance(o)
    <2>1. pc[o] = "validating" /\ pc'[o] \in {"locking", "rejected"} /\ order' = order
        BY <1>2, <1>8 DEF ValidateBalance, Goto
    <2>2. CASE pc'[o] = "locking"
        BY <1>1, <1>7, <2>1, <2>2 DEF Stage, Processing
    <2> QED BY <1>5, <2>1, <2>2 DEF Ended
<1>9. CASE LockFunds(o)
    <2>1. pc[o] = "locking" /\ pc'[o] \in {"peeking", "rejected"} /\ order'[o].quantity = order[o].quantity
        BY <1>2, <1>9 DEF LockFunds, Goto, Order
    <2>2. CASE pc'[o] = "peeking"
        BY <1>1, <1>7, <2>1, <2>2 DEF Stage, Processing
    <2> QED BY <1>5, <2>1, <2>2 DEF Ended
<1>10. CASE PeekBest(o)
    <2>1. pc[o] = "peeking" /\ pc'[o] = "taking" /\ order' = order
        BY <1>2, <1>10 DEF PeekBest, Goto
    <2> QED BY <1>1, <1>7, <2>1 DEF Stage, Processing
<1>11. CASE PlaceRemainder(o)
    <2>1. pc'[o] = "open"
        BY <1>2, <1>11 DEF PlaceRemainder, Goto
    <2> QED BY <1>5, <2>1 DEF Ended
<1>12. CASE TakeBest(o)
    <2>1. pc[o] = "taking" /\ pc'[o] = "settling" /\ best[o] # NoOrder
        BY <1>2, <1>12 DEF TakeBest, CanTake, Goto
    <2>2. best[o] # o
        BY <2>1 DEF IInv, BestIsOpposite
    <2>3. order'[o] = order[o]
        BY <1>2, <1>12, <2>2 DEF TakeBest
    <2> QED BY <1>1, <1>7, <2>1, <2>3 DEF Stage, Processing
<1>13. CASE SettleTrade(o)
    <2>1. pc[o] = "settling" /\ pc'[o] \in {"recording", "failed"} /\ order' = order
        BY <1>2, <1>13 DEF SettleTrade, Goto
    <2>2. CASE pc'[o] = "recording"
        BY <1>1, <1>7, <2>1, <2>2 DEF Stage, Processing
    <2> QED BY <1>5, <2>1, <2>2 DEF Ended
<1>14. CASE RecordTrade(o)
    <2>1. pc[o] = "recording" /\ pc'[o] \in {"peeking", "releasing"} /\ order'[o] = AfterTrade(o)
        BY <1>2, <1>14 DEF RecordTrade, Goto
    <2>2. trade[o].quantity \in Nat /\ trade[o].quantity > 0 /\ trade[o].quantity <= q
        BY <1>1, <2>1 DEF IInv, TypeOK, Trade, TradeFits, TradeUnderWay
    <2>3. AfterTrade(o).quantity = q - trade[o].quantity
        BY <1>1, <1>2 DEF AfterTrade, Reduced, Order
    <2>4. PICK r \in Nat : r = order'[o].quantity /\ r < q
        BY <2>1, <2>2, <2>3
    <2>5. CASE pc'[o] = "peeking"
        BY <1>1, <1>7, <2>1, <2>4, <2>5 DEF Stage, Processing
    <2> QED BY <1>6, <2>1, <2>5
<1>15. CASE ReleaseResidual(o)
    <2>1. pc'[o] \in {"filled", "failed"}
        BY <1>2, <1>15 DEF ReleaseResidual, Goto
    <2> QED BY <1>5, <2>1 DEF Ended
<1> QED BY <1>8, <1>9, <1>10, <1>11, <1>12, <1>13, <1>14, <1>15 DEF Process

\* Nobody else's step gives a call more to do.
LEMMA OthersLeaveSteps ==
    ASSUME IInv, [Next]_vars, NEW o \in OrderIds, pc[o] \in Processing, ~Process(o)
    PROVE  StepsLeft(o)' = StepsLeft(o)
<1> SUFFICES pc'[o] = pc[o] /\ order'[o].quantity = order[o].quantity
    BY DEF StepsLeft
<1>1. pc \in [OrderIds -> {"idle"} \cup Processing \cup Ended] /\ order \in [OrderIds -> Order]
    BY DEF IInv, TypeOK
<1>2. ASSUME NEW p \in OrderIds, NEW u \in Users, NEW s \in Sides, NEW price \in Prices,
             NEW q \in Quantities, NEW now \in {clock, clock + 1}, Submit(p, u, s, price, q, now)
      PROVE  pc'[o] = pc[o] /\ order'[o] = order[o]
    <2>1. p # o
        BY <1>2 DEF Submit, Processing
    <2> QED BY <1>1, <1>2, <2>1 DEF Submit, Goto
<1>3. ASSUME NEW p \in OrderIds, Process(p) PROVE pc'[o] = pc[o] /\ order'[o] = order[o]
    <2>1. p # o
        BY <1>3
    <2>2. CASE TakeBest(p)
        <3>1. best[p] # o
            BY <2>2 DEF TakeBest, CanTake, IInv, BestIsOpposite, Processing
        <3> QED BY <1>1, <2>1, <2>2, <3>1 DEF TakeBest, Goto
    <2>3. CASE ValidateBalance(p) \/ PeekBest(p) \/ SettleTrade(p) \/ ReleaseResidual(p)
        BY <1>1, <2>1, <2>3 DEF ValidateBalance, PeekBest, SettleTrade, ReleaseResidual, Goto
    <2>4. CASE LockFunds(p) \/ PlaceRemainder(p) \/ RecordTrade(p)
        BY <1>1, <2>1, <2>4 DEF LockFunds, PlaceRemainder, RecordTrade, Goto
    <2> QED BY <1>3, <2>2, <2>3, <2>4 DEF Process
<1>4. ASSUME \/ \E u \in Users, a \in Assets : Deposit(u, a)
             \/ \E c \in Cancels, p \in OrderIds : CancelGetOrder(c, p)
             \/ \E c \in Cancels : ProcessCancel(c)
             \/ UNCHANGED vars
      PROVE  pc'[o] = pc[o] /\ order'[o] = order[o]
    BY <1>4 DEF Deposit, CancelGetOrder, ProcessCancel, CancelUnlockFunds, CancelRemove, vars
<1> QED BY <1>2, <1>3, <1>4 DEF Next, Arrive

\* However calls overlap, a call under way has so many steps left, each step it
\* takes is one of them, and no step of another gives it more: the matching
\* loop does not go round for ever.
StepsAreUsedUp ==
    [][\A o \in OrderIds : pc[o] \in Processing =>
          IF Process(o) THEN StepsLeft(o)' < StepsLeft(o) ELSE UNCHANGED StepsLeft(o)]_vars

\* Of the steps that the rest of a call can take there are finitely many, which
\* is what fairness needs to bring every call to its end.
THEOREM CallsRunOut ==
    Spec => /\ [](\A o \in OrderIds : StepsLeft(o) \in Nat /\ (StepsLeft(o) = 0 <=> pc[o] \notin Processing))
            /\ StepsAreUsedUp
<1>1. IInv => \A o \in OrderIds : StepsLeft(o) \in Nat /\ (StepsLeft(o) = 0 <=> pc[o] \notin Processing)
    BY StepsAreNat DEF IInv
<1>2. IInv /\ [Next]_vars =>
        [\A o \in OrderIds : pc[o] \in Processing =>
          IF Process(o) THEN StepsLeft(o)' < StepsLeft(o) ELSE UNCHANGED StepsLeft(o)]_vars
    BY CallProceeds, OthersLeaveSteps
<1> QED BY <1>1, <1>2, SpecIInv, PTL DEF Spec, StepsAreUsedUp
=============================================================================
