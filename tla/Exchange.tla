------------------------------ MODULE Exchange ------------------------------
(***************************************************************************)
(* StandardEngine over the in-memory order book and wallet.  JavaScript    *)
(* runs one callback at a time and a call gives way only where it awaits,  *)
(* so an action is the code between two awaits that touch shared state.    *)
(*                                                                         *)
(* A processOrder call goes                                                *)
(*   idle -> validating -> locking -> peeking -> taking -> settling        *)
(*        -> recording -> (peeking | releasing)                            *)
(* and ends open (resting in the book), filled, rejected (it threw before  *)
(* any of its funds were locked) or failed (it threw after).  A cancelOrder*)
(* call goes idle -> unlocking -> removing and ends cancelled or failed.   *)
(*                                                                         *)
(* MaxInFlight calls overlap at most.  With the value 1 a call runs to its *)
(* end before the next begins, which is what HTTP requests see while every *)
(* await of the in-memory stores resolves in the microtask queue; larger   *)
(* values are the callers of one event-loop turn (Promise.all).            *)
(***************************************************************************)
EXTENDS Trading, FiniteSets

CONSTANTS
    Users,
    OrderIds,       \* ids generateOrderId will hand out, ascending
    Cancels,        \* calls of cancelOrder
    Prices, Quantities,
    InitialFunds,   \* [Assets -> Nat], every user's available balance
    DepositAmount,
    MaxDeposits, MaxClock, MaxInFlight      \* bounds

ASSUME UsersAssumption    == Users # {}
ASSUME OrderIdsAssumption == OrderIds \subseteq Nat \ {0}
ASSUME OrdersAssumption ==
    /\ Prices \subseteq Nat \ {0} /\ Prices # {}
    /\ Quantities \subseteq Nat \ {0} /\ Quantities # {}
ASSUME FundsAssumption    == InitialFunds \in [Assets -> Nat] /\ DepositAmount \in Nat \ {0}
ASSUME FiniteAssumption   == IsFiniteSet(Users) /\ IsFiniteSet(OrderIds) /\ IsFiniteSet(Cancels)
ASSUME BoundsAssumption   == MaxDeposits \in Nat /\ MaxClock \in Nat /\ MaxInFlight \in Nat

VARIABLES
    balance,    \* [Users -> [Assets -> [available, locked]]]
    order,      \* the order objects: the engine's copy, then the book's entry
    book,       \* keys of inmemory_OrderBookStore.orders
    pc,         \* where each processOrder call stands
    best,       \* atomicMatch: the order read as best, 0 when none
    trade,      \* the trade being executed for a taker
    cancel,     \* the cancelOrder calls
    traded,     \* quantity recorded in the trade store, per order
    told,       \* statuses announced on the event bus, per order
    clock,      \* Date.now()
    placements, \* orders pushed into the book so far
    deposits    \* deposits made so far

vars == <<balance, order, book, pc, best, trade, cancel, traded, told, clock,
          placements, deposits>>

Ended      == {"open", "filled", "rejected", "failed"}
Processing == {"validating", "locking", "peeking", "taking", "settling",
               "recording", "releasing"}
Cancelling == {"unlocking", "removing"}
Statuses   == {"PARTIALLY_FILLED", "FILLED", "CANCELLED", "FAILED"}
NoOrder    == 0
NoTrade    == [resting |-> NoOrder, price |-> 0, quantity |-> 0]

Balance == [available : Nat, locked : Nat]
Wallets == [Users -> [Assets -> Balance]]
Order   == [user : Users, side : Sides, price : Prices, size : Quantities,
            quantity : Nat, lockedAmount : Nat, createdAt : Nat, placedAt : Nat]
Trade   == [resting : OrderIds \cup {NoOrder}, price : Nat, quantity : Nat]
Cancellation == [at : {"idle", "cancelled", "failed"} \cup Cancelling,
                 order : OrderIds \cup {NoOrder}]

TypeOK ==
    /\ balance \in Wallets
    /\ order \in [OrderIds -> Order]
    /\ book \subseteq OrderIds
    /\ pc \in [OrderIds -> {"idle"} \cup Processing \cup Ended]
    /\ best \in [OrderIds -> OrderIds \cup {NoOrder}]
    /\ trade \in [OrderIds -> Trade]
    /\ cancel \in [Cancels -> Cancellation]
    /\ traded \in [OrderIds -> Nat]
    /\ told \in [OrderIds -> SUBSET Statuses]
    /\ clock \in Nat /\ placements \in Nat /\ deposits \in Nat

-----------------------------------------------------------------------------

BlankOrder ==
    [user |-> CHOOSE u \in Users : TRUE, side |-> "buy",
     price |-> CHOOSE p \in Prices : TRUE, size |-> CHOOSE q \in Quantities : TRUE,
     quantity |-> 0, lockedAmount |-> 0, createdAt |-> 0, placedAt |-> 0]

Init ==
    /\ balance = [u \in Users |-> [a \in Assets |-> [available |-> InitialFunds[a], locked |-> 0]]]
    /\ order = [o \in OrderIds |-> BlankOrder]
    /\ book = {}
    /\ pc = [o \in OrderIds |-> "idle"]
    /\ best = [o \in OrderIds |-> NoOrder]
    /\ trade = [o \in OrderIds |-> NoTrade]
    /\ cancel = [c \in Cancels |-> [at |-> "idle", order |-> NoOrder]]
    /\ traded = [o \in OrderIds |-> 0]
    /\ told = [o \in OrderIds |-> {}]
    /\ clock = 0 /\ placements = 0 /\ deposits = 0

InFlight == Cardinality({o \in OrderIds : pc[o] \in Processing})
              + Cardinality({c \in Cancels : cancel[c].at \in Cancelling})

Goto(o, to) == pc' = [pc EXCEPT ![o] = to]

Tell(o, status) == told' = [told EXCEPT ![o] = @ \cup {status}]

-----------------------------------------------------------------------------
(* The wallet store's mutations, as functions of the balances.             *)

Locked(b, user, asset, amount) ==
    [b EXCEPT ![user][asset] = [available |-> @.available - amount, locked |-> @.locked + amount]]

Unlocked(b, user, asset, amount) ==
    [b EXCEPT ![user][asset] = [available |-> @.available + amount, locked |-> @.locked - amount]]

\* Slip: the buyer's lock is not consumed.
BuyerSettledKeepsLock(b, buyer, price, quantity) ==
    [b EXCEPT ![buyer]["base"].available = @ + quantity]

BuyerSettled(b, buyer, price, quantity) ==
    [b EXCEPT ![buyer]["quote"].locked = @ - price * quantity,
              ![buyer]["base"].available = @ + quantity]

SellerSettled(b, seller, price, quantity) ==
    [b EXCEPT ![seller]["base"].locked = @ - quantity,
              ![seller]["quote"].available = @ + price * quantity]

\* A deposit is one synchronous mutation of the wallet.
Deposit(user, asset) ==
    /\ InFlight < MaxInFlight
    /\ deposits < MaxDeposits
    /\ deposits' = deposits + 1
    /\ balance' = [balance EXCEPT ![user][asset].available = @ + DepositAmount]
    /\ UNCHANGED <<order, book, pc, best, trade, cancel, traded, told, clock, placements>>

-----------------------------------------------------------------------------
(* processOrder                                                            *)

\* The order service builds the domain order: the next id, the time of day.
Submit(o, user, side, price, quantity, now) ==
    /\ InFlight < MaxInFlight
    /\ pc[o] = "idle"
    /\ Goto(o, "validating")
    /\ \A p \in OrderIds : p < o => pc[p] # "idle"
    /\ now <= MaxClock
    /\ clock' = now
    /\ order' = [order EXCEPT ![o] =
         [user |-> user, side |-> side, price |-> price, size |-> quantity,
          quantity |-> quantity, lockedAmount |-> Cost(side, price, quantity),
          createdAt |-> now, placedAt |-> 0]]
    /\ UNCHANGED <<balance, book, best, trade, cancel, traded, told, placements, deposits>>

Affordable(o) ==
    Cost(order[o].side, order[o].price, order[o].quantity)
      <= balance[order[o].user][LockAsset(order[o].side)].available

\* validateOrderBalance resumes with the live balance object.
ValidateBalance(o) ==
    /\ pc[o] = "validating"
    /\ \/ Affordable(o)  /\ Goto(o, "locking")  /\ UNCHANGED told
       \/ ~Affordable(o) /\ Goto(o, "rejected") /\ Tell(o, "FAILED")
    /\ UNCHANGED <<balance, order, book, best, trade, cancel, traded, clock, placements, deposits>>

\* Slip: lockFunds trusts the validation.
CanLockUnchecked(o) == TRUE

CanLock(o) == Affordable(o)

\* lockFunds checks again and throws without an event of its own.
LockFunds(o) ==
    LET amount == Cost(order[o].side, order[o].price, order[o].quantity)
    IN  /\ pc[o] = "locking"
        /\ order' = [order EXCEPT ![o].lockedAmount = amount]
        /\ \/ /\ CanLock(o)
              /\ Goto(o, "peeking")
              /\ balance' = Locked(balance, order[o].user, LockAsset(order[o].side), amount)
           \/ /\ ~CanLock(o)
              /\ Goto(o, "rejected")
              /\ UNCHANGED balance
        /\ UNCHANGED <<book, best, trade, cancel, traded, told, clock, placements, deposits>>

\* The orders of a side no other order of that side trades before.
BestOf(side) ==
    {m \in book : /\ order[m].side = side
                  /\ \A n \in book : order[n].side = side => ~TradesBefore(order[n], order[m])}

\* atomicMatch reads the head of the opposite array and awaits.
PeekBest(o) ==
    /\ pc[o] = "peeking"
    /\ Goto(o, "taking")
    /\ \/ BestOf(Opposite(order[o].side)) = {} /\ best' = [best EXCEPT ![o] = NoOrder]
       \/ \E m \in BestOf(Opposite(order[o].side)) : best' = [best EXCEPT ![o] = m]
    /\ UNCHANGED <<balance, order, book, trade, cancel, traded, told, clock, placements, deposits>>

\* Slips: the order is not looked up again, its price is not compared.
CanTakeStale(o) == best[o] # NoOrder /\ PricesCross(order[o], order[best[o]])
CanTakeAnyPrice(o) == best[o] \in book

\* The order it read still matches and is still in the map.
CanTake(o) ==
    /\ best[o] # NoOrder
    /\ PricesCross(order[o], order[best[o]])
    /\ best[o] \in book

\* Slip: the loop goes on instead of breaking.
PlaceRemainderRetries(o) ==
    /\ pc[o] = "taking" /\ ~CanTake(o)
    /\ Goto(o, "peeking")
    /\ UNCHANGED <<balance, order, book, best, trade, cancel, traded, told, clock,
                   placements, deposits>>

\* atomicMatch returns null, so processOrder announces the order and the
\* book stores what is left of it.
PlaceRemainder(o) ==
    /\ pc[o] = "taking"
    /\ ~CanTake(o)
    /\ Goto(o, "open")
    /\ best' = [best EXCEPT ![o] = NoOrder]
    /\ Tell(o, "PARTIALLY_FILLED")
    /\ book' = book \cup {o}
    /\ placements' = placements + 1
    /\ order' = [order EXCEPT ![o].placedAt = placements + 1]
    /\ UNCHANGED <<balance, trade, cancel, traded, clock, deposits>>

\* An order object once `quantity' of it has traded at `price'.
Reduced(o, price, quantity) ==
    [order[o] EXCEPT !.quantity = @ - quantity,
                     !.lockedAmount = @ - Cost(order[o].side, price, quantity)]

\* Slip: an order taken whole stays in the book with nothing left.
LeavesBookNever(m, taken) == FALSE

LeavesBook(m, taken) == order[m].quantity <= taken

\* atomicMatch takes the quantity from the resting order.  An order taken
\* whole leaves the book with the quantity and the lock it had.
TakeBest(o) ==
    LET m     == best[o]
        qty   == LesserOf(order[o].quantity, order[m].quantity)
        price == TradePrice(order[m], order[o])
    IN  /\ pc[o] = "taking"
        /\ CanTake(o)
        /\ Goto(o, "settling")
        /\ best' = [best EXCEPT ![o] = NoOrder]
        /\ trade' = [trade EXCEPT ![o] = [resting |-> m, price |-> price, quantity |-> qty]]
        /\ \/ /\ ~LeavesBook(m, qty)
              /\ order' = [order EXCEPT ![m] = Reduced(m, price, qty)]
              /\ UNCHANGED book
           \/ /\ LeavesBook(m, qty)
              /\ book' = book \ {m}
              /\ UNCHANGED order
        /\ UNCHANGED <<balance, cancel, traded, told, clock, placements, deposits>>

BuyOrder(o)  == IF order[o].side = "buy" THEN o ELSE trade[o].resting
SellOrder(o) == IF order[o].side = "sell" THEN o ELSE trade[o].resting

\* createTrade and settleTrade.  The buyer is charged and credited before the
\* seller's lock is looked at.
SettleTrade(o) ==
    LET buyer  == order[BuyOrder(o)].user
        seller == order[SellOrder(o)].user
        price  == trade[o].price
        qty    == trade[o].quantity
        buyerHolds  == price > 0 /\ qty > 0 /\ price * qty <= balance[buyer]["quote"].locked
        sellerHolds == qty <= balance[seller]["base"].locked
    IN  /\ pc[o] = "settling"
        /\ \/ /\ buyerHolds /\ sellerHolds
              /\ Goto(o, "recording")
              /\ balance' = SellerSettled(BuyerSettled(balance, buyer, price, qty), seller, price, qty)
           \/ /\ ~buyerHolds
              /\ Goto(o, "failed")
              /\ UNCHANGED balance
           \/ /\ buyerHolds /\ ~sellerHolds
              /\ Goto(o, "failed")
              /\ balance' = BuyerSettled(balance, buyer, price, qty)
        /\ UNCHANGED <<order, book, best, trade, cancel, traded, told, clock, placements, deposits>>

\* Slips: the lock is not reduced, or by all that was left.
AfterTradeKeepsLock(o) == [order[o] EXCEPT !.quantity = @ - trade[o].quantity]
AfterTradeWholeLock(o) ==
    [Reduced(o, trade[o].price, order[o].quantity) EXCEPT
         !.quantity = order[o].quantity - trade[o].quantity]

\* The engine's own copy of the taker, once its trade has settled.
AfterTrade(o) == Reduced(o, trade[o].price, trade[o].quantity)

\* recordTrade and recordTick; the loop goes round while anything is left.
RecordTrade(o) ==
    /\ pc[o] = "recording"
    /\ Goto(o, IF AfterTrade(o).quantity > 0 THEN "peeking" ELSE "releasing")
    /\ traded' = [traded EXCEPT ![o] = @ + trade[o].quantity,
                               ![trade[o].resting] = @ + trade[o].quantity]
    /\ order' = [order EXCEPT ![o] = AfterTrade(o)]
    /\ trade' = [trade EXCEPT ![o] = NoTrade]
    /\ UNCHANGED <<balance, book, best, cancel, told, clock, placements, deposits>>

\* A taker filled whole gets back what better prices left of its lock.
ReleaseResidual(o) ==
    LET asset == LockAsset(order[o].side)
        rest  == order[o].lockedAmount
        held  == balance[order[o].user][asset].locked
    IN  /\ pc[o] = "releasing"
        /\ \/ /\ rest <= held
              /\ Goto(o, "filled")
              /\ balance' = Unlocked(balance, order[o].user, asset, rest)
              /\ Tell(o, "FILLED")
           \/ /\ rest > held
              /\ Goto(o, "failed")
              /\ UNCHANGED <<balance, told>>
        /\ UNCHANGED <<order, book, best, trade, cancel, traded, clock, placements, deposits>>

-----------------------------------------------------------------------------
(* cancelOrder                                                             *)

CancelGoto(c, to) == cancel' = [cancel EXCEPT ![c].at = to]

\* getOrder finds the order, or the call throws after an ORDER_FAILED.
CancelGetOrder(c, o) ==
    /\ InFlight < MaxInFlight
    /\ cancel[c].at = "idle"
    /\ pc[o] # "idle"
    /\ \/ /\ o \in book
          /\ cancel' = [cancel EXCEPT ![c] = [at |-> "unlocking", order |-> o]]
          /\ UNCHANGED told
       \/ /\ o \notin book
          /\ cancel' = [cancel EXCEPT ![c] = [at |-> "failed", order |-> o]]
          /\ Tell(o, "FAILED")
    /\ UNCHANGED <<balance, order, book, pc, best, trade, traded, clock, placements, deposits>>

\* The amount comes from the live order object; an order without a tracked
\* lock falls back on its nominal cost.
CancelUnlockFunds(c) ==
    LET o      == order[cancel[c].order]
        asset  == LockAsset(o.side)
        amount == IF o.lockedAmount > 0 THEN o.lockedAmount
                                        ELSE Cost(o.side, o.price, o.quantity)
    IN  /\ cancel[c].at = "unlocking"
        /\ \/ /\ amount <= balance[o.user][asset].locked
              /\ CancelGoto(c, "removing")
              /\ balance' = Unlocked(balance, o.user, asset, amount)
           \/ /\ amount > balance[o.user][asset].locked
              /\ CancelGoto(c, "failed")
              /\ UNCHANGED balance
        /\ UNCHANGED <<order, book, pc, best, trade, traded, told, clock, placements, deposits>>

BookWithout(o) == book \ {o}

\* Removing an order that has left the book is a no-op, and is announced.
CancelRemove(c) ==
    /\ cancel[c].at = "removing"
    /\ CancelGoto(c, "cancelled")
    /\ book' = BookWithout(cancel[c].order)
    /\ Tell(cancel[c].order, "CANCELLED")
    /\ UNCHANGED <<balance, order, pc, best, trade, traded, clock, placements, deposits>>

-----------------------------------------------------------------------------

\* The next step of the call that processes order o.
Process(o) ==
    \/ ValidateBalance(o)
    \/ LockFunds(o)
    \/ PeekBest(o)
    \/ PlaceRemainder(o)
    \/ TakeBest(o)
    \/ SettleTrade(o)
    \/ RecordTrade(o)
    \/ ReleaseResidual(o)

\* The next step of a cancelOrder call under way.
ProcessCancel(c) == CancelUnlockFunds(c) \/ CancelRemove(c)

Arrive ==
    \/ \E u \in Users, a \in Assets : Deposit(u, a)
    \/ \E o \in OrderIds, u \in Users, s \in Sides, p \in Prices, q \in Quantities,
          now \in {clock, clock + 1} : Submit(o, u, s, p, q, now)
    \/ \E c \in Cancels, o \in OrderIds : CancelGetOrder(c, o)

Next ==
    \/ Arrive
    \/ \E o \in OrderIds : Process(o)
    \/ \E c \in Cancels : ProcessCancel(c)

\* An awaited promise of the in-memory stores always resolves, so a call that
\* has begun is always resumed.  Nobody has to call.
Fairness ==
    /\ \A o \in OrderIds : WF_vars(Process(o))
    /\ \A c \in Cancels : WF_vars(ProcessCancel(c))

Spec     == Init /\ [][Next]_vars
FairSpec == Spec /\ Fairness
=============================================================================
