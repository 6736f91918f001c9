------------------------- MODULE ExchangeProperties -------------------------
(***************************************************************************)
(* What the engine, the book and the wallet promise together.              *)
(***************************************************************************)
EXTENDS Exchange, Totals

Quiet == InFlight = 0

-----------------------------------------------------------------------------
(* Money                                                                   *)

\* What all users own of an asset.
Owned(asset) == Total([u \in Users |-> balance[u][asset].available + balance[u][asset].locked])

\* Trading and cancelling only move money: across both assets, what the users
\* own is what they began with and what was deposited (settleTrade, lockFunds,
\* unlockFunds create and destroy nothing, whichever calls overlap).
Conservation ==
    Owned("base") + Owned("quote")
      = Cardinality(Users) * (InitialFunds["base"] + InitialFunds["quote"])
          + deposits * DepositAmount

\* Orders that may still trade: the book's, and those whose call has locked
\* its funds and not yet ended.
Live == book \cup {o \in OrderIds : pc[o] \in {"peeking", "taking", "settling", "recording", "releasing"}}

\* Those whose lock is in the wallet: a cancel returns it before it removes.
Backed == Live \ {cancel[c].order : c \in {d \in Cancels : cancel[d].at = "removing"}}

TradeCost(o, side) == Cost(side, trade[o].price, trade[o].quantity)

\* What an order holds of the wallet's locked funds: its lock, less what its
\* trade has cost it and recordTrade has not yet taken from the engine's copy.
Residual(o) ==
    IF pc[o] = "recording" THEN order[o].lockedAmount - TradeCost(o, order[o].side)
                           ELSE order[o].lockedAmount

Residuals(user, side) ==
    [o \in OrderIds |->
        IF o \in Backed /\ order[o].user = user /\ order[o].side = side THEN Residual(o) ELSE 0]

\* What trades taken from the book are still to draw from the resting side: the
\* resting order's lock has been reduced and its money has not moved yet.
Owing(user, side) ==
    [o \in OrderIds |->
        IF pc[o] = "settling" /\ order[o].side # side /\ order[trade[o].resting].user = user
            THEN TradeCost(o, side) ELSE 0]

\* What the orders of a user claim of its locked balance.
Claims(user, side) == Total(Residuals(user, side)) + Total(Owing(user, side))

\* The wallet's locked balance is what the live orders' lockedAmount fields
\* say: to the unit for the base asset, and at least that for quote (what a
\* buy filled below its limit leaves behind is the subject of NothingTrapped).
\* Two records of one fact, kept by different objects (Engine.currentOrder,
\* the store's entry, the wallet) and brought together by no code.
LocksAccounted ==
    \A u \in Users :
        /\ balance[u]["base"].locked = Claims(u, "sell")
        /\ balance[u]["quote"].locked >= Claims(u, "buy")

\* The residual lock of every live order still pays for what is left of it at
\* its limit price, so that cancelOrder never needs its nominal fallback and
\* settleTrade finds the funds (lockedAmount bookkeeping of processOrder and
\* atomicMatch, trade.price always being the seller's).
LockBacksRemainder ==
    \A o \in Live : Cost(order[o].side, order[o].price, order[o].quantity) <= order[o].lockedAmount

\* No call that has taken an order off the book throws: settleTrade finds both
\* locks and unlockFunds the residual (a throw there loses the match).
SettlementNeverFails == \A o \in OrderIds : pc[o] # "failed"

\* A user without an order in the book and without a call under way has no
\* locked funds: they are released on cancellation and on fill.
NothingTrapped ==
    Quiet => \A u \in Users :
                (\A o \in book : order[o].user # u)
                  => \A a \in Assets : balance[u][a].locked = 0

-----------------------------------------------------------------------------
(* The book                                                                *)

\* Quantity taken from an order by trades not yet in the trade store.
Takes(o) == [t \in OrderIds |-> IF trade[t].resting = o THEN trade[t].quantity ELSE 0]

Pending(o) == Total(Takes(o))

\* Every unit of an order is in the trade store, in a trade under way, or
\* still for sale, and an order with nothing left is not for sale: no two
\* takers are filled from the same unit (atomicMatch's second look-up).
FillsAddUp ==
    /\ \A o \in book : /\ order[o].quantity > 0
                       /\ traded[o] + Pending(o) + order[o].quantity = order[o].size
    /\ \A o \in OrderIds : traded[o] <= order[o].size

\* A trade under way is within the limits of both of its orders, for whichever
\* of the two came first.
TradesWithinLimits ==
    \A o \in OrderIds :
        trade[o] # NoTrade =>
            /\ order[BuyOrder(o)].price >= trade[o].price
            /\ order[SellOrder(o)].price <= trade[o].price
            /\ trade[o].quantity > 0

-----------------------------------------------------------------------------
(* The engine as an atomic market.  A trade happens when it is taken from  *)
(* the book; settling and recording it follow.                             *)

TermsOf(o) ==
    IF pc[o] = "idle" THEN [size |-> 0]
    ELSE [user |-> order[o].user, side |-> order[o].side, price |-> order[o].price,
          size |-> order[o].size, createdAt |-> order[o].createdAt, placedAt |-> order[o].placedAt]

\* What an order being processed may still take, what the book offers of an
\* order, and what an order has traded.
TakingOf(o) == IF pc[o] \in Processing THEN order[o].quantity - trade[o].quantity ELSE 0
RestOf(o)   == IF o \in book THEN order[o].quantity ELSE 0
BoughtOf(o) == traded[o] + trade[o].quantity + Pending(o)

MarketTerms  == [o \in OrderIds |-> TermsOf(o)]
MarketTaking == [o \in OrderIds |-> TakingOf(o)]
MarketRest   == [o \in OrderIds |-> RestOf(o)]
MarketBought == [o \in OrderIds |-> BoughtOf(o)]

AsMarket == INSTANCE Market WITH
    Times  <- 0..MaxClock,
    terms  <- MarketTerms,
    taking <- MarketTaking,
    rest   <- MarketRest,
    bought <- MarketBought

-----------------------------------------------------------------------------
(* Progress                                                                *)

\* Every call ends: the matching loop runs out of orders or of quantity, and
\* no interleaving leaves a call waiting.
CallsEnd ==
    /\ \A o \in OrderIds : pc[o] # "idle" ~> pc[o] \in Ended
    /\ \A c \in Cancels : cancel[c].at # "idle" ~> cancel[c].at \in {"cancelled", "failed"}
=============================================================================
