------------------------------ MODULE Trading ------------------------------
(***************************************************************************)
(* The vocabulary of the exchange: the two sides of a market, the two      *)
(* assets of its pair (BTC/USD: base and quote), what an order locks, when *)
(* two orders trade and at which price, and which resting order goes       *)
(* first.  These are the pure rules that Engine.ts, orderbook-store.ts and *)
(* the Postgres stores all apply.                                          *)
(***************************************************************************)
EXTENDS Naturals

Sides  == {"buy", "sell"}
Assets == {"base", "quote"}

Opposite(side) == IF side = "buy" THEN "sell" ELSE "buy"

\* A buy locks quote currency, a sell locks the base asset.
LockAsset(side) == IF side = "buy" THEN "quote" ELSE "base"

\* What trading `quantity' at `price' costs the given side, in its LockAsset.
Cost(side, price, quantity) ==
    IF side = "buy" THEN price * quantity ELSE quantity

\* The trade always executes at the seller's limit.
TradePrice(resting, taker) ==
    IF resting.side = "sell" THEN resting.price ELSE taker.price

PricesCross(taker, resting) ==
    IF taker.side = "buy" THEN resting.price <= taker.price
                          ELSE resting.price >= taker.price

LesserOf(m, n) == IF m <= n THEN m ELSE n

\* Price-time priority between two orders of one side: better price first,
\* then creation time.
Precedes(a, b) ==
    \/ a.side = "buy"  /\ a.price > b.price
    \/ a.side = "sell" /\ a.price < b.price
    \/ a.price = b.price /\ a.createdAt < b.createdAt

\* Array.prototype.sort is stable: orders of one price and millisecond keep the
\* order in which they were pushed.
TradesBefore(a, b) ==
    \/ Precedes(a, b)
    \/ a.price = b.price /\ a.createdAt = b.createdAt /\ a.placedAt < b.placedAt
=============================================================================
