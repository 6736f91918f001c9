------------------------ MODULE DbExchangeProperties ------------------------
(***************************************************************************)
(* What the engine promises when its stores are tables.                    *)
(***************************************************************************)
EXTENDS DbExchange, Totals

-----------------------------------------------------------------------------
(* Money                                                                   *)

\* The balances table only ever changes by whole deposits, locks, releases and
\* trades, none of them overdrawn, whatever interleaves, fails or restarts
\* (the transactions of DbWalletStore are what a wallet promises).
Wallet == INSTANCE Ledger

WalletIsALedger == Wallet!LedgerSpec

Owned(asset) == Total([u \in Users |-> balance[u][asset].available + balance[u][asset].locked])

\* Only deposits make money: what the users own is what they began with and
\* what was deposited, by them or by the seed (settleTrade moves both legs in
\* one transaction or none).
Conservation ==
    Owned("base") + Owned("quote")
      = Cardinality(Users) * (InitialFunds["base"] + InitialFunds["quote"])
          + deposits * DepositAmount

\* Orders whose funds are locked and whose call has not ended.
UnderWay == {o \in OrderIds : pc[o] \in {"matching", "taking", "settling", "recording", "releasing", "placing"}}

TradeCost(o, side) == Cost(side, trade[o].price, trade[o].quantity)

\* What an order holds of the wallet's locked funds: locked_amount once it has a
\* row, and until then the call's lockedAmount, less what its trade has cost it
\* and the call has not yet taken from its copy.
Residual(o) ==
    IF o \in rows THEN row[o].locked
    ELSE IF pc[o] = "recording" THEN order[o].lockedAmount - TradeCost(o, order[o].side)
    ELSE order[o].lockedAmount

Residuals(user, side) ==
    [o \in OrderIds |->
        IF o \in rows \cup UnderWay /\ order[o].user = user /\ order[o].side = side
            THEN Residual(o) ELSE 0]

\* What trades whose settlement has not committed are to draw from the resting
\* side, whose locked_amount has been reduced.
Owing(user, side) ==
    [o \in OrderIds |->
        IF pc[o] = "settling" /\ order[o].side # side /\ order[trade[o].resting].user = user
            THEN TradeCost(o, side) ELSE 0]

\* What the orders of a user claim of its locked balance.
Claims(user, side) == Total(Residuals(user, side)) + Total(Owing(user, side))

NothingCancelled == \A c \in Cancels : cancel[c].at \in {"idle", "unlocking"}

\* The locked balance of a user pays for every order of that user that can
\* still trade: the rows' locked_amount, the calls' lockedAmount and the trades
\* being settled never claim more than the balances table has.  This is so
\* until a cancelOrder releases what it read (see ReleasesTheResidual).
LocksCover ==
    NothingCancelled => \A u \in Users, s \in Sides :
        Claims(u, s) <= balance[u][LockAsset(s)].locked

\* A cancel releases what the row still had locked ("Exact residual lock for
\* tracked orders", cancelOrder).
ReleasesTheResidual ==
    [][\A c \in Cancels :
         cancel[c].at = "unlocking" /\ cancel'[c].at = "removing"
           => cancel[c].read = row[cancel[c].order]]_vars

-----------------------------------------------------------------------------
(* Orders                                                                  *)

\* Quantity matched from a row by calls that have not recorded the trade.
Takes(o) == [t \in OrderIds |-> IF trade[t].resting = o THEN trade[t].quantity ELSE 0]

Pending(o) == trade[o].quantity + Total(Takes(o))

\* What trades have taken or are taking from an order, and what its row still
\* offers, never exceed its size, and a row always offers something (two
\* takers that pick one row, a row matched while it is cancelled, a trade
\* whose call died).
NeverOversold ==
    \A o \in OrderIds :
        /\ o \in rows => row[o].quantity > 0
        /\ pc[o] # "idle" => traded[o] + Pending(o) + row[o].quantity <= order[o].size

\* A trade is within the limits of both of its orders.
TradesWithinLimits ==
    \A o \in OrderIds :
        trade[o] # NoTrade =>
            /\ order[BuyOrder(o)].price >= trade[o].price
            /\ order[SellOrder(o)].price <= trade[o].price
            /\ trade[o].quantity > 0

-----------------------------------------------------------------------------
(* Progress                                                                *)

\* Every call ends, whatever settlements deadlock (Postgres aborts one, whose
\* call throws), statements fail and restarts cut off.
CallsEnd ==
    /\ \A o \in OrderIds : pc[o] # "idle" ~> pc[o] \in Ended
    /\ \A c \in Cancels : cancel[c].at # "idle" ~> cancel[c].at \in {"cancelled", "failed", "lost"}
=============================================================================
