----------------------------- MODULE DbExchange -----------------------------
(***************************************************************************)
(* StandardEngine over the Postgres stores (USE_DB=true).  Every statement *)
(* is awaited on the network, so the calls of different HTTP requests      *)
(* interleave between any two of them, the server may crash there, and any *)
(* of them may fail (the pool gives up after 5 s).  Transactions run READ  *)
(* COMMITTED: a plain SELECT sees what is committed, FOR UPDATE waits for  *)
(* the row and sees it as the last commit left it.                         *)
(*                                                                         *)
(* lockFunds, unlockFunds and the taking half of atomicMatch lock one row, *)
(* check it and change it: nobody sees between, so each is one step.       *)
(* settleTrade locks four rows one after the other and commits.            *)
(***************************************************************************)
EXTENDS Trading, FiniteSets

CONSTANTS
    Users,
    OrderIds,       \* ids generateOrderId will hand out, ascending
    Cancels,        \* calls of cancelOrder
    Prices, Quantities,
    InitialFunds,   \* [Assets -> Nat], every user's available balance
    DepositAmount,
    Seeded,         \* the balances seedDatabase deposits to at every start
    MaxDeposits, MaxClock, MaxFaults, MaxRestarts   \* bounds

ASSUME UsersAssumption    == Users # {}
ASSUME OrderIdsAssumption == OrderIds \subseteq Nat \ {0}
ASSUME OrdersAssumption ==
    /\ Prices \subseteq Nat \ {0} /\ Prices # {}
    /\ Quantities \subseteq Nat \ {0} /\ Quantities # {}
ASSUME FundsAssumption ==
    /\ InitialFunds \in [Assets -> Nat] /\ DepositAmount \in Nat \ {0}
    /\ Seeded \subseteq Users \X Assets
ASSUME FiniteAssumption  == IsFiniteSet(Users) /\ IsFiniteSet(OrderIds) /\ IsFiniteSet(Cancels)
ASSUME BoundsAssumption ==
    MaxDeposits \in Nat /\ MaxClock \in Nat /\ MaxFaults \in Nat /\ MaxRestarts \in Nat

VARIABLES
    balance,    \* table balances, as committed
    row,        \* table orders: what is left of each row, as committed
    rows,       \* the ids that have a row
    order,      \* the engine's copy of each order; what never changes of an
                \* order is read from here for its row too
    pc,         \* where each processOrder call stands
    snapshot,   \* atomicMatch: the opposite rows its SELECT has in view
    trade,      \* the trade being executed for a taker
    held,       \* settleTrade: how many of its row locks it has
    cancel,     \* the cancelOrder calls, with the row each one read
    traded,     \* table trades: quantity per order
    told,       \* statuses announced on the event bus, per order
    seeding,    \* deposits the starting server has yet to make
    clock,      \* Date.now()
    deposits, faults, restarts  \* counted against their bounds

engineVars == <<order, pc, snapshot, trade, held>>
tableVars  == <<balance, row, rows, traded>>
worldVars  == <<seeding, clock, deposits, faults, restarts>>
vars == <<engineVars, tableVars, cancel, told, worldVars>>

Ended      == {"open", "filled", "rejected", "failed", "lost"}
Processing == {"validating", "locking", "matching", "taking", "settling",
               "recording", "releasing", "placing"}
Cancelling == {"unlocking", "removing"}
Statuses   == {"PARTIALLY_FILLED", "FILLED", "CANCELLED", "FAILED"}
NoOrder    == 0
NoTrade    == [resting |-> NoOrder, price |-> 0, quantity |-> 0]
NoRow      == [quantity |-> 0, locked |-> 0]

Balance == [available : Nat, locked : Nat]
Wallets == [Users -> [Assets -> Balance]]
Row     == [quantity : Nat, locked : Nat]
Order   == [user : Users, side : Sides, price : Prices, size : Quantities,
            quantity : Nat, lockedAmount : Nat, createdAt : Nat]
Trade   == [resting : OrderIds \cup {NoOrder}, price : Nat, quantity : Nat]
Cancellation == [at : {"idle", "cancelled", "failed", "lost"} \cup Cancelling,
                 order : OrderIds \cup {NoOrder}, read : Row]

\* The balances and quantities satisfy the CHECKs of the tables.
TypeOK ==
    /\ balance \in Wallets
    /\ row \in [OrderIds -> Row]
    /\ rows \subseteq OrderIds
    /\ order \in [OrderIds -> Order]
    /\ pc \in [OrderIds -> {"idle"} \cup Processing \cup Ended]
    /\ snapshot \in [OrderIds -> SUBSET OrderIds]
    /\ trade \in [OrderIds -> Trade]
    /\ held \in [OrderIds -> 0..4]
    /\ cancel \in [Cancels -> Cancellation]
    /\ traded \in [OrderIds -> Nat]
    /\ told \in [OrderIds -> SUBSET Statuses]
    /\ seeding \subseteq Seeded
    /\ clock \in Nat /\ deposits \in Nat /\ faults \in Nat /\ restarts \in Nat

-----------------------------------------------------------------------------

BlankOrder ==
    [user |-> CHOOSE u \in Users : TRUE, side |-> "buy",
     price |-> CHOOSE p \in Prices : TRUE, size |-> CHOOSE q \in Quantities : TRUE,
     quantity |-> 0, lockedAmount |-> 0, createdAt |-> 0]

\* The server starts on a database with some balances and no orders.
Init ==
    /\ balance = [u \in Users |-> [a \in Assets |-> [available |-> InitialFunds[a], locked |-> 0]]]
    /\ row = [o \in OrderIds |-> NoRow] /\ rows = {}
    /\ order = [o \in OrderIds |-> BlankOrder]
    /\ pc = [o \in OrderIds |-> "idle"]
    /\ snapshot = [o \in OrderIds |-> {}]
    /\ trade = [o \in OrderIds |-> NoTrade]
    /\ held = [o \in OrderIds |-> 0]
    /\ cancel = [c \in Cancels |-> [at |-> "idle", order |-> NoOrder, read |-> NoRow]]
    /\ traded = [o \in OrderIds |-> 0]
    /\ told = [o \in OrderIds |-> {}]
    /\ seeding = Seeded
    /\ clock = 0 /\ deposits = 0 /\ faults = 0 /\ restarts = 0

Serving == seeding = {}

Goto(o, to) == pc' = [pc EXCEPT ![o] = to]

Tell(o, status) == told' = [told EXCEPT ![o] = @ \cup {status}]

-----------------------------------------------------------------------------
(* Row locks.  Only settleTrade holds one from statement to statement.     *)

BuyOrder(o)  == IF order[o].side = "buy" THEN o ELSE trade[o].resting
SellOrder(o) == IF order[o].side = "sell" THEN o ELSE trade[o].resting
Buyer(o)     == order[BuyOrder(o)].user
Seller(o)    == order[SellOrder(o)].user
Value(o)     == trade[o].price * trade[o].quantity

\* The balances settleTrade locks: two by FOR UPDATE, two by its upserts.
SettleRow(o, i) == CASE i = 1 -> <<Buyer(o), "quote">>
                     [] i = 2 -> <<Seller(o), "base">>
                     [] i = 3 -> <<Buyer(o), "base">>
                     [] i = 4 -> <<Seller(o), "quote">>

HeldBy(o) == {SettleRow(o, i) : i \in 1..held[o]}

\* No transaction but o's holds the row.
UnlockedFor(r, o) == \A p \in OrderIds \ {o} : r \notin HeldBy(p)

-----------------------------------------------------------------------------
(* Deposits                                                                *)

\* One upsert, whoever asks for it.
Credited(user, asset) ==
    /\ UnlockedFor(<<user, asset>>, NoOrder)
    /\ balance' = [balance EXCEPT ![user][asset].available = @ + DepositAmount]
    /\ deposits' = deposits + 1

Deposit(user, asset) ==
    /\ Serving
    /\ deposits < MaxDeposits
    /\ Credited(user, asset)
    /\ UNCHANGED <<row, rows, traded, engineVars, cancel, told, seeding, clock, faults, restarts>>

\* seedDatabase deposits again at every start, before the server serves.
Seed(user, asset) ==
    /\ <<user, asset>> \in seeding
    /\ seeding' = seeding \ {<<user, asset>>}
    /\ Credited(user, asset)
    /\ UNCHANGED <<row, rows, traded, engineVars, cancel, told, clock, faults, restarts>>

-----------------------------------------------------------------------------
(* processOrder                                                            *)

Submit(o, user, side, price, quantity, now) ==
    /\ Serving
    /\ pc[o] = "idle"
    /\ Goto(o, "validating")
    /\ \A p \in OrderIds : p < o => pc[p] # "idle"
    /\ now <= MaxClock
    /\ clock' = now
    /\ order' = [order EXCEPT ![o] =
         [user |-> user, side |-> side, price |-> price, size |-> quantity, quantity |-> quantity,
          lockedAmount |-> Cost(side, price, quantity), createdAt |-> now]]
    /\ UNCHANGED <<snapshot, trade, held, tableVars, cancel, told, seeding, deposits, faults, restarts>>

Needs(o) == Cost(order[o].side, order[o].price, order[o].quantity)
Funds(o) == balance[order[o].user][LockAsset(order[o].side)]

ValidateBalance(o) ==
    /\ pc[o] = "validating"
    /\ \/ Needs(o) <= Funds(o).available /\ Goto(o, "locking")  /\ UNCHANGED told
       \/ Needs(o) > Funds(o).available  /\ Goto(o, "rejected") /\ Tell(o, "FAILED")
    /\ UNCHANGED <<order, snapshot, trade, held, tableVars, cancel, worldVars>>

\* Slip: the locked row is not checked again.
CanLockUnchecked(o) == TRUE

CanLock(o) == Needs(o) <= Funds(o).available

LockFunds(o) ==
    /\ pc[o] = "locking"
    /\ UnlockedFor(<<order[o].user, LockAsset(order[o].side)>>, o)
    /\ order' = [order EXCEPT ![o].lockedAmount = Needs(o)]
    /\ \/ /\ CanLock(o)
          /\ Goto(o, "matching")
          /\ balance' = [balance EXCEPT ![order[o].user][LockAsset(order[o].side)] =
                            [available |-> @.available - Needs(o), locked |-> @.locked + Needs(o)]]
       \/ /\ ~CanLock(o)
          /\ Goto(o, "rejected")
          /\ UNCHANGED balance
    /\ UNCHANGED <<row, rows, traded, snapshot, trade, held, cancel, told, worldVars>>

\* The SELECT of atomicMatch sees the rows that are committed as it begins ...
SelectRow(o) ==
    /\ pc[o] = "matching"
    /\ Goto(o, "taking")
    /\ snapshot' = [snapshot EXCEPT ![o] = {m \in rows : order[m].side = Opposite(order[o].side)}]
    /\ UNCHANGED <<order, trade, held, tableVars, cancel, told, worldVars>>

\* ... and FOR UPDATE waits for them in order, returns the first that is still
\* there, as the last commit left it, and passes over those that are gone.
\* ORDER BY price, created_at: among equals Postgres may return any.
RowsFirst(o) ==
    {m \in snapshot[o] \cap rows :
        \A n \in snapshot[o] \cap rows : ~Precedes(order[n], order[m])}

\* Slip: the price of the row is not compared.
CanTakeAnyPrice(o, m) == TRUE

CanTake(o, m) == PricesCross(order[o], order[m])

\* Slip: an order taken whole keeps its row.
TakenWholeNever(m, quantity) == FALSE

TakenWhole(m, quantity) == row[m].quantity <= quantity

Less(m, n) == IF m <= n THEN 0 ELSE m - n

TakeRow(o, m) ==
    LET qty   == LesserOf(order[o].quantity, row[m].quantity)
        price == TradePrice(order[m], order[o])
    IN  /\ pc[o] = "taking"
        /\ m \in RowsFirst(o)
        /\ CanTake(o, m)
        /\ Goto(o, "settling")
        /\ snapshot' = [snapshot EXCEPT ![o] = {}]
        /\ trade' = [trade EXCEPT ![o] = [resting |-> m, price |-> price, quantity |-> qty]]
        /\ \/ /\ TakenWhole(m, qty)
              /\ rows' = rows \ {m}
              /\ row' = [row EXCEPT ![m] = NoRow]
           \/ /\ ~TakenWhole(m, qty)
              /\ row' = [row EXCEPT ![m] =
                    [quantity |-> @.quantity - qty,
                     locked |-> Less(@.locked, Cost(order[m].side, price, qty))]]
              /\ UNCHANGED rows
        /\ UNCHANGED <<balance, traded, order, held, cancel, told, worldVars>>

\* No match: what is left is announced and then inserted.
TakeNothing(o) ==
    /\ pc[o] = "taking"
    /\ \A m \in RowsFirst(o) : ~CanTake(o, m)
    /\ Goto(o, "placing")
    /\ Tell(o, "PARTIALLY_FILLED")
    /\ snapshot' = [snapshot EXCEPT ![o] = {}]
    /\ UNCHANGED <<order, trade, held, tableVars, cancel, worldVars>>

InsertRow(o) ==
    /\ pc[o] = "placing"
    /\ Goto(o, "open")
    /\ rows' = rows \cup {o}
    /\ row' = [row EXCEPT ![o] = [quantity |-> order[o].quantity, locked |-> order[o].lockedAmount]]
    /\ UNCHANGED <<balance, traded, order, snapshot, trade, held, cancel, told, worldVars>>

\* What the transaction checks of the i-th row it has locked.
Holds(o, i) == /\ i = 1 => Value(o) <= balance[Buyer(o)]["quote"].locked
               /\ i = 2 => trade[o].quantity <= balance[Seller(o)]["base"].locked

\* The call throws: its transaction rolls back, what it had committed stays.
Thrown(o) ==
    /\ Goto(o, "failed")
    /\ held' = [held EXCEPT ![o] = 0]
    /\ trade' = [trade EXCEPT ![o] = NoTrade]
    /\ snapshot' = [snapshot EXCEPT ![o] = {}]

LockSettleRow(o) ==
    LET i == held[o] + 1
    IN  /\ pc[o] = "settling"
        /\ held[o] < 4
        /\ UnlockedFor(SettleRow(o, i), o)
        /\ \/ Holds(o, i) /\ held' = [held EXCEPT ![o] = i] /\ UNCHANGED <<pc, trade, snapshot>>
           \/ ~Holds(o, i) /\ Thrown(o)
        /\ UNCHANGED <<order, tableVars, cancel, told, worldVars>>

\* Slip: the seller is not paid.
SettledUnpaid(b, buyer, seller, price, quantity) ==
    [b EXCEPT ![buyer]["quote"].locked = @ - price * quantity,
              ![buyer]["base"].available = @ + quantity,
              ![seller]["base"].locked = @ - quantity]

Settled(b, buyer, seller, price, quantity) ==
    [b EXCEPT ![buyer]["quote"].locked = @ - price * quantity,
              ![buyer]["base"].available = @ + quantity,
              ![seller]["base"].locked = @ - quantity,
              ![seller]["quote"].available = @ + price * quantity]

CommitSettle(o) ==
    /\ pc[o] = "settling"
    /\ held[o] = 4
    /\ Goto(o, "recording")
    /\ held' = [held EXCEPT ![o] = 0]
    /\ balance' = Settled(balance, Buyer(o), Seller(o), trade[o].price, trade[o].quantity)
    /\ UNCHANGED <<row, rows, traded, order, snapshot, trade, cancel, told, worldVars>>

WaitsFor(o, p) ==
    /\ pc[o] = "settling" /\ held[o] < 4
    /\ p # o /\ SettleRow(o, held[o] + 1) \in HeldBy(p)

\* Each of the transactions waits for one of them and is waited for by one.
Cycle(S) == \A o \in S : (\E p \in S : WaitsFor(o, p)) /\ (\E p \in S : WaitsFor(p, o))

\* Slip: settleTrade begins again when it was aborted, as often as that happens.
DeadlockAbortRetried(o) ==
    /\ \E S \in SUBSET OrderIds : o \in S /\ Cycle(S)
    /\ held' = [held EXCEPT ![o] = 0]
    /\ UNCHANGED <<pc, trade, snapshot, order, tableVars, cancel, told, worldVars>>

\* Postgres finds the cycle and aborts one of its transactions.
DeadlockAbort(o) ==
    /\ \E S \in SUBSET OrderIds : o \in S /\ Cycle(S)
    /\ Thrown(o)
    /\ UNCHANGED <<order, tableVars, cancel, told, worldVars>>

\* Slip: the lock keeps what the trade cost.
AfterTradeKeepsLock(o) == [order[o] EXCEPT !.quantity = @ - trade[o].quantity]

\* The engine's copy of the taker after a trade.
AfterTrade(o) ==
    [order[o] EXCEPT !.quantity = @ - trade[o].quantity,
                     !.lockedAmount = @ - Cost(order[o].side, trade[o].price, trade[o].quantity)]

\* recordTrade and recordTick, then the loop goes round or ends.
RecordTrade(o) ==
    LET after == AfterTrade(o)
        next  == IF after.quantity > 0 THEN "matching"
                 ELSE IF after.lockedAmount > 0 THEN "releasing" ELSE "filled"
    IN  /\ pc[o] = "recording"
        /\ Goto(o, next)
        /\ traded' = [traded EXCEPT ![o] = @ + trade[o].quantity,
                                   ![trade[o].resting] = @ + trade[o].quantity]
        /\ order' = [order EXCEPT ![o] = after]
        /\ trade' = [trade EXCEPT ![o] = NoTrade]
        /\ \/ next = "filled" /\ Tell(o, "FILLED")
           \/ next # "filled" /\ UNCHANGED told
        /\ UNCHANGED <<balance, row, rows, snapshot, held, cancel, worldVars>>

Unlocked(user, asset, amount) ==
    balance' = [balance EXCEPT ![user][asset] =
                   [available |-> @.available + amount, locked |-> @.locked - amount]]

ReleaseResidual(o) ==
    LET user  == order[o].user
        asset == LockAsset(order[o].side)
        rest  == order[o].lockedAmount
    IN  /\ pc[o] = "releasing"
        /\ UnlockedFor(<<user, asset>>, o)
        /\ \/ /\ rest <= balance[user][asset].locked
              /\ Goto(o, "filled")
              /\ Unlocked(user, asset, rest)
              /\ Tell(o, "FILLED")
           \/ /\ rest > balance[user][asset].locked
              /\ Goto(o, "failed")
              /\ UNCHANGED <<balance, told>>
        /\ UNCHANGED <<row, rows, traded, order, snapshot, trade, held, cancel, worldVars>>

-----------------------------------------------------------------------------
(* cancelOrder                                                             *)

CancelGoto(c, to) == cancel' = [cancel EXCEPT ![c].at = to]

\* getOrder returns a copy of the row, or the call throws.
CancelGetOrder(c, o) ==
    /\ Serving
    /\ cancel[c].at = "idle"
    /\ pc[o] # "idle"
    /\ \/ /\ o \in rows
          /\ cancel' = [cancel EXCEPT ![c] = [at |-> "unlocking", order |-> o, read |-> row[o]]]
          /\ UNCHANGED told
       \/ /\ o \notin rows
          /\ cancel' = [cancel EXCEPT ![c] = [at |-> "failed", order |-> o, read |-> NoRow]]
          /\ Tell(o, "FAILED")
    /\ UNCHANGED <<engineVars, tableVars, worldVars>>

\* The amount comes from the copy.
CancelUnlockFunds(c) ==
    LET o      == cancel[c].order
        user   == order[o].user
        asset  == LockAsset(order[o].side)
        amount == IF cancel[c].read.locked > 0 THEN cancel[c].read.locked
                  ELSE Cost(order[o].side, order[o].price, cancel[c].read.quantity)
    IN  /\ cancel[c].at = "unlocking"
        /\ UnlockedFor(<<user, asset>>, NoOrder)
        /\ \/ /\ amount <= balance[user][asset].locked
              /\ CancelGoto(c, "removing")
              /\ Unlocked(user, asset, amount)
           \/ /\ amount > balance[user][asset].locked
              /\ CancelGoto(c, "failed")
              /\ UNCHANGED balance
        /\ UNCHANGED <<row, rows, traded, engineVars, told, worldVars>>

\* DELETE of a row that is gone deletes nothing and is announced all the same.
CancelRemove(c) ==
    /\ cancel[c].at = "removing"
    /\ CancelGoto(c, "cancelled")
    /\ rows' = rows \ {cancel[c].order}
    /\ row' = [row EXCEPT ![cancel[c].order] = NoRow]
    /\ Tell(cancel[c].order, "CANCELLED")
    /\ UNCHANGED <<balance, traded, engineVars, worldVars>>

-----------------------------------------------------------------------------
(* Failures                                                                *)

\* The statement a call awaits fails: no connection within 5 s, or an error.
Fault(o) ==
    /\ faults < MaxFaults
    /\ faults' = faults + 1
    /\ pc[o] \in Processing
    /\ Thrown(o)
    /\ UNCHANGED <<order, tableVars, cancel, told, seeding, clock, deposits, restarts>>

CancelFault(c) ==
    /\ faults < MaxFaults
    /\ faults' = faults + 1
    /\ cancel[c].at \in Cancelling
    /\ CancelGoto(c, "failed")
    /\ UNCHANGED <<engineVars, tableVars, told, seeding, clock, deposits, restarts>>

\* The process dies with its calls; Postgres rolls their transactions back and
\* the next start runs the seed again.  Nothing looks for what was under way.
Restart ==
    /\ restarts < MaxRestarts
    /\ restarts' = restarts + 1
    /\ seeding' = Seeded
    /\ pc' = [o \in OrderIds |-> IF pc[o] \in Processing THEN "lost" ELSE pc[o]]
    /\ held' = [o \in OrderIds |-> 0]
    /\ trade' = [o \in OrderIds |-> NoTrade]
    /\ snapshot' = [o \in OrderIds |-> {}]
    /\ cancel' = [c \in Cancels |->
                    IF cancel[c].at \in Cancelling THEN [cancel[c] EXCEPT !.at = "lost"] ELSE cancel[c]]
    /\ UNCHANGED <<order, tableVars, told, clock, deposits, faults>>

-----------------------------------------------------------------------------

\* The next step of the call that processes order o.
Process(o) ==
    \/ ValidateBalance(o)
    \/ LockFunds(o)
    \/ SelectRow(o)
    \/ \E m \in OrderIds : TakeRow(o, m)
    \/ TakeNothing(o)
    \/ InsertRow(o)
    \/ LockSettleRow(o)
    \/ CommitSettle(o)
    \/ DeadlockAbort(o)
    \/ RecordTrade(o)
    \/ ReleaseResidual(o)

\* The next step of a cancelOrder call under way.
ProcessCancel(c) == CancelUnlockFunds(c) \/ CancelRemove(c)

Arrive ==
    \/ \E u \in Users, a \in Assets : Deposit(u, a) \/ Seed(u, a)
    \/ \E o \in OrderIds, u \in Users, s \in Sides, p \in Prices, q \in Quantities,
          now \in {clock, clock + 1} : Submit(o, u, s, p, q, now)
    \/ \E c \in Cancels, o \in OrderIds : CancelGetOrder(c, o)

Next ==
    \/ Arrive
    \/ \E o \in OrderIds : Process(o) \/ Fault(o)
    \/ \E c \in Cancels : ProcessCancel(c) \/ CancelFault(c)
    \/ Restart

\* The server goes on with the call Postgres answers, and Postgres answers a
\* statement whose lock is free and resolves a deadlock.
Fairness ==
    /\ \A o \in OrderIds : WF_vars(Process(o))
    /\ \A c \in Cancels : WF_vars(ProcessCancel(c))

Spec     == Init /\ [][Next]_vars
FairSpec == Spec /\ Fairness
=============================================================================
