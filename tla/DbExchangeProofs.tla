-------------------------- MODULE DbExchangeProofs --------------------------
(***************************************************************************)
(* Theorems about the engine over Postgres, for every set of users,        *)
(* orders, prices and quantities, however many calls overlap, fail or die  *)
(* with the server: types, money, quantities, locks, and the end of calls. *)
(***************************************************************************)
EXTENDS DbExchangeProperties, DataProofs, WellFoundedInduction
-----------------------------------------------------------------------------
(* The inductive invariant.                                                *)

\* A trade under way takes some of what its taker asked for from an order that
\* has been in the table, within the limits of both.
TradeFits(o) ==
    /\ trade[o].resting \in OrderIds /\ pc[trade[o].resting] = "open"
    /\ order[trade[o].resting].side = Opposite(order[o].side)
    /\ trade[o].price > 0
    /\ trade[o].quantity > 0 /\ trade[o].quantity <= order[o].quantity
    /\ order[BuyOrder(o)].price >= trade[o].price
    /\ order[SellOrder(o)].price <= trade[o].price

\* What a call keeps of its order pays for the rest of it, and what it keeps
\* besides (snapshot, trade) belongs to the statement it is at.
CallFits(o) ==
    /\ Needs(o) <= order[o].lockedAmount
    /\ pc[o] \in Processing \ {"releasing"} => order[o].quantity > 0
    /\ pc[o] = "releasing" => order[o].lockedAmount > 0
    /\ IF pc[o] \in {"settling", "recording"} THEN TradeFits(o) ELSE trade[o] = NoTrade
    /\ pc[o] # "taking" => snapshot[o] = {}
    /\ \A m \in snapshot[o] : pc[m] = "open" /\ order[m].side = Opposite(order[o].side)

\* A row belongs to an order whose call has ended, offers something and has
\* what that costs locked.
RowFits(o) ==
    IF o \in rows
        THEN /\ pc[o] = "open" /\ row[o].quantity > 0
             /\ Cost(order[o].side, order[o].price, row[o].quantity) <= row[o].locked
        ELSE row[o] = NoRow

\* Row locks are exclusive, and what a settlement has found in the rows it has
\* locked stays there.
LockFits(o) ==
    /\ held[o] > 0 => pc[o] = "settling" /\ Holds(o, 1)
    /\ held[o] > 1 => Holds(o, 2)
    /\ \A p \in OrderIds \ {o} : HeldBy(o) \cap HeldBy(p) = {}

CancelFits(c) ==
    cancel[c].at \in Cancelling => cancel[c].order \in OrderIds /\ pc[cancel[c].order] = "open"

IInv ==
    /\ TypeOK
    /\ \A o \in OrderIds : CallFits(o) /\ RowFits(o) /\ LockFits(o)
    /\ \A c \in Cancels : CancelFits(c)

-----------------------------------------------------------------------------
(* The balances table.                                                     *)

\* What the statements do to the table.
Replaced(b, u, a, new) == [b EXCEPT ![u][a] = new]
Raised(b, u, a, n)     == [b EXCEPT ![u][a].available = @ + n]
Lowered(b, u, a, n)    == [b EXCEPT ![u][a].locked = @ - n]
Locked(b, u, a, n)     == [b EXCEPT ![u][a] = [available |-> @.available - n, locked |-> @.locked + n]]
Freed(b, u, a, n)      == [b EXCEPT ![u][a] = [available |-> @.available + n, locked |-> @.locked - n]]

\* A balance that is replaced by another leaves the rest of the table alone.
LEMMA BalanceReplaced ==
    ASSUME NEW b \in Wallets, NEW u \in Users, NEW a \in Assets, NEW new \in Balance
    PROVE  /\ Replaced(b, u, a, new) \in Wallets
           /\ \A v \in Users, x \in Assets :
                Replaced(b, u, a, new)[v][x] = IF v = u /\ x = a THEN new ELSE b[v][x]
<1>1. b \in [Users -> [Assets -> Balance]] /\ b[u] \in [Assets -> Balance]
    BY DEF Wallets
<1>2. [b[u] EXCEPT ![a] = new] \in [Assets -> Balance]
    BY <1>1
<1> QED BY <1>1, <1>2 DEF Wallets, Replaced

\* The table holds natural numbers.
LEMMA BalancesAreNat ==
    ASSUME NEW b \in Wallets, NEW u \in Users, NEW a \in Assets
    PROVE  b[u][a] \in Balance /\ b[u][a].available \in Nat /\ b[u][a].locked \in Nat
BY DEF Wallets, Balance

\* Adding to what is available.
LEMMA AvailableRaised ==
    ASSUME NEW b \in Wallets, NEW u \in Users, NEW a \in Assets, NEW n \in Nat,
           NEW v \in Users, NEW x \in Assets
    PROVE  /\ Raised(b, u, a, n) \in Wallets
           /\ Raised(b, u, a, n)[v][x].available = b[v][x].available + (IF v = u /\ x = a THEN n ELSE 0)
           /\ Raised(b, u, a, n)[v][x].locked = b[v][x].locked
<1>1. PICK new : new = [b[u][a] EXCEPT !.available = @ + n]
    OBVIOUS
<1>2. new \in Balance /\ new.locked = b[u][a].locked /\ new.available = b[u][a].available + n
    BY <1>1, BalancesAreNat DEF Balance
<1>3. PICK c : c = Replaced(b, u, a, new)
    OBVIOUS
<1>4. c \in Wallets /\ c[v][x] = IF v = u /\ x = a THEN new ELSE b[v][x]
    BY <1>2, <1>3, BalanceReplaced
<1>5. c[v][x].available = b[v][x].available + (IF v = u /\ x = a THEN n ELSE 0) /\ c[v][x].locked = b[v][x].locked
    <2>1. CASE v = u /\ x = a
        BY <1>2, <1>4, <2>1, BalancesAreNat
    <2>2. CASE ~(v = u /\ x = a)
        BY <1>4, <2>2, BalancesAreNat
    <2> QED BY <2>1, <2>2
<1>6. c = Raised(b, u, a, n)
    BY <1>1, <1>3 DEF Replaced, Raised
<1> QED BY <1>4, <1>5, <1>6

\* Taking from what is locked.
LEMMA LockLowered ==
    ASSUME NEW b \in Wallets, NEW u \in Users, NEW a \in Assets, NEW n \in Nat, n <= b[u][a].locked,
           NEW v \in Users, NEW x \in Assets
    PROVE  /\ Lowered(b, u, a, n) \in Wallets
           /\ Lowered(b, u, a, n)[v][x].available = b[v][x].available
           /\ Lowered(b, u, a, n)[v][x].locked = b[v][x].locked - (IF v = u /\ x = a THEN n ELSE 0)
<1>1. PICK new : new = [b[u][a] EXCEPT !.locked = @ - n]
    OBVIOUS
<1>2. new \in Balance /\ new.available = b[u][a].available /\ new.locked = b[u][a].locked - n
    BY <1>1, BalancesAreNat DEF Balance
<1>3. PICK c : c = Replaced(b, u, a, new)
    OBVIOUS
<1>4. c \in Wallets /\ c[v][x] = IF v = u /\ x = a THEN new ELSE b[v][x]
    BY <1>2, <1>3, BalanceReplaced
<1>5. c[v][x].available = b[v][x].available /\ c[v][x].locked = b[v][x].locked - (IF v = u /\ x = a THEN n ELSE 0)
    <2>1. CASE v = u /\ x = a
        BY <1>2, <1>4, <2>1, BalancesAreNat
    <2>2. CASE ~(v = u /\ x = a)
        BY <1>4, <2>2, BalancesAreNat
    <2> QED BY <2>1, <2>2
<1>6. c = Lowered(b, u, a, n)
    BY <1>1, <1>3 DEF Replaced, Lowered
<1> QED BY <1>4, <1>5, <1>6

\* lockFunds moves an amount from what is available to what is locked.
LEMMA LockedBalances ==
    ASSUME NEW b \in Wallets, NEW u \in Users, NEW a \in Assets, NEW n \in Nat, n <= b[u][a].available,
           NEW v \in Users, NEW x \in Assets
    PROVE  /\ Locked(b, u, a, n) \in Wallets
           /\ Locked(b, u, a, n)[v][x].available = b[v][x].available - (IF v = u /\ x = a THEN n ELSE 0)
           /\ Locked(b, u, a, n)[v][x].locked = b[v][x].locked + (IF v = u /\ x = a THEN n ELSE 0)
<1>1. PICK new : new = [available |-> b[u][a].available - n, locked |-> b[u][a].locked + n]
    OBVIOUS
<1>2. new \in Balance /\ new.locked = b[u][a].locked + n /\ new.available = b[u][a].available - n
    BY <1>1, BalancesAreNat DEF Balance
<1>3. PICK c : c = Replaced(b, u, a, new)
    OBVIOUS
<1>4. c \in Wallets /\ c[v][x] = IF v = u /\ x = a THEN new ELSE b[v][x]
    BY <1>2, <1>3, BalanceReplaced
<1>5. c[v][x].available = b[v][x].available - (IF v = u /\ x = a THEN n ELSE 0) /\ c[v][x].locked = b[v][x].locked + (IF v = u /\ x = a THEN n ELSE 0)
    <2>1. CASE v = u /\ x = a
        BY <1>2, <1>4, <2>1, BalancesAreNat
    <2>2. CASE ~(v = u /\ x = a)
        BY <1>4, <2>2, BalancesAreNat
    <2> QED BY <2>1, <2>2
<1>6. c = Locked(b, u, a, n)
    BY <1>1, <1>3 DEF Replaced, Locked
<1> QED BY <1>4, <1>5, <1>6

\* unlockFunds moves it back.
LEMMA UnlockedBalances ==
    ASSUME NEW b \in Wallets, NEW u \in Users, NEW a \in Assets, NEW n \in Nat, n <= b[u][a].locked,
           NEW v \in Users, NEW x \in Assets
    PROVE  /\ Freed(b, u, a, n) \in Wallets
           /\ Freed(b, u, a, n)[v][x].available = b[v][x].available + (IF v = u /\ x = a THEN n ELSE 0)
           /\ Freed(b, u, a, n)[v][x].locked = b[v][x].locked - (IF v = u /\ x = a THEN n ELSE 0)
<1>1. PICK new : new = [available |-> b[u][a].available + n, locked |-> b[u][a].locked - n]
    OBVIOUS
<1>2. new \in Balance /\ new.locked = b[u][a].locked - n /\ new.available = b[u][a].available + n
    BY <1>1, BalancesAreNat DEF Balance
<1>3. PICK c : c = Replaced(b, u, a, new)
    OBVIOUS
<1>4. c \in Wallets /\ c[v][x] = IF v = u /\ x = a THEN new ELSE b[v][x]
    BY <1>2, <1>3, BalanceReplaced
<1>5. c[v][x].available = b[v][x].available + (IF v = u /\ x = a THEN n ELSE 0) /\ c[v][x].locked = b[v][x].locked - (IF v = u /\ x = a THEN n ELSE 0)
    <2>1. CASE v = u /\ x = a
        BY <1>2, <1>4, <2>1, BalancesAreNat
    <2>2. CASE ~(v = u /\ x = a)
        BY <1>4, <2>2, BalancesAreNat
    <2> QED BY <2>1, <2>2
<1>6. c = Freed(b, u, a, n)
    BY <1>1, <1>3 DEF Replaced, Freed
<1> QED BY <1>4, <1>5, <1>6

\* settleTrade moves both legs, whether or not buyer and seller are one user.
SettledWorth(b, buyer, seller, value, n) ==
    [b EXCEPT ![buyer]["quote"].locked = @ - value,
              ![buyer]["base"].available = @ + n,
              ![seller]["base"].locked = @ - n,
              ![seller]["quote"].available = @ + value]

LEMMA SettledBalances ==
    ASSUME NEW b \in Wallets, NEW buyer \in Users, NEW seller \in Users, NEW value \in Nat, NEW n \in Nat,
           value <= b[buyer]["quote"].locked, n <= b[seller]["base"].locked
    PROVE  LET c == SettledWorth(b, buyer, seller, value, n)
           IN  /\ c \in Wallets
               /\ \A v \in Users :
                    /\ c[v]["quote"].locked = b[v]["quote"].locked - (IF v = buyer THEN value ELSE 0)
                    /\ c[v]["quote"].available = b[v]["quote"].available + (IF v = seller THEN value ELSE 0)
                    /\ c[v]["base"].locked = b[v]["base"].locked - (IF v = seller THEN n ELSE 0)
                    /\ c[v]["base"].available = b[v]["base"].available + (IF v = buyer THEN n ELSE 0)
<1>1. "base" \in Assets /\ "quote" \in Assets /\ "base" # "quote"
    BY DEF Assets
<1>2. PICK l, a, m, r :
        /\ l = b[buyer]["quote"].locked - value
        /\ a = b[buyer]["base"].available + n
        /\ m = b[seller]["base"].locked - n
        /\ r = b[seller]["quote"].available + value
    BY Zenon
<1>3. PICK b1, b2, b3, b4 :
        /\ b1 = [b EXCEPT ![buyer]["quote"].locked = l]
        /\ b2 = [b1 EXCEPT ![buyer]["base"].available = a]
        /\ b3 = [b2 EXCEPT ![seller]["base"].locked = m]
        /\ b4 = [b3 EXCEPT ![seller]["quote"].available = r]
    BY Zenon
<1>4. SettledWorth(b, buyer, seller, value, n) = b4
    <2>1. SettledWorth(b, buyer, seller, value, n)
            = [b EXCEPT ![buyer]["quote"].locked = l, ![buyer]["base"].available = a,
                        ![seller]["base"].locked = m, ![seller]["quote"].available = r]
        BY <1>2 DEF SettledWorth
    <2> QED BY <1>3, <2>1, Zenon
<1>5. /\ b1 \in Wallets
      /\ \A v \in Users, x \in Assets :
           /\ b1[v][x].available = b[v][x].available
           /\ b1[v][x].locked = b[v][x].locked - (IF v = buyer /\ x = "quote" THEN value ELSE 0)
    <2>1. b1 = Lowered(b, buyer, "quote", value)
        BY <1>2, <1>3 DEF Lowered
    <2> QED BY <1>1, <2>1, LockLowered
<1>6. /\ b2 \in Wallets
      /\ \A v \in Users, x \in Assets :
           /\ b2[v][x].locked = b1[v][x].locked
           /\ b2[v][x].available = b1[v][x].available + (IF v = buyer /\ x = "base" THEN n ELSE 0)
    <2>1. a = b1[buyer]["base"].available + n
        BY <1>1, <1>2, <1>5
    <2>2. b2 = Raised(b1, buyer, "base", n)
        BY <1>3, <2>1 DEF Raised
    <2>3. b1 \in Wallets
        BY <1>5
    <2>4. ASSUME NEW v \in Users, NEW x \in Assets
          PROVE  /\ Raised(b1, buyer, "base", n) \in Wallets
                 /\ Raised(b1, buyer, "base", n)[v][x].locked = b1[v][x].locked
                 /\ Raised(b1, buyer, "base", n)[v][x].available
                        = b1[v][x].available + (IF v = buyer /\ x = "base" THEN n ELSE 0)
        BY <1>1, <2>3, AvailableRaised
    <2> QED BY <1>1, <2>2, <2>4
<1>7. /\ b3 \in Wallets
      /\ \A v \in Users, x \in Assets :
           /\ b3[v][x].available = b2[v][x].available
           /\ b3[v][x].locked = b2[v][x].locked - (IF v = seller /\ x = "base" THEN n ELSE 0)
    <2>1. b2[seller]["base"].locked = b[seller]["base"].locked - 0
        BY <1>1, <1>5, <1>6
    <2>2. b[seller]["base"].locked \in Nat
        BY <1>1, BalancesAreNat
    <2>3. n <= b2[seller]["base"].locked /\ m = b2[seller]["base"].locked - n
        BY <1>2, <2>1, <2>2
    <2>4. b3 = Lowered(b2, seller, "base", n)
        BY <1>3, <2>3 DEF Lowered
    <2> QED BY <1>1, <1>6, <2>3, <2>4, LockLowered
<1>8. /\ b4 \in Wallets
      /\ \A v \in Users, x \in Assets :
           /\ b4[v][x].locked = b3[v][x].locked
           /\ b4[v][x].available = b3[v][x].available + (IF v = seller /\ x = "quote" THEN value ELSE 0)
    <2>1. b3[seller]["quote"].available = b[seller]["quote"].available + 0
        BY <1>1, <1>5, <1>6, <1>7
    <2>2. b[seller]["quote"].available \in Nat
        BY <1>1, BalancesAreNat
    <2>3. r = b3[seller]["quote"].available + value
        BY <1>2, <2>1, <2>2
    <2>4. b4 = Raised(b3, seller, "quote", value)
        BY <1>3, <2>3 DEF Raised
    <2>5. b3 \in Wallets /\ seller \in Users /\ "quote" \in Assets /\ value \in Nat
        BY <1>1, <1>7
    <2>6. b4 \in Wallets
        BY <2>4, <2>5, AvailableRaised
    <2>7. ASSUME NEW v \in Users, NEW x \in Assets
          PROVE  /\ b4[v][x].locked = b3[v][x].locked
                 /\ b4[v][x].available = b3[v][x].available + (IF v = seller /\ x = "quote" THEN value ELSE 0)
        BY <2>4, <2>5, <2>7, AvailableRaised
    <2> QED BY <2>6, <2>7
<1>9. ASSUME NEW v \in Users
      PROVE  /\ b4[v]["quote"].locked = b[v]["quote"].locked - (IF v = buyer THEN value ELSE 0)
             /\ b4[v]["quote"].available = b[v]["quote"].available + (IF v = seller THEN value ELSE 0)
             /\ b4[v]["base"].locked = b[v]["base"].locked - (IF v = seller THEN n ELSE 0)
             /\ b4[v]["base"].available = b[v]["base"].available + (IF v = buyer THEN n ELSE 0)
    <2>1. /\ b[v]["quote"].locked \in Nat /\ b[v]["quote"].available \in Nat
          /\ b[v]["base"].locked \in Nat /\ b[v]["base"].available \in Nat
        BY <1>1, BalancesAreNat
    <2>2. /\ b4[v]["quote"].locked = b3[v]["quote"].locked
          /\ b4[v]["quote"].available = b3[v]["quote"].available + (IF v = seller THEN value ELSE 0)
          /\ b4[v]["base"].locked = b3[v]["base"].locked
          /\ b4[v]["base"].available = b3[v]["base"].available + 0
        BY <1>1, <1>8
    <2>3. /\ b3[v]["quote"].locked = b2[v]["quote"].locked - 0
          /\ b3[v]["quote"].available = b2[v]["quote"].available
          /\ b3[v]["base"].locked = b2[v]["base"].locked - (IF v = seller THEN n ELSE 0)
          /\ b3[v]["base"].available = b2[v]["base"].available
        BY <1>1, <1>7
    <2>4. /\ b2[v]["quote"].locked = b1[v]["quote"].locked
          /\ b2[v]["quote"].available = b1[v]["quote"].available + 0
          /\ b2[v]["base"].locked = b1[v]["base"].locked
          /\ b2[v]["base"].available = b1[v]["base"].available + (IF v = buyer THEN n ELSE 0)
        BY <1>1, <1>6
    <2>5. /\ b1[v]["quote"].locked = b[v]["quote"].locked - (IF v = buyer THEN value ELSE 0)
          /\ b1[v]["quote"].available = b[v]["quote"].available
          /\ b1[v]["base"].locked = b[v]["base"].locked - 0
          /\ b1[v]["base"].available = b[v]["base"].available
        BY <1>1, <1>5
    <2> QED BY <2>1, <2>2, <2>3, <2>4, <2>5
<1> QED BY <1>4, <1>8, <1>9

-----------------------------------------------------------------------------
(* What a step of one call leaves alone.                                   *)

\* What was asked for never changes, and a call that has placed its order has
\* ended.
SameTerms(o) ==
    /\ order'[o].user = order[o].user /\ order'[o].side = order[o].side
    /\ order'[o].price = order[o].price /\ order'[o].size = order[o].size

Steady ==
    \A z \in OrderIds :
        /\ pc[z] # "idle" => pc'[z] # "idle" /\ SameTerms(z)
        /\ pc[z] = "open" => pc'[z] = "open" /\ order'[z] = order[z]

SameCall(z) ==
    pc'[z] = pc[z] /\ order'[z] = order[z] /\ trade'[z] = trade[z] /\ snapshot'[z] = snapshot[z]

\* Row locks are given back or kept, and then nobody else lowers what is locked
\* in the row.
LocksRespected ==
    \A z \in OrderIds :
        \/ held'[z] = 0
        \/ /\ held'[z] = held[z] /\ SameCall(z)
           /\ \A u \in Users, a \in Assets :
                <<u, a>> \in HeldBy(z) => balance[u][a].locked <= balance'[u][a].locked

\* The parties of a trade, and what it is worth.
LEMMA TradeTyped ==
    ASSUME TypeOK, NEW o \in OrderIds, TradeFits(o)
    PROVE  /\ BuyOrder(o) \in OrderIds /\ SellOrder(o) \in OrderIds
           /\ Buyer(o) \in Users /\ Seller(o) \in Users
           /\ trade[o].price \in Nat \ {0} /\ trade[o].quantity \in Nat \ {0}
           /\ Value(o) \in Nat \ {0}
<1>1. BuyOrder(o) \in OrderIds /\ SellOrder(o) \in OrderIds
    BY DEF TradeFits, BuyOrder, SellOrder
<1>2. Buyer(o) \in Users /\ Seller(o) \in Users
    BY <1>1 DEF TypeOK, Order, Buyer, Seller
<1>3. trade[o].price \in Nat \ {0} /\ trade[o].quantity \in Nat \ {0}
    BY DEF TypeOK, Trade, TradeFits
<1>4. \A m \in Nat \ {0}, n \in Nat \ {0} : m * n \in Nat \ {0}
    <2> SUFFICES ASSUME NEW m \in Nat \ {0}, NEW n \in Nat \ {0} PROVE m * n \in Nat \ {0}
        OBVIOUS
    <2>1. 1 * n <= m * n
        BY ProductMonotonic
    <2> QED BY <2>1
<1> QED BY <1>1, <1>2, <1>3, <1>4 DEF Value

\* The four rows of a settlement.
LEMMA SettleRowsAre ==
    ASSUME NEW o \in OrderIds
    PROVE  /\ SettleRow(o, 1) = <<Buyer(o), "quote">> /\ SettleRow(o, 2) = <<Seller(o), "base">>
           /\ SettleRow(o, 3) = <<Buyer(o), "base">>  /\ SettleRow(o, 4) = <<Seller(o), "quote">>
BY DEF SettleRow

\* A call that does nothing fits while others go on.
LEMMA CallStays ==
    ASSUME IInv, Steady, NEW z \in OrderIds, SameCall(z)
    PROVE  CallFits(z)'
<1>1. CallFits(z)
    BY DEF IInv
<1>2. ASSUME TradeFits(z) PROVE TradeFits(z)'
    <2>1. BuyOrder(z)' = BuyOrder(z) /\ SellOrder(z)' = SellOrder(z)
        BY DEF SameCall, BuyOrder, SellOrder
    <2>2. pc'[trade[z].resting] = "open" /\ order'[trade[z].resting] = order[trade[z].resting]
        BY <1>2 DEF TradeFits, Steady
    <2>3. order'[BuyOrder(z)].price = order[BuyOrder(z)].price /\ order'[SellOrder(z)].price = order[SellOrder(z)].price
        BY <2>2 DEF SameCall, BuyOrder, SellOrder
    <2> QED BY <1>2, <2>1, <2>2, <2>3 DEF TradeFits, SameCall
<1>3. \A m \in snapshot'[z] : pc'[m] = "open" /\ order'[m].side = Opposite(order'[z].side)
    <2>1. snapshot[z] \subseteq OrderIds
        BY DEF IInv, TypeOK
    <2> QED BY <1>1, <2>1 DEF CallFits, SameCall, Steady
<1> QED BY <1>1, <1>2, <1>3 DEF CallFits, SameCall, Needs

\* So does a row nobody touches.
LEMMA RowStays ==
    ASSUME IInv, Steady, NEW z \in OrderIds, row'[z] = row[z], z \in rows' <=> z \in rows
    PROVE  RowFits(z)'
<1>1. RowFits(z)
    BY DEF IInv
<1> QED BY <1>1 DEF RowFits, Steady

\* A cancellation under way keeps its order.
LEMMA CancelStays ==
    ASSUME IInv, Steady, NEW c \in Cancels,
           cancel'[c].at \in Cancelling
             => cancel[c].at \in Cancelling /\ cancel'[c].order = cancel[c].order
    PROVE  CancelFits(c)'
<1>1. CancelFits(c)
    BY DEF IInv
<1> QED BY <1>1 DEF CancelFits, Steady

\* The rows a call has locked are the same rows while it stands still.
LEMMA HeldStays ==
    ASSUME IInv, Steady, NEW z \in OrderIds, held[z] > 0, held'[z] = held[z], SameCall(z)
    PROVE  /\ Buyer(z)' = Buyer(z) /\ Seller(z)' = Seller(z) /\ Value(z)' = Value(z)
           /\ HeldBy(z)' = HeldBy(z)
<1>1. TradeFits(z)
    BY DEF IInv, LockFits, CallFits
<1>2. BuyOrder(z)' = BuyOrder(z) /\ SellOrder(z)' = SellOrder(z)
    BY DEF SameCall, BuyOrder, SellOrder
<1>3. order'[trade[z].resting] = order[trade[z].resting]
    BY <1>1 DEF TradeFits, Steady
<1>4. order'[BuyOrder(z)] = order[BuyOrder(z)] /\ order'[SellOrder(z)] = order[SellOrder(z)]
    BY <1>3 DEF SameCall, BuyOrder, SellOrder
<1>5. Buyer(z)' = Buyer(z) /\ Seller(z)' = Seller(z)
    BY <1>2, <1>4 DEF Buyer, Seller
<1>6. \A i : SettleRow(z, i)' = SettleRow(z, i)
    BY <1>5 DEF SettleRow
<1> QED BY <1>5, <1>6 DEF HeldBy, Value, SameCall

\* Without its row locks a call holds nothing.
LEMMA NothingHeld ==
    ASSUME NEW z \in OrderIds, held[z] = 0
    PROVE  HeldBy(z) = {}
BY DEF HeldBy

LEMMA LocksStay ==
    ASSUME IInv, TypeOK', Steady, LocksRespected
    PROVE  \A z \in OrderIds : LockFits(z)'
<1> SUFFICES ASSUME NEW z \in OrderIds PROVE LockFits(z)'
    OBVIOUS
<1>1. \A p \in OrderIds : HeldBy(p)' \subseteq HeldBy(p)
    <2> SUFFICES ASSUME NEW p \in OrderIds PROVE HeldBy(p)' \subseteq HeldBy(p)
        OBVIOUS
    <2>1. CASE held'[p] = 0
        BY <2>1 DEF HeldBy
    <2>2. CASE held'[p] # 0
        <3>1. held'[p] = held[p] /\ held[p] > 0 /\ SameCall(p)
            BY <2>2 DEF LocksRespected, IInv, TypeOK
        <3> QED BY <3>1, HeldStays
    <2> QED BY <2>1, <2>2
<1>2. \A p \in OrderIds \ {z} : HeldBy(z)' \cap HeldBy(p)' = {}
    BY <1>1 DEF IInv, LockFits
<1>3. CASE held'[z] = 0
    BY <1>2, <1>3 DEF LockFits
<1>4. CASE held'[z] # 0
    <2>1. /\ held'[z] = held[z] /\ held[z] > 0 /\ held[z] \in 0..4 /\ SameCall(z)
          /\ \A u \in Users, a \in Assets :
               <<u, a>> \in HeldBy(z) => balance[u][a].locked <= balance'[u][a].locked
        BY <1>4 DEF LocksRespected, IInv, TypeOK
    <2>2. pc[z] = "settling" /\ TradeFits(z) /\ Holds(z, 1) /\ (held[z] > 1 => Holds(z, 2))
        BY <2>1 DEF IInv, LockFits, CallFits
    <2>3. /\ Buyer(z) \in Users /\ Seller(z) \in Users /\ Value(z) \in Nat /\ trade[z].quantity \in Nat
          /\ "quote" \in Assets /\ "base" \in Assets
        BY <2>2, TradeTyped DEF IInv, Assets
    <2>4. Buyer(z)' = Buyer(z) /\ Seller(z)' = Seller(z) /\ Value(z)' = Value(z)
        BY <2>1, HeldStays
    <2>5. Holds(z, 1)'
        <3>1. <<Buyer(z), "quote">> \in HeldBy(z)
            BY <2>1, SettleRowsAre DEF HeldBy
        <3>2. Value(z) <= balance[Buyer(z)]["quote"].locked
            BY <2>2 DEF Holds
        <3>3. balance[Buyer(z)]["quote"].locked <= balance'[Buyer(z)]["quote"].locked
            BY <2>1, <2>3, <3>1
        <3>4. balance[Buyer(z)]["quote"].locked \in Nat /\ balance'[Buyer(z)]["quote"].locked \in Nat
            BY <2>3, BalancesAreNat DEF IInv, TypeOK
        <3>5. Value(z) <= balance'[Buyer(z)]["quote"].locked
            BY <2>3, <3>2, <3>3, <3>4
        <3> QED BY <2>4, <3>5 DEF Holds
    <2>6. ASSUME held[z] > 1 PROVE Holds(z, 2)'
        <3>1. <<Seller(z), "base">> \in HeldBy(z)
            BY <2>1, <2>6, SettleRowsAre DEF HeldBy
        <3>2. trade[z].quantity <= balance[Seller(z)]["base"].locked
            BY <2>2, <2>6 DEF Holds
        <3>3. balance[Seller(z)]["base"].locked <= balance'[Seller(z)]["base"].locked
            BY <2>1, <2>3, <3>1
        <3>4. balance[Seller(z)]["base"].locked \in Nat /\ balance'[Seller(z)]["base"].locked \in Nat
            BY <2>3, BalancesAreNat DEF IInv, TypeOK
        <3>5. trade[z].quantity <= balance'[Seller(z)]["base"].locked
            BY <2>3, <3>2, <3>3, <3>4
        <3> QED BY <2>1, <2>4, <3>5 DEF Holds, SameCall
    <2> QED BY <1>2, <2>1, <2>2, <2>5, <2>6 DEF LockFits, SameCall
<1> QED BY <1>3, <1>4

\* A step of one call keeps the invariant when that call, the rows and the
\* locks fit after it.
LEMMA CallStep ==
    ASSUME IInv, TypeOK', NEW o \in OrderIds,
           \A z \in OrderIds \ {o} : SameCall(z) /\ held'[z] = held[z],
           pc[o] # "open", pc[o] = "idle" \/ (pc'[o] # "idle" /\ SameTerms(o)),
           Steady => CallFits(o)',
           Steady => \A z \in OrderIds : RowFits(z)',
           Steady => \A z \in OrderIds : LockFits(z)',
           cancel' = cancel
    PROVE  IInv' /\ Steady
<1>1. Steady
    BY DEF Steady, SameCall, SameTerms
<1>2. \A z \in OrderIds : CallFits(z)'
    BY <1>1, CallStays
<1>3. \A c \in Cancels : CancelFits(c)'
    BY <1>1, CancelStays
<1> QED BY <1>1, <1>2, <1>3 DEF IInv

\* A step of no call: deposits and the seed, cancellations.
LEMMA OtherStep ==
    ASSUME IInv, TypeOK', UNCHANGED engineVars,
           Steady => \A z \in OrderIds : RowFits(z)',
           LocksRespected,
           Steady => \A c \in Cancels : CancelFits(c)'
    PROVE  IInv' /\ Steady
<1>1. Steady
    BY DEF Steady, SameTerms, engineVars
<1>2. \A z \in OrderIds : CallFits(z)'
    BY <1>1, CallStays DEF SameCall, engineVars
<1>3. \A z \in OrderIds : LockFits(z)'
    BY <1>1, LocksStay
<1> QED BY <1>1, <1>2, <1>3 DEF IInv

\* Rows nobody touches.
LEMMA RowsStay ==
    ASSUME IInv, Steady, UNCHANGED <<row, rows>>
    PROVE  \A z \in OrderIds : RowFits(z)'
BY RowStays

-----------------------------------------------------------------------------
(* The initial states.                                                     *)

\* A copy nobody has filled in yet is an order.
LEMMA BlankOrderIsOrder == BlankOrder \in Order /\ BlankOrder.quantity = 0 /\ BlankOrder.lockedAmount = 0
<1>1. (CHOOSE u \in Users : TRUE) \in Users
    BY UsersAssumption
<1>2. (CHOOSE p \in Prices : TRUE) \in Prices /\ (CHOOSE q \in Quantities : TRUE) \in Quantities
    BY OrdersAssumption
<1> QED BY <1>1, <1>2, OrdersAssumption DEF BlankOrder, Order, Sides

LEMMA InitIInv == Init => IInv
<1> SUFFICES ASSUME Init PROVE IInv
    OBVIOUS
<1>1. TypeOK
    <2>1. balance \in Wallets
        BY FundsAssumption DEF Init, Balance, Wallets
    <2>2. order \in [OrderIds -> Order]
        BY BlankOrderIsOrder DEF Init
    <2>3. trade \in [OrderIds -> Trade] /\ cancel \in [Cancels -> Cancellation] /\ row \in [OrderIds -> Row]
        BY DEF Init, NoTrade, Trade, Cancellation, Row, NoRow
    <2> QED BY <2>1, <2>2, <2>3 DEF Init, TypeOK
<1>2. ASSUME NEW o \in OrderIds PROVE CallFits(o) /\ RowFits(o) /\ LockFits(o)
    <2>1. Needs(o) = 0 /\ order[o].lockedAmount = 0
        <3>1. order[o] = BlankOrder /\ BlankOrder.price \in Nat
            BY OrdersAssumption, BlankOrderIsOrder DEF Init, Order
        <3> QED BY <3>1, BlankOrderIsOrder DEF Needs, Cost
    <2>2. CallFits(o)
        BY <2>1 DEF Init, CallFits, Processing
    <2>3. RowFits(o) /\ LockFits(o)
        BY DEF Init, RowFits, LockFits, HeldBy
    <2> QED BY <2>2, <2>3
<1>3. ASSUME NEW c \in Cancels PROVE CancelFits(c)
    BY DEF Init, CancelFits, Cancelling
<1> QED BY <1>1, <1>2, <1>3 DEF IInv

-----------------------------------------------------------------------------
(* The steps.                                                              *)

\* An order without a row of its own is in nobody's hands.
LEMMA NobodyRefers ==
    ASSUME IInv, NEW o \in OrderIds, pc[o] # "open"
    PROVE  /\ o \notin rows /\ row[o] = NoRow
           /\ \A z \in OrderIds : trade[z].resting # o /\ o \notin snapshot[z]
<1>1. o # NoOrder
    BY OrderIdsAssumption DEF NoOrder
<1>2. o \notin rows /\ row[o] = NoRow
    BY DEF IInv, RowFits
<1>3. ASSUME NEW z \in OrderIds PROVE trade[z].resting # o /\ o \notin snapshot[z]
    BY <1>1 DEF IInv, CallFits, TradeFits, NoTrade
<1> QED BY <1>2, <1>3

\* Nobody's row is locked by a call that is not settling.
LEMMA OnlySettlersHold ==
    ASSUME IInv, NEW o \in OrderIds, pc[o] # "settling"
    PROVE  held[o] = 0 /\ HeldBy(o) = {}
<1>1. held[o] = 0
    BY DEF IInv, LockFits, TypeOK
<1> QED BY <1>1, NothingHeld

\* A step of a call that is not settling leaves the row locks alone.
LEMMA HoldersStay ==
    ASSUME IInv, NEW o \in OrderIds, held' = held, pc[o] # "settling",
           \A z \in OrderIds \ {o} : SameCall(z),
           \A u \in Users, a \in Assets :
               UnlockedFor(<<u, a>>, o) \/ balance[u][a].locked <= balance'[u][a].locked
    PROVE  LocksRespected
<1>1. held[o] = 0
    BY OnlySettlersHold
<1>2. \A u \in Users, a \in Assets, z \in OrderIds \ {o} :
        <<u, a>> \in HeldBy(z) => balance[u][a].locked <= balance'[u][a].locked
    BY DEF UnlockedFor
<1> QED BY <1>1, <1>2 DEF LocksRespected

\* A deposit, or the seed's, locks nothing.
LEMMA CreditIInv ==
    ASSUME IInv, NEW u \in Users, NEW a \in Assets, Deposit(u, a) \/ Seed(u, a)
    PROVE  IInv' /\ Steady
<1>1. /\ Credited(u, a)
      /\ UNCHANGED <<row, rows, traded, engineVars, cancel, told, clock, faults, restarts>>
      /\ seeding' \subseteq Seeded
    BY DEF Deposit, Seed, IInv, TypeOK
<1>2. balance' = Raised(balance, u, a, DepositAmount)
    BY <1>1 DEF Credited, Raised
<1>3. balance' \in Wallets
      /\ \A v \in Users, x \in Assets : balance'[v][x].locked = balance[v][x].locked
    BY <1>2, FundsAssumption, AvailableRaised DEF IInv, TypeOK
<1>4. deposits' \in Nat
    BY <1>1 DEF IInv, TypeOK, Credited
<1>5. TypeOK'
    BY <1>1, <1>3, <1>4 DEF IInv, TypeOK, engineVars
<1>6. LocksRespected
    <2>1. \A v \in Users, x \in Assets : balance[v][x].locked <= balance'[v][x].locked
        BY <1>3, BalancesAreNat DEF IInv, TypeOK
    <2> QED BY <1>1, <2>1 DEF LocksRespected, SameCall, engineVars
<1> QED BY <1>1, <1>5, <1>6, OtherStep, RowsStay, CancelStays

\* A new order locks what it costs at its limit.
LEMMA SubmitIInv ==
    ASSUME IInv, NEW o \in OrderIds, NEW u \in Users, NEW s \in Sides, NEW p \in Prices,
           NEW q \in Quantities, NEW now \in {clock, clock + 1}, Submit(o, u, s, p, q, now)
    PROVE  IInv' /\ Steady
<1>1. p \in Nat /\ q \in Nat /\ q > 0 /\ Cost(s, p, q) \in Nat
    BY OrdersAssumption, CostIsNat
<1>2. PICK new : new = [user |-> u, side |-> s, price |-> p, size |-> q, quantity |-> q,
                        lockedAmount |-> Cost(s, p, q), createdAt |-> now]
    OBVIOUS
<1>3. new \in Order
    BY <1>1, <1>2 DEF Order, IInv, TypeOK
<1>4. /\ pc[o] = "idle" /\ pc'[o] = "validating" /\ order'[o] = new
      /\ \A z \in OrderIds \ {o} : pc'[z] = pc[z] /\ order'[z] = order[z]
      /\ UNCHANGED <<snapshot, trade, held, balance, row, rows, traded, cancel, told>>
    BY <1>2 DEF Submit, Goto, IInv, TypeOK, tableVars
<1>5. TypeOK'
    <2>1. order' \in [OrderIds -> Order]
        BY <1>2, <1>3 DEF IInv, TypeOK, Submit
    <2>2. pc' \in [OrderIds -> {"idle"} \cup Processing \cup Ended]
        BY DEF IInv, TypeOK, Submit, Goto, Processing
    <2> QED BY <2>1, <2>2 DEF IInv, TypeOK, Submit, tableVars
<1>6. CallFits(o)'
    <2>1. Needs(o)' <= order'[o].lockedAmount
        BY <1>1, <1>2, <1>4 DEF Needs
    <2>2. trade[o] = NoTrade /\ snapshot[o] = {}
        BY <1>4 DEF IInv, CallFits
    <2> QED BY <1>1, <1>2, <1>4, <2>1, <2>2 DEF CallFits, Processing
<1>7. LocksRespected
    BY <1>4, HoldersStay, BalancesAreNat DEF SameCall, IInv, TypeOK
<1> QED BY <1>4, <1>5, <1>6, <1>7, CallStep, RowsStay, LocksStay DEF SameCall

\* Validation only moves the call along.
LEMMA ValidateBalanceIInv ==
    ASSUME IInv, NEW o \in OrderIds, ValidateBalance(o)
    PROVE  IInv' /\ Steady
<1>1. /\ pc[o] = "validating" /\ pc'[o] \in {"locking", "rejected"}
      /\ \A z \in OrderIds \ {o} : pc'[z] = pc[z]
      /\ UNCHANGED <<order, snapshot, trade, held, balance, row, rows, traded, cancel>>
    BY DEF ValidateBalance, Goto, IInv, TypeOK, tableVars
<1>2. TypeOK'
    <2>1. told' \in [OrderIds -> SUBSET Statuses]
        BY DEF IInv, TypeOK, ValidateBalance, Tell, Statuses
    <2>2. pc' \in [OrderIds -> {"idle"} \cup Processing \cup Ended]
        BY DEF IInv, TypeOK, ValidateBalance, Goto, Processing, Ended
    <2> QED BY <2>1, <2>2 DEF IInv, TypeOK, ValidateBalance, tableVars, worldVars
<1>3. CallFits(o)'
    BY <1>1 DEF IInv, CallFits, Processing, Needs
<1>4. LocksRespected
    BY <1>1, HoldersStay, BalancesAreNat DEF SameCall, IInv, TypeOK
<1> QED BY <1>1, <1>2, <1>3, <1>4, CallStep, RowsStay, LocksStay DEF SameCall, SameTerms

\* lockFunds locks what the order costs, or refuses.
LEMMA LockFundsIInv ==
    ASSUME IInv, NEW o \in OrderIds, LockFunds(o)
    PROVE  IInv' /\ Steady
<1>1. /\ order[o] \in Order /\ order[o].user \in Users /\ LockAsset(order[o].side) \in Assets
      /\ order[o].price \in Nat
    BY OrdersAssumption DEF IInv, TypeOK, Order, LockAsset, Assets
<1>2. Needs(o) \in Nat
    BY <1>1, CostIsNat DEF Needs, Order
<1>3. /\ pc[o] = "locking" /\ pc'[o] \in {"matching", "rejected"}
      /\ order'[o] = [order[o] EXCEPT !.lockedAmount = Needs(o)]
      /\ \A z \in OrderIds \ {o} : pc'[z] = pc[z] /\ order'[z] = order[z]
      /\ UNCHANGED <<snapshot, trade, held, row, rows, traded, cancel>>
    BY DEF LockFunds, Goto, IInv, TypeOK
<1>4. SameTerms(o) /\ order'[o].quantity = order[o].quantity /\ order'[o].lockedAmount = Needs(o)
      /\ order'[o] \in Order
    BY <1>1, <1>2, <1>3 DEF SameTerms, Order
<1>5. balance' \in Wallets /\ \A v \in Users, x \in Assets : balance[v][x].locked <= balance'[v][x].locked
    <2>1. CASE CanLock(o)
        <3>1. balance' = Locked(balance, order[o].user, LockAsset(order[o].side), Needs(o))
            BY <2>1 DEF LockFunds, Locked
        <3>2. Needs(o) <= balance[order[o].user][LockAsset(order[o].side)].available
            BY <2>1 DEF CanLock, Funds
        <3>3. balance' \in Wallets
            BY <1>1, <1>2, <3>1, <3>2, LockedBalances DEF IInv, TypeOK
        <3>4. ASSUME NEW v \in Users, NEW x \in Assets
              PROVE  balance[v][x].locked <= balance'[v][x].locked
            <4>1. balance'[v][x].locked
                    = balance[v][x].locked + (IF v = order[o].user /\ x = LockAsset(order[o].side) THEN Needs(o) ELSE 0)
                BY <1>1, <1>2, <3>1, <3>2, LockedBalances DEF IInv, TypeOK
            <4>2. balance[v][x].locked \in Nat
                BY BalancesAreNat DEF IInv, TypeOK
            <4> QED BY <1>2, <4>1, <4>2
        <3> QED BY <3>3, <3>4
    <2>2. CASE ~CanLock(o)
        BY <2>2, BalancesAreNat DEF LockFunds, IInv, TypeOK
    <2> QED BY <2>1, <2>2
<1>6. TypeOK'
    <2>1. order' \in [OrderIds -> Order]
        BY <1>3, <1>4 DEF IInv, TypeOK, LockFunds
    <2>2. pc' \in [OrderIds -> {"idle"} \cup Processing \cup Ended]
        BY DEF IInv, TypeOK, LockFunds, Goto, Processing, Ended
    <2> QED BY <1>5, <2>1, <2>2 DEF IInv, TypeOK, LockFunds, worldVars
<1>7. CallFits(o)'
    <2>1. Needs(o)' = Needs(o)
        BY <1>4 DEF Needs, SameTerms
    <2>2. trade[o] = NoTrade /\ snapshot[o] = {} /\ order[o].quantity > 0
        BY <1>3 DEF IInv, CallFits, Processing
    <2> QED BY <1>2, <1>3, <1>4, <2>1, <2>2 DEF CallFits, Processing
<1>8. LocksRespected
    BY <1>3, <1>5, HoldersStay DEF SameCall
<1> QED BY <1>3, <1>4, <1>6, <1>7, <1>8, CallStep, RowsStay, LocksStay DEF SameCall

\* The SELECT sees rows of the other side, all of orders that have been placed.
LEMMA SelectRowIInv ==
    ASSUME IInv, NEW o \in OrderIds, SelectRow(o)
    PROVE  IInv' /\ Steady
<1>1. /\ pc[o] = "matching" /\ pc'[o] = "taking"
      /\ snapshot'[o] = {m \in rows : order[m].side = Opposite(order[o].side)}
      /\ \A z \in OrderIds \ {o} : pc'[z] = pc[z] /\ snapshot'[z] = snapshot[z]
      /\ UNCHANGED <<order, trade, held, balance, row, rows, traded, cancel>>
    BY DEF SelectRow, Goto, IInv, TypeOK, tableVars
<1>2. TypeOK'
    <2>1. snapshot' \in [OrderIds -> SUBSET OrderIds]
        BY DEF IInv, TypeOK, SelectRow
    <2>2. pc' \in [OrderIds -> {"idle"} \cup Processing \cup Ended]
        BY DEF IInv, TypeOK, SelectRow, Goto, Processing
    <2> QED BY <2>1, <2>2 DEF IInv, TypeOK, SelectRow, tableVars, worldVars
<1>3. CallFits(o)'
    <2>1. \A m \in snapshot'[o] : pc'[m] = "open" /\ order'[m].side = Opposite(order'[o].side)
        BY <1>1 DEF IInv, TypeOK, RowFits
    <2> QED BY <1>1, <2>1 DEF IInv, CallFits, Processing, Needs
<1>4. LocksRespected
    BY <1>1, HoldersStay, BalancesAreNat DEF SameCall, IInv, TypeOK
<1> QED BY <1>1, <1>2, <1>3, <1>4, CallStep, RowsStay, LocksStay DEF SameCall, SameTerms

\* A remainder waits to be inserted.
LEMMA TakeNothingIInv ==
    ASSUME IInv, NEW o \in OrderIds, TakeNothing(o)
    PROVE  IInv' /\ Steady
<1>1. /\ pc[o] = "taking" /\ pc'[o] = "placing" /\ snapshot'[o] = {}
      /\ \A z \in OrderIds \ {o} : pc'[z] = pc[z] /\ snapshot'[z] = snapshot[z]
      /\ UNCHANGED <<order, trade, held, balance, row, rows, traded, cancel>>
    BY DEF TakeNothing, Goto, IInv, TypeOK, tableVars
<1>2. TypeOK'
    <2>1. told' \in [OrderIds -> SUBSET Statuses]
        BY DEF IInv, TypeOK, TakeNothing, Tell, Statuses
    <2>2. pc' \in [OrderIds -> {"idle"} \cup Processing \cup Ended]
        BY DEF IInv, TypeOK, TakeNothing, Goto, Processing
    <2> QED BY <2>1, <2>2 DEF IInv, TypeOK, TakeNothing, tableVars, worldVars
<1>3. CallFits(o)'
    BY <1>1 DEF IInv, CallFits, Processing, Needs
<1>4. LocksRespected
    BY <1>1, HoldersStay, BalancesAreNat DEF SameCall, IInv, TypeOK
<1> QED BY <1>1, <1>2, <1>3, <1>4, CallStep, RowsStay, LocksStay DEF SameCall, SameTerms

\* What a match takes from a row: no more than is left of it and of the taker,
\* at a price within both limits, which the row's lock pays for.
LEMMA MatchTakes ==
    ASSUME IInv, NEW o \in OrderIds, NEW m \in OrderIds, TakeRow(o, m)
    PROVE  \E price \in Nat \ {0}, qty \in Nat \ {0}, cost \in Nat :
             /\ qty = LesserOf(order[o].quantity, row[m].quantity)
             /\ qty <= order[o].quantity /\ qty <= row[m].quantity
             /\ cost = Cost(order[m].side, price, qty) /\ cost <= row[m].locked
             /\ order[o].side = "buy" => price <= order[o].price /\ price = order[m].price
             /\ order[o].side = "sell" => price = order[o].price /\ price <= order[m].price
             /\ m # o /\ m \in rows /\ pc[o] = "taking" /\ pc[m] = "open"
             /\ order[m].side = Opposite(order[o].side)
             /\ pc' = [pc EXCEPT ![o] = "settling"]
             /\ snapshot' = [snapshot EXCEPT ![o] = {}]
             /\ trade' = [trade EXCEPT ![o] = [resting |-> m, price |-> price, quantity |-> qty]]
             /\ \/ /\ rows' = rows \ {m} /\ row' = [row EXCEPT ![m] = NoRow]
                   /\ row[m].quantity = qty
                \/ /\ rows' = rows /\ row[m].quantity > qty
                   /\ row' = [row EXCEPT ![m] = [quantity |-> row[m].quantity - qty, locked |-> row[m].locked - cost]]
                   /\ Cost(order[m].side, order[m].price, row[m].quantity - qty) <= row[m].locked - cost
             /\ UNCHANGED <<balance, traded, order, held, cancel, told, worldVars>>
<1>1. /\ pc[o] = "taking" /\ m \in snapshot[o] /\ m \in rows /\ CanTake(o, m)
      /\ UNCHANGED <<balance, traded, order, held, cancel, told, worldVars>>
    BY DEF TakeRow, RowsFirst
<1>2. /\ pc[m] = "open" /\ m # o /\ order[m].side = Opposite(order[o].side)
      /\ row[m].quantity > 0 /\ order[o].quantity > 0
      /\ Cost(order[m].side, order[m].price, row[m].quantity) <= row[m].locked
    BY <1>1 DEF IInv, CallFits, RowFits, Processing
<1>3. /\ order[o].side \in Sides /\ order[o].price \in Nat \ {0} /\ order[o].quantity \in Nat
      /\ order[m].side \in Sides /\ order[m].price \in Nat \ {0}
      /\ row[m].quantity \in Nat /\ row[m].locked \in Nat
    BY OrdersAssumption DEF IInv, TypeOK, Order, Row
<1>4. PICK qty : qty = LesserOf(order[o].quantity, row[m].quantity)
    OBVIOUS
<1>5. PICK price : price = TradePrice(order[m], order[o])
    OBVIOUS
<1>6. qty \in Nat \ {0} /\ qty <= order[o].quantity /\ qty <= row[m].quantity
    BY <1>2, <1>3, <1>4 DEF LesserOf
<1>7. /\ price \in Nat \ {0}
      /\ order[o].side = "buy" => price <= order[o].price /\ price = order[m].price
      /\ order[o].side = "sell" => price = order[o].price /\ price <= order[m].price
    BY <1>1, <1>2, <1>3, <1>5 DEF TradePrice, CanTake, PricesCross, Opposite, Sides
<1>8. PICK cost : cost = Cost(order[m].side, price, qty)
    OBVIOUS
<1>9. cost \in Nat /\ row[m].locked - cost \in Nat
      /\ Cost(order[m].side, order[m].price, row[m].quantity - qty) <= row[m].locked - cost
    <2>1. order[m].side = "buy" => price <= order[m].price
        BY <1>2, <1>3, <1>7 DEF Opposite, Sides
    <2>2. cost \in Nat
        BY <1>3, <1>6, <1>7, <1>8, CostIsNat
    <2> QED BY <1>2, <1>3, <1>6, <1>7, <1>8, <2>1, <2>2, LockSplits
<1>10. cost <= row[m].locked
    BY <1>3, <1>9
<1>11. /\ pc' = [pc EXCEPT ![o] = "settling"]
       /\ snapshot' = [snapshot EXCEPT ![o] = {}]
       /\ trade' = [trade EXCEPT ![o] = [resting |-> m, price |-> price, quantity |-> qty]]
       /\ \/ TakenWhole(m, qty) /\ rows' = rows \ {m} /\ row' = [row EXCEPT ![m] = NoRow]
          \/ /\ ~TakenWhole(m, qty) /\ rows' = rows
             /\ row' = [row EXCEPT ![m] = [quantity |-> row[m].quantity - qty, locked |-> Less(row[m].locked, cost)]]
    BY <1>4, <1>5, <1>8 DEF TakeRow, Goto
<1>12. Less(row[m].locked, cost) = row[m].locked - cost
    BY <1>3, <1>9, <1>10 DEF Less
<1>13. \/ rows' = rows \ {m} /\ row' = [row EXCEPT ![m] = NoRow] /\ row[m].quantity = qty
       \/ /\ rows' = rows /\ row[m].quantity > qty
          /\ row' = [row EXCEPT ![m] = [quantity |-> row[m].quantity - qty, locked |-> row[m].locked - cost]]
    <2>1. CASE TakenWhole(m, qty)
        BY <1>3, <1>6, <1>11, <2>1 DEF TakenWhole
    <2>2. CASE ~TakenWhole(m, qty)
        BY <1>3, <1>6, <1>11, <1>12, <2>2 DEF TakenWhole
    <2> QED BY <2>1, <2>2
<1> QED BY <1>1, <1>2, <1>4, <1>6, <1>7, <1>8, <1>9, <1>10, <1>11, <1>13

LEMMA TakeRowIInv ==
    ASSUME IInv, NEW o \in OrderIds, NEW m \in OrderIds, TakeRow(o, m)
    PROVE  IInv' /\ Steady
<1>1. PICK price \in Nat \ {0}, qty \in Nat \ {0}, cost \in Nat :
        /\ qty <= order[o].quantity /\ qty <= row[m].quantity
        /\ order[o].side = "buy" => price <= order[o].price /\ price = order[m].price
        /\ order[o].side = "sell" => price = order[o].price /\ price <= order[m].price
        /\ m # o /\ m \in rows /\ pc[o] = "taking" /\ pc[m] = "open"
        /\ order[m].side = Opposite(order[o].side)
        /\ pc' = [pc EXCEPT ![o] = "settling"]
        /\ snapshot' = [snapshot EXCEPT ![o] = {}]
        /\ trade' = [trade EXCEPT ![o] = [resting |-> m, price |-> price, quantity |-> qty]]
        /\ cost <= row[m].locked
        /\ \/ /\ rows' = rows \ {m} /\ row' = [row EXCEPT ![m] = NoRow]
           \/ /\ rows' = rows /\ row[m].quantity > qty
              /\ row' = [row EXCEPT ![m] = [quantity |-> row[m].quantity - qty, locked |-> row[m].locked - cost]]
              /\ Cost(order[m].side, order[m].price, row[m].quantity - qty) <= row[m].locked - cost
        /\ UNCHANGED <<balance, traded, order, held, cancel, told, worldVars>>
    BY MatchTakes
<1>2. /\ pc'[o] = "settling" /\ pc'[m] = "open" /\ snapshot'[o] = {}
      /\ trade'[o].resting = m /\ trade'[o].price = price /\ trade'[o].quantity = qty
      /\ \A z \in OrderIds \ {o} : pc'[z] = pc[z] /\ snapshot'[z] = snapshot[z] /\ trade'[z] = trade[z]
    BY <1>1 DEF IInv, TypeOK
<1>3. /\ order[o].side \in Sides /\ order[o].price \in Nat /\ order[m].price \in Nat
      /\ row[m] \in Row /\ row[m].quantity \in Nat /\ row[m].locked \in Nat
    BY OrdersAssumption DEF IInv, TypeOK, Order, Row
<1>4. TypeOK'
    <2>1. trade' \in [OrderIds -> Trade]
        BY <1>1 DEF IInv, TypeOK, Trade
    <2>2. pc' \in [OrderIds -> {"idle"} \cup Processing \cup Ended]
        BY <1>1 DEF IInv, TypeOK, Processing
    <2>3. row' \in [OrderIds -> Row] /\ rows' \subseteq OrderIds
        <3>1. NoRow \in Row
            BY DEF NoRow, Row
        <3>2. row[m].quantity > qty => [quantity |-> row[m].quantity - qty, locked |-> row[m].locked - cost] \in Row
            BY <1>1, <1>3 DEF Row
        <3> QED BY <1>1, <3>1, <3>2 DEF IInv, TypeOK
    <2>4. snapshot' \in [OrderIds -> SUBSET OrderIds]
        BY <1>1 DEF IInv, TypeOK
    <2> QED BY <1>1, <2>1, <2>2, <2>3, <2>4 DEF IInv, TypeOK, worldVars
<1>5. CallFits(o)'
    <2>1. BuyOrder(o)' = (IF order[o].side = "buy" THEN o ELSE m) /\ SellOrder(o)' = (IF order[o].side = "sell" THEN o ELSE m)
        BY <1>1, <1>2 DEF BuyOrder, SellOrder
    <2>2. order[BuyOrder(o)'].price >= price /\ order[SellOrder(o)'].price <= price
        BY <1>1, <1>3, <2>1 DEF Sides
    <2>3. TradeFits(o)'
        BY <1>1, <1>2, <2>2 DEF TradeFits
    <2>4. order[o].quantity > 0
        BY <1>1 DEF IInv, CallFits, Processing
    <2> QED BY <1>1, <1>2, <2>3, <2>4 DEF IInv, CallFits, Needs
<1>6. LocksRespected
    BY <1>1, <1>2, HoldersStay, BalancesAreNat DEF SameCall, IInv, TypeOK
<1>7. ASSUME Steady, NEW z \in OrderIds PROVE RowFits(z)'
    <2>1. CASE z # m
        BY <1>1, <1>7, <2>1, RowStays DEF IInv, TypeOK
    <2>2. CASE z = m /\ rows' = rows \ {m} /\ row' = [row EXCEPT ![m] = NoRow]
        BY <2>2 DEF IInv, TypeOK, RowFits
    <2>3. CASE z = m /\ rows' = rows /\ row[m].quantity > qty
               /\ row' = [row EXCEPT ![m] = [quantity |-> row[m].quantity - qty, locked |-> row[m].locked - cost]]
               /\ Cost(order[m].side, order[m].price, row[m].quantity - qty) <= row[m].locked - cost
        <3>1. row'[m].quantity = row[m].quantity - qty /\ row'[m].locked = row[m].locked - cost
            BY <2>3 DEF IInv, TypeOK
        <3>2. row[m].quantity - qty > 0
            BY <1>3, <2>3
        <3> QED BY <1>1, <1>2, <2>3, <3>1, <3>2 DEF RowFits
    <2> QED BY <1>1, <2>1, <2>2, <2>3
<1> QED BY <1>1, <1>2, <1>4, <1>5, <1>6, <1>7, CallStep, LocksStay DEF SameCall, SameTerms

\* A remainder is inserted with its lock.
LEMMA InsertRowIInv ==
    ASSUME IInv, NEW o \in OrderIds, InsertRow(o)
    PROVE  IInv' /\ Steady
<1>1. /\ pc[o] = "placing" /\ pc'[o] = "open" /\ rows' = rows \cup {o}
      /\ row'[o] = [quantity |-> order[o].quantity, locked |-> order[o].lockedAmount]
      /\ \A z \in OrderIds \ {o} : pc'[z] = pc[z] /\ row'[z] = row[z]
      /\ UNCHANGED <<order, snapshot, trade, held, balance, traded, cancel>>
    BY DEF InsertRow, Goto, IInv, TypeOK
<1>2. TypeOK'
    <2>1. row' \in [OrderIds -> Row]
        BY DEF IInv, TypeOK, InsertRow, Row, Order
    <2>2. pc' \in [OrderIds -> {"idle"} \cup Processing \cup Ended]
        BY DEF IInv, TypeOK, InsertRow, Goto, Ended
    <2> QED BY <2>1, <2>2 DEF IInv, TypeOK, InsertRow, worldVars
<1>3. CallFits(o) /\ order[o].quantity > 0
    BY <1>1 DEF IInv, CallFits, Processing
<1>4. CallFits(o)'
    BY <1>1, <1>3 DEF CallFits, Processing, Needs
<1>5. LocksRespected
    BY <1>1, HoldersStay, BalancesAreNat DEF SameCall, IInv, TypeOK
<1>6. RowFits(o)'
    BY <1>1, <1>3 DEF CallFits, RowFits, Needs
<1>7. ASSUME Steady, NEW z \in OrderIds PROVE RowFits(z)'
    BY <1>1, <1>6, <1>7, RowStays
<1> QED BY <1>1, <1>2, <1>4, <1>5, <1>7, CallStep, LocksStay DEF SameCall, SameTerms

\* A call that throws holds no row and has no trade.
LEMMA ThrownIInv ==
    ASSUME IInv, NEW o \in OrderIds, pc[o] \in Processing, Thrown(o),
           UNCHANGED <<order, tableVars, cancel, told, seeding, clock, deposits, restarts>>, faults' \in Nat
    PROVE  IInv' /\ Steady
<1>1. /\ pc[o] \notin {"open", "idle"} /\ pc'[o] = "failed"
      /\ held'[o] = 0 /\ trade'[o] = NoTrade /\ snapshot'[o] = {}
      /\ \A z \in OrderIds \ {o} :
            pc'[z] = pc[z] /\ held'[z] = held[z] /\ trade'[z] = trade[z] /\ snapshot'[z] = snapshot[z]
      /\ UNCHANGED <<order, balance, row, rows, traded, cancel>>
    BY DEF Thrown, Goto, IInv, TypeOK, Processing, tableVars
<1>2. TypeOK'
    <2>1. trade' \in [OrderIds -> Trade]
        BY DEF IInv, TypeOK, Thrown, Trade, NoTrade
    <2>2. pc' \in [OrderIds -> {"idle"} \cup Processing \cup Ended]
        BY DEF IInv, TypeOK, Thrown, Goto, Ended
    <2>3. held' \in [OrderIds -> 0..4] /\ snapshot' \in [OrderIds -> SUBSET OrderIds]
        BY DEF IInv, TypeOK, Thrown
    <2> QED BY <2>1, <2>2, <2>3 DEF IInv, TypeOK, tableVars
<1>3. CallFits(o)'
    BY <1>1 DEF IInv, CallFits, Processing, Needs
<1>4. LocksRespected
    BY <1>1, BalancesAreNat DEF SameCall, LocksRespected, IInv, TypeOK
<1> QED BY <1>1, <1>2, <1>3, <1>4, CallStep, RowsStay, LocksStay DEF SameCall, SameTerms

\* A settlement locks a row only when nobody else has it, and goes on only when
\* it holds what the trade takes.
LEMMA LockSettleRowIInv ==
    ASSUME IInv, NEW o \in OrderIds, LockSettleRow(o)
    PROVE  IInv' /\ Steady
<1>1. /\ pc[o] = "settling" /\ held[o] \in 0..4 /\ held[o] < 4 /\ CallFits(o) /\ TradeFits(o)
      /\ UnlockedFor(SettleRow(o, held[o] + 1), o)
      /\ UNCHANGED <<order, tableVars, cancel, told, worldVars>>
    BY DEF LockSettleRow, IInv, TypeOK, CallFits
<1>2. CASE Holds(o, held[o] + 1)
    <2>1. /\ held' = [held EXCEPT ![o] = held[o] + 1] /\ UNCHANGED <<pc, trade, snapshot>>
        BY <1>2 DEF LockSettleRow
    <2>2. held'[o] = held[o] + 1 /\ \A z \in OrderIds \ {o} : held'[z] = held[z]
        BY <2>1 DEF IInv, TypeOK
    <2>3. TypeOK'
        BY <1>1, <2>1 DEF IInv, TypeOK, tableVars, worldVars
    <2>4. \A z \in OrderIds, i \in 1..4 : SettleRow(z, i)' = SettleRow(z, i)
        BY <1>1, <2>1 DEF SettleRow, Buyer, Seller, BuyOrder, SellOrder
    <2>5. HeldBy(o)' = HeldBy(o) \cup {SettleRow(o, held[o] + 1)}
        <3>1. 1..(held[o] + 1) = 1..held[o] \cup {held[o] + 1} /\ 1..(held[o] + 1) \subseteq 1..4
            BY <1>1
        <3>2. HeldBy(o)' = {SettleRow(o, i) : i \in 1..(held[o] + 1)}
            BY <2>2, <2>4, <3>1 DEF HeldBy
        <3> QED BY <3>1, <3>2 DEF HeldBy
    <2>6. \A z \in OrderIds \ {o} : HeldBy(z)' = HeldBy(z)
        <3> SUFFICES ASSUME NEW z \in OrderIds \ {o} PROVE HeldBy(z)' = HeldBy(z)
            OBVIOUS
        <3>1. 1..held[z] \subseteq 1..4 /\ held'[z] = held[z]
            BY <2>2 DEF IInv, TypeOK
        <3> QED BY <2>4, <3>1 DEF HeldBy
    <2>7. \A z \in OrderIds, i \in 1..2 : Holds(z, i)' = Holds(z, i)
        BY <1>1, <2>1 DEF Holds, Value, Buyer, Seller, BuyOrder, SellOrder, tableVars
    <2>8. ASSUME NEW z \in OrderIds PROVE LockFits(z)'
        <3>1. LockFits(z) /\ LockFits(o) /\ held[z] \in 0..4
            BY DEF IInv, TypeOK
        <3>2. \A p \in OrderIds \ {z} : HeldBy(z)' \cap HeldBy(p)' = {}
            <4> SUFFICES ASSUME NEW p \in OrderIds \ {z} PROVE HeldBy(z)' \cap HeldBy(p)' = {}
                OBVIOUS
            <4>1. HeldBy(z) \cap HeldBy(p) = {}
                BY <3>1 DEF LockFits
            <4>2. z # o => SettleRow(o, held[o] + 1) \notin HeldBy(z)
                BY <1>1 DEF UnlockedFor
            <4>3. p # o => SettleRow(o, held[o] + 1) \notin HeldBy(p)
                BY <1>1 DEF UnlockedFor
            <4> QED BY <2>5, <2>6, <4>1, <4>2, <4>3
        <3>3. CASE z # o
            BY <2>1, <2>2, <2>7, <3>1, <3>2, <3>3 DEF LockFits
        <3>4. CASE z = o
            <4>1. held'[o] > 0 => Holds(o, 1)
                BY <1>1, <1>2, <2>2, <3>1, <3>4 DEF LockFits
            <4>2. held'[o] > 1 => Holds(o, 2)
                BY <1>1, <1>2, <2>2, <3>1, <3>4 DEF LockFits
            <4> QED BY <1>1, <2>1, <2>7, <3>2, <3>4, <4>1, <4>2 DEF LockFits
        <3> QED BY <3>3, <3>4
    <2>9. Steady
        BY <1>1, <2>1 DEF Steady, SameTerms
    <2>10. \A z \in OrderIds : CallFits(z)' /\ RowFits(z)'
        BY <1>1, <2>1, <2>9, CallStays, RowStays DEF SameCall, tableVars
    <2>11. \A c \in Cancels : CancelFits(c)'
        BY <1>1, <2>9, CancelStays
    <2> QED BY <2>3, <2>8, <2>9, <2>10, <2>11 DEF IInv
<1>3. CASE ~Holds(o, held[o] + 1)
    <2>1. Thrown(o)
        BY <1>3 DEF LockSettleRow
    <2>2. pc[o] \in Processing
        BY <1>1 DEF Processing
    <2> QED BY <1>1, <2>1, <2>2, ThrownIInv DEF IInv, TypeOK, worldVars
<1> QED BY <1>2, <1>3

\* What settleTrade commits: it has all four rows, and finds in them what it
\* found when it locked them.
LEMMA SettlementCommits ==
    ASSUME IInv, NEW o \in OrderIds, CommitSettle(o)
    PROVE  \E buyer \in Users, seller \in Users, value \in Nat \ {0}, n \in Nat \ {0} :
             /\ buyer = Buyer(o) /\ seller = Seller(o) /\ value = Value(o) /\ n = trade[o].quantity
             /\ value <= balance[buyer]["quote"].locked /\ n <= balance[seller]["base"].locked
             /\ balance' = SettledWorth(balance, buyer, seller, value, n)
             /\ <<buyer, "quote">> \in HeldBy(o) /\ <<seller, "base">> \in HeldBy(o)
             /\ pc[o] = "settling" /\ TradeFits(o)
<1>1. pc[o] = "settling" /\ held[o] = 4 /\ TradeFits(o) /\ Holds(o, 1) /\ Holds(o, 2)
    BY DEF CommitSettle, IInv, CallFits, LockFits
<1>2. /\ Buyer(o) \in Users /\ Seller(o) \in Users
      /\ Value(o) \in Nat \ {0} /\ trade[o].quantity \in Nat \ {0}
    BY <1>1, TradeTyped DEF IInv
<1>3. balance' = SettledWorth(balance, Buyer(o), Seller(o), Value(o), trade[o].quantity)
    BY DEF CommitSettle, Settled, SettledWorth, Value
<1>4. <<Buyer(o), "quote">> \in HeldBy(o) /\ <<Seller(o), "base">> \in HeldBy(o)
    BY <1>1, SettleRowsAre DEF HeldBy
<1> QED BY <1>1, <1>2, <1>3, <1>4 DEF Holds

LEMMA CommitSettleIInv ==
    ASSUME IInv, NEW o \in OrderIds, CommitSettle(o)
    PROVE  IInv' /\ Steady
<1>1. PICK buyer \in Users, seller \in Users, value \in Nat \ {0}, n \in Nat \ {0} :
        /\ value <= balance[buyer]["quote"].locked /\ n <= balance[seller]["base"].locked
        /\ balance' = SettledWorth(balance, buyer, seller, value, n)
        /\ <<buyer, "quote">> \in HeldBy(o) /\ <<seller, "base">> \in HeldBy(o)
        /\ pc[o] = "settling" /\ TradeFits(o)
    BY SettlementCommits
<1>2. /\ pc'[o] = "recording" /\ held'[o] = 0
      /\ \A z \in OrderIds \ {o} : pc'[z] = pc[z] /\ held'[z] = held[z]
      /\ UNCHANGED <<row, rows, traded, order, snapshot, trade, cancel, told, worldVars>>
    BY DEF CommitSettle, Goto, IInv, TypeOK
<1>3. balance \in Wallets
    BY DEF IInv, TypeOK
<1>4. /\ balance' \in Wallets
      /\ \A v \in Users :
           /\ balance'[v]["quote"].locked = balance[v]["quote"].locked - (IF v = buyer THEN value ELSE 0)
           /\ balance'[v]["base"].locked = balance[v]["base"].locked - (IF v = seller THEN n ELSE 0)
    BY <1>1, <1>3, SettledBalances
<1>5. TypeOK'
    <2>1. pc' \in [OrderIds -> {"idle"} \cup Processing \cup Ended]
        BY DEF IInv, TypeOK, CommitSettle, Goto, Processing
    <2>2. held' \in [OrderIds -> 0..4]
        BY DEF IInv, TypeOK, CommitSettle
    <2> QED BY <1>2, <1>4, <2>1, <2>2 DEF IInv, TypeOK, worldVars
<1>6. CallFits(o)'
    <2>1. TradeFits(o)'
        <3>1. BuyOrder(o)' = BuyOrder(o) /\ SellOrder(o)' = SellOrder(o)
            BY <1>2 DEF BuyOrder, SellOrder
        <3> QED BY <1>1, <1>2, <3>1 DEF TradeFits
    <2> QED BY <1>1, <1>2, <2>1 DEF IInv, CallFits, Processing, Needs
<1>7. LocksRespected
    <2> SUFFICES ASSUME NEW z \in OrderIds \ {o}, NEW u \in Users, NEW a \in Assets, <<u, a>> \in HeldBy(z)
                 PROVE  balance[u][a].locked <= balance'[u][a].locked
        BY <1>2 DEF LocksRespected, SameCall
    <2>1. HeldBy(z) \cap HeldBy(o) = {}
        BY DEF IInv, LockFits
    <2>2. <<u, a>> # <<buyer, "quote">> /\ <<u, a>> # <<seller, "base">>
        BY <1>1, <2>1
    <2>3. balance'[u][a].locked = balance[u][a].locked - 0
        BY <1>4, <2>2 DEF Assets
    <2>4. balance[u][a].locked \in Nat
        BY <1>3, BalancesAreNat
    <2> QED BY <2>3, <2>4
<1> QED BY <1>1, <1>2, <1>5, <1>6, <1>7, CallStep, RowsStay, LocksStay DEF SameCall, SameTerms

\* What the call subtracts from its copy of the taker.
LEMMA TradeRecorded ==
    ASSUME IInv, NEW o \in OrderIds, RecordTrade(o)
    PROVE  /\ pc[o] = "recording" /\ pc'[o] \in {"matching", "releasing", "filled"}
           /\ TradeFits(o) /\ trade[o].resting # o
           /\ SameTerms(o) /\ order'[o] \in Order
           /\ order'[o].quantity = order[o].quantity - trade[o].quantity
           /\ order'[o].lockedAmount = order[o].lockedAmount - TradeCost(o, order[o].side)
           /\ TradeCost(o, order[o].side) \in Nat /\ TradeCost(o, order[o].side) <= order[o].lockedAmount
           /\ Needs(o)' <= order'[o].lockedAmount
           /\ pc'[o] = "matching" => order'[o].quantity > 0
           /\ pc'[o] = "releasing" => order'[o].lockedAmount > 0
           /\ pc'[o] = "filled" => order'[o].lockedAmount = 0
           /\ trade'[o] = NoTrade
           /\ order' = [order EXCEPT ![o] = order'[o]]
           /\ \A z \in OrderIds \ {o} : pc'[z] = pc[z] /\ order'[z] = order[z] /\ trade'[z] = trade[z]
           /\ UNCHANGED <<balance, row, rows, snapshot, held, cancel, worldVars>>
<1>1. pc[o] = "recording" /\ TradeFits(o) /\ CallFits(o)
    BY DEF RecordTrade, IInv, CallFits
<1>2. /\ order[o] \in Order /\ order[o].side \in Sides /\ order[o].price \in Nat
      /\ order[o].quantity \in Nat /\ order[o].lockedAmount \in Nat
      /\ trade[o].price \in Nat /\ trade[o].quantity \in Nat
    BY OrdersAssumption DEF IInv, TypeOK, Order, Trade
<1>3. trade[o].resting # o
    BY <1>1 DEF TradeFits
<1>4. order[o].side = "buy" => trade[o].price <= order[o].price
    BY <1>1, <1>2 DEF TradeFits, BuyOrder
<1>5. PICK cost : cost = TradeCost(o, order[o].side)
    OBVIOUS
<1>6. /\ cost \in Nat /\ order[o].lockedAmount - cost \in Nat
      /\ Cost(order[o].side, order[o].price, order[o].quantity - trade[o].quantity) <= order[o].lockedAmount - cost
    BY <1>1, <1>2, <1>4, <1>5, LockSplits, CostIsNat DEF TradeFits, CallFits, Needs, TradeCost
<1>7. order[o].quantity - trade[o].quantity \in Nat
    BY <1>1, <1>2 DEF TradeFits
<1>8. /\ AfterTrade(o).user = order[o].user /\ AfterTrade(o).side = order[o].side
      /\ AfterTrade(o).price = order[o].price /\ AfterTrade(o).size = order[o].size
      /\ AfterTrade(o).quantity = order[o].quantity - trade[o].quantity
      /\ AfterTrade(o).lockedAmount = order[o].lockedAmount - cost
      /\ AfterTrade(o) \in Order
    BY <1>2, <1>5, <1>6, <1>7 DEF AfterTrade, Order, TradeCost
<1>9. /\ order' = [order EXCEPT ![o] = AfterTrade(o)]
      /\ trade' = [trade EXCEPT ![o] = NoTrade]
      /\ UNCHANGED <<balance, row, rows, snapshot, held, cancel, worldVars>>
    BY DEF RecordTrade
<1>10. order'[o] = AfterTrade(o) /\ trade'[o] = NoTrade
       /\ \A z \in OrderIds \ {o} : order'[z] = order[z] /\ trade'[z] = trade[z]
    BY <1>9 DEF IInv, TypeOK
<1>11. \E next \in {"matching", "releasing", "filled"} :
         /\ pc' = [pc EXCEPT ![o] = next]
         /\ next = "matching" => AfterTrade(o).quantity > 0
         /\ next = "releasing" => AfterTrade(o).lockedAmount > 0
         /\ next = "filled" => AfterTrade(o).lockedAmount = 0
    <2>1. AfterTrade(o).quantity \in Nat /\ AfterTrade(o).lockedAmount \in Nat
        BY <1>8 DEF Order
    <2>2. CASE AfterTrade(o).quantity > 0
        <3>1. pc' = [pc EXCEPT ![o] = "matching"]
            BY <2>2 DEF RecordTrade, Goto
        <3> QED BY <2>2, <3>1
    <2>3. CASE ~(AfterTrade(o).quantity > 0) /\ AfterTrade(o).lockedAmount > 0
        <3>1. pc' = [pc EXCEPT ![o] = "releasing"]
            BY <2>3 DEF RecordTrade, Goto
        <3> QED BY <2>3, <3>1
    <2>4. CASE ~(AfterTrade(o).quantity > 0) /\ ~(AfterTrade(o).lockedAmount > 0)
        <3>1. pc' = [pc EXCEPT ![o] = "filled"]
            BY <2>4 DEF RecordTrade, Goto
        <3> QED BY <2>1, <2>4, <3>1
    <2> QED BY <2>1, <2>2, <2>3, <2>4
<1>12. \A z \in OrderIds \ {o} : pc'[z] = pc[z]
    BY <1>11 DEF IInv, TypeOK
<1>13. /\ pc'[o] \in {"matching", "releasing", "filled"}
       /\ pc'[o] = "matching" => AfterTrade(o).quantity > 0
       /\ pc'[o] = "releasing" => AfterTrade(o).lockedAmount > 0
       /\ pc'[o] = "filled" => AfterTrade(o).lockedAmount = 0
    BY <1>11 DEF IInv, TypeOK
<1>14. cost <= order[o].lockedAmount
    BY <1>2, <1>6
<1>15. SameTerms(o)
    BY <1>8, <1>10 DEF SameTerms
<1>16. Needs(o)' <= order'[o].lockedAmount
    BY <1>6, <1>8, <1>10 DEF Needs
<1> QED BY <1>1, <1>3, <1>5, <1>6, <1>8, <1>9, <1>10, <1>12, <1>13, <1>14, <1>15, <1>16

\* recordTrade leaves the call with what the rest of its order costs.
LEMMA RecordTradeIInv ==
    ASSUME IInv, NEW o \in OrderIds, RecordTrade(o)
    PROVE  IInv' /\ Steady
<1>1. /\ pc[o] = "recording" /\ pc'[o] \in {"matching", "releasing", "filled"}
      /\ TradeFits(o)
      /\ SameTerms(o) /\ order'[o] \in Order
      /\ Needs(o)' <= order'[o].lockedAmount
      /\ pc'[o] = "matching" => order'[o].quantity > 0
      /\ pc'[o] = "releasing" => order'[o].lockedAmount > 0
      /\ trade'[o] = NoTrade
      /\ order' = [order EXCEPT ![o] = order'[o]]
      /\ \A z \in OrderIds \ {o} : pc'[z] = pc[z] /\ order'[z] = order[z] /\ trade'[z] = trade[z]
      /\ UNCHANGED <<balance, row, rows, snapshot, held, cancel, worldVars>>
    BY TradeRecorded
<1>2. TypeOK'
    <2>1. told' \in [OrderIds -> SUBSET Statuses]
        BY DEF IInv, TypeOK, RecordTrade, Tell, Statuses
    <2>2. pc' \in [OrderIds -> {"idle"} \cup Processing \cup Ended]
        BY DEF IInv, TypeOK, RecordTrade, Goto, Processing, Ended
    <2>3. trade' \in [OrderIds -> Trade]
        BY DEF IInv, TypeOK, RecordTrade, Trade, NoTrade
    <2>4. traded' \in [OrderIds -> Nat]
        <3>1. \A n \in Nat, z \in OrderIds : [traded EXCEPT ![z] = n] \in [OrderIds -> Nat]
            BY DEF IInv, TypeOK
        <3>2. PICK n : n = traded[o] + trade[o].quantity
            OBVIOUS
        <3>3. PICK k : k = traded[trade[o].resting] + trade[o].quantity
            OBVIOUS
        <3>4. trade[o].resting \in OrderIds /\ trade[o].quantity \in Nat
            BY <1>1 DEF TradeFits, IInv, TypeOK, Trade
        <3>5. n \in Nat /\ k \in Nat
            BY <3>2, <3>3, <3>4 DEF IInv, TypeOK
        <3>6. traded' = [traded EXCEPT ![o] = n, ![trade[o].resting] = k]
            BY <1>1, <3>2, <3>3 DEF RecordTrade, TradeFits
        <3> QED BY <3>4, <3>5, <3>6 DEF IInv, TypeOK
    <2>5. order' \in [OrderIds -> Order]
        BY <1>1 DEF IInv, TypeOK
    <2> QED BY <1>1, <2>1, <2>2, <2>3, <2>4, <2>5 DEF IInv, TypeOK, worldVars
<1>3. CallFits(o)'
    <2>1. snapshot[o] = {}
        BY <1>1 DEF IInv, CallFits
    <2> QED BY <1>1, <2>1 DEF CallFits, Processing
<1>4. LocksRespected
    BY <1>1, HoldersStay, BalancesAreNat DEF SameCall, IInv, TypeOK
<1> QED BY <1>1, <1>2, <1>3, <1>4, CallStep, RowsStay, LocksStay DEF SameCall

\* A filled order gives back what its trades did not cost.
LEMMA ResidualReleased ==
    ASSUME IInv, NEW o \in OrderIds, ReleaseResidual(o)
    PROVE  \E u \in Users, s \in Sides, a \in Assets, rest \in Nat \ {0} :
             /\ u = order[o].user /\ s = order[o].side /\ a = LockAsset(s) /\ rest = order[o].lockedAmount
             /\ UnlockedFor(<<u, a>>, o)
             /\ pc[o] = "releasing"
             /\ UNCHANGED <<row, rows, traded, order, snapshot, trade, held, cancel, worldVars>>
             /\ \/ /\ rest <= balance[u][a].locked
                   /\ pc' = [pc EXCEPT ![o] = "filled"]
                   /\ balance' = Freed(balance, u, a, rest)
                \/ /\ pc' = [pc EXCEPT ![o] = "failed"]
                   /\ balance' = balance
<1>1. /\ order[o].user \in Users /\ order[o].side \in Sides /\ LockAsset(order[o].side) \in Assets
      /\ order[o].lockedAmount \in Nat
    BY DEF IInv, TypeOK, Order, LockAsset, Assets
<1>2. pc[o] = "releasing" /\ order[o].lockedAmount > 0
    BY DEF ReleaseResidual, IInv, CallFits
<1>3. UnlockedFor(<<order[o].user, LockAsset(order[o].side)>>, o)
      /\ UNCHANGED <<row, rows, traded, order, snapshot, trade, held, cancel, worldVars>>
    BY DEF ReleaseResidual
<1>4. \/ /\ order[o].lockedAmount <= balance[order[o].user][LockAsset(order[o].side)].locked
         /\ pc' = [pc EXCEPT ![o] = "filled"]
         /\ balance' = Freed(balance, order[o].user, LockAsset(order[o].side), order[o].lockedAmount)
      \/ /\ pc' = [pc EXCEPT ![o] = "failed"]
         /\ balance' = balance
    BY DEF ReleaseResidual, Goto, Unlocked, Freed
<1>5. order[o].lockedAmount \in Nat \ {0}
    BY <1>1, <1>2
<1> QED BY <1>1, <1>2, <1>3, <1>4, <1>5

LEMMA ReleaseResidualIInv ==
    ASSUME IInv, NEW o \in OrderIds, ReleaseResidual(o)
    PROVE  IInv' /\ Steady
<1>1. PICK u \in Users, a \in Assets, rest \in Nat \ {0} :
        /\ UnlockedFor(<<u, a>>, o)
        /\ pc[o] = "releasing"
        /\ UNCHANGED <<row, rows, traded, order, snapshot, trade, held, cancel, worldVars>>
        /\ \/ /\ rest <= balance[u][a].locked
              /\ pc' = [pc EXCEPT ![o] = "filled"]
              /\ balance' = Freed(balance, u, a, rest)
           \/ /\ pc' = [pc EXCEPT ![o] = "failed"]
              /\ balance' = balance
    BY ResidualReleased
<1>2. pc'[o] \in {"filled", "failed"} /\ \A z \in OrderIds \ {o} : pc'[z] = pc[z]
    BY <1>1 DEF IInv, TypeOK
<1>3. balance' \in Wallets
      /\ \A v \in Users, x \in Assets : <<v, x>> # <<u, a>> => balance'[v][x].locked = balance[v][x].locked
    <2>1. balance \in Wallets
        BY DEF IInv, TypeOK
    <2>2. CASE balance' = balance
        BY <2>1, <2>2
    <2>3. CASE rest <= balance[u][a].locked /\ balance' = Freed(balance, u, a, rest)
        <3>1. balance' \in Wallets
            BY <2>1, <2>3, UnlockedBalances
        <3>2. ASSUME NEW v \in Users, NEW x \in Assets, <<v, x>> # <<u, a>>
              PROVE  balance'[v][x].locked = balance[v][x].locked
            <4>1. balance'[v][x].locked = balance[v][x].locked - (IF v = u /\ x = a THEN rest ELSE 0)
                BY <2>1, <2>3, UnlockedBalances
            <4>2. balance[v][x].locked \in Nat
                BY <2>1, BalancesAreNat
            <4> QED BY <3>2, <4>1, <4>2
        <3> QED BY <3>1, <3>2
    <2> QED BY <1>1, <2>2, <2>3
<1>4. TypeOK'
    <2>1. told' \in [OrderIds -> SUBSET Statuses]
        BY DEF IInv, TypeOK, ReleaseResidual, Tell, Statuses
    <2>2. pc' \in [OrderIds -> {"idle"} \cup Processing \cup Ended]
        BY <1>1 DEF IInv, TypeOK, Ended
    <2> QED BY <1>1, <1>3, <2>1, <2>2 DEF IInv, TypeOK, worldVars
<1>5. CallFits(o)'
    BY <1>1, <1>2 DEF IInv, CallFits, Processing, Needs
<1>6. LocksRespected
    <2>1. \A v \in Users, x \in Assets : UnlockedFor(<<v, x>>, o) \/ balance[v][x].locked <= balance'[v][x].locked
        <3> SUFFICES ASSUME NEW v \in Users, NEW x \in Assets, <<v, x>> # <<u, a>>
                     PROVE  balance[v][x].locked <= balance'[v][x].locked
            BY <1>1
        <3>1. balance[v][x].locked \in Nat
            BY BalancesAreNat DEF IInv, TypeOK
        <3> QED BY <1>3, <3>1
    <2> QED BY <1>1, <1>2, <2>1, HoldersStay DEF SameCall
<1> QED BY <1>1, <1>2, <1>4, <1>5, <1>6, CallStep, RowsStay, LocksStay DEF SameCall, SameTerms

\* Only a settlement can be part of a deadlock.
LEMMA DeadlockAbortIInv ==
    ASSUME IInv, NEW o \in OrderIds, DeadlockAbort(o)
    PROVE  IInv' /\ Steady
<1>1. pc[o] \in Processing
    BY DEF DeadlockAbort, Cycle, WaitsFor, Processing
<1> QED BY <1>1, ThrownIInv DEF DeadlockAbort, IInv, TypeOK, worldVars

LEMMA FaultIInv ==
    ASSUME IInv, NEW o \in OrderIds, Fault(o)
    PROVE  IInv' /\ Steady
BY ThrownIInv DEF Fault, IInv, TypeOK

-----------------------------------------------------------------------------
(* cancelOrder.                                                            *)

\* Nobody's row locks are touched while the locked funds are not lowered.
LEMMA LocksUntouched ==
    ASSUME IInv, UNCHANGED <<engineVars, balance>>
    PROVE  LocksRespected
<1>1. \A u \in Users, a \in Assets : balance[u][a].locked <= balance'[u][a].locked
    BY BalancesAreNat DEF IInv, TypeOK
<1> QED BY <1>1 DEF LocksRespected, SameCall, engineVars

\* getOrder finds a row, and the order of a row has been placed.
LEMMA CancelGetOrderIInv ==
    ASSUME IInv, NEW c \in Cancels, NEW o \in OrderIds, CancelGetOrder(c, o)
    PROVE  IInv' /\ Steady
<1>1. UNCHANGED <<engineVars, tableVars, worldVars>>
    BY DEF CancelGetOrder
<1>2. row[o] \in Row /\ NoRow \in Row
    BY DEF IInv, TypeOK, NoRow, Row
<1>3. TypeOK'
    <2>1. told' \in [OrderIds -> SUBSET Statuses]
        BY DEF IInv, TypeOK, CancelGetOrder, Tell, Statuses
    <2>2. cancel' \in [Cancels -> Cancellation]
        BY <1>2 DEF IInv, TypeOK, CancelGetOrder, Cancellation, Cancelling
    <2> QED BY <1>1, <2>1, <2>2 DEF IInv, TypeOK, engineVars, tableVars, worldVars
<1>4. ASSUME Steady, NEW d \in Cancels PROVE CancelFits(d)'
    <2>1. CASE d # c
        <3>1. cancel'[d] = cancel[d]
            BY <2>1 DEF CancelGetOrder, IInv, TypeOK
        <3> QED BY <1>4, <3>1, CancelStays
    <2>2. CASE d = c /\ o \in rows
        <3>1. cancel'[c].order = o
            BY <2>2 DEF CancelGetOrder, IInv, TypeOK
        <3>2. pc'[o] = "open"
            BY <1>1, <2>2 DEF IInv, RowFits, engineVars
        <3> QED BY <2>2, <3>1, <3>2 DEF CancelFits
    <2>3. CASE d = c /\ o \notin rows
        <3>1. cancel'[c].at = "failed"
            BY <2>3 DEF CancelGetOrder, IInv, TypeOK
        <3> QED BY <2>3, <3>1 DEF CancelFits, Cancelling
    <2> QED BY <2>1, <2>2, <2>3
<1>5. LocksRespected
    BY <1>1, LocksUntouched DEF tableVars
<1> QED BY <1>1, <1>3, <1>4, <1>5, OtherStep, RowsStay DEF tableVars

\* What unlockFunds moves: what was locked when the row was read, or nothing.
LEMMA FundsUnlocked ==
    ASSUME IInv, NEW c \in Cancels, CancelUnlockFunds(c)
    PROVE  \E u \in Users, a \in Assets, amount \in Nat :
             /\ UnlockedFor(<<u, a>>, NoOrder)
             /\ cancel[c].at = "unlocking"
             /\ UNCHANGED <<row, rows, traded, engineVars, told, worldVars>>
             /\ \/ /\ amount <= balance[u][a].locked
                   /\ cancel' = [cancel EXCEPT ![c].at = "removing"]
                   /\ balance' = Freed(balance, u, a, amount)
                \/ /\ cancel' = [cancel EXCEPT ![c].at = "failed"]
                   /\ balance' = balance
<1>1. cancel[c].at = "unlocking" /\ cancel[c].order \in OrderIds
    BY DEF CancelUnlockFunds, IInv, CancelFits, Cancelling
<1>2. PICK o \in OrderIds : o = cancel[c].order
    BY <1>1
<1>3. PICK amount : amount = IF cancel[c].read.locked > 0 THEN cancel[c].read.locked
                             ELSE Cost(order[o].side, order[o].price, cancel[c].read.quantity)
    OBVIOUS
<1>4. /\ order[o].user \in Users /\ LockAsset(order[o].side) \in Assets
      /\ order[o].side \in Sides /\ order[o].price \in Nat
    BY OrdersAssumption DEF IInv, TypeOK, Order, LockAsset, Assets
<1>5. cancel[c].read.locked \in Nat /\ cancel[c].read.quantity \in Nat
    BY DEF IInv, TypeOK, Cancellation, Row
<1>6. amount \in Nat
    BY <1>3, <1>4, <1>5, CostIsNat
<1>7. /\ UnlockedFor(<<order[o].user, LockAsset(order[o].side)>>, NoOrder)
      /\ UNCHANGED <<row, rows, traded, engineVars, told, worldVars>>
      /\ \/ /\ amount <= balance[order[o].user][LockAsset(order[o].side)].locked
            /\ cancel' = [cancel EXCEPT ![c].at = "removing"]
            /\ balance' = Freed(balance, order[o].user, LockAsset(order[o].side), amount)
         \/ /\ cancel' = [cancel EXCEPT ![c].at = "failed"]
            /\ balance' = balance
    BY <1>2, <1>3 DEF CancelUnlockFunds, CancelGoto, Unlocked, Freed
<1> QED BY <1>1, <1>4, <1>6, <1>7

\* A cancellation that goes on, or gives up, keeps its order.
LEMMA CancelMoves ==
    ASSUME IInv, NEW c \in Cancels, cancel[c].at \in Cancelling,
           NEW to \in {"removing", "cancelled", "failed"}, cancel' = [cancel EXCEPT ![c].at = to]
    PROVE  /\ cancel' \in [Cancels -> Cancellation]
           /\ Steady => \A d \in Cancels : CancelFits(d)'
<1>1. cancel' \in [Cancels -> Cancellation]
    <2>1. cancel \in [Cancels -> Cancellation]
        BY DEF IInv, TypeOK
    <2>2. PICK x \in Cancellation : x = cancel[c]
        BY <2>1
    <2>3. [x EXCEPT !.at = to] \in Cancellation
        BY DEF Cancellation, Cancelling
    <2> QED BY <2>1, <2>2, <2>3
<1>2. ASSUME Steady, NEW d \in Cancels PROVE CancelFits(d)'
    <2>1. cancel \in [Cancels -> Cancellation]
        BY DEF IInv, TypeOK
    <2>2. d # c => cancel'[d] = cancel[d]
        BY <2>1
    <2>3. cancel'[d].order = cancel[d].order
        <3>1. PICK x \in Cancellation : x = cancel[c]
            BY <2>1
        <3>2. PICK y : y = [x EXCEPT !.at = to]
            OBVIOUS
        <3>3. y.order = x.order
            BY <3>1, <3>2 DEF Cancellation
        <3>4. cancel'[c] = y
            BY <2>1, <3>1, <3>2
        <3> QED BY <2>2, <3>1, <3>3, <3>4
    <2> QED BY <1>2, <2>2, <2>3, CancelStays
<1> QED BY <1>1, <1>2

LEMMA CancelUnlockFundsIInv ==
    ASSUME IInv, NEW c \in Cancels, CancelUnlockFunds(c)
    PROVE  IInv' /\ Steady
<1>1. PICK u \in Users, a \in Assets, amount \in Nat :
        /\ UnlockedFor(<<u, a>>, NoOrder)
        /\ cancel[c].at = "unlocking"
        /\ UNCHANGED <<row, rows, traded, engineVars, told, worldVars>>
        /\ \/ /\ amount <= balance[u][a].locked
              /\ cancel' = [cancel EXCEPT ![c].at = "removing"]
              /\ balance' = Freed(balance, u, a, amount)
           \/ /\ cancel' = [cancel EXCEPT ![c].at = "failed"]
              /\ balance' = balance
    BY FundsUnlocked
<1>2. balance \in Wallets
    BY DEF IInv, TypeOK
<1>3. balance' \in Wallets
      /\ \A v \in Users, x \in Assets : <<v, x>> # <<u, a>> => balance'[v][x].locked = balance[v][x].locked
    <2>1. CASE balance' = balance
        BY <1>2, <2>1
    <2>2. CASE amount <= balance[u][a].locked /\ balance' = Freed(balance, u, a, amount)
        <3>1. balance' \in Wallets
            BY <1>2, <2>2, UnlockedBalances
        <3>2. ASSUME NEW v \in Users, NEW x \in Assets, <<v, x>> # <<u, a>>
              PROVE  balance'[v][x].locked = balance[v][x].locked
            <4>1. balance'[v][x].locked = balance[v][x].locked - (IF v = u /\ x = a THEN amount ELSE 0)
                BY <1>2, <2>2, UnlockedBalances
            <4>2. balance[v][x].locked \in Nat
                BY <1>2, BalancesAreNat
            <4> QED BY <3>2, <4>1, <4>2
        <3> QED BY <3>1, <3>2
    <2> QED BY <1>1, <2>1, <2>2
<1>4. cancel' \in [Cancels -> Cancellation] /\ (Steady => \A d \in Cancels : CancelFits(d)')
    BY <1>1, CancelMoves DEF Cancelling
<1>5. TypeOK'
    BY <1>1, <1>3, <1>4 DEF IInv, TypeOK, engineVars, worldVars
<1>6. LocksRespected
    <2> SUFFICES ASSUME NEW z \in OrderIds, NEW v \in Users, NEW x \in Assets, <<v, x>> \in HeldBy(z)
                 PROVE  balance[v][x].locked <= balance'[v][x].locked
        BY <1>1 DEF LocksRespected, SameCall, engineVars
    <2>1. z # NoOrder
        BY OrderIdsAssumption DEF NoOrder
    <2>2. <<v, x>> # <<u, a>>
        BY <1>1, <2>1 DEF UnlockedFor
    <2>3. balance[v][x].locked \in Nat
        BY <1>2, BalancesAreNat
    <2> QED BY <1>3, <2>2, <2>3
<1> QED BY <1>1, <1>4, <1>5, <1>6, OtherStep, RowsStay

\* DELETE takes the row out and leaves the others.
LEMMA CancelRemoveIInv ==
    ASSUME IInv, NEW c \in Cancels, CancelRemove(c)
    PROVE  IInv' /\ Steady
<1>1. cancel[c].at \in Cancelling /\ cancel[c].order \in OrderIds
    BY DEF CancelRemove, IInv, CancelFits, Cancelling
<1>2. PICK o \in OrderIds : o = cancel[c].order
    BY <1>1
<1>3. /\ cancel' = [cancel EXCEPT ![c].at = "cancelled"]
      /\ rows' = rows \ {o} /\ row' = [row EXCEPT ![o] = NoRow]
      /\ told' = [told EXCEPT ![o] = @ \cup {"CANCELLED"}]
      /\ UNCHANGED <<balance, traded, engineVars, worldVars>>
    BY <1>2 DEF CancelRemove, CancelGoto, Tell
<1>4. cancel' \in [Cancels -> Cancellation] /\ (Steady => \A d \in Cancels : CancelFits(d)')
    BY <1>1, <1>3, CancelMoves
<1>5. TypeOK'
    <2>1. row' \in [OrderIds -> Row] /\ rows' \subseteq OrderIds
        BY <1>3 DEF IInv, TypeOK, Row, NoRow
    <2>2. told' \in [OrderIds -> SUBSET Statuses]
        BY <1>3 DEF IInv, TypeOK, Statuses
    <2> QED BY <1>3, <1>4, <2>1, <2>2 DEF IInv, TypeOK, engineVars, worldVars
<1>6. ASSUME Steady, NEW z \in OrderIds PROVE RowFits(z)'
    <2>1. CASE z = o
        BY <1>3, <2>1 DEF IInv, TypeOK, RowFits
    <2>2. CASE z # o
        <3>1. row'[z] = row[z] /\ (z \in rows' <=> z \in rows)
            BY <1>3, <2>2 DEF IInv, TypeOK
        <3> QED BY <1>6, <3>1, RowStays
    <2> QED BY <2>1, <2>2
<1>7. LocksRespected
    BY <1>3, LocksUntouched
<1> QED BY <1>3, <1>4, <1>5, <1>6, <1>7, OtherStep

LEMMA CancelFaultIInv ==
    ASSUME IInv, NEW c \in Cancels, CancelFault(c)
    PROVE  IInv' /\ Steady
<1>1. /\ cancel[c].at \in Cancelling /\ cancel' = [cancel EXCEPT ![c].at = "failed"]
      /\ UNCHANGED <<engineVars, tableVars, told, seeding, clock, deposits, restarts>>
      /\ faults' = faults + 1
    BY DEF CancelFault, CancelGoto
<1>2. cancel' \in [Cancels -> Cancellation] /\ (Steady => \A d \in Cancels : CancelFits(d)')
    BY <1>1, CancelMoves
<1>3. TypeOK'
    BY <1>1, <1>2 DEF IInv, TypeOK, engineVars, tableVars
<1>4. LocksRespected
    BY <1>1, LocksUntouched DEF tableVars
<1> QED BY <1>1, <1>2, <1>3, <1>4, OtherStep, RowsStay DEF tableVars

\* What a crash leaves: the tables, and calls that have ended.
LEMMA RestartIInv ==
    ASSUME IInv, Restart
    PROVE  IInv' /\ Steady
<1>1. /\ \A o \in OrderIds : /\ pc'[o] = IF pc[o] \in Processing THEN "lost" ELSE pc[o]
                             /\ held'[o] = 0 /\ trade'[o] = NoTrade /\ snapshot'[o] = {}
      /\ UNCHANGED <<order, tableVars, told, clock, deposits, faults>>
    BY DEF Restart
<1>2. TypeOK'
    <2>1. pc' \in [OrderIds -> {"idle"} \cup Processing \cup Ended]
        BY DEF IInv, TypeOK, Restart, Ended
    <2>2. trade' \in [OrderIds -> Trade] /\ held' \in [OrderIds -> 0..4] /\ snapshot' \in [OrderIds -> SUBSET OrderIds]
        BY DEF Restart, Trade, NoTrade
    <2>3. cancel' \in [Cancels -> Cancellation]
        <3> SUFFICES ASSUME NEW c \in Cancels
                     PROVE  (IF cancel[c].at \in Cancelling THEN [cancel[c] EXCEPT !.at = "lost"] ELSE cancel[c])
                              \in Cancellation
            BY DEF Restart
        <3>1. cancel[c] \in Cancellation
            BY DEF IInv, TypeOK
        <3> QED BY <3>1 DEF Cancellation
    <2>4. seeding' \subseteq Seeded /\ restarts' \in Nat
        BY DEF IInv, TypeOK, Restart
    <2> QED BY <1>1, <2>1, <2>2, <2>3, <2>4 DEF IInv, TypeOK, tableVars
<1>3. Steady
    BY <1>1 DEF Steady, SameTerms, Processing
<1>4. ASSUME NEW z \in OrderIds PROVE CallFits(z)'
    <2>1. pc'[z] \notin Processing
        BY <1>1 DEF Processing
    <2>2. order'[z].lockedAmount = order[z].lockedAmount /\ Needs(z)' = Needs(z)
        BY <1>1 DEF Needs
    <2> QED BY <1>1, <2>1, <2>2 DEF IInv, CallFits, Processing
<1>5. ASSUME NEW z \in OrderIds PROVE LockFits(z)'
    BY <1>1 DEF LockFits, HeldBy
<1>6. \A z \in OrderIds : RowFits(z)'
    BY <1>1, <1>3, RowsStay DEF tableVars
<1>7. ASSUME NEW c \in Cancels PROVE CancelFits(c)'
    <2>1. cancel'[c] = IF cancel[c].at \in Cancelling THEN [cancel[c] EXCEPT !.at = "lost"] ELSE cancel[c]
        BY DEF Restart
    <2>2. cancel[c] \in Cancellation
        BY DEF IInv, TypeOK
    <2>3. cancel'[c].at \notin Cancelling
        BY <2>1, <2>2 DEF Cancellation, Cancelling
    <2> QED BY <2>3 DEF CancelFits
<1> QED BY <1>2, <1>3, <1>4, <1>5, <1>6, <1>7 DEF IInv

\* A step that changes nothing.
LEMMA StutterIInv ==
    ASSUME IInv, UNCHANGED vars
    PROVE  IInv' /\ Steady
<1>1. UNCHANGED <<engineVars, tableVars, cancel, told, worldVars>>
    BY DEF vars
<1>2. TypeOK'
    BY <1>1 DEF IInv, TypeOK, engineVars, tableVars, worldVars
<1>3. LocksRespected
    BY <1>1, LocksUntouched DEF tableVars
<1> QED BY <1>1, <1>2, <1>3, OtherStep, RowsStay, CancelStays DEF tableVars

\* Each step, one at a time.
LEMMA NextIInv == IInv /\ [Next]_vars => IInv' /\ Steady
<1> SUFFICES ASSUME IInv, [Next]_vars PROVE IInv' /\ Steady
    OBVIOUS
<1>1. CASE UNCHANGED vars
    BY <1>1, StutterIInv
<1>2. CASE Arrive
    <2>1. ASSUME NEW u \in Users, NEW a \in Assets, Deposit(u, a) \/ Seed(u, a) PROVE IInv' /\ Steady
        BY <2>1, CreditIInv
    <2>2. ASSUME NEW o \in OrderIds, NEW u \in Users, NEW s \in Sides, NEW p \in Prices, NEW q \in Quantities,
                 NEW now \in {clock, clock + 1}, Submit(o, u, s, p, q, now)
          PROVE  IInv' /\ Steady
        BY <2>2, SubmitIInv
    <2>3. ASSUME NEW c \in Cancels, NEW o \in OrderIds, CancelGetOrder(c, o) PROVE IInv' /\ Steady
        BY <2>3, CancelGetOrderIInv
    <2> QED BY <1>2, <2>1, <2>2, <2>3 DEF Arrive
<1>3. ASSUME NEW o \in OrderIds, Process(o) PROVE IInv' /\ Steady
    BY <1>3, ValidateBalanceIInv, LockFundsIInv, SelectRowIInv, TakeRowIInv, TakeNothingIInv, InsertRowIInv,
       LockSettleRowIInv, CommitSettleIInv, DeadlockAbortIInv, RecordTradeIInv, ReleaseResidualIInv DEF Process
<1>4. ASSUME NEW o \in OrderIds, Fault(o) PROVE IInv' /\ Steady
    BY <1>4, FaultIInv
<1>5. ASSUME NEW c \in Cancels, ProcessCancel(c) PROVE IInv' /\ Steady
    BY <1>5, CancelUnlockFundsIInv, CancelRemoveIInv DEF ProcessCancel
<1>6. ASSUME NEW c \in Cancels, CancelFault(c) PROVE IInv' /\ Steady
    BY <1>6, CancelFaultIInv
<1>7. CASE Restart
    BY <1>7, RestartIInv
<1> QED BY <1>1, <1>2, <1>3, <1>4, <1>5, <1>6, <1>7 DEF Next

LEMMA SpecIInv == Spec => []IInv
<1>1. IInv /\ [Next]_vars => IInv'
    BY NextIInv
<1> QED BY InitIInv, <1>1, PTL DEF Spec

-----------------------------------------------------------------------------

\* The tables satisfy their CHECKs: no balance and no quantity ever goes below
\* zero, whatever the calls do (db/schema.sql).
THEOREM TablesAreWellTyped == Spec => []TypeOK
<1>1. IInv => TypeOK
    BY DEF IInv
<1> QED BY <1>1, SpecIInv, PTL

\* The call that executes a trade has it within the limits of both orders,
\* though the row it came from may have been matched, cancelled or deleted
\* since (processLimitOrder, atomicMatch).
THEOREM TradesAreWithinBothLimits == Spec => []TradesWithinLimits
<1>1. IInv => TradesWithinLimits
    <2> SUFFICES ASSUME IInv, NEW o \in OrderIds, trade[o] # NoTrade
                 PROVE  /\ order[BuyOrder(o)].price >= trade[o].price
                        /\ order[SellOrder(o)].price <= trade[o].price
                        /\ trade[o].quantity > 0
        BY DEF TradesWithinLimits
    <2>1. TradeFits(o)
        BY DEF IInv, CallFits
    <2> QED BY <2>1 DEF TradeFits
<1> QED BY <1>1, SpecIInv, PTL

-----------------------------------------------------------------------------
(* Money.                                                                  *)

\* Balances that agree everywhere are the same.
LEMMA SameBalances ==
    ASSUME NEW b \in Wallets, NEW c \in Wallets,
           \A u \in Users, a \in Assets :
               b[u][a].available = c[u][a].available /\ b[u][a].locked = c[u][a].locked
    PROVE  b = c
<1>1. ASSUME NEW u \in Users PROVE b[u] = c[u]
    <2>1. b[u] \in [Assets -> Balance] /\ c[u] \in [Assets -> Balance]
        BY DEF Wallets
    <2>2. ASSUME NEW a \in Assets PROVE b[u][a] = c[u][a]
        <3>1. b[u][a] \in Balance /\ c[u][a] \in Balance
            BY BalancesAreNat
        <3> QED BY <3>1 DEF Balance
    <2> QED BY <2>1, <2>2
<1> QED BY <1>1 DEF Wallets

\* What one statement, or one settlement, does to the balances b.
Credits(b, b2)  == \E u \in Users, a \in Assets : b2 = Raised(b, u, a, DepositAmount)
Locks(b, b2)    == \E u \in Users, a \in Assets, n \in Nat \ {0} :
                       n <= b[u][a].available /\ b2 = Locked(b, u, a, n)
Releases(b, b2) == \E u \in Users, a \in Assets, n \in Nat \ {0} :
                       n <= b[u][a].locked /\ b2 = Freed(b, u, a, n)
Trades(b, b2)   == \E buyer \in Users, seller \in Users, value \in Nat \ {0}, n \in Nat \ {0} :
                       /\ value <= b[buyer]["quote"].locked /\ n <= b[seller]["base"].locked
                       /\ b2 = SettledWorth(b, buyer, seller, value, n)

\* Every step is a deposit, or one of the others and no deposit, or leaves the
\* balances alone.
LEMMA BalancesMove ==
    ASSUME IInv, [Next]_vars
    PROVE  \/ Credits(balance, balance') /\ deposits' = deposits + 1
           \/ /\ \/ balance' = balance
                 \/ Locks(balance, balance') \/ Releases(balance, balance') \/ Trades(balance, balance')
              /\ deposits' = deposits
<1> DEFINE Idle == balance' = balance /\ deposits' = deposits
<1>1. ASSUME NEW u \in Users, NEW a \in Assets, Deposit(u, a) \/ Seed(u, a)
      PROVE  Credits(balance, balance') /\ deposits' = deposits + 1
    BY <1>1 DEF Deposit, Seed, Credited, Credits, Raised
<1>2. ASSUME NEW o \in OrderIds, LockFunds(o)
      PROVE  (balance' = balance \/ Locks(balance, balance')) /\ deposits' = deposits
    <2>1. deposits' = deposits /\ pc[o] = "locking"
        BY <1>2 DEF LockFunds, worldVars
    <2>2. /\ order[o].user \in Users /\ LockAsset(order[o].side) \in Assets /\ order[o].side \in Sides
          /\ order[o].price \in Nat \ {0} /\ order[o].quantity \in Nat \ {0}
        <3>1. order[o].price \in Nat \ {0}
            BY OrdersAssumption DEF IInv, TypeOK, Order
        <3>2. order[o].quantity \in Nat /\ order[o].quantity > 0
            BY <2>1 DEF IInv, TypeOK, Order, CallFits, Processing
        <3> QED BY <3>1, <3>2 DEF IInv, TypeOK, Order, LockAsset, Assets
    <2>3. Needs(o) \in Nat \ {0}
        <3>1. \A m \in Nat \ {0}, n \in Nat \ {0} : m * n \in Nat \ {0}
            <4> SUFFICES ASSUME NEW m \in Nat \ {0}, NEW n \in Nat \ {0} PROVE m * n \in Nat \ {0}
                OBVIOUS
            <4>1. 1 * n <= m * n
                BY ProductMonotonic
            <4> QED BY <4>1
        <3> QED BY <2>2, <3>1 DEF Needs, Cost
    <2>4. CASE CanLock(o)
        <3>1. balance' = Locked(balance, order[o].user, LockAsset(order[o].side), Needs(o))
            BY <1>2, <2>4 DEF LockFunds, Locked
        <3>2. Needs(o) <= balance[order[o].user][LockAsset(order[o].side)].available
            BY <2>4 DEF CanLock, Funds
        <3>3. Locks(balance, balance')
            BY <2>2, <2>3, <3>1, <3>2 DEF Locks
        <3> QED BY <2>1, <3>3
    <2>5. CASE ~CanLock(o)
        BY <1>2, <2>1, <2>5 DEF LockFunds
    <2> QED BY <2>4, <2>5
<1>3. ASSUME NEW o \in OrderIds, CommitSettle(o)
      PROVE  Trades(balance, balance') /\ deposits' = deposits
    <2>1. deposits' = deposits
        BY <1>3 DEF CommitSettle, worldVars
    <2> QED BY <1>3, <2>1, SettlementCommits DEF Trades
<1>4. ASSUME NEW o \in OrderIds, ReleaseResidual(o)
      PROVE  (balance' = balance \/ Releases(balance, balance')) /\ deposits' = deposits
    <2>1. PICK u \in Users, s \in Sides, a \in Assets, rest \in Nat \ {0} :
            /\ u = order[o].user /\ s = order[o].side /\ a = LockAsset(s) /\ rest = order[o].lockedAmount
            /\ UnlockedFor(<<u, a>>, o)
            /\ pc[o] = "releasing"
            /\ UNCHANGED <<row, rows, traded, order, snapshot, trade, held, cancel, worldVars>>
            /\ \/ /\ rest <= balance[u][a].locked
                  /\ pc' = [pc EXCEPT ![o] = "filled"]
                  /\ balance' = Freed(balance, u, a, rest)
               \/ /\ pc' = [pc EXCEPT ![o] = "failed"]
                  /\ balance' = balance
        BY <1>4, ResidualReleased
    <2> QED BY <2>1 DEF Releases, worldVars
<1>5. ASSUME NEW c \in Cancels, CancelUnlockFunds(c)
      PROVE  (balance' = balance \/ Releases(balance, balance')) /\ deposits' = deposits
    <2>1. PICK u \in Users, a \in Assets, amount \in Nat :
            /\ UNCHANGED worldVars
            /\ \/ amount <= balance[u][a].locked /\ balance' = Freed(balance, u, a, amount)
               \/ balance' = balance
        BY <1>5, FundsUnlocked
    <2>2. deposits' = deposits /\ balance \in Wallets
        BY <2>1 DEF worldVars, IInv, TypeOK
    <2>3. CASE amount = 0 /\ balance' = Freed(balance, u, a, amount)
        <3>1. amount <= balance[u][a].locked
            BY <2>2, <2>3, BalancesAreNat
        <3>2. balance' \in Wallets
            BY <2>2, <2>3, <3>1, UnlockedBalances
        <3>3. ASSUME NEW v \in Users, NEW x \in Assets
              PROVE  balance'[v][x].available = balance[v][x].available /\ balance'[v][x].locked = balance[v][x].locked
            <4>1. /\ balance'[v][x].available = balance[v][x].available + 0
                  /\ balance'[v][x].locked = balance[v][x].locked - 0
                BY <2>2, <2>3, <3>1, UnlockedBalances
            <4> QED BY <2>2, <4>1, BalancesAreNat
        <3> QED BY <2>2, <3>2, <3>3, SameBalances
    <2>4. CASE amount # 0 /\ amount <= balance[u][a].locked /\ balance' = Freed(balance, u, a, amount)
        <3>1. Releases(balance, balance')
            BY <2>4 DEF Releases
        <3> QED BY <2>2, <3>1
    <2> QED BY <2>1, <2>2, <2>3, <2>4
<1>6. ASSUME NEW o \in OrderIds, Process(o) \/ Fault(o), ~LockFunds(o), ~CommitSettle(o), ~ReleaseResidual(o)
      PROVE  Idle
    <2>1. ASSUME NEW m \in OrderIds, TakeRow(o, m) PROVE Idle
        BY <2>1 DEF TakeRow, worldVars
    <2> QED BY <1>6, <2>1 DEF Process, Fault, ValidateBalance, SelectRow, TakeNothing, InsertRow,
                LockSettleRow, DeadlockAbort, RecordTrade, tableVars, worldVars
<1>7. ASSUME NEW c \in Cancels, CancelRemove(c) \/ CancelFault(c)
      PROVE  Idle
    BY <1>7 DEF CancelRemove, CancelFault, tableVars, worldVars
<1>8. ASSUME NEW o \in OrderIds, NEW u, NEW s, NEW p, NEW q, NEW now, Submit(o, u, s, p, q, now)
      PROVE  Idle
    BY <1>8 DEF Submit, tableVars
<1>9. ASSUME NEW c \in Cancels, NEW o \in OrderIds, CancelGetOrder(c, o)
      PROVE  Idle
    BY <1>9 DEF CancelGetOrder, tableVars, worldVars
<1>10. ASSUME Restart \/ UNCHANGED vars
       PROVE  Idle
    BY <1>10 DEF Restart, vars, tableVars, worldVars
<1> QED BY <1>1, <1>2, <1>3, <1>4, <1>5, <1>6, <1>7, <1>8, <1>9, <1>10 DEF Next, Arrive, ProcessCancel

\* DbWalletStore implements what a wallet promises: every change of the table
\* is one whole deposit, lock, release or trade, and none takes more than is
\* there, whatever interleaves, fails or restarts.
THEOREM WalletImplementsLedger == Spec => WalletIsALedger
<1>1. Init => Wallet!LedgerInit
    BY DEF Init, Wallet!LedgerInit, Wallet!Assets, Assets
<1>2. IInv /\ [Next]_vars => [Wallet!LedgerNext]_balance
    <2> SUFFICES ASSUME IInv, [Next]_vars, balance' # balance PROVE Wallet!LedgerNext
        OBVIOUS
    <2>1. balance \in Wallets /\ Wallet!Assets = Assets
        BY DEF IInv, TypeOK, Wallet!Assets, Assets
    <2>2. CASE Credits(balance, balance')
        <3>1. PICK u \in Users, a \in Assets : balance' = Raised(balance, u, a, DepositAmount)
            BY <2>2 DEF Credits
        <3>2. Wallet!Credit(u, a)
            BY <3>1 DEF Raised, Wallet!Credit
        <3> QED BY <2>1, <3>2 DEF Wallet!LedgerNext
    <2>3. CASE Locks(balance, balance')
        <3>1. PICK u \in Users, a \in Assets, n \in Nat \ {0} :
                n <= balance[u][a].available /\ balance' = Locked(balance, u, a, n)
            BY <2>3 DEF Locks
        <3>2. n \in 1..balance[u][a].available
            BY <2>1, <3>1, BalancesAreNat
        <3>3. Wallet!Lock(u, a)
            BY <3>1, <3>2 DEF Locked, Wallet!Lock
        <3> QED BY <2>1, <3>3 DEF Wallet!LedgerNext
    <2>4. CASE Releases(balance, balance')
        <3>1. PICK u \in Users, a \in Assets, n \in Nat \ {0} :
                n <= balance[u][a].locked /\ balance' = Freed(balance, u, a, n)
            BY <2>4 DEF Releases
        <3>2. n \in 1..balance[u][a].locked
            BY <2>1, <3>1, BalancesAreNat
        <3>3. Wallet!Release(u, a)
            BY <3>1, <3>2 DEF Freed, Wallet!Release
        <3> QED BY <2>1, <3>3 DEF Wallet!LedgerNext
    <2>5. CASE Trades(balance, balance')
        <3>1. PICK buyer \in Users, seller \in Users, value \in Nat \ {0}, n \in Nat \ {0} :
                /\ value <= balance[buyer]["quote"].locked /\ n <= balance[seller]["base"].locked
                /\ balance' = SettledWorth(balance, buyer, seller, value, n)
            BY <2>5 DEF Trades
        <3>2. value \in 1..balance[buyer]["quote"].locked /\ n \in 1..balance[seller]["base"].locked
            <4>1. balance[buyer]["quote"].locked \in Nat /\ balance[seller]["base"].locked \in Nat
                BY <2>1, BalancesAreNat DEF Assets
            <4> QED BY <3>1, <4>1
        <3>3. Wallet!Exchanged(buyer, seller)
            BY <3>1, <3>2 DEF SettledWorth, Wallet!Exchanged
        <3> QED BY <3>3 DEF Wallet!LedgerNext
    <2> QED BY <2>2, <2>3, <2>4, <2>5, BalancesMove
<1> QED BY <1>1, <1>2, SpecIInv, PTL DEF Spec, WalletIsALedger, Wallet!LedgerSpec

\* Only deposits make money.
Holding(b, u, a) == b[u][a].available + b[u][a].locked
Holdings(b, a)   == [u \in Users |-> Holding(b, u, a)]

LEMMA HoldingsCounted ==
    ASSUME NEW b \in Wallets, NEW a \in Assets
    PROVE  Holdings(b, a) \in [Users -> Nat] /\ Total(Holdings(b, a)) \in Nat
<1>1. Holdings(b, a) \in [Users -> Nat]
    BY BalancesAreNat DEF Holdings, Holding
<1> QED BY <1>1, TotalIsNat, FiniteAssumption

\* Equal holdings, equal totals.
LEMMA SameHoldings ==
    ASSUME NEW b \in Wallets, NEW c \in Wallets, NEW a \in Assets,
           \A u \in Users : Holding(b, u, a) = Holding(c, u, a)
    PROVE  Total(Holdings(b, a)) = Total(Holdings(c, a))
BY DEF Holdings

\* A deposit adds what it deposits.
LEMMA DepositsAdd ==
    ASSUME NEW b \in Wallets, NEW b2, Credits(b, b2)
    PROVE  b2 \in Wallets
           /\ Total(Holdings(b2, "base")) + Total(Holdings(b2, "quote"))
                = Total(Holdings(b, "base")) + Total(Holdings(b, "quote")) + DepositAmount
<1>1. PICK u \in Users, x \in Assets : b2 = Raised(b, u, x, DepositAmount)
    BY DEF Credits
<1>2. DepositAmount \in Nat
    BY FundsAssumption
<1>3. b2 \in Wallets
    BY <1>1, <1>2, AvailableRaised
<1>4. ASSUME NEW a \in Assets
      PROVE  Total(Holdings(b2, a)) = Total(Holdings(b, a)) + (IF a = x THEN DepositAmount ELSE 0)
    <2>1. PICK f \in [Users -> Nat], g \in [Users -> Nat] : f = Holdings(b, a) /\ g = Holdings(b2, a)
        BY <1>3, HoldingsCounted
    <2>2. ASSUME NEW v \in Users
          PROVE  g[v] = f[v] + (IF v = u /\ a = x THEN DepositAmount ELSE 0)
        <3>1. /\ b2[v][a].available = b[v][a].available + (IF v = u /\ a = x THEN DepositAmount ELSE 0)
              /\ b2[v][a].locked = b[v][a].locked
            BY <1>1, <1>2, AvailableRaised
        <3>2. b[v][a].available \in Nat /\ b[v][a].locked \in Nat
            BY BalancesAreNat
        <3>3. g[v] = b2[v][a].available + b2[v][a].locked /\ f[v] = b[v][a].available + b[v][a].locked
            BY <2>1 DEF Holdings, Holding
        <3> QED BY <1>2, <3>1, <3>2, <3>3
    <2>3. g[u] = f[u] + (IF a = x THEN DepositAmount ELSE 0) /\ f[u] \in Nat
        BY <2>2
    <2>4. Total(f) + g[u] = Total(g) + f[u] /\ Total(f) \in Nat /\ Total(g) \in Nat
        <3>1. \A v \in Users \ {u} : f[v] = g[v]
            BY <2>2
        <3> QED BY <3>1, TotalChanges, FiniteAssumption
    <2>5. Total(g) = Total(f) + (IF a = x THEN DepositAmount ELSE 0)
        BY <1>2, <2>3, <2>4
    <2> QED BY <2>1, <2>5
<1>5. Total(Holdings(b, "base")) \in Nat /\ Total(Holdings(b, "quote")) \in Nat
    BY HoldingsCounted DEF Assets
<1> QED BY <1>2, <1>3, <1>4, <1>5 DEF Assets

\* Locking, releasing and trading leave what everybody owns together.
LEMMA LockingKeepsHoldings ==
    ASSUME NEW b \in Wallets, NEW b2, Locks(b, b2) \/ Releases(b, b2), NEW x \in Assets
    PROVE  b2 \in Wallets /\ Total(Holdings(b2, x)) = Total(Holdings(b, x))
<1>1. CASE Locks(b, b2)
    <2>1. PICK u \in Users, a \in Assets, n \in Nat \ {0} : n <= b[u][a].available /\ b2 = Locked(b, u, a, n)
        BY <1>1 DEF Locks
    <2>2. b2 \in Wallets
        BY <2>1, LockedBalances
    <2>3. ASSUME NEW v \in Users PROVE Holding(b2, v, x) = Holding(b, v, x)
        <3>1. /\ b2[v][x].available = b[v][x].available - (IF v = u /\ x = a THEN n ELSE 0)
              /\ b2[v][x].locked = b[v][x].locked + (IF v = u /\ x = a THEN n ELSE 0)
            BY <2>1, LockedBalances
        <3> QED BY <3>1, BalancesAreNat DEF Holding
    <2> QED BY <2>2, <2>3, SameHoldings
<1>2. CASE Releases(b, b2)
    <2>1. PICK u \in Users, a \in Assets, n \in Nat \ {0} : n <= b[u][a].locked /\ b2 = Freed(b, u, a, n)
        BY <1>2 DEF Releases
    <2>2. b2 \in Wallets
        BY <2>1, UnlockedBalances
    <2>3. ASSUME NEW v \in Users PROVE Holding(b2, v, x) = Holding(b, v, x)
        <3>1. /\ b2[v][x].available = b[v][x].available + (IF v = u /\ x = a THEN n ELSE 0)
              /\ b2[v][x].locked = b[v][x].locked - (IF v = u /\ x = a THEN n ELSE 0)
            BY <2>1, UnlockedBalances
        <3> QED BY <3>1, BalancesAreNat DEF Holding
    <2> QED BY <2>2, <2>3, SameHoldings
<1> QED BY <1>1, <1>2

\* The buyer's quote goes to the seller and the seller's base to the buyer.
LEMMA TradingKeepsHoldings ==
    ASSUME NEW b \in Wallets, NEW b2, Trades(b, b2), NEW x \in Assets
    PROVE  b2 \in Wallets /\ Total(Holdings(b2, x)) = Total(Holdings(b, x))
<1>1. PICK buyer \in Users, seller \in Users, value \in Nat \ {0}, n \in Nat \ {0} :
        /\ value <= b[buyer]["quote"].locked /\ n <= b[seller]["base"].locked
        /\ b2 = SettledWorth(b, buyer, seller, value, n)
    BY DEF Trades
<1>2. b2 \in Wallets
    BY <1>1, SettledBalances
<1>3. PICK f \in [Users -> Nat], g \in [Users -> Nat] : f = Holdings(b, x) /\ g = Holdings(b2, x)
    BY <1>2, HoldingsCounted
<1>4. PICK from \in Users, to \in Users, k \in Nat :
        \A v \in Users : g[v] = (f[v] - (IF v = from THEN k ELSE 0)) + (IF v = to THEN k ELSE 0)
    <2>1. \A v \in Users :
            /\ b2[v]["quote"].locked = b[v]["quote"].locked - (IF v = buyer THEN value ELSE 0)
            /\ b2[v]["quote"].available = b[v]["quote"].available + (IF v = seller THEN value ELSE 0)
            /\ b2[v]["base"].locked = b[v]["base"].locked - (IF v = seller THEN n ELSE 0)
            /\ b2[v]["base"].available = b[v]["base"].available + (IF v = buyer THEN n ELSE 0)
        BY <1>1, SettledBalances
    <2>2. \A v \in Users : /\ f[v] = b[v][x].available + b[v][x].locked
                           /\ g[v] = b2[v][x].available + b2[v][x].locked
                           /\ b[v][x].available \in Nat /\ b[v][x].locked \in Nat
        BY <1>3, BalancesAreNat DEF Holdings, Holding
    <2>3. CASE x = "quote"
        <3>1. \A v \in Users : g[v] = (f[v] - (IF v = buyer THEN value ELSE 0)) + (IF v = seller THEN value ELSE 0)
            BY <2>1, <2>2, <2>3
        <3> QED BY <3>1
    <2>4. CASE x = "base"
        <3>1. \A v \in Users : g[v] = (f[v] - (IF v = seller THEN n ELSE 0)) + (IF v = buyer THEN n ELSE 0)
            BY <2>1, <2>2, <2>4
        <3> QED BY <3>1
    <2> QED BY <2>3, <2>4 DEF Assets
<1>5. f[from] + f[to] = g[from] + g[to] /\ \A v \in Users \ {from, to} : f[v] = g[v]
    BY <1>4
<1>6. Total(f) = Total(g)
    BY <1>5, TotalTransfers, FiniteAssumption
<1> QED BY <1>2, <1>3, <1>6

LEMMA InitConservation == Init => Conservation
<1> SUFFICES ASSUME Init PROVE Conservation
    OBVIOUS
<1>1. \A a \in Assets : InitialFunds[a] \in Nat
    BY FundsAssumption
<1>2. ASSUME NEW a \in Assets PROVE Owned(a) = Cardinality(Users) * InitialFunds[a]
    <2>1. Owned(a) = Total([u \in Users |-> InitialFunds[a]])
        BY <1>1 DEF Init, Owned
    <2> QED BY <1>1, <2>1, TotalOfShares, FiniteAssumption
<1>3. PICK n \in Nat, x \in Nat, y \in Nat :
        n = Cardinality(Users) /\ x = InitialFunds["base"] /\ y = InitialFunds["quote"]
    BY <1>1, FiniteAssumption, FS_CardinalityType DEF Assets
<1>4. n * x + n * y = n * (x + y) + 0 * DepositAmount
    BY <1>3, FundsAssumption
<1> QED BY <1>2, <1>3, <1>4 DEF Init, Conservation, Assets

\* What the users own is what they began with and what was deposited: no crash,
\* failure or deadlock leaves a trade with one leg moved (settleTrade).
THEOREM OnlyDepositsMakeMoney == Spec => []Conservation
<1>1. IInv /\ IInv' /\ Conservation /\ [Next]_vars => Conservation'
    <2> SUFFICES ASSUME IInv, IInv', Conservation, [Next]_vars PROVE Conservation'
        OBVIOUS
    <2>1. balance \in Wallets /\ balance' \in Wallets /\ deposits \in Nat
        BY DEF IInv, TypeOK
    <2>2. PICK own \in Nat, own2 \in Nat :
            /\ own = Total(Holdings(balance, "base")) + Total(Holdings(balance, "quote"))
            /\ own2 = Total(Holdings(balance', "base")) + Total(Holdings(balance', "quote"))
        BY <2>1, HoldingsCounted DEF Assets
    <2>3. \/ own2 = own + DepositAmount /\ deposits' = deposits + 1
          \/ own2 = own /\ deposits' = deposits
        BY <2>1, <2>2, BalancesMove, DepositsAdd, LockingKeepsHoldings, TradingKeepsHoldings DEF Assets
    <2>4. own = Owned("base") + Owned("quote") /\ own2 = (Owned("base") + Owned("quote"))'
        BY <2>2 DEF Owned, Holdings, Holding
    <2>5. /\ Cardinality(Users) * (InitialFunds["base"] + InitialFunds["quote"]) \in Nat
          /\ deposits * DepositAmount \in Nat /\ deposits' * DepositAmount \in Nat
        <3>1. DepositAmount \in Nat /\ deposits' \in Nat
            BY FundsAssumption DEF IInv, TypeOK
        <3>2. Cardinality(Users) \in Nat /\ InitialFunds["base"] + InitialFunds["quote"] \in Nat
            BY FundsAssumption, FiniteAssumption, FS_CardinalityType DEF Assets
        <3> QED BY <2>1, <3>1, <3>2, ProductIsNat
    <2>6. PICK k \in Nat, d \in Nat, d2 \in Nat :
            /\ k = Cardinality(Users) * (InitialFunds["base"] + InitialFunds["quote"])
            /\ d = deposits * DepositAmount /\ d2 = deposits' * DepositAmount
        BY <2>5
    <2>7. own = k + d
        BY <2>4, <2>6 DEF Conservation
    <2>8. DepositAmount \in Nat /\ (deposits' = deposits => d2 = d) /\ (deposits' = deposits + 1 => d2 = d + DepositAmount)
        <3>1. DepositAmount \in Nat
            BY FundsAssumption
        <3>2. (deposits + 1) * DepositAmount = deposits * DepositAmount + DepositAmount
            BY <2>1, <3>1
        <3>3. ASSUME deposits' = deposits + 1 PROVE d2 = d + DepositAmount
            BY <2>6, <3>2, <3>3
        <3> QED BY <2>6, <3>1, <3>3
    <2>9. own2 = k + d2
        BY <2>3, <2>6, <2>7, <2>8
    <2> QED BY <2>4, <2>6, <2>9 DEF Conservation
<1> QED BY <1>1, InitConservation, SpecIInv, PTL DEF Spec

-----------------------------------------------------------------------------
(* Quantities.                                                             *)

\* An order is in one of three hands: its call has it, or its row, or nobody
\* yet; what has been taken from it and what is left of it add up to no more
\* than its size.
FillFits(o) ==
    /\ pc[o] = "idle" => traded[o] = 0
    /\ pc[o] \notin {"idle", "open"} => traded[o] + order[o].quantity <= order[o].size
    /\ pc[o] = "open" => traded[o] + Total(Takes(o)) + row[o].quantity <= order[o].size

FInv == \A o \in OrderIds : FillFits(o)

\* What is taken from an order is counted by who takes it.
LEMMA TakesCounted ==
    ASSUME IInv, NEW o \in OrderIds
    PROVE  Takes(o) \in [OrderIds -> Nat] /\ Total(Takes(o)) \in Nat
<1>1. \A z \in OrderIds : trade[z].quantity \in Nat
    BY DEF IInv, TypeOK, Trade
<1>2. Takes(o) \in [OrderIds -> Nat]
    BY <1>1 DEF Takes
<1> QED BY <1>2, TotalIsNat, FiniteAssumption

LEMMA TakesCountedNext ==
    ASSUME IInv', NEW o \in OrderIds
    PROVE  Takes(o)' \in [OrderIds -> Nat] /\ Total(Takes(o)') \in Nat
<1>1. \A z \in OrderIds : trade'[z].quantity \in Nat
    BY DEF IInv, TypeOK, Trade
<1>2. Takes(o)' \in [OrderIds -> Nat]
    BY <1>1 DEF Takes
<1> QED BY <1>2, TotalIsNat, FiniteAssumption

\* Nothing has been taken from an order that was never in the table.
LEMMA NothingTaken ==
    ASSUME IInv, NEW o \in OrderIds, pc[o] # "open"
    PROVE  Total(Takes(o)) = 0
<1>1. \A z \in OrderIds : Takes(o)[z] = 0
    BY NobodyRefers DEF Takes
<1> QED BY <1>1, TakesCounted, TotalOfNothing

\* Trades under way only end.
TradesEnd == \A z \in OrderIds : trade'[z] = trade[z] \/ trade'[z] = NoTrade

LEMMA TakesFall ==
    ASSUME IInv, IInv', TradesEnd, NEW o \in OrderIds
    PROVE  Total(Takes(o)') <= Total(Takes(o))
<1>1. PICK f \in [OrderIds -> Nat], g \in [OrderIds -> Nat] : f = Takes(o)' /\ g = Takes(o)
    BY TakesCounted, TakesCountedNext
<1>2. NoTrade.resting # o
    BY OrderIdsAssumption DEF NoTrade, NoOrder
<1>3. \A z \in OrderIds : f[z] = g[z] \/ f[z] = 0
    BY <1>1, <1>2 DEF Takes, TradesEnd
<1>4. \A z \in OrderIds : f[z] <= g[z]
    BY <1>3
<1>5. Total(f) <= Total(g)
    BY <1>4, TotalMonotonic, FiniteAssumption
<1> QED BY <1>1, <1>5

\* Numbers of an order.
LEMMA NumbersTyped ==
    ASSUME IInv, NEW o \in OrderIds
    PROVE  /\ traded[o] \in Nat /\ order[o].quantity \in Nat /\ order[o].size \in Nat
           /\ row[o].quantity \in Nat /\ row[o].locked \in Nat /\ order[o].lockedAmount \in Nat
           /\ trade[o].quantity \in Nat /\ trade[o].price \in Nat
BY OrdersAssumption DEF IInv, TypeOK, Order, Row, Trade

LEMMA NumbersTypedNext ==
    ASSUME IInv', NEW o \in OrderIds
    PROVE  /\ traded'[o] \in Nat /\ order'[o].quantity \in Nat /\ order'[o].size \in Nat
           /\ row'[o].quantity \in Nat /\ row'[o].locked \in Nat /\ order'[o].lockedAmount \in Nat
BY OrdersAssumption DEF IInv, TypeOK, Order, Row

\* Nothing is traded or taken from the order, and it does not change hands.
FillKept(o) ==
    /\ traded'[o] = traded[o] /\ row'[o].quantity <= row[o].quantity
    /\ order'[o].quantity = order[o].quantity /\ order'[o].size = order[o].size
    /\ pc'[o] = "idle" <=> pc[o] = "idle"
    /\ pc'[o] = "open" <=> pc[o] = "open"

LEMMA FillStays ==
    ASSUME IInv, IInv', NEW o \in OrderIds, FillFits(o), FillKept(o), Total(Takes(o)') <= Total(Takes(o))
    PROVE  FillFits(o)'
<1>1. CASE pc[o] # "open"
    BY <1>1 DEF FillFits, FillKept
<1>2. CASE pc[o] = "open"
    <2>1. PICK f \in Nat, g \in Nat : f = Total(Takes(o)') /\ g = Total(Takes(o)) /\ f <= g
        BY TakesCounted, TakesCountedNext
    <2>2. traded[o] + g + row[o].quantity <= order[o].size
        BY <1>2, <2>1 DEF FillFits
    <2>3. traded'[o] + f + row'[o].quantity <= order'[o].size
        BY <2>1, <2>2, NumbersTyped, NumbersTypedNext DEF FillKept
    <2> QED BY <1>2, <2>1, <2>3 DEF FillFits, FillKept
<1> QED BY <1>1, <1>2

\* A step of one call that trades nothing and does not place its order.
LEMMA CallFills ==
    ASSUME IInv, IInv', FInv, TradesEnd, traded' = traded,
           NEW o \in OrderIds, pc[o] # "open", pc'[o] # "open", pc[o] = "idle" => pc'[o] = "idle",
           pc[o] # "idle" => pc'[o] # "idle",
           order'[o].quantity = order[o].quantity, order'[o].size = order[o].size,
           \A z \in OrderIds \ {o} : pc'[z] = pc[z] /\ order'[z] = order[z],
           row' = row
    PROVE  FInv'
<1> SUFFICES ASSUME NEW z \in OrderIds PROVE FillFits(z)'
    BY DEF FInv
<1>1. FillKept(z)
    BY NumbersTyped DEF FillKept
<1> QED BY <1>1, TakesFall, FillStays DEF FInv

\* Steps of no call.
LEMMA OtherFills ==
    ASSUME IInv, IInv', FInv, UNCHANGED engineVars, traded' = traded,
           \A z \in OrderIds : row'[z].quantity <= row[z].quantity
    PROVE  FInv'
<1> SUFFICES ASSUME NEW z \in OrderIds PROVE FillFits(z)'
    BY DEF FInv
<1>1. FillKept(z) /\ TradesEnd
    BY DEF FillKept, TradesEnd, engineVars
<1> QED BY <1>1, TakesFall, FillStays DEF FInv

LEMMA SubmitFills ==
    ASSUME IInv, IInv', FInv, NEW o \in OrderIds, NEW u \in Users, NEW s \in Sides, NEW p \in Prices,
           NEW q \in Quantities, NEW now, Submit(o, u, s, p, q, now)
    PROVE  FInv'
<1> SUFFICES ASSUME NEW z \in OrderIds PROVE FillFits(z)'
    BY DEF FInv
<1>1. /\ pc[o] = "idle" /\ pc'[o] = "validating" /\ order'[o].quantity = q /\ order'[o].size = q
      /\ \A y \in OrderIds \ {o} : pc'[y] = pc[y] /\ order'[y] = order[y]
      /\ trade' = trade /\ row' = row /\ traded' = traded /\ q \in Nat
    BY OrdersAssumption DEF Submit, Goto, IInv, TypeOK, tableVars
<1>2. CASE z = o
    BY <1>1, <1>2 DEF FInv, FillFits
<1>3. CASE z # o
    <2>1. FillKept(z) /\ TradesEnd
        BY <1>1, <1>3, NumbersTyped DEF FillKept, TradesEnd
    <2> QED BY <2>1, TakesFall, FillStays DEF FInv
<1> QED BY <1>2, <1>3

\* What is matched from a row is what the row loses.
LEMMA TakeRowFills ==
    ASSUME IInv, IInv', FInv, NEW o \in OrderIds, NEW m \in OrderIds, TakeRow(o, m)
    PROVE  FInv'
<1>1. PICK price \in Nat \ {0}, qty \in Nat \ {0}, cost \in Nat :
        /\ m # o /\ m \in rows /\ pc[o] = "taking" /\ pc[m] = "open"
        /\ pc' = [pc EXCEPT ![o] = "settling"]
        /\ trade' = [trade EXCEPT ![o] = [resting |-> m, price |-> price, quantity |-> qty]]
        /\ \/ /\ rows' = rows \ {m} /\ row' = [row EXCEPT ![m] = NoRow]
              /\ row[m].quantity = qty
           \/ /\ rows' = rows /\ row[m].quantity > qty
              /\ row' = [row EXCEPT ![m] = [quantity |-> row[m].quantity - qty, locked |-> row[m].locked - cost]]
        /\ UNCHANGED <<balance, traded, order, held, cancel, told, worldVars>>
    BY MatchTakes
<1>2. /\ pc'[o] = "settling" /\ \A z \in OrderIds \ {o} : pc'[z] = pc[z] /\ trade'[z] = trade[z]
      /\ trade[o] = NoTrade /\ trade'[o].resting = m /\ trade'[o].quantity = qty
      /\ \A z \in OrderIds \ {m} : row'[z] = row[z]
      /\ row'[m].quantity = row[m].quantity - qty
    <2>1. trade[o] = NoTrade
        BY <1>1 DEF IInv, CallFits
    <2>2. /\ pc'[o] = "settling" /\ \A z \in OrderIds \ {o} : pc'[z] = pc[z] /\ trade'[z] = trade[z]
          /\ trade'[o].resting = m /\ trade'[o].quantity = qty
        BY <1>1 DEF IInv, TypeOK
    <2>3. \A z \in OrderIds \ {m} : row'[z] = row[z]
        BY <1>1 DEF IInv, TypeOK
    <2>4. row'[m].quantity = row[m].quantity - qty
        <3>1. CASE row' = [row EXCEPT ![m] = NoRow] /\ row[m].quantity = qty
            BY <3>1 DEF IInv, TypeOK, NoRow
        <3>2. CASE row' = [row EXCEPT ![m] = [quantity |-> row[m].quantity - qty, locked |-> row[m].locked - cost]]
            BY <3>2 DEF IInv, TypeOK
        <3> QED BY <1>1, <3>1, <3>2
    <2> QED BY <2>1, <2>2, <2>3, <2>4
<1>3. FillFits(m)'
    <2>1. PICK f \in [OrderIds -> Nat], g \in [OrderIds -> Nat] : f = Takes(m) /\ g = Takes(m)'
        BY TakesCounted, TakesCountedNext
    <2>2. m # NoOrder
        BY OrderIdsAssumption DEF NoOrder
    <2>3. f[o] = 0 /\ g[o] = qty /\ \A z \in OrderIds \ {o} : f[z] = g[z]
        BY <1>2, <2>1, <2>2 DEF Takes, NoTrade
    <2>4. Total(f) + qty = Total(g) + 0 /\ Total(f) \in Nat /\ Total(g) \in Nat
        BY <2>3, TotalChanges, FiniteAssumption
    <2>5. traded[m] + Total(f) + row[m].quantity <= order[m].size
        BY <1>1, <2>1 DEF FInv, FillFits
    <2>6. traded[m] + Total(g) + (row[m].quantity - qty) <= order[m].size
        BY <2>4, <2>5, NumbersTyped
    <2>7. traded'[m] + Total(Takes(m)') + row'[m].quantity <= order'[m].size
        BY <1>1, <1>2, <2>1, <2>6
    <2> QED BY <1>1, <1>2, <2>7 DEF FillFits
<1>4. ASSUME NEW z \in OrderIds, z # m PROVE FillFits(z)'
    <2>1. FillKept(z)
        BY <1>1, <1>2, <1>4, NumbersTyped DEF FillKept
    <2>2. Total(Takes(z)') <= Total(Takes(z))
        <3>1. PICK f \in [OrderIds -> Nat], g \in [OrderIds -> Nat] : f = Takes(z)' /\ g = Takes(z)
            BY TakesCounted, TakesCountedNext
        <3>2. f[o] = 0 /\ \A y \in OrderIds \ {o} : f[y] = g[y]
            BY <1>2, <1>4, <3>1 DEF Takes
        <3>3. \A y \in OrderIds : f[y] <= g[y]
            BY <3>2
        <3>4. Total(f) <= Total(g)
            BY <3>3, TotalMonotonic, FiniteAssumption
        <3> QED BY <3>1, <3>4
    <2> QED BY <2>1, <2>2, FillStays DEF FInv
<1> QED BY <1>3, <1>4 DEF FInv

\* A remainder goes into the table as it is.
LEMMA InsertRowFills ==
    ASSUME IInv, IInv', FInv, NEW o \in OrderIds, InsertRow(o)
    PROVE  FInv'
<1>1. /\ pc[o] = "placing" /\ pc'[o] = "open"
      /\ row'[o].quantity = order[o].quantity
      /\ \A z \in OrderIds \ {o} : pc'[z] = pc[z] /\ row'[z] = row[z]
      /\ UNCHANGED <<order, trade, traded>>
    BY DEF InsertRow, Goto, IInv, TypeOK
<1>2. TradesEnd
    BY <1>1 DEF TradesEnd
<1>3. ASSUME NEW z \in OrderIds, z # o PROVE FillFits(z)'
    <2>1. FillKept(z)
        BY <1>1, <1>3, NumbersTyped DEF FillKept
    <2> QED BY <1>2, <2>1, TakesFall, FillStays DEF FInv
<1>4. FillFits(o)'
    <2>1. Total(Takes(o)') = 0
        <3>1. Total(Takes(o)) = 0 /\ Total(Takes(o)') <= Total(Takes(o)) /\ Total(Takes(o)') \in Nat
            BY <1>1, <1>2, NothingTaken, TakesFall, TakesCountedNext
        <3> QED BY <3>1
    <2>2. traded[o] + order[o].quantity <= order[o].size
        BY <1>1 DEF FInv, FillFits
    <2>3. traded'[o] + 0 + row'[o].quantity <= order'[o].size
        BY <1>1, <2>2, NumbersTyped
    <2> QED BY <1>1, <2>1, <2>3 DEF FillFits
<1> QED BY <1>3, <1>4 DEF FInv

\* A trade moves from what is pending to what is traded.
LEMMA RecordTradeFills ==
    ASSUME IInv, IInv', FInv, NEW o \in OrderIds, RecordTrade(o)
    PROVE  FInv'
<1>1. /\ pc[o] = "recording" /\ pc'[o] \in {"matching", "releasing", "filled"}
      /\ TradeFits(o) /\ trade[o].resting # o
      /\ SameTerms(o)
      /\ order'[o].quantity = order[o].quantity - trade[o].quantity
      /\ trade'[o] = NoTrade
      /\ \A z \in OrderIds \ {o} : pc'[z] = pc[z] /\ order'[z] = order[z] /\ trade'[z] = trade[z]
      /\ UNCHANGED <<balance, row, rows, snapshot, held, cancel, worldVars>>
    BY TradeRecorded
<1>2. PICK m \in OrderIds, qty \in Nat : m = trade[o].resting /\ qty = trade[o].quantity
    BY <1>1, NumbersTyped DEF TradeFits
<1>3. m # o /\ pc[m] = "open" /\ qty <= order[o].quantity
    BY <1>1, <1>2 DEF TradeFits
<1>4. /\ traded'[o] = traded[o] + qty /\ traded'[m] = traded[m] + qty
      /\ \A z \in OrderIds \ {o, m} : traded'[z] = traded[z]
    <2>1. traded' = [traded EXCEPT ![o] = @ + qty, ![m] = @ + qty]
        BY <1>2 DEF RecordTrade
    <2> QED BY <1>3, <2>1 DEF IInv, TypeOK
<1>5. FillFits(o)'
    <2>1. traded[o] + order[o].quantity <= order[o].size
        BY <1>1 DEF FInv, FillFits
    <2>2. traded'[o] + order'[o].quantity <= order'[o].size
        BY <1>1, <1>2, <1>3, <1>4, <2>1, NumbersTyped DEF SameTerms
    <2> QED BY <1>1, <2>2 DEF FillFits
<1>6. FillFits(m)'
    <2>1. PICK f \in [OrderIds -> Nat], g \in [OrderIds -> Nat] : f = Takes(m) /\ g = Takes(m)'
        BY TakesCounted, TakesCountedNext
    <2>2. m # NoOrder
        BY OrderIdsAssumption DEF NoOrder
    <2>3. f[o] = qty /\ g[o] = 0 /\ \A z \in OrderIds \ {o} : f[z] = g[z]
        BY <1>1, <1>2, <2>1, <2>2 DEF Takes, NoTrade
    <2>4. Total(f) + 0 = Total(g) + qty /\ Total(f) \in Nat /\ Total(g) \in Nat
        BY <2>3, TotalChanges, FiniteAssumption
    <2>5. traded[m] + Total(f) + row[m].quantity <= order[m].size
        BY <1>3, <2>1 DEF FInv, FillFits
    <2>6. (traded[m] + qty) + Total(g) + row[m].quantity <= order[m].size
        BY <2>4, <2>5, NumbersTyped
    <2>7. traded'[m] + Total(Takes(m)') + row'[m].quantity <= order'[m].size
        BY <1>1, <1>3, <1>4, <2>1, <2>6
    <2> QED BY <1>1, <1>3, <2>7 DEF FillFits
<1>7. ASSUME NEW z \in OrderIds, z # m, z # o PROVE FillFits(z)'
    <2>1. FillKept(z) /\ TradesEnd
        BY <1>1, <1>4, <1>7, NumbersTyped DEF FillKept, TradesEnd
    <2> QED BY <2>1, TakesFall, FillStays DEF FInv
<1> QED BY <1>5, <1>6, <1>7 DEF FInv

\* A call that throws trades nothing more.
LEMMA ThrownFills ==
    ASSUME IInv, IInv', FInv, NEW o \in OrderIds, pc[o] \in Processing, Thrown(o), UNCHANGED <<order, tableVars>>
    PROVE  FInv'
<1>1. /\ pc'[o] = "failed" /\ \A z \in OrderIds \ {o} : pc'[z] = pc[z]
      /\ trade' = [trade EXCEPT ![o] = NoTrade]
      /\ UNCHANGED <<order, row, rows, traded>>
    BY DEF Thrown, Goto, IInv, TypeOK, tableVars
<1>2. TradesEnd
    BY <1>1 DEF TradesEnd, IInv, TypeOK
<1>3. pc[o] # "open" /\ pc[o] # "idle" /\ pc'[o] # "open" /\ pc'[o] # "idle"
    BY <1>1 DEF Processing
<1> QED BY <1>1, <1>2, <1>3, CallFills

\* The other steps of a call.
LEMMA ProcessFills ==
    ASSUME IInv, IInv', FInv, NEW o \in OrderIds, Process(o)
    PROVE  FInv'
<1>1. ASSUME ValidateBalance(o) \/ LockFunds(o) \/ SelectRow(o) \/ TakeNothing(o) \/ CommitSettle(o) \/ ReleaseResidual(o)
      PROVE  FInv'
    <2>1. pc[o] \in Processing
        BY <1>1 DEF ValidateBalance, LockFunds, SelectRow, TakeNothing, CommitSettle, ReleaseResidual, Processing
    <2>2. \E to \in (Processing \cup Ended) \ {"open"} : pc' = [pc EXCEPT ![o] = to]
        BY <1>1 DEF ValidateBalance, LockFunds, SelectRow, TakeNothing, CommitSettle, ReleaseResidual, Goto,
                    Processing, Ended
    <2>3. /\ pc'[o] # "open" /\ pc'[o] # "idle" /\ \A z \in OrderIds \ {o} : pc'[z] = pc[z]
        BY <2>2 DEF IInv, TypeOK, Processing, Ended
    <2>4. UNCHANGED <<row, rows, traded, trade>>
        BY <1>1 DEF ValidateBalance, LockFunds, SelectRow, TakeNothing, CommitSettle, ReleaseResidual, tableVars
    <2>5. order'[o].quantity = order[o].quantity /\ order'[o].size = order[o].size
          /\ \A z \in OrderIds \ {o} : order'[z] = order[z]
        <3>1. CASE LockFunds(o)
            <4>1. order' = [order EXCEPT ![o].lockedAmount = Needs(o)]
                BY <3>1 DEF LockFunds
            <4> QED BY <4>1 DEF IInv, TypeOK, Order
        <3>2. CASE ~LockFunds(o)
            BY <1>1, <3>2 DEF ValidateBalance, SelectRow, TakeNothing, CommitSettle, ReleaseResidual
        <3> QED BY <3>1, <3>2
    <2>6. TradesEnd
        BY <2>4 DEF TradesEnd
    <2>7. pc[o] # "open" /\ pc[o] # "idle"
        BY <2>1 DEF Processing
    <2> QED BY <2>3, <2>4, <2>5, <2>6, <2>7, CallFills
<1>2. ASSUME LockSettleRow(o) PROVE FInv'
    <2>1. CASE Holds(o, held[o] + 1)
        <3>1. UNCHANGED <<pc, trade, order, row, rows, traded>>
            BY <1>2, <2>1 DEF LockSettleRow, tableVars
        <3>2. pc[o] = "settling" /\ TradesEnd
            BY <1>2, <3>1 DEF LockSettleRow, TradesEnd
        <3> QED BY <3>1, <3>2, CallFills
    <2>2. CASE ~Holds(o, held[o] + 1)
        BY <1>2, <2>2, ThrownFills DEF LockSettleRow, Processing
    <2> QED BY <2>1, <2>2
<1>3. ASSUME DeadlockAbort(o) PROVE FInv'
    BY <1>3, ThrownFills DEF DeadlockAbort, Cycle, WaitsFor, Processing
<1> QED BY <1>1, <1>2, <1>3, TakeRowFills, InsertRowFills, RecordTradeFills DEF Process

LEMMA InitFInv == Init => FInv
BY DEF Init, FInv, FillFits

LEMMA NextFInv == IInv /\ IInv' /\ FInv /\ [Next]_vars => FInv'
<1> SUFFICES ASSUME IInv, IInv', FInv, [Next]_vars PROVE FInv'
    OBVIOUS
<1>1. \A z \in OrderIds : row[z].quantity <= row[z].quantity
    BY NumbersTyped
<1>2. CASE Arrive
    <2>1. ASSUME NEW u \in Users, NEW a \in Assets, Deposit(u, a) \/ Seed(u, a) PROVE FInv'
        <3>1. UNCHANGED <<engineVars, row, traded>>
            BY <2>1 DEF Deposit, Seed
        <3> QED BY <1>1, <3>1, OtherFills
    <2>2. ASSUME NEW c \in Cancels, NEW o \in OrderIds, CancelGetOrder(c, o) PROVE FInv'
        <3>1. UNCHANGED <<engineVars, row, traded>>
            BY <2>2 DEF CancelGetOrder, tableVars
        <3> QED BY <1>1, <3>1, OtherFills
    <2> QED BY <1>2, <2>1, <2>2, SubmitFills DEF Arrive
<1>3. ASSUME NEW o \in OrderIds, Process(o) \/ Fault(o) PROVE FInv'
    BY <1>3, ProcessFills, ThrownFills DEF Fault
<1>4. ASSUME NEW c \in Cancels, ProcessCancel(c) \/ CancelFault(c) PROVE FInv'
    <2>1. CASE CancelUnlockFunds(c) \/ CancelFault(c)
        <3>1. UNCHANGED <<engineVars, row, traded>>
            BY <2>1 DEF CancelUnlockFunds, CancelFault, tableVars
        <3> QED BY <1>1, <3>1, OtherFills
    <2>2. CASE CancelRemove(c)
        <3>1. UNCHANGED <<engineVars, traded>> /\ row' = [row EXCEPT ![cancel[c].order] = NoRow]
            BY <2>2 DEF CancelRemove
        <3>2. \A z \in OrderIds : row'[z].quantity <= row[z].quantity
            <4> SUFFICES ASSUME NEW z \in OrderIds PROVE row'[z].quantity <= row[z].quantity
                OBVIOUS
            <4>1. row'[z] = row[z] \/ row'[z] = NoRow
                BY <3>1 DEF IInv, TypeOK
            <4> QED BY <4>1, NumbersTyped DEF NoRow
        <3> QED BY <3>1, <3>2, OtherFills
    <2> QED BY <1>4, <2>1, <2>2 DEF ProcessCancel
<1>5. CASE Restart
    <2> SUFFICES ASSUME NEW z \in OrderIds PROVE FillFits(z)'
        BY DEF FInv
    <2>1. FillKept(z)
        <3>1. pc'[z] = IF pc[z] \in Processing THEN "lost" ELSE pc[z]
            BY <1>5 DEF Restart
        <3> QED BY <1>1, <1>5, <3>1 DEF Restart, FillKept, tableVars, Processing
    <2>2. TradesEnd
        BY <1>5 DEF Restart, TradesEnd
    <2> QED BY <2>1, <2>2, TakesFall, FillStays DEF FInv
<1>6. CASE UNCHANGED vars
    BY <1>1, <1>6, OtherFills DEF vars, tableVars
<1> QED BY <1>2, <1>3, <1>4, <1>5, <1>6 DEF Next

LEMMA SpecFInv == Spec => []FInv
BY InitFInv, NextFInv, SpecIInv, PTL DEF Spec

\* What has been traded of an order, what is being traded and what its row still
\* offers never exceed its size, though several takers may have seen the same
\* row (atomicMatch, recordTrade).
THEOREM NothingIsOversold == Spec => []NeverOversold
<1>1. IInv /\ FInv => NeverOversold
    <2> SUFFICES ASSUME IInv, FInv, NEW o \in OrderIds
                 PROVE  /\ o \in rows => row[o].quantity > 0
                        /\ pc[o] # "idle" => traded[o] + Pending(o) + row[o].quantity <= order[o].size
        BY DEF NeverOversold
    <2>1. o \in rows => row[o].quantity > 0
        BY DEF IInv, RowFits
    <2>2. CASE pc[o] = "open"
        <3>1. PICK n \in Nat : n = Total(Takes(o))
            BY TakesCounted
        <3>2. trade[o].quantity = 0
            BY <2>2 DEF IInv, CallFits, NoTrade
        <3>3. Pending(o) = n
            BY <3>1, <3>2 DEF Pending
        <3>4. traded[o] + n + row[o].quantity <= order[o].size
            BY <2>2, <3>1 DEF FInv, FillFits
        <3> QED BY <2>1, <3>3, <3>4
    <2>3. CASE pc[o] \notin {"idle", "open"}
        <3>1. Total(Takes(o)) = 0 /\ row[o].quantity = 0
            BY <2>3, NothingTaken, NobodyRefers DEF NoRow
        <3>2. trade[o].quantity <= order[o].quantity
            BY NumbersTyped DEF IInv, CallFits, TradeFits, NoTrade
        <3>3. traded[o] + order[o].quantity <= order[o].size
            BY <2>3 DEF FInv, FillFits
        <3>4. Pending(o) = trade[o].quantity
            BY <3>1, NumbersTyped DEF Pending
        <3> QED BY <2>1, <3>1, <3>2, <3>3, <3>4, NumbersTyped
    <2> QED BY <2>1, <2>2, <2>3
<1> QED BY <1>1, SpecIInv, SpecFInv, PTL

-----------------------------------------------------------------------------
(* Locked funds.                                                           *)

Covered(u, s) == Claims(u, s) <= balance[u][LockAsset(s)].locked

CInv == NothingCancelled => \A u \in Users, s \in Sides : Covered(u, s)

\* Claims are amounts.
ClaimsCount ==
    \A u \in Users, s \in Sides :
        Residuals(u, s) \in [OrderIds -> Nat] /\ Owing(u, s) \in [OrderIds -> Nat]

\* A trade costs the taker no more than its call has locked.
LEMMA TradeIsPaidFor ==
    ASSUME IInv, NEW o \in OrderIds, TradeFits(o)
    PROVE  /\ TradeCost(o, order[o].side) \in Nat
           /\ TradeCost(o, order[o].side) <= order[o].lockedAmount
<1>1. /\ order[o].side \in Sides /\ order[o].price \in Nat
      /\ order[o].quantity \in Nat /\ order[o].lockedAmount \in Nat
      /\ trade[o].price \in Nat /\ trade[o].quantity \in Nat
    BY OrdersAssumption DEF IInv, TypeOK, Order, Trade
<1>2. order[o].side = "buy" => trade[o].price <= order[o].price
    BY <1>1 DEF TradeFits, BuyOrder
<1>3. PICK cost : cost = TradeCost(o, order[o].side)
    OBVIOUS
<1>4. cost \in Nat /\ order[o].lockedAmount - cost \in Nat
    <2>1. Cost(order[o].side, order[o].price, order[o].quantity) <= order[o].lockedAmount
        BY DEF IInv, CallFits, Needs
    <2> QED BY <1>1, <1>2, <1>3, <2>1, LockSplits, CostIsNat DEF TradeFits, TradeCost
<1> QED BY <1>1, <1>3, <1>4

LEMMA ResidualIsNat ==
    ASSUME IInv, NEW o \in OrderIds
    PROVE  Residual(o) \in Nat
<1>1. row[o].locked \in Nat /\ order[o].lockedAmount \in Nat
    BY NumbersTyped
<1>2. pc[o] = "recording" => order[o].lockedAmount - TradeCost(o, order[o].side) \in Nat
    <2> SUFFICES ASSUME pc[o] = "recording" PROVE order[o].lockedAmount - TradeCost(o, order[o].side) \in Nat
        OBVIOUS
    <2>1. TradeFits(o)
        BY DEF IInv, CallFits
    <2> QED BY <1>1, <2>1, TradeIsPaidFor
<1> QED BY <1>1, <1>2 DEF Residual

LEMMA ClaimsCounted == IInv => ClaimsCount
<1> SUFFICES ASSUME IInv, NEW u \in Users, NEW s \in Sides
             PROVE  Residuals(u, s) \in [OrderIds -> Nat] /\ Owing(u, s) \in [OrderIds -> Nat]
    BY DEF ClaimsCount
<1>1. \A o \in OrderIds : TradeCost(o, s) \in Nat
    BY NumbersTyped, CostIsNat DEF TradeCost
<1> QED BY <1>1, ResidualIsNat DEF Residuals, Owing

LEMMA ClaimsCountedNext == IInv' => ClaimsCount'
BY ClaimsCounted, PTL

LEMMA LockedIsNat ==
    ASSUME IInv, IInv', NEW u \in Users, NEW s \in Sides
    PROVE  balance[u][LockAsset(s)].locked \in Nat /\ balance'[u][LockAsset(s)].locked \in Nat
<1>1. LockAsset(s) \in Assets
    BY DEF LockAsset, Assets
<1>2. balance \in Wallets /\ balance' \in Wallets
    BY DEF IInv, TypeOK
<1> QED BY <1>1, <1>2, BalancesAreNat

\* A total of claims, one of which changes.
LEMMA ClaimFalls ==
    ASSUME NEW f \in [OrderIds -> Nat], NEW g \in [OrderIds -> Nat], NEW x \in OrderIds,
           \A z \in OrderIds \ {x} : g[z] <= f[z]
    PROVE  Total(g) + f[x] <= Total(f) + g[x] /\ Total(f) \in Nat /\ Total(g) \in Nat
BY TotalFalls, FiniteAssumption

\* What one step may do to the claims of u on side s: order x and the trade of
\* order y claim drop less, or rise more, as the lock does; nobody else claims
\* more.
Shifted(u, s, x, y, drop, rise) ==
    /\ \A z \in OrderIds \ {x} : Residuals(u, s)'[z] <= Residuals(u, s)[z]
    /\ \A z \in OrderIds \ {y} : Owing(u, s)'[z] <= Owing(u, s)[z]
    /\ Residuals(u, s)'[x] + Owing(u, s)'[y] + drop <= Residuals(u, s)[x] + Owing(u, s)[y] + rise
    /\ balance'[u][LockAsset(s)].locked + drop = balance[u][LockAsset(s)].locked + rise

LEMMA CoveredMoves ==
    ASSUME IInv, IInv', NEW u \in Users, NEW s \in Sides, Covered(u, s),
           NEW x \in OrderIds, NEW y \in OrderIds, NEW drop \in Nat, NEW rise \in Nat,
           Shifted(u, s, x, y, drop, rise)
    PROVE  Covered(u, s)'
<1>1. PICK R \in [OrderIds -> Nat], R2 \in [OrderIds -> Nat] : R = Residuals(u, s) /\ R2 = Residuals(u, s)'
    BY ClaimsCounted, ClaimsCountedNext DEF ClaimsCount
<1>2. Total(R2) + R[x] <= Total(R) + R2[x] /\ Total(R) \in Nat /\ Total(R2) \in Nat
    BY <1>1, ClaimFalls DEF Shifted
<1>3. PICK O \in [OrderIds -> Nat], O2 \in [OrderIds -> Nat] : O = Owing(u, s) /\ O2 = Owing(u, s)'
    BY ClaimsCounted, ClaimsCountedNext DEF ClaimsCount
<1>4. Total(O2) + O[y] <= Total(O) + O2[y] /\ Total(O) \in Nat /\ Total(O2) \in Nat
    BY <1>3, ClaimFalls DEF Shifted
<1>5. PICK tr \in Nat, tr2 \in Nat, tw \in Nat, tw2 \in Nat :
        tr = Total(R) /\ tr2 = Total(R2) /\ tw = Total(O) /\ tw2 = Total(O2)
    BY <1>2, <1>4
<1>6. PICK r \in Nat, r2 \in Nat, w \in Nat, w2 \in Nat :
        r = R[x] /\ r2 = R2[x] /\ w = O[y] /\ w2 = O2[y]
    OBVIOUS
<1>7. Claims(u, s)' = tr2 + tw2 /\ Claims(u, s) = tr + tw
    BY <1>1, <1>3, <1>5 DEF Claims
<1>8. PICK l \in Nat, l2 \in Nat :
        l = balance[u][LockAsset(s)].locked /\ l2 = balance'[u][LockAsset(s)].locked
    BY LockedIsNat
<1>9. r2 + w2 + drop <= r + w + rise /\ l2 + drop = l + rise
    BY <1>1, <1>3, <1>6, <1>8 DEF Shifted
<1>10. tr + tw <= l
    BY <1>7, <1>8 DEF Covered
<1>11. tr2 + r <= tr + r2 /\ tw2 + w <= tw + w2
    BY <1>2, <1>4, <1>5, <1>6
<1>12. tr2 + tw2 <= l2
    BY <1>9, <1>10, <1>11
<1> QED BY <1>7, <1>8, <1>12 DEF Covered

\* A step after which nobody claims more.
LEMMA CoveredFalls ==
    ASSUME IInv, IInv', NEW u \in Users, NEW s \in Sides, Covered(u, s),
           \A z \in OrderIds : Residuals(u, s)'[z] <= Residuals(u, s)[z],
           \A z \in OrderIds : Owing(u, s)'[z] <= Owing(u, s)[z],
           balance[u][LockAsset(s)].locked <= balance'[u][LockAsset(s)].locked
    PROVE  Covered(u, s)'
<1>1. PICK R \in [OrderIds -> Nat], R2 \in [OrderIds -> Nat], O \in [OrderIds -> Nat], O2 \in [OrderIds -> Nat] :
        /\ R = Residuals(u, s) /\ R2 = Residuals(u, s)'
        /\ O = Owing(u, s) /\ O2 = Owing(u, s)'
    BY ClaimsCounted, ClaimsCountedNext DEF ClaimsCount
<1>2. Total(R2) <= Total(R) /\ Total(O2) <= Total(O)
    BY <1>1, TotalMonotonic, FiniteAssumption
<1>3. PICK tr \in Nat, tr2 \in Nat, tw \in Nat, tw2 \in Nat :
        tr = Total(R) /\ tr2 = Total(R2) /\ tw = Total(O) /\ tw2 = Total(O2)
    BY TotalIsNat, FiniteAssumption
<1>4. Claims(u, s)' = tr2 + tw2 /\ Claims(u, s) = tr + tw
    BY <1>1, <1>3 DEF Claims
<1>5. PICK l \in Nat, l2 \in Nat :
        l = balance[u][LockAsset(s)].locked /\ l2 = balance'[u][LockAsset(s)].locked
    BY LockedIsNat
<1>6. tr + tw <= l /\ l <= l2 /\ tr2 <= tr /\ tw2 <= tw
    BY <1>2, <1>3, <1>4, <1>5 DEF Covered
<1>7. tr2 + tw2 <= l2
    BY <1>6
<1> QED BY <1>4, <1>5, <1>7 DEF Covered

\* A call that does nothing claims what it did.
LEMMA ClaimStays ==
    ASSUME IInv, IInv', Steady, NEW u \in Users, NEW s \in Sides, NEW z \in OrderIds,
           SameCall(z), row'[z] = row[z], z \in rows' <=> z \in rows
    PROVE  /\ Residuals(u, s)'[z] = Residuals(u, s)[z] /\ Residuals(u, s)[z] \in Nat
           /\ Owing(u, s)'[z] = Owing(u, s)[z] /\ Owing(u, s)[z] \in Nat
<1>1. TradeCost(z, s)' = TradeCost(z, s) /\ TradeCost(z, order[z].side)' = TradeCost(z, order[z].side)
    BY DEF TradeCost, SameCall
<1>2. Residual(z)' = Residual(z)
    BY <1>1 DEF Residual, SameCall
<1>3. z \in UnderWay' <=> z \in UnderWay
    BY DEF UnderWay, SameCall
<1>4. Residuals(u, s)'[z] = Residuals(u, s)[z]
    BY <1>2, <1>3 DEF Residuals, SameCall
<1>5. pc[z] = "settling" => order'[trade[z].resting].user = order[trade[z].resting].user
    BY DEF IInv, CallFits, TradeFits, Steady
<1>6. Owing(u, s)'[z] = Owing(u, s)[z]
    BY <1>1, <1>5 DEF Owing, SameCall
<1> QED BY <1>4, <1>6, ClaimsCounted DEF ClaimsCount

\* A step of one call, after which it claims no more.
LEMMA CallCovered ==
    ASSUME IInv, IInv', Steady, NEW u \in Users, NEW s \in Sides, Covered(u, s), NEW o \in OrderIds,
           \A z \in OrderIds \ {o} : SameCall(z) /\ row'[z] = row[z] /\ (z \in rows' <=> z \in rows),
           Residuals(u, s)'[o] <= Residuals(u, s)[o], Owing(u, s)'[o] <= Owing(u, s)[o],
           balance[u][LockAsset(s)].locked <= balance'[u][LockAsset(s)].locked
    PROVE  Covered(u, s)'
<1>1. \A z \in OrderIds : Residuals(u, s)'[z] <= Residuals(u, s)[z] /\ Owing(u, s)'[z] <= Owing(u, s)[z]
    <2> SUFFICES ASSUME NEW z \in OrderIds, z # o
                 PROVE  Residuals(u, s)'[z] <= Residuals(u, s)[z] /\ Owing(u, s)'[z] <= Owing(u, s)[z]
        OBVIOUS
    <2>1. /\ Residuals(u, s)'[z] = Residuals(u, s)[z] /\ Residuals(u, s)[z] \in Nat
          /\ Owing(u, s)'[z] = Owing(u, s)[z] /\ Owing(u, s)[z] \in Nat
        BY ClaimStays
    <2> QED BY <2>1
<1> QED BY <1>1, CoveredFalls

\* A call that is not settling owes nobody.
LEMMA NothingOwed ==
    ASSUME NEW u, NEW s, NEW o \in OrderIds
    PROVE  /\ pc[o] # "settling" => Owing(u, s)[o] = 0
           /\ pc'[o] # "settling" => Owing(u, s)'[o] = 0
BY DEF Owing

\* An order whose funds are not locked, or no longer, claims nothing.
LEMMA NothingClaimed ==
    ASSUME NEW u, NEW s, NEW o \in OrderIds
    PROVE  /\ o \notin rows \cup UnderWay => Residuals(u, s)[o] = 0
           /\ o \notin (rows \cup UnderWay)' => Residuals(u, s)'[o] = 0
BY DEF Residuals

\* Steps of calls that lock nothing.
LEMMA EarlyCovered ==
    ASSUME IInv, IInv', Steady, NEW u \in Users, NEW s \in Sides, Covered(u, s), NEW o \in OrderIds,
           \A z \in OrderIds \ {o} : SameCall(z), UNCHANGED <<row, rows, balance>>,
           pc[o] # "open", pc'[o] \notin {"matching", "taking", "settling", "recording", "releasing", "placing"}
    PROVE  Covered(u, s)'
<1>1. o \notin rows
    BY NobodyRefers
<1>2. Residuals(u, s)'[o] = 0 /\ Owing(u, s)'[o] = 0
    BY <1>1, NothingClaimed, NothingOwed DEF UnderWay
<1>3. Residuals(u, s)[o] \in Nat /\ Owing(u, s)[o] \in Nat
    BY ClaimsCounted DEF ClaimsCount
<1>4. balance[u][LockAsset(s)].locked <= balance'[u][LockAsset(s)].locked
    BY LockedIsNat
<1> QED BY <1>2, <1>3, <1>4, CallCovered

\* Steps of a call that keeps what it has locked.
LEMMA KeepsCovered ==
    ASSUME IInv, IInv', Steady, NEW u \in Users, NEW s \in Sides, Covered(u, s), NEW o \in OrderIds,
           \A z \in OrderIds \ {o} : SameCall(z), UNCHANGED <<row, rows, balance, order>>,
           pc[o] \in {"matching", "taking", "settling", "placing"},
           pc'[o] \in {"matching", "taking", "placing"} \/ (pc'[o] = pc[o] /\ trade' = trade)
    PROVE  Covered(u, s)'
<1>1. o \notin rows /\ o \in UnderWay /\ o \in UnderWay' /\ Residual(o) = order[o].lockedAmount /\ Residual(o)' = order[o].lockedAmount
    BY NobodyRefers DEF UnderWay, Residual
<1>2. Residuals(u, s)'[o] = Residuals(u, s)[o]
    BY <1>1 DEF Residuals
<1>3. Owing(u, s)'[o] = 0 \/ Owing(u, s)'[o] = Owing(u, s)[o]
    BY DEF Owing, TradeCost
<1>4. Residuals(u, s)[o] \in Nat /\ Owing(u, s)[o] \in Nat
    BY ClaimsCounted DEF ClaimsCount
<1>5. balance[u][LockAsset(s)].locked <= balance'[u][LockAsset(s)].locked
    BY LockedIsNat
<1> QED BY <1>2, <1>3, <1>4, <1>5, CallCovered

\* Each side locks its own asset.
LEMMA SidesLock ==
    ASSUME NEW s \in Sides
    PROVE  /\ LockAsset(s) \in Assets
           /\ \A r \in Sides : LockAsset(r) = LockAsset(s) => r = s
BY DEF LockAsset, Assets, Sides

\* What lockFunds locks is what the order then claims.
LEMMA LockFundsCovered ==
    ASSUME IInv, IInv', Steady, NEW u \in Users, NEW s \in Sides, Covered(u, s), NEW o \in OrderIds, LockFunds(o)
    PROVE  Covered(u, s)'
<1>1. /\ pc[o] = "locking" /\ o \notin rows
      /\ \A z \in OrderIds \ {o} : SameCall(z)
      /\ UNCHANGED <<row, rows>>
    BY NobodyRefers DEF LockFunds, Goto, IInv, TypeOK, SameCall
<1>2. /\ order[o].user \in Users /\ order[o].side \in Sides /\ order[o].price \in Nat /\ order[o].quantity \in Nat
    BY OrdersAssumption DEF IInv, TypeOK, Order
<1>3. PICK n \in Nat : n = Needs(o)
    BY <1>2, CostIsNat DEF Needs
<1>4. CASE ~CanLock(o)
    <2>1. pc'[o] = "rejected" /\ balance' = balance
        BY <1>4 DEF LockFunds, Goto, IInv, TypeOK
    <2> QED BY <1>1, <2>1, EarlyCovered
<1>5. CASE CanLock(o)
    <2>1. /\ pc'[o] = "matching" /\ order'[o].user = order[o].user /\ order'[o].side = order[o].side
          /\ order'[o].lockedAmount = n
        BY <1>3, <1>5 DEF LockFunds, Goto, IInv, TypeOK, Order
    <2>2. PICK a \in Assets : a = LockAsset(order[o].side)
        BY <1>2, SidesLock
    <2>3. balance' = Locked(balance, order[o].user, a, n) /\ n <= balance[order[o].user][a].available
        BY <1>3, <1>5, <2>2 DEF LockFunds, CanLock, Funds, Locked
    <2>4. PICK rise \in Nat : rise = IF u = order[o].user /\ s = order[o].side THEN n ELSE 0
        OBVIOUS
    <2>5. balance'[u][LockAsset(s)].locked = balance[u][LockAsset(s)].locked + rise
        <3>1. PICK x \in Assets : x = LockAsset(s)
            BY SidesLock
        <3>2. balance'[u][x].locked = balance[u][x].locked + (IF u = order[o].user /\ x = a THEN n ELSE 0)
            BY <1>2, <2>3, LockedBalances DEF IInv, TypeOK
        <3>3. x = a <=> s = order[o].side
            BY <1>2, <2>2, <3>1, SidesLock
        <3> QED BY <2>4, <3>1, <3>2, <3>3
    <2>6. Residuals(u, s)[o] = 0 /\ Owing(u, s)[o] = 0 /\ Owing(u, s)'[o] = 0
        BY <1>1, <2>1, NothingClaimed, NothingOwed DEF UnderWay
    <2>7. Residuals(u, s)'[o] = rise
        BY <1>1, <2>1, <2>4 DEF Residuals, Residual, UnderWay
    <2>8. \A z \in OrderIds \ {o} : Residuals(u, s)'[z] <= Residuals(u, s)[z] /\ Owing(u, s)'[z] <= Owing(u, s)[z]
        <3> SUFFICES ASSUME NEW z \in OrderIds, z # o
                     PROVE  Residuals(u, s)'[z] <= Residuals(u, s)[z] /\ Owing(u, s)'[z] <= Owing(u, s)[z]
            OBVIOUS
        <3>1. /\ Residuals(u, s)'[z] = Residuals(u, s)[z] /\ Residuals(u, s)[z] \in Nat
              /\ Owing(u, s)'[z] = Owing(u, s)[z] /\ Owing(u, s)[z] \in Nat
            BY <1>1, ClaimStays
        <3> QED BY <3>1
    <2>9. Shifted(u, s, o, o, 0, rise)
        BY <2>5, <2>6, <2>7, <2>8, LockedIsNat DEF Shifted
    <2> QED BY <2>9, CoveredMoves
<1> QED BY <1>4, <1>5

\* What a match takes from a row's lock is what the trade owes.
LEMMA TakeRowCovered ==
    ASSUME IInv, IInv', Steady, NEW u \in Users, NEW s \in Sides, Covered(u, s),
           NEW o \in OrderIds, NEW m \in OrderIds, TakeRow(o, m)
    PROVE  Covered(u, s)'
<1>1. PICK price \in Nat \ {0}, qty \in Nat \ {0}, cost \in Nat :
        /\ cost = Cost(order[m].side, price, qty) /\ cost <= row[m].locked
        /\ m # o /\ m \in rows /\ pc[o] = "taking" /\ pc[m] = "open"
        /\ order[m].side = Opposite(order[o].side)
        /\ pc' = [pc EXCEPT ![o] = "settling"]
        /\ snapshot' = [snapshot EXCEPT ![o] = {}]
        /\ trade' = [trade EXCEPT ![o] = [resting |-> m, price |-> price, quantity |-> qty]]
        /\ \/ /\ rows' = rows \ {m} /\ row' = [row EXCEPT ![m] = NoRow]
              /\ row[m].quantity = qty
           \/ /\ rows' = rows /\ row[m].quantity > qty
              /\ row' = [row EXCEPT ![m] = [quantity |-> row[m].quantity - qty, locked |-> row[m].locked - cost]]
        /\ UNCHANGED <<balance, traded, order, held, cancel, told, worldVars>>
    BY MatchTakes
<1>2. /\ pc'[o] = "settling" /\ pc'[m] = "open"
      /\ trade'[o].resting = m /\ trade'[o].price = price /\ trade'[o].quantity = qty
      /\ \A z \in OrderIds \ {o} : SameCall(z)
      /\ \A z \in OrderIds \ {m} : row'[z] = row[z] /\ (z \in rows' <=> z \in rows)
      /\ m \notin rows' \/ (m \in rows' /\ row'[m].locked = row[m].locked - cost)
    <2>1. /\ pc'[o] = "settling" /\ pc'[m] = "open"
          /\ trade'[o].resting = m /\ trade'[o].price = price /\ trade'[o].quantity = qty
          /\ \A z \in OrderIds \ {o} : SameCall(z)
        BY <1>1 DEF IInv, TypeOK, SameCall
    <2>2. \A z \in OrderIds \ {m} : row'[z] = row[z] /\ (z \in rows' <=> z \in rows)
        BY <1>1 DEF IInv, TypeOK
    <2>3. m \notin rows' \/ (m \in rows' /\ row'[m].locked = row[m].locked - cost)
        BY <1>1 DEF IInv, TypeOK
    <2> QED BY <2>1, <2>2, <2>3
<1>3. /\ order[o].side \in Sides /\ order[m].side \in Sides /\ row[m].locked \in Nat
      /\ s # order[o].side <=> s = order[m].side
    BY <1>1, NumbersTyped DEF IInv, TypeOK, Order, Opposite, Sides
<1>4. /\ Owing(u, s)[o] = 0
      /\ Owing(u, s)'[o] = IF order[m].user = u /\ order[m].side = s THEN cost ELSE 0
    <2>1. Owing(u, s)[o] = 0
        BY <1>1, NothingOwed
    <2>2. Owing(u, s)'[o] = IF order[o].side # s /\ order[m].user = u THEN Cost(s, price, qty) ELSE 0
        BY <1>1, <1>2 DEF Owing, TradeCost
    <2> QED BY <1>1, <1>3, <2>1, <2>2
<1>5. /\ Residuals(u, s)[m] = IF order[m].user = u /\ order[m].side = s THEN row[m].locked ELSE 0
      /\ Residuals(u, s)'[m] = IF m \in rows' /\ order[m].user = u /\ order[m].side = s THEN row[m].locked - cost ELSE 0
    BY <1>1, <1>2 DEF Residuals, Residual, UnderWay
<1>6. Residuals(u, s)'[m] + Owing(u, s)'[o] + 0 <= Residuals(u, s)[m] + Owing(u, s)[o] + 0
    BY <1>1, <1>3, <1>4, <1>5
<1>7. ASSUME NEW z \in OrderIds, z # m PROVE Residuals(u, s)'[z] <= Residuals(u, s)[z]
    <2>1. Residuals(u, s)[z] \in Nat
        BY ClaimsCounted DEF ClaimsCount
    <2>2. CASE z # o
        <3>1. Residuals(u, s)'[z] = Residuals(u, s)[z]
            BY <1>2, <1>7, <2>2, ClaimStays
        <3> QED BY <2>1, <3>1
    <2>3. CASE z = o
        <3>1. o \notin rows /\ o \notin rows' /\ o \in UnderWay /\ o \in UnderWay'
            BY <1>1, <1>2, NobodyRefers DEF UnderWay
        <3>2. Residuals(u, s)'[o] = Residuals(u, s)[o]
            BY <1>1, <1>2, <3>1 DEF Residuals, Residual
        <3> QED BY <2>1, <2>3, <3>2
    <2> QED BY <2>2, <2>3
<1>8. ASSUME NEW z \in OrderIds, z # o PROVE Owing(u, s)'[z] <= Owing(u, s)[z]
    <2>1. Owing(u, s)[z] \in Nat
        BY ClaimsCounted DEF ClaimsCount
    <2>2. CASE z # m
        <3>1. Owing(u, s)'[z] = Owing(u, s)[z]
            BY <1>2, <1>8, <2>2, ClaimStays
        <3> QED BY <2>1, <3>1
    <2>3. CASE z = m
        BY <1>2, <2>1, <2>3, NothingOwed
    <2> QED BY <2>2, <2>3
<1>9. balance'[u][LockAsset(s)].locked + 0 = balance[u][LockAsset(s)].locked + 0
    BY <1>1
<1>10. Shifted(u, s, m, o, 0, 0)
    BY <1>6, <1>7, <1>8, <1>9 DEF Shifted
<1> QED BY <1>10, CoveredMoves

\* A remainder claims in the table what its call claimed.
LEMMA InsertRowCovered ==
    ASSUME IInv, IInv', Steady, NEW u \in Users, NEW s \in Sides, Covered(u, s), NEW o \in OrderIds, InsertRow(o)
    PROVE  Covered(u, s)'
<1>1. /\ pc[o] = "placing" /\ pc'[o] = "open" /\ o \notin rows /\ o \in rows'
      /\ row'[o].locked = order[o].lockedAmount /\ order' = order /\ balance' = balance
      /\ \A z \in OrderIds \ {o} : SameCall(z) /\ row'[z] = row[z] /\ (z \in rows' <=> z \in rows)
    BY NobodyRefers DEF InsertRow, Goto, IInv, TypeOK, SameCall
<1>2. Residuals(u, s)'[o] = Residuals(u, s)[o]
    BY <1>1 DEF Residuals, Residual, UnderWay
<1>3. Owing(u, s)'[o] = 0
    BY <1>1, NothingOwed
<1>4. Residuals(u, s)[o] \in Nat /\ Owing(u, s)[o] \in Nat
    BY ClaimsCounted DEF ClaimsCount
<1>5. balance[u][LockAsset(s)].locked <= balance'[u][LockAsset(s)].locked
    BY <1>1, LockedIsNat
<1> QED BY <1>1, <1>2, <1>3, <1>4, <1>5, CallCovered

\* What settleTrade draws from the locks is what the two sides claimed for it.
LEMMA CommitSettleCovered ==
    ASSUME IInv, IInv', Steady, NEW u \in Users, NEW s \in Sides, Covered(u, s), NEW o \in OrderIds, CommitSettle(o)
    PROVE  Covered(u, s)'
<1>1. PICK buyer \in Users, seller \in Users, value \in Nat \ {0}, n \in Nat \ {0} :
        /\ buyer = Buyer(o) /\ seller = Seller(o) /\ value = Value(o) /\ n = trade[o].quantity
        /\ value <= balance[buyer]["quote"].locked /\ n <= balance[seller]["base"].locked
        /\ balance' = SettledWorth(balance, buyer, seller, value, n)
        /\ <<buyer, "quote">> \in HeldBy(o) /\ <<seller, "base">> \in HeldBy(o)
        /\ pc[o] = "settling" /\ TradeFits(o)
    BY SettlementCommits
<1>2. /\ pc'[o] = "recording" /\ o \notin rows
      /\ \A z \in OrderIds \ {o} : SameCall(z)
      /\ UNCHANGED <<row, rows, order, trade>>
    BY <1>1, NobodyRefers DEF CommitSettle, Goto, IInv, TypeOK, SameCall
<1>3. PICK m \in OrderIds : m = trade[o].resting
    BY <1>1 DEF TradeFits
<1>4. order[o].side \in Sides
    BY DEF IInv, TypeOK, Order
<1>5. PICK mine, other : /\ mine = (u = order[o].user /\ s = order[o].side)
                         /\ other = (u = order[m].user /\ s # order[o].side)
    OBVIOUS
<1>6. PICK drop \in Nat : drop = IF mine \/ other THEN TradeCost(o, s) ELSE 0
    <2>1. TradeCost(o, s) \in Nat
        BY NumbersTyped, CostIsNat DEF TradeCost
    <2> QED BY <2>1
<1>7. balance'[u][LockAsset(s)].locked + drop = balance[u][LockAsset(s)].locked + 0
    <2>1. balance \in Wallets
        BY DEF IInv, TypeOK
    <2>2. /\ balance'[u]["quote"].locked = balance[u]["quote"].locked - (IF u = buyer THEN value ELSE 0)
          /\ balance'[u]["base"].locked = balance[u]["base"].locked - (IF u = seller THEN n ELSE 0)
        <3>1. \A v \in Users :
                /\ balance'[v]["quote"].locked = balance[v]["quote"].locked - (IF v = buyer THEN value ELSE 0)
                /\ balance'[v]["base"].locked = balance[v]["base"].locked - (IF v = seller THEN n ELSE 0)
            BY <1>1, <2>1, SettledBalances
        <3> QED BY <3>1
    <2>3. balance[u]["quote"].locked \in Nat /\ balance[u]["base"].locked \in Nat
        BY <2>1, BalancesAreNat DEF Assets
    <2>4. /\ buyer = IF order[o].side = "buy" THEN order[o].user ELSE order[m].user
          /\ seller = IF order[o].side = "sell" THEN order[o].user ELSE order[m].user
        BY <1>1, <1>3 DEF Buyer, Seller, BuyOrder, SellOrder
    <2>5. CASE s = "buy"
        <3>1. LockAsset(s) = "quote" /\ TradeCost(o, s) = value
            BY <1>1, <2>5 DEF LockAsset, TradeCost, Cost, Value
        <3>2. drop = IF u = buyer THEN value ELSE 0
            BY <1>4, <1>5, <1>6, <2>4, <2>5, <3>1 DEF Sides
        <3> QED BY <2>2, <2>3, <3>1, <3>2
    <2>6. CASE s = "sell"
        <3>1. LockAsset(s) = "base" /\ TradeCost(o, s) = n
            BY <1>1, <2>6 DEF LockAsset, TradeCost, Cost
        <3>2. drop = IF u = seller THEN n ELSE 0
            BY <1>4, <1>5, <1>6, <2>4, <2>6, <3>1 DEF Sides
        <3> QED BY <2>2, <2>3, <3>1, <3>2
    <2> QED BY <2>5, <2>6 DEF Sides
<1>8. /\ Residuals(u, s)[o] = IF mine THEN order[o].lockedAmount ELSE 0
      /\ Residuals(u, s)'[o] = IF mine THEN order[o].lockedAmount - TradeCost(o, s) ELSE 0
      /\ Owing(u, s)[o] = IF other THEN TradeCost(o, s) ELSE 0
      /\ Owing(u, s)'[o] = 0
    <2>1. Residuals(u, s)[o] = IF mine THEN order[o].lockedAmount ELSE 0
        BY <1>1, <1>2, <1>5 DEF Residuals, Residual, UnderWay
    <2>2. Residuals(u, s)'[o] = IF mine THEN order[o].lockedAmount - TradeCost(o, s) ELSE 0
        BY <1>2, <1>5 DEF Residuals, Residual, UnderWay, TradeCost
    <2>3. Owing(u, s)[o] = IF other THEN TradeCost(o, s) ELSE 0
        BY <1>1, <1>3, <1>5 DEF Owing
    <2> QED BY <1>2, <2>1, <2>2, <2>3, NothingOwed
<1>9. Residuals(u, s)'[o] + Owing(u, s)'[o] + drop <= Residuals(u, s)[o] + Owing(u, s)[o] + 0
    <2>1. ~(mine /\ other)
        BY <1>5
    <2>2. order[o].lockedAmount \in Nat
        BY NumbersTyped
    <2> QED BY <1>6, <1>8, <2>1, <2>2
<1>10. \A z \in OrderIds \ {o} : Residuals(u, s)'[z] <= Residuals(u, s)[z] /\ Owing(u, s)'[z] <= Owing(u, s)[z]
    <2> SUFFICES ASSUME NEW z \in OrderIds, z # o
                 PROVE  Residuals(u, s)'[z] <= Residuals(u, s)[z] /\ Owing(u, s)'[z] <= Owing(u, s)[z]
        OBVIOUS
    <2>1. /\ Residuals(u, s)'[z] = Residuals(u, s)[z] /\ Residuals(u, s)[z] \in Nat
          /\ Owing(u, s)'[z] = Owing(u, s)[z] /\ Owing(u, s)[z] \in Nat
        BY <1>2, ClaimStays
    <2> QED BY <2>1
<1>11. Shifted(u, s, o, o, drop, 0)
    BY <1>7, <1>9, <1>10 DEF Shifted
<1> QED BY <1>11, CoveredMoves

\* The call takes from its copy what the settlement took from the lock.
LEMMA RecordTradeCovered ==
    ASSUME IInv, IInv', Steady, NEW u \in Users, NEW s \in Sides, Covered(u, s), NEW o \in OrderIds, RecordTrade(o)
    PROVE  Covered(u, s)'
<1>1. /\ pc[o] = "recording" /\ pc'[o] \in {"matching", "releasing", "filled"}
      /\ SameTerms(o)
      /\ order'[o].lockedAmount = order[o].lockedAmount - TradeCost(o, order[o].side)
      /\ \A z \in OrderIds \ {o} : pc'[z] = pc[z] /\ order'[z] = order[z] /\ trade'[z] = trade[z]
      /\ UNCHANGED <<balance, row, rows, snapshot, held, cancel, worldVars>>
    BY TradeRecorded
<1>2. o \notin rows /\ o \in UnderWay
    BY <1>1, NobodyRefers DEF UnderWay
<1>3. Residuals(u, s)'[o] = Residuals(u, s)[o] \/ Residuals(u, s)'[o] = 0
    BY <1>1, <1>2 DEF Residuals, Residual, SameTerms
<1>4. Owing(u, s)'[o] = 0
    BY <1>1, NothingOwed
<1>5. Residuals(u, s)[o] \in Nat /\ Owing(u, s)[o] \in Nat
    BY ClaimsCounted DEF ClaimsCount
<1>6. balance[u][LockAsset(s)].locked <= balance'[u][LockAsset(s)].locked
    BY <1>1, LockedIsNat
<1>7. Residuals(u, s)'[o] <= Residuals(u, s)[o] /\ Owing(u, s)'[o] <= Owing(u, s)[o]
    BY <1>3, <1>4, <1>5
<1> QED BY <1>1, <1>6, <1>7, CallCovered DEF SameCall

\* A filled order gives up what it releases.
LEMMA ReleaseResidualCovered ==
    ASSUME IInv, IInv', Steady, NEW u \in Users, NEW s \in Sides, Covered(u, s), NEW o \in OrderIds, ReleaseResidual(o)
    PROVE  Covered(u, s)'
<1>1. PICK v \in Users, r \in Sides, a \in Assets, rest \in Nat \ {0} :
        /\ v = order[o].user /\ r = order[o].side /\ a = LockAsset(r) /\ rest = order[o].lockedAmount
        /\ UnlockedFor(<<v, a>>, o)
        /\ pc[o] = "releasing"
        /\ UNCHANGED <<row, rows, traded, order, snapshot, trade, held, cancel, worldVars>>
        /\ \/ /\ rest <= balance[v][a].locked
              /\ pc' = [pc EXCEPT ![o] = "filled"]
              /\ balance' = Freed(balance, v, a, rest)
           \/ /\ pc' = [pc EXCEPT ![o] = "failed"]
              /\ balance' = balance
    BY ResidualReleased
<1>2. /\ pc'[o] \in {"filled", "failed"} /\ o \notin rows /\ o \in UnderWay /\ o \notin UnderWay'
      /\ \A z \in OrderIds \ {o} : SameCall(z)
    BY <1>1, NobodyRefers DEF UnderWay, IInv, TypeOK, SameCall
<1>3. CASE balance' = balance
    BY <1>1, <1>2, <1>3, EarlyCovered
<1>4. CASE rest <= balance[v][a].locked /\ balance' = Freed(balance, v, a, rest)
    <2>1. PICK drop \in Nat : drop = IF u = v /\ s = r THEN rest ELSE 0
        OBVIOUS
    <2>2. balance'[u][LockAsset(s)].locked + drop = balance[u][LockAsset(s)].locked + 0
        <3>1. PICK x \in Assets : x = LockAsset(s)
            BY SidesLock
        <3>2. balance'[u][x].locked = balance[u][x].locked - (IF u = v /\ x = a THEN rest ELSE 0)
            BY <1>4, UnlockedBalances DEF IInv, TypeOK
        <3>3. x = a <=> s = r
            BY <1>1, <3>1, SidesLock
        <3>4. balance[u][x].locked \in Nat
            BY BalancesAreNat DEF IInv, TypeOK
        <3> QED BY <2>1, <3>1, <3>2, <3>3, <3>4
    <2>3. Residuals(u, s)[o] = drop /\ Residuals(u, s)'[o] = 0
        <3>1. Residuals(u, s)[o] = drop
            BY <1>1, <1>2, <2>1 DEF Residuals, Residual
        <3> QED BY <1>1, <1>2, <3>1, NothingClaimed
    <2>4. Owing(u, s)[o] = 0 /\ Owing(u, s)'[o] = 0
        BY <1>1, <1>2, NothingOwed
    <2>5. \A z \in OrderIds \ {o} : Residuals(u, s)'[z] <= Residuals(u, s)[z] /\ Owing(u, s)'[z] <= Owing(u, s)[z]
        <3> SUFFICES ASSUME NEW z \in OrderIds, z # o
                     PROVE  Residuals(u, s)'[z] <= Residuals(u, s)[z] /\ Owing(u, s)'[z] <= Owing(u, s)[z]
            OBVIOUS
        <3>1. /\ Residuals(u, s)'[z] = Residuals(u, s)[z] /\ Residuals(u, s)[z] \in Nat
              /\ Owing(u, s)'[z] = Owing(u, s)[z] /\ Owing(u, s)[z] \in Nat
            BY <1>1, <1>2, ClaimStays
        <3> QED BY <3>1
    <2>6. Shifted(u, s, o, o, drop, 0)
        BY <2>2, <2>3, <2>4, <2>5 DEF Shifted
    <2> QED BY <2>6, CoveredMoves
<1> QED BY <1>1, <1>3, <1>4

\* A call that throws gives up its claim, not the lock.
LEMMA ThrownCovered ==
    ASSUME IInv, IInv', Steady, NEW u \in Users, NEW s \in Sides, Covered(u, s),
           NEW o \in OrderIds, pc[o] \in Processing, Thrown(o), UNCHANGED <<order, tableVars>>
    PROVE  Covered(u, s)'
<1>1. /\ pc'[o] = "failed" /\ pc[o] # "open" /\ UNCHANGED <<row, rows, balance>>
      /\ \A z \in OrderIds \ {o} : SameCall(z)
    BY DEF Thrown, Goto, IInv, TypeOK, SameCall, tableVars, Processing
<1> QED BY <1>1, EarlyCovered

LEMMA ProcessCovered ==
    ASSUME IInv, IInv', Steady, NEW u \in Users, NEW s \in Sides, Covered(u, s), NEW o \in OrderIds, Process(o)
    PROVE  Covered(u, s)'
<1>1. ASSUME ValidateBalance(o) PROVE Covered(u, s)'
    <2>1. /\ pc[o] = "validating" /\ pc'[o] \in {"locking", "rejected"} /\ UNCHANGED <<row, rows, balance>>
          /\ \A z \in OrderIds \ {o} : SameCall(z)
        BY <1>1 DEF ValidateBalance, Goto, IInv, TypeOK, SameCall, tableVars
    <2> QED BY <2>1, EarlyCovered
<1>2. ASSUME SelectRow(o) \/ TakeNothing(o) PROVE Covered(u, s)'
    <2>1. /\ pc[o] \in {"matching", "taking"} /\ pc'[o] \in {"taking", "placing"}
          /\ UNCHANGED <<row, rows, balance, order>>
          /\ \A z \in OrderIds \ {o} : SameCall(z)
        BY <1>2 DEF SelectRow, TakeNothing, Goto, IInv, TypeOK, SameCall, tableVars
    <2> QED BY <2>1, KeepsCovered
<1>3. ASSUME LockSettleRow(o) PROVE Covered(u, s)'
    <2>1. CASE Holds(o, held[o] + 1)
        <3>1. /\ pc[o] = "settling" /\ UNCHANGED <<pc, trade, snapshot, order, row, rows, balance>>
            BY <1>3, <2>1 DEF LockSettleRow, tableVars
        <3> QED BY <3>1, KeepsCovered DEF SameCall
    <2>2. CASE ~Holds(o, held[o] + 1)
        BY <1>3, <2>2, ThrownCovered DEF LockSettleRow, Processing
    <2> QED BY <2>1, <2>2
<1>4. ASSUME DeadlockAbort(o) PROVE Covered(u, s)'
    BY <1>4, ThrownCovered DEF DeadlockAbort, Cycle, WaitsFor, Processing
<1> QED BY <1>1, <1>2, <1>3, <1>4, LockFundsCovered, TakeRowCovered, InsertRowCovered, CommitSettleCovered,
        RecordTradeCovered, ReleaseResidualCovered DEF Process

\* Steps of no call that leave the rows and lower no lock.
LEMMA OtherCovered ==
    ASSUME IInv, IInv', Steady, NEW u \in Users, NEW s \in Sides, Covered(u, s),
           UNCHANGED <<engineVars, row, rows>>,
           balance[u][LockAsset(s)].locked <= balance'[u][LockAsset(s)].locked
    PROVE  Covered(u, s)'
<1>1. \A z \in OrderIds : Residuals(u, s)'[z] <= Residuals(u, s)[z] /\ Owing(u, s)'[z] <= Owing(u, s)[z]
    <2> SUFFICES ASSUME NEW z \in OrderIds
                 PROVE  Residuals(u, s)'[z] <= Residuals(u, s)[z] /\ Owing(u, s)'[z] <= Owing(u, s)[z]
        OBVIOUS
    <2>1. SameCall(z)
        BY DEF SameCall, engineVars
    <2>2. /\ Residuals(u, s)'[z] = Residuals(u, s)[z] /\ Residuals(u, s)[z] \in Nat
          /\ Owing(u, s)'[z] = Owing(u, s)[z] /\ Owing(u, s)[z] \in Nat
        BY <2>1, ClaimStays
    <2> QED BY <2>2
<1> QED BY <1>1, CoveredFalls

\* After a crash only the rows claim anything.
LEMMA RestartCovered ==
    ASSUME IInv, IInv', Steady, NEW u \in Users, NEW s \in Sides, Covered(u, s), Restart
    PROVE  Covered(u, s)'
<1>1. UNCHANGED <<order, row, rows, balance>>
    BY DEF Restart, tableVars
<1>2. \A z \in OrderIds : Residuals(u, s)'[z] <= Residuals(u, s)[z] /\ Owing(u, s)'[z] <= Owing(u, s)[z]
    <2> SUFFICES ASSUME NEW z \in OrderIds
                 PROVE  Residuals(u, s)'[z] <= Residuals(u, s)[z] /\ Owing(u, s)'[z] <= Owing(u, s)[z]
        OBVIOUS
    <2>1. pc'[z] = IF pc[z] \in Processing THEN "lost" ELSE pc[z]
        BY DEF Restart
    <2>2. pc'[z] # "settling" /\ z \notin UnderWay'
        BY <2>1 DEF Processing, UnderWay
    <2>3. Owing(u, s)'[z] = 0
        BY <2>2, NothingOwed
    <2>4. Residuals(u, s)'[z] = Residuals(u, s)[z] \/ Residuals(u, s)'[z] = 0
        BY <1>1, <2>2 DEF Residuals, Residual
    <2>5. Residuals(u, s)[z] \in Nat /\ Owing(u, s)[z] \in Nat
        BY ClaimsCounted DEF ClaimsCount
    <2> QED BY <2>3, <2>4, <2>5
<1>3. balance[u][LockAsset(s)].locked <= balance'[u][LockAsset(s)].locked
    BY <1>1, LockedIsNat
<1> QED BY <1>2, <1>3, CoveredFalls

\* No step takes back that a cancelOrder has released something.
LEMMA CancelsGoOn ==
    ASSUME IInv, [Next]_vars, NothingCancelled'
    PROVE  /\ NothingCancelled
           /\ \A c \in Cancels : ~ProcessCancel(c) /\ ~CancelFault(c)
<1>1. \A c \in Cancels : cancel'[c].at \in {"idle", "unlocking"}
    BY DEF NothingCancelled
<1>2. ASSUME NEW c \in Cancels, NEW to \in {"removing", "cancelled", "failed"}, CancelGoto(c, to)
      PROVE  FALSE
    <2>1. cancel'[c].at = to
        BY <1>2 DEF CancelGoto, IInv, TypeOK, Cancellation
    <2> QED BY <1>1, <2>1
<1>3. \A c \in Cancels : ~ProcessCancel(c) /\ ~CancelFault(c)
    BY <1>2 DEF ProcessCancel, CancelUnlockFunds, CancelRemove, CancelFault
<1>4. CASE cancel' = cancel
    BY <1>1, <1>3, <1>4 DEF NothingCancelled
<1>5. CASE Restart
    <2> SUFFICES ASSUME NEW c \in Cancels PROVE cancel[c].at \in {"idle", "unlocking"}
        BY <1>3 DEF NothingCancelled
    <2>1. cancel'[c] = IF cancel[c].at \in Cancelling THEN [cancel[c] EXCEPT !.at = "lost"] ELSE cancel[c]
        BY <1>5 DEF Restart
    <2>2. cancel[c] \in Cancellation
        BY DEF IInv, TypeOK
    <2>3. cancel[c].at \in Cancelling => cancel'[c].at = "lost"
        BY <2>1, <2>2 DEF Cancellation
    <2> QED BY <1>1, <2>1, <2>3
<1>6. ASSUME NEW c \in Cancels, NEW o \in OrderIds, CancelGetOrder(c, o) PROVE NothingCancelled
    <2> SUFFICES ASSUME NEW d \in Cancels PROVE cancel[d].at \in {"idle", "unlocking"}
        BY DEF NothingCancelled
    <2>1. cancel[c].at = "idle" /\ (d # c => cancel'[d] = cancel[d])
        BY <1>6 DEF CancelGetOrder, IInv, TypeOK
    <2> QED BY <1>1, <2>1
<1>7. ASSUME NEW o \in OrderIds, Process(o) \/ Fault(o) PROVE cancel' = cancel
    <2>1. ASSUME NEW m \in OrderIds, TakeRow(o, m) PROVE cancel' = cancel
        BY <2>1 DEF TakeRow
    <2> QED BY <1>7, <2>1 DEF Process, Fault, ValidateBalance, LockFunds, SelectRow, TakeNothing, InsertRow,
                LockSettleRow, CommitSettle, DeadlockAbort, RecordTrade, ReleaseResidual
<1>8. ASSUME NEW u \in Users, NEW a \in Assets, Deposit(u, a) \/ Seed(u, a) PROVE cancel' = cancel
    BY <1>8 DEF Deposit, Seed
<1>9. ASSUME NEW o \in OrderIds, NEW u, NEW s, NEW p, NEW q, NEW now, Submit(o, u, s, p, q, now)
      PROVE  cancel' = cancel
    BY <1>9 DEF Submit
<1>10. UNCHANGED vars => cancel' = cancel
    BY DEF vars
<1> QED BY <1>3, <1>4, <1>5, <1>6, <1>7, <1>8, <1>9, <1>10 DEF Next, Arrive

LEMMA InitCInv == Init => CInv
<1> SUFFICES ASSUME Init, NEW u \in Users, NEW s \in Sides PROVE Covered(u, s)
    BY DEF CInv
<1>1. IInv
    BY InitIInv
<1>2. PICK R \in [OrderIds -> Nat], O \in [OrderIds -> Nat] : R = Residuals(u, s) /\ O = Owing(u, s)
    BY <1>1, ClaimsCounted DEF ClaimsCount
<1>3. (\A z \in OrderIds : R[z] = 0) /\ (\A z \in OrderIds : O[z] = 0)
    BY <1>2 DEF Init, Residuals, Owing, UnderWay
<1>4. Total(R) = 0 /\ Total(O) = 0
    BY <1>3, TotalOfNothing
<1>5. balance[u][LockAsset(s)].locked = 0
    BY SidesLock DEF Init
<1> QED BY <1>2, <1>4, <1>5 DEF Covered, Claims

LEMMA NextCInv == IInv /\ IInv' /\ CInv /\ [Next]_vars => CInv'
<1> SUFFICES ASSUME IInv, IInv', CInv, [Next]_vars, NothingCancelled', NEW u \in Users, NEW s \in Sides
             PROVE  Covered(u, s)'
    BY DEF CInv
<1>1. /\ Covered(u, s) /\ Steady
      /\ \A c \in Cancels : ~ProcessCancel(c) /\ ~CancelFault(c)
    BY CancelsGoOn, NextIInv DEF CInv
<1>2. balance' = balance => balance[u][LockAsset(s)].locked <= balance'[u][LockAsset(s)].locked
    BY LockedIsNat
<1>3. ASSUME NEW v \in Users, NEW a \in Assets, Deposit(v, a) \/ Seed(v, a) PROVE Covered(u, s)'
    <2>1. UNCHANGED <<engineVars, row, rows>> /\ balance' = Raised(balance, v, a, DepositAmount)
        BY <1>3 DEF Deposit, Seed, Credited, Raised
    <2>2. balance'[u][LockAsset(s)].locked = balance[u][LockAsset(s)].locked
        BY <2>1, AvailableRaised, FundsAssumption, SidesLock DEF IInv, TypeOK
    <2>3. balance[u][LockAsset(s)].locked <= balance'[u][LockAsset(s)].locked
        BY <2>2, LockedIsNat
    <2> QED BY <1>1, <2>1, <2>3, OtherCovered
<1>4. ASSUME NEW o \in OrderIds, NEW v \in Users, NEW r \in Sides, NEW p \in Prices, NEW q \in Quantities,
             NEW now \in {clock, clock + 1}, Submit(o, v, r, p, q, now)
      PROVE  Covered(u, s)'
    <2>1. /\ pc[o] = "idle" /\ pc'[o] = "validating" /\ UNCHANGED <<row, rows, balance>>
          /\ \A z \in OrderIds \ {o} : SameCall(z)
        BY <1>4 DEF Submit, Goto, IInv, TypeOK, SameCall, tableVars
    <2> QED BY <1>1, <2>1, EarlyCovered
<1>5. ASSUME NEW c \in Cancels, NEW o \in OrderIds, CancelGetOrder(c, o) PROVE Covered(u, s)'
    <2>1. UNCHANGED <<engineVars, row, rows, balance>>
        BY <1>5 DEF CancelGetOrder, tableVars
    <2> QED BY <1>1, <1>2, <2>1, OtherCovered
<1>6. ASSUME NEW o \in OrderIds, Process(o) PROVE Covered(u, s)'
    BY <1>1, <1>6, ProcessCovered
<1>7. ASSUME NEW o \in OrderIds, Fault(o) PROVE Covered(u, s)'
    BY <1>1, <1>7, ThrownCovered DEF Fault
<1>8. CASE Restart
    BY <1>1, <1>8, RestartCovered
<1>9. CASE UNCHANGED vars
    <2>1. UNCHANGED <<engineVars, row, rows, balance>>
        BY <1>9 DEF vars, tableVars
    <2> QED BY <1>1, <1>2, <2>1, OtherCovered
<1> QED BY <1>1, <1>3, <1>4, <1>5, <1>6, <1>7, <1>8, <1>9 DEF Next, Arrive

\* Until a cancelOrder releases what it read, the locked balance of each user
\* pays for every order that can still trade, for the trades being settled too,
\* whatever overlaps, throws or dies (lockFunds, atomicMatch, settleTrade).
THEOREM LocksCoverTheOrders == Spec => []LocksCover
<1>1. CInv => LocksCover
    BY DEF CInv, Covered, LocksCover
<1>2. Spec => []CInv
    BY InitCInv, NextCInv, SpecIInv, PTL DEF Spec
<1> QED BY <1>1, <1>2, PTL
-----------------------------------------------------------------------------
(* Calls come to an end.                                                   *)

\* Where a call stands in processOrder, counted from the end of its loop: the
\* statements of settleTrade count one by one.
Stage(at, locks) ==
    CASE at = "validating" -> 10 [] at = "locking" -> 9
      [] at = "matching"   -> 8  [] at = "taking"  -> 7
      [] at = "settling"   -> 6 - locks
      [] at = "recording"  -> 1  [] at = "placing" -> 1

\* What a call may still do at most: eight statements for each unit it has
\* left, and those before the loop.
StepsLeft(o) ==
    IF pc[o] \notin Processing THEN 0
    ELSE IF pc[o] = "releasing" THEN 1 ELSE 8 * order[o].quantity + Stage(pc[o], held[o])

LEMMA StageIsNat ==
    ASSUME NEW at \in Processing \ {"releasing"}, NEW locks \in 0..4
    PROVE  Stage(at, locks) \in 1..10
<1>1. CASE at = "settling"
    <2>1. Stage(at, locks) = 6 - locks
        BY <1>1 DEF Stage
    <2> QED BY <2>1
<1>2. CASE at # "settling"
    BY <1>2 DEF Stage, Processing
<1> QED BY <1>1, <1>2

LEMMA StepsAreNat ==
    ASSUME TypeOK, NEW o \in OrderIds
    PROVE  StepsLeft(o) \in Nat /\ (StepsLeft(o) = 0 <=> pc[o] \notin Processing)
<1>1. PICK q \in Nat : q = order[o].quantity
    BY DEF TypeOK, Order
<1>2. PICK s : s = Stage(pc[o], held[o])
    OBVIOUS
<1>3. pc[o] \in Processing /\ pc[o] # "releasing" => s \in 1..10
    BY <1>2, StageIsNat DEF TypeOK
<1> QED BY <1>1, <1>2, <1>3 DEF StepsLeft

\* A statement of a call, by where it leads.
LEMMA NextStage ==
    ASSUME NEW q \in Nat, NEW r \in Nat, NEW s \in 1..10, NEW t \in 1..10,
           (r = q /\ t < s) \/ (r < q /\ t <= 8)
    PROVE  8 * r + t < 8 * q + s
<1>1. CASE r = q /\ t < s
    BY <1>1
<1>2. CASE r < q /\ t <= 8
    <2>1. r + 1 <= q
        BY <1>2
    <2>2. 8 * r + 8 <= 8 * q
        BY <2>1
    <2> QED BY <1>2, <2>2
<1> QED BY <1>1, <1>2

\* The call goes on to another statement.
GoesOn(o, r, s, t) ==
    /\ pc[o] \in Processing \ {"releasing"} /\ pc'[o] \in Processing \ {"releasing"}
    /\ r = order'[o].quantity /\ s = Stage(pc[o], held[o]) /\ t = Stage(pc'[o], held'[o])

LEMMA GoingOn ==
    ASSUME NEW o \in OrderIds, NEW q \in Nat, q = order[o].quantity,
           NEW r \in Nat, NEW s \in 1..10, NEW t \in 1..10,
           GoesOn(o, r, s, t), (r = q /\ t < s) \/ (r < q /\ t <= 8)
    PROVE  StepsLeft(o)' < StepsLeft(o)
<1>1. StepsLeft(o) = 8 * q + s /\ StepsLeft(o)' = 8 * r + t
    BY DEF StepsLeft, GoesOn
<1>2. 8 * r + t < 8 * q + s
    BY NextStage
<1> QED BY <1>1, <1>2

\* A call that ends has nothing left.
LEMMA EndingFalls ==
    ASSUME TypeOK, NEW o \in OrderIds, pc[o] \in Processing, pc'[o] \notin Processing
    PROVE  StepsLeft(o)' < StepsLeft(o)
<1>1. StepsLeft(o) \in Nat \ {0}
    BY StepsAreNat
<1>2. StepsLeft(o)' = 0
    BY DEF StepsLeft
<1> QED BY <1>1, <1>2

LEMMA CallProceeds ==
    ASSUME IInv, NEW o \in OrderIds, Process(o)
    PROVE  pc[o] \in Processing /\ StepsLeft(o)' < StepsLeft(o)
<1>1. PICK q \in Nat : q = order[o].quantity
    BY DEF IInv, TypeOK, Order
<1>2. /\ pc \in [OrderIds -> {"idle"} \cup Processing \cup Ended] /\ order \in [OrderIds -> Order]
      /\ held \in [OrderIds -> 0..4] /\ TypeOK
    BY DEF IInv, TypeOK
<1>3. ASSUME pc[o] \in Processing, pc'[o] \in Ended
      PROVE  pc[o] \in Processing /\ StepsLeft(o)' < StepsLeft(o)
    BY <1>2, <1>3, EndingFalls DEF Ended, Processing
<1>4. CASE ValidateBalance(o)
    <2>1. pc[o] = "validating" /\ pc'[o] \in {"locking", "rejected"} /\ order'[o].quantity = q
        BY <1>1, <1>2, <1>4 DEF ValidateBalance, Goto
    <2>2. CASE pc'[o] = "locking"
        <3>1. GoesOn(o, q, 10, 9)
            BY <2>1, <2>2 DEF GoesOn, Stage, Processing
        <3> QED BY <1>1, <2>1, <3>1, GoingOn DEF Processing
    <2> QED BY <1>3, <2>1, <2>2 DEF Ended, Processing
<1>5. CASE LockFunds(o)
    <2>1. pc[o] = "locking" /\ pc'[o] \in {"matching", "rejected"} /\ order'[o].quantity = q
        BY <1>1, <1>2, <1>5 DEF LockFunds, Goto, Order
    <2>2. CASE pc'[o] = "matching"
        <3>1. GoesOn(o, q, 9, 8)
            BY <2>1, <2>2 DEF GoesOn, Stage, Processing
        <3> QED BY <1>1, <2>1, <3>1, GoingOn DEF Processing
    <2> QED BY <1>3, <2>1, <2>2 DEF Ended, Processing
<1>6. CASE SelectRow(o)
    <2>1. pc[o] = "matching" /\ pc'[o] = "taking" /\ order'[o].quantity = q
        BY <1>1, <1>2, <1>6 DEF SelectRow, Goto
    <2>2. GoesOn(o, q, 8, 7)
        BY <2>1 DEF GoesOn, Stage, Processing
    <2> QED BY <1>1, <2>1, <2>2, GoingOn DEF Processing
<1>7. ASSUME NEW m \in OrderIds, TakeRow(o, m)
      PROVE  pc[o] \in Processing /\ StepsLeft(o)' < StepsLeft(o)
    <2>1. pc[o] = "taking" /\ pc'[o] = "settling" /\ order'[o].quantity = q /\ held'[o] = held[o]
        BY <1>1, <1>2, <1>7 DEF TakeRow, Goto
    <2>2. PICK t \in 1..10 : t = 6 - held[o] /\ t < 7
        BY <1>2
    <2>3. GoesOn(o, q, 7, t)
        BY <2>1, <2>2 DEF GoesOn, Stage, Processing
    <2> QED BY <1>1, <2>1, <2>2, <2>3, GoingOn DEF Processing
<1>8. CASE TakeNothing(o)
    <2>1. pc[o] = "taking" /\ pc'[o] = "placing" /\ order'[o].quantity = q
        BY <1>1, <1>2, <1>8 DEF TakeNothing, Goto
    <2>2. GoesOn(o, q, 7, 1)
        BY <2>1 DEF GoesOn, Stage, Processing
    <2> QED BY <1>1, <2>1, <2>2, GoingOn DEF Processing
<1>9. CASE InsertRow(o)
    <2>1. pc[o] = "placing" /\ pc'[o] = "open"
        BY <1>2, <1>9 DEF InsertRow, Goto
    <2> QED BY <1>3, <2>1 DEF Ended, Processing
<1>10. CASE LockSettleRow(o)
    <2>1. /\ pc[o] = "settling" /\ held[o] < 4 /\ order'[o].quantity = q
        BY <1>1, <1>2, <1>10 DEF LockSettleRow
    <2>2. CASE Thrown(o)
        <3>1. pc'[o] = "failed"
            BY <1>2, <2>2 DEF Thrown, Goto
        <3> QED BY <1>3, <2>1, <3>1 DEF Ended, Processing
    <2>3. ASSUME held' = [held EXCEPT ![o] = held[o] + 1], pc' = pc
          PROVE  pc[o] \in Processing /\ StepsLeft(o)' < StepsLeft(o)
        <3>1. PICK s \in 1..10, t \in 1..10 : s = 6 - held[o] /\ t = 6 - (held[o] + 1) /\ t < s
            BY <1>2, <2>1
        <3>2. GoesOn(o, q, s, t)
            BY <1>2, <2>1, <2>3, <3>1 DEF GoesOn, Stage, Processing
        <3> QED BY <1>1, <2>1, <3>1, <3>2, GoingOn DEF Processing
    <2> QED BY <1>10, <2>2, <2>3 DEF LockSettleRow
<1>11. CASE CommitSettle(o)
    <2>1. pc[o] = "settling" /\ held[o] = 4 /\ pc'[o] = "recording" /\ order'[o].quantity = q
        BY <1>1, <1>2, <1>11 DEF CommitSettle, Goto
    <2>2. GoesOn(o, q, 2, 1)
        BY <2>1 DEF GoesOn, Stage, Processing
    <2> QED BY <1>1, <2>1, <2>2, GoingOn DEF Processing
<1>12. CASE DeadlockAbort(o)
    <2>1. pc'[o] = "failed"
        BY <1>2, <1>12 DEF DeadlockAbort, Thrown, Goto
    <2>2. pc[o] = "settling"
        BY <1>12 DEF DeadlockAbort, Cycle, WaitsFor
    <2> QED BY <1>3, <2>1, <2>2 DEF Ended, Processing
<1>13. CASE RecordTrade(o)
    <2>1. pc[o] = "recording" /\ pc'[o] \in {"matching", "releasing", "filled"} /\ order'[o] = AfterTrade(o)
        BY <1>2, <1>13 DEF RecordTrade, Goto
    <2>2. trade[o].quantity \in Nat /\ trade[o].quantity > 0 /\ trade[o].quantity <= q
        BY <1>1, <2>1 DEF IInv, CallFits, TypeOK, Trade, TradeFits
    <2>3. AfterTrade(o).quantity = q - trade[o].quantity
        BY <1>1, <1>2 DEF AfterTrade, Order
    <2>4. PICK r \in Nat : r = order'[o].quantity /\ r < q
        BY <2>1, <2>2, <2>3
    <2>5. CASE pc'[o] = "matching"
        <3>1. GoesOn(o, r, 1, 8)
            BY <2>1, <2>4, <2>5 DEF GoesOn, Stage, Processing
        <3> QED BY <1>1, <2>1, <2>4, <3>1, GoingOn DEF Processing
    <2>6. CASE pc'[o] = "releasing"
        <3>1. StepsLeft(o)' = 1
            BY <2>6 DEF StepsLeft, Processing
        <3>2. StepsLeft(o) = 8 * q + 1
            BY <1>1, <2>1 DEF StepsLeft, Processing, Stage
        <3> QED BY <2>1, <2>2, <3>1, <3>2 DEF Processing
    <2> QED BY <1>3, <2>1, <2>5, <2>6 DEF Ended, Processing
<1>14. CASE ReleaseResidual(o)
    <2>1. pc[o] = "releasing" /\ pc'[o] \in {"filled", "failed"}
        BY <1>2, <1>14 DEF ReleaseResidual, Goto
    <2> QED BY <1>3, <2>1 DEF Ended, Processing
<1> QED BY <1>4, <1>5, <1>6, <1>7, <1>8, <1>9, <1>10, <1>11, <1>12, <1>13, <1>14 DEF Process

\* A call that throws or dies with the server ends.
LEMMA FailingFalls ==
    ASSUME IInv, NEW o \in OrderIds, pc[o] \in Processing, Fault(o) \/ Restart
    PROVE  StepsLeft(o)' < StepsLeft(o)
<1>1. pc \in [OrderIds -> {"idle"} \cup Processing \cup Ended] /\ TypeOK
    BY DEF IInv, TypeOK
<1>2. pc'[o] \notin Processing
    BY <1>1 DEF Fault, Thrown, Goto, Restart, Processing
<1> QED BY <1>1, <1>2, EndingFalls

\* Nobody else's statement gives a call more to do.
LEMMA OthersLeaveSteps ==
    ASSUME IInv, [Next]_vars, NEW o \in OrderIds, pc[o] \in Processing, ~Process(o), ~Fault(o), ~Restart
    PROVE  StepsLeft(o)' = StepsLeft(o)
<1> SUFFICES pc'[o] = pc[o] /\ order'[o] = order[o] /\ held'[o] = held[o]
    BY DEF StepsLeft
<1>1. /\ pc \in [OrderIds -> {"idle"} \cup Processing \cup Ended] /\ order \in [OrderIds -> Order]
      /\ held \in [OrderIds -> 0..4]
    BY DEF IInv, TypeOK
<1>2. ASSUME NEW p \in OrderIds, NEW u \in Users, NEW s \in Sides, NEW price \in Prices,
             NEW q \in Quantities, NEW now \in {clock, clock + 1}, Submit(p, u, s, price, q, now)
      PROVE  pc'[o] = pc[o] /\ order'[o] = order[o] /\ held'[o] = held[o]
    <2>1. p # o
        BY <1>2 DEF Submit, Processing
    <2> QED BY <1>1, <1>2, <2>1 DEF Submit, Goto
<1>3. ASSUME NEW p \in OrderIds, Process(p) \/ Fault(p)
      PROVE  pc'[o] = pc[o] /\ order'[o] = order[o] /\ held'[o] = held[o]
    <2>1. p # o
        BY <1>3
    <2>2. ASSUME NEW m \in OrderIds, TakeRow(p, m)
          PROVE  pc'[o] = pc[o] /\ order'[o] = order[o] /\ held'[o] = held[o]
        BY <1>1, <2>1, <2>2 DEF TakeRow, Goto
    <2>3. CASE ValidateBalance(p) \/ LockFunds(p) \/ SelectRow(p)
        BY <1>1, <2>1, <2>3 DEF ValidateBalance, LockFunds, SelectRow, Goto
    <2>4. CASE TakeNothing(p) \/ InsertRow(p) \/ RecordTrade(p) \/ ReleaseResidual(p)
        BY <1>1, <2>1, <2>4 DEF TakeNothing, InsertRow, RecordTrade, ReleaseResidual, Goto
    <2>5. CASE LockSettleRow(p) \/ CommitSettle(p)
        BY <1>1, <2>1, <2>5 DEF LockSettleRow, CommitSettle, Thrown, Goto
    <2>6. CASE DeadlockAbort(p) \/ Fault(p)
        BY <1>1, <2>1, <2>6 DEF DeadlockAbort, Fault, Thrown, Goto
    <2> QED BY <1>3, <2>2, <2>3, <2>4, <2>5, <2>6 DEF Process
<1>4. ASSUME \/ \E u \in Users, a \in Assets : Deposit(u, a) \/ Seed(u, a)
             \/ \E c \in Cancels, p \in OrderIds : CancelGetOrder(c, p)
             \/ \E c \in Cancels : ProcessCancel(c) \/ CancelFault(c)
             \/ UNCHANGED vars
      PROVE  pc'[o] = pc[o] /\ order'[o] = order[o] /\ held'[o] = held[o]
    BY <1>4 DEF Deposit, Seed, CancelGetOrder, ProcessCancel, CancelUnlockFunds, CancelRemove, CancelFault,
                engineVars, vars
<1> QED BY <1>2, <1>3, <1>4 DEF Next, Arrive

\* Every statement of a call under way, a failing one too, is one of those it
\* has left; no other call, deposit or cancel gives it more.
StepsAreUsedUp ==
    [][\A o \in OrderIds : pc[o] \in Processing =>
          IF Process(o) \/ Fault(o) \/ Restart
              THEN StepsLeft(o)' < StepsLeft(o) ELSE UNCHANGED StepsLeft(o)]_vars

\* However calls overlap, fail or deadlock, the statements that the rest of a
\* call can take are finitely many: the loop of processOrder does not go round
\* for ever.
THEOREM CallsRunOut ==
    Spec => /\ [](\A o \in OrderIds : StepsLeft(o) \in Nat /\ (StepsLeft(o) = 0 <=> pc[o] \notin Processing))
            /\ StepsAreUsedUp
<1>1. IInv => \A o \in OrderIds : StepsLeft(o) \in Nat /\ (StepsLeft(o) = 0 <=> pc[o] \notin Processing)
    BY StepsAreNat DEF IInv
<1>2. IInv /\ [Next]_vars =>
        [\A o \in OrderIds : pc[o] \in Processing =>
          IF Process(o) \/ Fault(o) \/ Restart
              THEN StepsLeft(o)' < StepsLeft(o) ELSE UNCHANGED StepsLeft(o)]_vars
    BY CallProceeds, FailingFalls, OthersLeaveSteps
<1> QED BY <1>1, <1>2, SpecIInv, PTL DEF Spec, StepsAreUsedUp

-----------------------------------------------------------------------------
(* Somebody proceeds.                                                      *)

\* The statement a call awaits is for a row that another transaction holds.
Blocked(o) ==
    \/ /\ pc[o] \in {"locking", "releasing"}
       /\ ~UnlockedFor(<<order[o].user, LockAsset(order[o].side)>>, o)
    \/ /\ pc[o] = "settling" /\ held[o] < 4
       /\ ~UnlockedFor(SettleRow(o, held[o] + 1), o)

CancelBlocked(c) ==
    LET o == cancel[c].order
    IN  cancel[c].at = "unlocking" /\ ~UnlockedFor(<<order[o].user, LockAsset(order[o].side)>>, NoOrder)

\* It waits for ever: nobody will hand over the row and Postgres sees no cycle.
Stuck(o) == Blocked(o) /\ ~\E S \in SUBSET OrderIds : o \in S /\ Cycle(S)

SomebodyProceeds ==
    \/ \E o \in OrderIds : pc[o] \in Processing
    \/ \E c \in Cancels : cancel[c].at \in Cancelling
    => \/ \E o \in OrderIds : pc[o] \in Processing /\ ~Stuck(o)
       \/ \E c \in Cancels : cancel[c].at \in Cancelling /\ ~CancelBlocked(c)

\* A set of natural numbers has a least.
LEMMA LeastOfNat ==
    ASSUME NEW T \in SUBSET Nat, T # {}
    PROVE  \E n \in T : \A m \in T : n <= m
<1>1. PICK R : R = OpToRel(<, Nat)
    OBVIOUS
<1>2. IsWellFoundedOn(R, Nat)
    BY <1>1, NatLessThanWellFounded
<1>3. PICK n \in T : \A m \in T : ~ (<<m, n>> \in R)
    BY <1>2, WFMin
<1>4. \A x, y \in Nat : y < x => <<y, x>> \in R
    BY <1>1 DEF OpToRel
<1>5. ASSUME NEW m \in T PROVE n <= m
    <2>1. ~ (<<m, n>> \in R) /\ n \in Nat /\ m \in Nat
        BY <1>3
    <2>2. ~ (m < n)
        BY <1>4, <2>1
    <2> QED BY <2>1, <2>2
<1> QED BY <1>5

\* Of finitely many transactions, each waiting for one of them, some are a
\* cycle: a smallest set of which that can still be said.
LEMMA WaitersAreACycle ==
    ASSUME NEW W \in SUBSET OrderIds, W # {}, \A o \in W : \E p \in W : WaitsFor(o, p)
    PROVE  \E S \in SUBSET OrderIds : S # {} /\ Cycle(S)
<1> DEFINE Waiting == {S \in SUBSET W : S # {} /\ \A o \in S : \E p \in S : WaitsFor(o, p)}
           Sizes == {Cardinality(S) : S \in Waiting}
<1>1. \A S \in SUBSET W : IsFiniteSet(S) /\ Cardinality(S) \in Nat
    BY FiniteAssumption, FS_Subset, FS_CardinalityType
<1>2. W \in Waiting
    OBVIOUS
<1>3. Sizes \in SUBSET Nat /\ Sizes # {}
    BY <1>1, <1>2
<1>4. PICK n \in Sizes : \A m \in Sizes : n <= m
    BY <1>3, LeastOfNat
<1>5. PICK S \in Waiting : Cardinality(S) = n
    BY <1>4
<1>6. ASSUME NEW p \in S, \A o \in S : ~WaitsFor(o, p) PROVE FALSE
    <2>1. PICK r \in S : WaitsFor(p, r)
        BY <1>5
    <2>2. r # p
        BY <2>1 DEF WaitsFor
    <2>3. \A o \in S \ {p} : \E x \in S \ {p} : WaitsFor(o, x)
        BY <1>5, <1>6
    <2>4. S \ {p} \in Waiting
        BY <1>5, <2>2, <2>3
    <2>5. Cardinality(S \ {p}) = Cardinality(S) - 1 /\ Cardinality(S) \in Nat
        BY <1>1, <1>5, FS_RemoveElement
    <2>6. n <= Cardinality(S \ {p})
        BY <1>4, <2>4
    <2> QED BY <1>5, <2>5, <2>6
<1>7. Cycle(S)
    BY <1>5, <1>6 DEF Cycle
<1> QED BY <1>5, <1>7

\* Whoever holds a row is in a settlement.
LEMMA HoldersSettle ==
    ASSUME IInv, NEW r, NEW o, ~UnlockedFor(r, o)
    PROVE  \E p \in OrderIds \ {o} : r \in HeldBy(p) /\ pc[p] = "settling"
<1>1. PICK p \in OrderIds \ {o} : r \in HeldBy(p)
    BY DEF UnlockedFor
<1>2. held[p] \in 0..4 /\ held[p] # 0
    BY <1>1 DEF IInv, TypeOK, HeldBy
<1>3. held[p] > 0
    BY <1>2
<1> QED BY <1>1, <1>3 DEF IInv, LockFits

LEMMA SomebodyDoes == IInv => SomebodyProceeds
<1> SUFFICES ASSUME IInv,
                    \A o \in OrderIds : pc[o] \in Processing => Stuck(o),
                    \/ \E o \in OrderIds : pc[o] \in Processing
                    \/ \E c \in Cancels : CancelBlocked(c)
             PROVE  FALSE
    BY DEF SomebodyProceeds
<1> DEFINE W == {p \in OrderIds : pc[p] = "settling"}
<1>1. ASSUME NEW o \in OrderIds, Blocked(o) PROVE \E p \in W : p # o
    <2>1. PICK r : ~UnlockedFor(r, o)
        BY <1>1 DEF Blocked
    <2> QED BY <2>1, HoldersSettle
<1>2. W # {}
    <2>1. ASSUME NEW c \in Cancels, CancelBlocked(c) PROVE W # {}
        <3>1. PICK r : ~UnlockedFor(r, NoOrder)
            BY <2>1 DEF CancelBlocked
        <3> QED BY <3>1, HoldersSettle
    <2> QED BY <1>1, <2>1 DEF Stuck
<1>3. ASSUME NEW o \in W PROVE \E p \in W : WaitsFor(o, p)
    <2>1. pc[o] = "settling" /\ held[o] < 4 /\ ~UnlockedFor(SettleRow(o, held[o] + 1), o)
        BY DEF Stuck, Blocked, Processing
    <2>2. PICK p \in OrderIds \ {o} : SettleRow(o, held[o] + 1) \in HeldBy(p) /\ pc[p] = "settling"
        BY <2>1, HoldersSettle
    <2> QED BY <2>1, <2>2 DEF WaitsFor
<1>4. PICK S \in SUBSET OrderIds : S # {} /\ Cycle(S)
    BY <1>2, <1>3, WaitersAreACycle
<1>5. PICK o \in S : pc[o] = "settling"
    BY <1>4 DEF Cycle, WaitsFor
<1>6. ~Stuck(o)
    BY <1>4 DEF Stuck
<1> QED BY <1>5, <1>6 DEF Processing

\* Everyone waiting on everyone is a cycle that Postgres breaks: while calls
\* are under way, one of them is not waiting for a row, or is in a cycle and
\* may be aborted (settleTrade locks four rows, lockFunds and unlockFunds one).
THEOREM NobodyWaitsForEver == Spec => []SomebodyProceeds
BY SomebodyDoes, SpecIInv, PTL
=============================================================================
